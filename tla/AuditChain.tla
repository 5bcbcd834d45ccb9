----------------------------- MODULE AuditChain -----------------------------
(***************************************************************************)
(* The audit log of the backend (backend/src/audit): the hash chain of its  *)
(* entries, the Merkle roots of it that are put on chain                   *)
(* (contract/contracts/audit_anchor/src/lib.rs), and the erasure that       *)
(* rewrites the entries about a subject under both.                        *)
(*                                                                         *)
(* An action is what a process does between two awaits that others can tell  *)
(* apart; statements of PostgreSQL are READ COMMITTED.  A hash is the       *)
(* sequence of what was hashed, for none collide: that of an entry is the   *)
(* contents of the chain up to it.  The contract of the anchors is          *)
(* configured, and its admin is this server.                               *)
(***************************************************************************)
EXTENDS Integers, Sequences, FiniteSets, FiniteSetsExt, SequencesExt

CONSTANTS Subjects,  \* those the entries are about
          Writers,   \* requests that append an entry
          Anchorers, \* the scheduled loop, and calls of the admin route
          Erasers,   \* erasures that are being processed
          None,
          MaxSeq, MaxAnchors, MaxCrashes \* bounds

ASSUME AuditAssumptions ==
  /\ Subjects \cap {"pseudonym", "anchor", "erasure"} = {}
  /\ MaxSeq \in Nat /\ MaxAnchors \in Nat /\ MaxCrashes \in Nat

VARIABLES log,     \* rows of audit_log
          anchors, \* rows of merkle_anchors, by id
          chain,   \* the contract's anchors, with the row each was sent for
          flying,  \* transactions sent and neither applied nor expired
          lock,    \* who holds the advisory lock of the log
          at,      \* where each process is
          crashes

vars == <<log, anchors, chain, flying, lock, at, crashes>>

Procs == Writers \cup Anchorers \cup Erasers
Contents == Subjects \cup {"pseudonym", "anchor", "erasure"}

(* step, the content to append, the seq of the tail that was read, the seqs
   rewritten and not committed, the last anchored seq that was read, the row *)
Idle == [step |-> "Idle", what |-> "anchor", tail |-> 0, rewritten |-> {}, last |-> 0, row |-> 0]

Init ==
  /\ log = {} /\ anchors = <<>> /\ chain = <<>> /\ flying = {}
  /\ lock = None
  /\ at = [p \in Procs |-> Idle]
  /\ crashes = 0

LogEnd == Max({r.seq : r \in log} \cup {0})
Row(n) == CHOOSE r \in log : r.seq = n
HashOf(n) == IF n = 0 THEN <<>> ELSE Row(n).hash

-----------------------------------------------------------------------------
(* AuditLogWriter.append. *)

Ask(w, s) ==
  /\ at[w].step = "Idle"
  /\ at' = [at EXCEPT ![w].step = "Append", ![w].what = s]
  /\ UNCHANGED <<log, anchors, chain, flying, lock, crashes>>

(* Without a client the append is a transaction that takes the lock first;
   inside an erasure's transaction it takes none. *)
ReadTail(p) ==
  /\ at[p].step = "Append"
  /\ IF p \in Erasers THEN UNCHANGED lock ELSE lock = None /\ lock' = p
  /\ at' = [at EXCEPT ![p].step = "Insert", ![p].tail = LogEnd]
  /\ UNCHANGED <<log, anchors, chain, flying, crashes>>

Entry(p) == [seq |-> at[p].tail + 1, what |-> at[p].what,
             hash |-> Append(HashOf(at[p].tail), at[p].what), prev |-> HashOf(at[p].tail)]

(* Mutant of Inserted: seq is not unique. *)
MutInserted(p) ==
  {IF r.seq \in at[p].rewritten THEN [r EXCEPT !.what = "pseudonym"] ELSE r : r \in log}
    \cup {Entry(p)}

(* What the log is after the transaction: seq is unique, so one that read a tail
   that is none any more fails, and with it all that its transaction wrote. *)
Inserted(p) ==
  IF \E r \in log : r.seq = at[p].tail + 1 THEN log
  ELSE {IF r.seq \in at[p].rewritten THEN [r EXCEPT !.what = "pseudonym"] ELSE r : r \in log}
         \cup {Entry(p)}

(* Insert and commit; an insert of the same seq waits for this commit and fails,
   as one that comes after it does. *)
Insert(p) ==
  /\ at[p].step = "Insert" /\ at[p].tail < MaxSeq
  /\ log' = Inserted(p)
  /\ lock' = IF lock = p THEN None ELSE lock
  /\ at' = [at EXCEPT ![p] = Idle]
  /\ UNCHANGED <<anchors, chain, flying, crashes>>

-----------------------------------------------------------------------------
(* ErasureService._erasePii: the rows about the subject are rewritten, their
   hashes are not, and an entry that says so is appended. *)
Rewrite(e, s) ==
  /\ at[e].step = "Idle"
  /\ at' = [at EXCEPT ![e].step = "Append", ![e].what = "erasure",
                      ![e].rewritten = {r.seq : r \in {r \in log : r.what = s}}]
  /\ UNCHANGED <<log, anchors, chain, flying, lock, crashes>>

-----------------------------------------------------------------------------
(* MerkleAnchor, by _maybeAnchor or by the route.  The thresholds of the loop
   are left out: it may find any entry worth anchoring. *)

Valid(a) == a.status \in {"submitted", "confirmed"}

(* Mutant of LastAnchored: a failed anchor counts. *)
MutLastAnchored == Max({a.to : a \in {a \in ToSet(anchors) : a.status # "pending"}} \cup {0})

LastAnchored == Max({a.to : a \in {a \in ToSet(anchors) : Valid(a)}} \cup {0})

Look(p) ==
  /\ at[p].step = "Idle"
  /\ at' = [at EXCEPT ![p].step = "Looked", ![p].last = LastAnchored]
  /\ UNCHANGED <<log, anchors, chain, flying, lock, crashes>>

NothingNew(p) ==
  /\ at[p].step = "Looked" /\ LogEnd <= at[p].last
  /\ at' = [at EXCEPT ![p] = Idle]
  /\ UNCHANGED <<log, anchors, chain, flying, lock, crashes>>

HashesOf(from, to) == [k \in 1 .. to - from + 1 |-> HashOf(from + k - 1)]

(* computeMerkleRoot, layer by layer: an odd last node is paired with itself. *)
Half(layer) ==
  [i \in 1 .. (Len(layer) + 1) \div 2 |->
     [left |-> layer[2 * i - 1], right |-> layer[Min({2 * i, Len(layer)})]]]
Layers(hashes) ==
  LET layer[n \in Nat] == IF n = 0 THEN [k \in DOMAIN hashes |-> [leaf |-> hashes[k]]]
                          ELSE Half(layer[n - 1])
      height == CHOOSE n \in 0 .. Len(hashes) : /\ Len(layer[n]) = 1
                                                /\ \A m \in 0 .. n - 1 : Len(layer[m]) > 1
  IN [n \in 1 .. height + 1 |-> layer[n - 1]]
MerkleRoot(hashes) == Last(Layers(hashes))[1]

(* The tail, the hashes and the pending row are three queries: what has a hash
   keeps it, and nobody looks at a pending row. *)
Begin(p) ==
  /\ at[p].step = "Looked" /\ Len(anchors) < MaxAnchors
  /\ LogEnd > at[p].last
  /\ anchors' = Append(anchors,
       [from |-> at[p].last + 1, to |-> LogEnd, status |-> "pending", index |-> 0,
        root |-> MerkleRoot(HashesOf(at[p].last + 1, LogEnd))])
  /\ at' = [at EXCEPT ![p].step = "Begun", ![p].row = Len(anchors) + 1]
  /\ UNCHANGED <<log, chain, flying, lock, crashes>>

Send(p) ==
  /\ at[p].step = "Begun"
  /\ flying' = flying \cup {at[p].row}
  /\ at' = [at EXCEPT ![p].step = "Sent"]
  /\ UNCHANGED <<log, anchors, chain, lock, crashes>>

(* anchor_root: the count has to rise, whatever range the root is of. *)
AnchorRoot(id) ==
  /\ id \in flying
  /\ \A i \in DOMAIN chain : i = Len(chain) => anchors[id].to > chain[i].count
  /\ chain' = Append(chain, [root |-> anchors[id].root, count |-> anchors[id].to, row |-> id])
  /\ flying' = flying \ {id}
  /\ UNCHANGED <<log, anchors, lock, at, crashes>>

(* Refused by the contract, or out of its time. *)
Drop(id) ==
  /\ id \in flying
  /\ flying' = flying \ {id}
  /\ UNCHANGED <<log, anchors, chain, lock, at, crashes>>

(* The row is updated with the outcome, and an entry is appended about it. *)
Outcome(p, status, index) ==
  /\ anchors' = [anchors EXCEPT ![at[p].row].status = status, ![at[p].row].index = index]
  /\ at' = [at EXCEPT ![p].step = "Append", ![p].what = "anchor"]
  /\ UNCHANGED <<log, chain, flying, lock, crashes>>

(* Mutant of Confirm: what was sent is taken for what was done. *)
MutConfirmSent(p) ==
  /\ at[p].step = "Sent"
  /\ Outcome(p, "confirmed", Len(chain) + 1)

Confirm(p) ==
  /\ at[p].step = "Sent"
  /\ \E i \in DOMAIN chain : chain[i].row = at[p].row /\ Outcome(p, "confirmed", i)

(* The simulation fails, or nothing is heard of the transaction while it is
   polled for: it may have been applied, or be applied later. *)
Fail(p) ==
  /\ at[p].step \in {"Begun", "Sent"}
  /\ Outcome(p, "failed", 0)

(* Transactions of the database that are open are rolled back. *)
Crash ==
  /\ crashes < MaxCrashes
  /\ crashes' = crashes + 1
  /\ at' = [p \in Procs |-> Idle] /\ lock' = None
  /\ UNCHANGED <<log, anchors, chain, flying>>

Next ==
  \/ \E w \in Writers, s \in Subjects : Ask(w, s)
  \/ \E p \in Procs : ReadTail(p) \/ Insert(p)
  \/ \E e \in Erasers, s \in Subjects : Rewrite(e, s)
  \/ \E p \in Anchorers : Look(p) \/ NothingNew(p) \/ Begin(p) \/ Send(p) \/ Confirm(p) \/ Fail(p)
  \/ \E id \in 1 .. MaxAnchors : AnchorRoot(id) \/ Drop(id)
  \/ Crash

Spec == Init /\ [][Next]_vars

-----------------------------------------------------------------------------
(* proveInclusion and verifyMerkleProof. *)

(* The anchor that a proof is made for: of those that cover seq, the one that
   ends first. *)
Covering(n) == {a \in ToSet(anchors) : Valid(a) /\ a.from <= n /\ n <= a.to}

(* generateMerkleProof: the sibling at each level, and its side. *)
MerkleProof(hashes, k) ==
  LET layers == Layers(hashes)
      node[n \in Nat] == IF n = 0 THEN k ELSE (node[n - 1] + 1) \div 2
  IN [n \in 1 .. Len(layers) - 1 |->
        LET i == node[n - 1]
        IN IF i % 2 = 1 THEN [side |-> "right", node |-> layers[n][Min({i + 1, Len(layers[n])})]]
           ELSE [side |-> "left", node |-> layers[n][i - 1]]]
VerifyMerkleProof(hash, proof, root) ==
  LET Up(x, step) == IF step.side = "right" THEN [left |-> x, right |-> step.node]
                     ELSE [left |-> step.node, right |-> x]
  IN FoldLeft(Up, [leaf |-> hash], proof) = root

-----------------------------------------------------------------------------
(* A row of merkle_anchors is of a range of entries there are, and what is on
   chain was sent for one. *)
AuditTypeOK ==
  /\ log \subseteq [seq : 1 .. MaxSeq, what : Contents,
                    hash : BoundedSeq(Contents, MaxSeq), prev : BoundedSeq(Contents, MaxSeq)]
  /\ \A a \in ToSet(anchors) :
       /\ 1 <= a.from /\ a.from <= a.to /\ a.to <= LogEnd
       /\ a.status \in {"pending", "confirmed", "failed"} /\ a.index \in 0 .. Len(chain)
  /\ \A i \in DOMAIN chain : chain[i].row \in DOMAIN anchors
  /\ flying \subseteq DOMAIN anchors
  /\ lock \in Writers \cup Anchorers \cup {None}
  /\ \A p \in Procs : at[p].tail \in 0 .. MaxSeq /\ at[p].row \in 0 .. MaxAnchors

(* However appends with and without the lock meet: the rows are numbered without
   a gap or a repetition, each is linked to the one before, and each is what was
   hashed, except one that an erasure rewrote, and that erasure is on record
   after it. *)
ChainVerifies ==
  /\ Cardinality(log) = LogEnd
  /\ \A r \in log :
       /\ \E s \in log \cup {[seq |-> 0, hash |-> <<>>]} : s.seq = r.seq - 1 /\ s.hash = r.prev
       /\ \/ r.hash = Append(r.prev, r.what)
          \/ r.what = "pseudonym"
             /\ \E s \in log : s.what = "erasure" /\ s.seq > r.seq

(* Every entry up to the last that is anchored has a proof, and it verifies
   against the root on record, whatever overlapping attempts failed, landed
   unseen or were cut short, and after erasures too; a root that is recorded as
   confirmed is the one on chain at its index. *)
AnchorsProve ==
  /\ \A n \in 1 .. LastAnchored :
       /\ Covering(n) # {}
       /\ \A a \in Covering(n) :
            LET hashes == HashesOf(a.from, a.to)
                k == n - a.from + 1
            IN VerifyMerkleProof(HashOf(n), MerkleProof(hashes, k), a.root)
  /\ \A a \in ToSet(anchors) :
       a.status = "confirmed" =>
         a.index \in DOMAIN chain /\ chain[a.index].root = a.root /\ chain[a.index].count = a.to
=============================================================================
