----------------------------- MODULE AuditProofs -----------------------------
(***************************************************************************)
(* Theorems about the audit log, its anchors and the erasures under both,  *)
(* for every value of the constants: any number of processes that append,  *)
(* anchor, erase and crash, entries and anchors.                           *)
(*                                                                         *)
(* LogInv says of the log that it is linked and of each process what it    *)
(* may still write; AnchorInv says of the anchors that each starts where   *)
(* the confirmed ones reach, and of each process which row it speaks for.  *)
(* Of a step of the log the anchors need to know no more than that what    *)
(* has a hash keeps it (LogKept).                                          *)
(***************************************************************************)
EXTENDS AuditChain, SumLemmas, SequenceTheorems

Steps == {"Idle", "Append", "Insert", "Looked", "Begun", "Sent"}

Places == [step : Steps, what : Contents, tail : 0 .. MaxSeq,
           rewritten : SUBSET (1 .. MaxSeq), last : 0 .. MaxSeq, row : 0 .. MaxAnchors]

Entries == [seq : 1 .. MaxSeq, what : Contents, hash : Seq(Contents), prev : Seq(Contents)]

(* The rows have the numbers from 1 to the last, each once. *)
LogOK ==
  /\ log \subseteq Entries /\ LogEnd \in 0 .. MaxSeq
  /\ \A n \in 1 .. LogEnd : \E r \in log : r.seq = n
  /\ \A r \in log : r.seq <= LogEnd
  /\ \A r, s \in log : r.seq = s.seq => r = s

(* A row is linked to the one before, and is what was hashed or on record as
   erased. *)
RowOK(r) ==
  /\ Len(r.hash) = r.seq
  /\ r.prev = HashOf(r.seq - 1)
  /\ \/ r.hash = Append(r.prev, r.what)
     \/ r.what = "pseudonym" /\ \E s \in log : s.what = "erasure" /\ s.seq > r.seq

(* What a process has read and will write: only an erasure rewrites entries,
   none after the tail that it read, and none that is about an erasure. *)
WriterOK(p) ==
  /\ at[p].rewritten # {} => at[p].what = "erasure" /\ at[p].step \in {"Append", "Insert"}
  /\ at[p].rewritten \subseteq 1 .. LogEnd
  /\ at[p].step = "Insert" =>
       at[p].tail <= LogEnd /\ at[p].rewritten \subseteq 1 .. at[p].tail
  /\ \A r \in log : r.seq \in at[p].rewritten => r.what # "erasure"

LogInv ==
  /\ LogOK
  /\ \A r \in log : RowOK(r)
  /\ at \in [Procs -> Places]
  /\ \A p \in Procs : WriterOK(p)
  /\ lock \in Writers \cup Anchorers \cup {None}

(* The entries up to m are in confirmed anchors. *)
CoveredTo(m) ==
  \A n \in 1 .. m : \E id \in DOMAIN anchors :
    anchors[id].status = "confirmed" /\ anchors[id].from <= n /\ n <= anchors[id].to

(* An anchor starts where the confirmed ones reach, has the root of its range,
   and is the one on chain that its row names once it is confirmed. *)
AnchorOK(id) ==
  /\ anchors[id].to <= LogEnd /\ anchors[id].from <= anchors[id].to
  /\ anchors[id].root = MerkleRoot(HashesOf(anchors[id].from, anchors[id].to))
  /\ CoveredTo(anchors[id].from - 1)
  /\ anchors[id].index <= Len(chain)
  /\ anchors[id].status = "confirmed" =>
       anchors[id].index \in DOMAIN chain /\ chain[anchors[id].index].row = id

(* A process speaks for a row of its own that has no outcome yet. *)
Speaks(p) == at[p].step \in {"Begun", "Sent"}
AnchorerOK(p) ==
  /\ at[p].step = "Looked" => CoveredTo(at[p].last)
  /\ Speaks(p) => /\ at[p].row \in DOMAIN anchors
                  /\ anchors[at[p].row].status = "pending"
                  /\ \A q \in Procs \ {p} : Speaks(q) => at[q].row # at[p].row

OnChainOK(i) ==
  /\ chain[i].row \in DOMAIN anchors
  /\ chain[i].root = anchors[chain[i].row].root
  /\ chain[i].count = anchors[chain[i].row].to

MerkleRoots == {MerkleRoot(h) : h \in Seq(Seq(Contents))}
AnchorRows == [from : 1 .. MaxSeq, to : 1 .. MaxSeq, status : {"pending", "confirmed", "failed"},
               index : Nat, root : MerkleRoots]

AnchorInv ==
  /\ anchors \in Seq(AnchorRows) /\ Len(anchors) <= MaxAnchors
  /\ chain \in Seq([root : MerkleRoots, count : 1 .. MaxSeq, row : 1 .. MaxAnchors])
  /\ flying \subseteq DOMAIN anchors
  /\ \A id \in DOMAIN anchors : AnchorOK(id)
  /\ \A p \in Procs : AnchorerOK(p)
  /\ \A i \in DOMAIN chain : OnChainOK(i)

-----------------------------------------------------------------------------
(* A set of numbers up to a bound has a greatest element, and that is its Max. *)
LEMMA GreatestNat ==
  ASSUME NEW N \in Nat, NEW T \in SUBSET (0 .. N), T # {}
  PROVE  Max(T) \in T /\ \A n \in T : n <= Max(T)
<1> DEFINE D == {N - n : n \in T}
<1>1. D \in SUBSET Nat /\ D # {}
  <2>1. \A n \in 0 .. N : N - n \in Nat
    OBVIOUS
  <2> QED
    BY <2>1
<1>2. PICK d \in D : \A e \in D : d <= e
  BY <1>1, LeastNat
<1>3. PICK m \in T : d = N - m
  BY <1>2
<1>4. ASSUME NEW n \in T PROVE n <= m
  <2>1. N - m <= N - n
    BY <1>2, <1>3
  <2>2. n \in 0 .. N /\ m \in 0 .. N
    OBVIOUS
  <2> QED
    BY <2>1, <2>2
<1>5. \E x \in T : \A y \in T : x >= y
  <2>1. \A y \in T : m >= y
    <3> SUFFICES ASSUME NEW y \in T PROVE m >= y
      OBVIOUS
    <3>1. y <= m /\ y \in 0 .. N /\ m \in 0 .. N
      BY <1>4
    <3> QED
      BY <3>1
  <2> QED
    BY <2>1
<1>6. Max(T) \in T /\ \A y \in T : Max(T) >= y
  BY <1>5 DEF Max
<1>7. ASSUME NEW n \in T PROVE n <= Max(T)
  <2>1. Max(T) >= n /\ n \in 0 .. N /\ Max(T) \in 0 .. N
    BY <1>6
  <2> QED
    BY <2>1
<1> QED
  BY <1>6, <1>7

-----------------------------------------------------------------------------
(* The log. *)

EndOf(L) == Max({r.seq : r \in L} \cup {0})

(* The end of a log that is numbered up to N is N. *)
LEMMA EndIs ==
  ASSUME NEW L, NEW N \in Nat, \A r \in L : r.seq \in 1 .. N,
         N # 0 => \E r \in L : r.seq = N
  PROVE  EndOf(L) = N
<1> DEFINE T == {r.seq : r \in L} \cup {0}
<1>1. T \in SUBSET (0 .. N) /\ T # {} /\ N \in T
  OBVIOUS
<1> HIDE DEF T
<1>2. Max(T) \in T /\ \A n \in T : n <= Max(T)
  BY <1>1, GreatestNat
<1>3. Max(T) = N
  <2>1. N <= Max(T) /\ Max(T) \in 0 .. N
    BY <1>1, <1>2
  <2> QED
    BY <2>1
<1> QED
  BY <1>3 DEF EndOf, T

(* The row of a number is the one that has it. *)
LEMMA RowAt ==
  ASSUME NEW L, NEW r \in L, \A s \in L : s.seq = r.seq => s = r
  PROVE  (CHOOSE s \in L : s.seq = r.seq) = r
OBVIOUS

(* A process is where its type says. *)
LEMMA PlaceFields ==
  ASSUME NEW x \in Places
  PROVE  /\ x.step \in Steps /\ x.what \in Contents /\ x.tail \in 0 .. MaxSeq
         /\ x.rewritten \in SUBSET (1 .. MaxSeq) /\ x.last \in 0 .. MaxSeq
         /\ x.row \in 0 .. MaxAnchors
BY DEF Places

(* An idle one, too. *)
LEMMA IdleIsPlace == Idle \in Places
BY AuditAssumptions DEF Idle, Places, Steps, Contents

(* The hash of an entry is the contents up to it. *)
LEMMA HashOfEntry ==
  ASSUME LogOK, \A r \in log : RowOK(r), NEW n \in 0 .. LogEnd
  PROVE  HashOf(n) \in Seq(Contents) /\ Len(HashOf(n)) = n
<1>1. CASE n = 0
  BY <1>1 DEF HashOf
<1>2. CASE n # 0
  <2>1. PICK r \in log : r.seq = n
    BY <1>2 DEF LogOK
  <2>2. Row(n) = r
    BY <2>1, RowAt DEF Row, LogOK
  <2>3. r.hash \in Seq(Contents) /\ Len(r.hash) = n
    BY <2>1 DEF LogOK, Entries, RowOK
  <2> QED
    BY <1>2, <2>2, <2>3 DEF HashOf
<1> QED
  BY <1>1, <1>2

(* What the anchors need to know of a step of the log. *)
LogKept ==
  /\ LogEnd \in 0 .. MaxSeq /\ LogEnd' \in 0 .. MaxSeq /\ LogEnd <= LogEnd'
  /\ \A n \in 0 .. LogEnd : HashOf(n)' = HashOf(n)

(* An entry that is rewritten keeps its hash. *)
LEMMA HashesKept ==
  ASSUME LogOK, LogOK', LogEnd <= LogEnd',
         \A r \in log : \E s \in log' : s.seq = r.seq /\ s.hash = r.hash
  PROVE  LogKept
<1> SUFFICES ASSUME NEW n \in 0 .. LogEnd PROVE HashOf(n)' = HashOf(n)
  BY DEF LogKept, LogOK
<1>1. CASE n = 0
  BY <1>1 DEF HashOf
<1>2. CASE n # 0
  <2>1. PICK r \in log : r.seq = n
    BY <1>2 DEF LogOK
  <2>2. PICK s \in log' : s.seq = r.seq /\ s.hash = r.hash
    OBVIOUS
  <2>3. Row(n) = r
    BY <2>1, RowAt DEF Row, LogOK
  <2>4. Row(n)' = s
    <3>1. \A t \in log' : t.seq = s.seq => t = s
      BY DEF LogOK
    <3>2. (CHOOSE t \in log' : t.seq = s.seq) = s
      BY <3>1, RowAt
    <3> QED
      BY <2>1, <2>2, <3>2 DEF Row
  <2> QED
    BY <1>2, <2>2, <2>3, <2>4 DEF HashOf
<1> QED
  BY <1>1, <1>2

(* A step that leaves the log alone. *)
LEMMA LogUntouched ==
  ASSUME LogInv, log' = log, at' \in [Procs -> Places], \A p \in Procs : WriterOK(p)',
         lock' \in Writers \cup Anchorers \cup {None}
  PROVE  LogInv' /\ LogKept
<1>1. LogEnd' = LogEnd /\ \A n : HashOf(n)' = HashOf(n)
  BY DEF LogEnd, HashOf, Row
<1>2. LogOK'
  BY <1>1 DEF LogInv, LogOK
<1>3. ASSUME NEW r \in log PROVE RowOK(r)'
  BY <1>1 DEF LogInv, RowOK
<1>4. LogEnd \in Nat
  BY AuditAssumptions DEF LogInv, LogOK
<1> QED
  BY <1>1, <1>2, <1>3, <1>4 DEF LogInv, LogKept, LogOK

(* A step of one process that leaves the log alone. *)
LEMMA WriterMoves ==
  ASSUME LogInv, log' = log, NEW p \in Procs, NEW x \in Places, at' = [at EXCEPT ![p] = x],
         x.rewritten # {} => x.what = "erasure" /\ x.step \in {"Append", "Insert"},
         x.rewritten \subseteq 1 .. LogEnd,
         x.step = "Insert" => x.tail <= LogEnd /\ x.rewritten \subseteq 1 .. x.tail,
         \A r \in log : r.seq \in x.rewritten => r.what # "erasure",
         lock' \in Writers \cup Anchorers \cup {None}
  PROVE  LogInv' /\ LogKept
<1>1. LogEnd' = LogEnd
  BY DEF LogEnd
<1>2. at' \in [Procs -> Places] /\ at'[p] = x /\ \A q \in Procs : q # p => at'[q] = at[q]
  BY DEF LogInv
<1>3. ASSUME NEW q \in Procs PROVE WriterOK(q)'
  <2>1. CASE q = p
    BY <1>1, <1>2, <2>1 DEF WriterOK
  <2>2. CASE q # p
    BY <1>1, <1>2, <2>2 DEF LogInv, WriterOK
  <2> QED
    BY <2>1, <2>2
<1> QED
  BY <1>2, <1>3, LogUntouched

(* Asking for an entry, reading the tail and reading what is to be erased leave
   the log alone. *)
LEMMA AskKeepsLog ==
  ASSUME LogInv, NEW w \in Writers, NEW s \in Subjects, Ask(w, s)
  PROVE  LogInv' /\ LogKept
<1>1. PICK x : x = [at[w] EXCEPT !.step = "Append", !.what = s]
  OBVIOUS
<1>2. w \in Procs /\ at[w] \in Places /\ s \in Contents
  BY DEF LogInv, Procs, Contents
<1>3. at' = [at EXCEPT ![w] = x] /\ log' = log /\ lock' = lock /\ at[w].step = "Idle"
  BY <1>1, <1>2 DEF Ask, LogInv
<1>4. x \in Places /\ x.step = "Append" /\ x.rewritten = at[w].rewritten
  BY <1>1, <1>2 DEF Places, Steps
<1>5. x.rewritten = {}
  BY <1>2, <1>3, <1>4 DEF LogInv, WriterOK
<1> QED
  BY <1>2, <1>3, <1>4, <1>5, WriterMoves DEF LogInv

(* Reading the tail takes the lock, or not. *)
LEMMA ReadTailKeepsLog ==
  ASSUME LogInv, NEW p \in Procs, ReadTail(p)
  PROVE  LogInv' /\ LogKept
<1>1. PICK x : x = [at[p] EXCEPT !.step = "Insert", !.tail = LogEnd]
  OBVIOUS
<1>2. at[p] \in Places /\ LogEnd \in 0 .. MaxSeq
  BY DEF LogInv, LogOK
<1>3. at' = [at EXCEPT ![p] = x] /\ log' = log
  BY <1>1 DEF ReadTail, LogInv
<1>4. lock' \in Writers \cup Anchorers \cup {None}
  BY DEF ReadTail, LogInv, Procs
<1>5. /\ x \in Places /\ x.step = "Insert" /\ x.rewritten = at[p].rewritten
      /\ x.what = at[p].what /\ x.tail = LogEnd
  BY <1>1, <1>2 DEF Places, Steps
<1>6. LogEnd <= LogEnd
  BY <1>2
<1>7. WriterOK(p)
  BY DEF LogInv
<1> QED
  BY <1>3, <1>4, <1>5, <1>6, <1>7, WriterMoves DEF WriterOK

(* An erasure takes what there is about its subject. *)
LEMMA RewriteKeepsLog ==
  ASSUME LogInv, NEW e \in Erasers, NEW s \in Subjects, Rewrite(e, s)
  PROVE  LogInv' /\ LogKept
<1> PICK R : R = {r.seq : r \in {r \in log : r.what = s}}
  OBVIOUS
<1>1. PICK x : x = [at[e] EXCEPT !.step = "Append", !.what = "erasure", !.rewritten = R]
  OBVIOUS
<1>2. e \in Procs /\ at[e] \in Places
  BY DEF LogInv, Procs
<1>3. at' = [at EXCEPT ![e] = x] /\ log' = log /\ lock' = lock
  BY <1>1, <1>2 DEF Rewrite, LogInv
<1>4. R \subseteq 1 .. LogEnd /\ R \subseteq 1 .. MaxSeq
  BY AuditAssumptions DEF LogInv, LogOK, Entries
<1>5. x \in Places /\ x.step = "Append" /\ x.rewritten = R /\ x.what = "erasure"
  BY <1>1, <1>2, <1>4 DEF Places, Steps, Contents
<1>6. \A r \in log : r.seq \in R => r.what # "erasure"
  <2>1. \A r \in log : r.seq \in R => r.what = s
    BY DEF LogInv, LogOK
  <2> QED
    BY <2>1, AuditAssumptions
<1> QED
  BY <1>2, <1>3, <1>4, <1>5, <1>6, WriterMoves DEF LogInv

(* A crash is a rollback. *)
LEMMA CrashKeepsLog ==
  ASSUME LogInv, Crash
  PROVE  LogInv' /\ LogKept
<1>1. log' = log /\ at' = [p \in Procs |-> Idle] /\ lock' = None
  BY DEF Crash
<1>2. at' \in [Procs -> Places]
  BY <1>1, IdleIsPlace
<1>3. ASSUME NEW p \in Procs PROVE WriterOK(p)'
  BY <1>1 DEF WriterOK, Idle
<1> QED
  BY <1>1, <1>2, <1>3, LogUntouched

(* The entry is inserted with the number of the tail that was read plus one, or
   not at all. *)
LEMMA InsertKeepsLog ==
  ASSUME LogInv, NEW p \in Procs, Insert(p)
  PROVE  LogInv' /\ LogKept
<1>1. at[p] \in Places /\ WriterOK(p) /\ LogOK /\ LogEnd \in Nat
  BY AuditAssumptions DEF LogInv, LogOK
<1>2. /\ at' = [at EXCEPT ![p] = Idle] /\ at[p].step = "Insert" /\ at[p].tail < MaxSeq
      /\ at[p].tail <= LogEnd /\ at[p].tail \in Nat
  BY <1>1, PlaceFields DEF Insert, WriterOK
<1>3. lock' \in Writers \cup Anchorers \cup {None}
  BY DEF Insert, LogInv
<1>4. /\ at' \in [Procs -> Places] /\ at'[p] = Idle
      /\ \A q \in Procs : q # p => at'[q] = at[q]
  BY <1>2, IdleIsPlace DEF LogInv
<1>5. CASE \E r \in log : r.seq = at[p].tail + 1
  <2>1. log' = log
    BY <1>5 DEF Insert, Inserted
  <2>2. Idle.step # "Insert" /\ Idle.rewritten = {}
    BY DEF Idle
  <2> QED
    BY <1>2, <1>3, <2>1, <2>2, IdleIsPlace, WriterMoves
<1>6. CASE ~ \E r \in log : r.seq = at[p].tail + 1
  <2> PICK N \in Nat : N = LogEnd
    BY <1>1
  <2> PICK R : R = at[p].rewritten
    OBVIOUS
  <2> PICK e : e = Entry(p)
    OBVIOUS
  <2> PICK F : F = [r \in log |-> IF r.seq \in R THEN [r EXCEPT !.what = "pseudonym"] ELSE r]
    OBVIOUS
  <2>1. at[p].tail = N
    <3>1. ~ (at[p].tail + 1 \in 1 .. LogEnd)
      BY <1>1, <1>6 DEF LogOK
    <3> QED
      BY <1>1, <1>2, <3>1
  <2>2. log' = {F[r] : r \in log} \cup {e}
    BY <1>6 DEF Insert, Inserted
  <2>3. /\ e.seq = N + 1 /\ e.what = at[p].what /\ e.prev = HashOf(N)
        /\ e.hash = Append(HashOf(N), at[p].what)
    BY <2>1 DEF Entry
  <2>4. /\ HashOf(N) \in Seq(Contents) /\ Len(HashOf(N)) = N /\ at[p].what \in Contents
        /\ N < MaxSeq
    <3>1. N \in 0 .. LogEnd
      BY <1>1
    <3> QED
      BY <1>1, <1>2, <2>1, <3>1, HashOfEntry, PlaceFields DEF LogInv
  <2>5. e \in Entries /\ Len(e.hash) = N + 1
    <3>1. /\ Append(HashOf(N), at[p].what) \in Seq(Contents)
          /\ Len(Append(HashOf(N), at[p].what)) = N + 1
      BY <2>4
    <3>2. N + 1 \in 1 .. MaxSeq
      BY <2>4, AuditAssumptions
    <3> QED
      BY <2>1, <2>3, <2>4, <3>1, <3>2 DEF Entry, Entries
  <2>6. ASSUME NEW r \in log
        PROVE  /\ F[r] \in log' /\ F[r] \in Entries
               /\ F[r].seq = r.seq /\ F[r].hash = r.hash /\ F[r].prev = r.prev
               /\ r.seq \in R => F[r].what = "pseudonym"
               /\ r.seq \notin R => F[r] = r
    <3>1. r \in Entries
      BY <1>1 DEF LogOK
    <3> QED
      BY <2>2, <3>1 DEF Entries, Contents
  <2>7. ASSUME NEW s \in log' PROVE s = e \/ \E r \in log : s = F[r]
    BY <2>2
  <2>8. e \in log'
    BY <2>2
  <2>9. \A r \in log : r.seq \in 1 .. N
    BY <1>1, AuditAssumptions DEF LogOK, Entries
  <2> HIDE DEF Entry
  <2>10. LogEnd' = N + 1
    <3>1. ASSUME NEW s \in log' PROVE s.seq \in 1 .. N + 1
      <4>1. CASE s = e
        BY <2>3, <4>1
      <4>2. ASSUME NEW r \in log, s = F[r] PROVE s.seq \in 1 .. N + 1
        <5>1. s.seq = r.seq /\ r.seq \in 1 .. N
          BY <2>6, <2>9, <4>2
        <5> QED
          BY <5>1
      <4> QED
        BY <2>7, <4>1, <4>2
    <3>2. EndOf(log') = N + 1
      BY <2>3, <2>8, <3>1, EndIs
    <3> QED
      BY <3>2 DEF EndOf, LogEnd
  <2>11. LogOK'
    <3>1. ASSUME NEW s \in log' PROVE s \in Entries /\ s.seq <= N + 1
      <4>1. CASE s = e
        BY <2>3, <2>5, <4>1
      <4>2. ASSUME NEW r \in log, s = F[r] PROVE s \in Entries /\ s.seq <= N + 1
        <5>1. s.seq = r.seq /\ r.seq \in 1 .. N /\ s \in Entries
          BY <2>6, <2>9, <4>2
        <5> QED
          BY <5>1
      <4> QED
        BY <2>7, <4>1, <4>2
    <3>2. ASSUME NEW n \in 1 .. N + 1 PROVE \E s \in log' : s.seq = n
      <4>1. CASE n = N + 1
        BY <2>3, <2>8, <4>1
      <4>2. CASE n # N + 1
        <5>1. PICK r \in log : r.seq = n
          BY <1>1, <4>2 DEF LogOK
        <5> QED
          BY <2>6, <5>1
      <4> QED
        BY <4>1, <4>2
    <3>4. ASSUME NEW s \in log', NEW t \in log', s.seq = t.seq PROVE s = t
      <4>1. ASSUME NEW r \in log PROVE F[r].seq # e.seq
        BY <2>3, <2>6, <2>9
      <4>2. ASSUME NEW q \in log, NEW r \in log, F[q].seq = F[r].seq PROVE F[q] = F[r]
        BY <1>1, <2>6, <4>2 DEF LogOK
      <4>3. CASE s = e
        <5>1. \A r \in log : t # F[r]
          BY <3>4, <4>1, <4>3
        <5> QED
          BY <2>7, <4>3, <5>1
      <4>4. ASSUME NEW q \in log, s = F[q] PROVE s = t
        <5>1. t # e
          BY <3>4, <4>1, <4>4
        <5>2. PICK r \in log : t = F[r]
          BY <2>7, <5>1
        <5> QED
          BY <3>4, <4>2, <4>4, <5>2
      <4> QED
        BY <2>7, <4>3, <4>4
    <3>5. N + 1 \in 0 .. MaxSeq
      BY <2>4, AuditAssumptions
    <3> QED
      BY <2>10, <3>1, <3>2, <3>4, <3>5 DEF LogOK
  <2>12. LogKept
    <3>1. LogEnd <= LogEnd'
      BY <2>10
    <3>2. \A r \in log : \E s \in log' : s.seq = r.seq /\ s.hash = r.hash
      BY <2>6
    <3> QED
      BY <1>1, <2>11, <3>1, <3>2, HashesKept
  <2>13. ASSUME NEW s \in log' PROVE RowOK(s)'
    <3>1. CASE s = e
      <4>1. HashOf(N)' = HashOf(N) /\ e.seq - 1 = N
        BY <2>3, <2>12 DEF LogKept
      <4>2. Append(HashOf(N), at[p].what) = Append(e.prev, e.what)
        BY <2>3
      <4> QED
        BY <2>3, <2>5, <3>1, <4>1, <4>2 DEF RowOK
    <3>2. ASSUME NEW r \in log, s = F[r] PROVE RowOK(s)'
      <4>1. RowOK(r)
        BY DEF LogInv
      <4>2. HashOf(r.seq - 1)' = HashOf(r.seq - 1)
        <5>1. r.seq - 1 \in 0 .. LogEnd
          BY <2>9
        <5> QED
          BY <2>12, <5>1 DEF LogKept
      <4>3. Len(s.hash) = s.seq /\ s.prev = HashOf(s.seq - 1)'
        BY <2>6, <3>2, <4>1, <4>2 DEF RowOK
      <4>4. CASE r.seq \in R
        <5>1. e.what = "erasure"
          BY <1>1, <2>3, <4>4 DEF WriterOK
        <5>2. e.seq > s.seq /\ s.what = "pseudonym"
          <6>1. s.seq = r.seq /\ r.seq \in 1 .. N
            BY <2>6, <2>9, <3>2
          <6>2. s.what = "pseudonym"
            BY <2>6, <3>2, <4>4
          <6>3. e.seq > s.seq
            BY <2>3, <6>1
          <6> QED
            BY <6>2, <6>3
        <5> QED
          BY <2>8, <4>3, <5>1, <5>2 DEF RowOK
      <4>5. CASE r.seq \notin R
        <5>1. s = r
          BY <2>6, <3>2, <4>5
        <5>2. CASE r.hash = Append(r.prev, r.what)
          BY <4>3, <5>1, <5>2 DEF RowOK
        <5>3. ASSUME r.what = "pseudonym", NEW t \in log, t.what = "erasure", t.seq > r.seq
              PROVE  RowOK(s)'
          <6>1. t.seq \notin R
            BY <1>1, <5>3 DEF WriterOK
          <6>2. t \in log'
            BY <2>6, <6>1
          <6> QED
            BY <4>3, <5>1, <5>3, <6>2 DEF RowOK
        <5> QED
          BY <4>1, <5>2, <5>3 DEF RowOK
      <4> QED
        BY <4>4, <4>5
    <3> QED
      BY <2>7, <3>1, <3>2
  <2>14. ASSUME NEW q \in Procs PROVE WriterOK(q)'
    <3>1. CASE q = p
      BY <1>4, <3>1 DEF WriterOK, Idle
    <3>2. CASE q # p
      <4>1. at'[q] = at[q] /\ at[q] \in Places /\ WriterOK(q)
        BY <1>4, <3>2 DEF LogInv
      <4>2. at[q].rewritten \subseteq 1 .. N + 1
        BY <4>1 DEF WriterOK
      <4>3. at[q].step = "Insert" =>
              at[q].tail <= N + 1 /\ at[q].rewritten \subseteq 1 .. at[q].tail
        <5>1. at[q].tail \in Nat
          BY <4>1, PlaceFields
        <5> QED
          BY <4>1, <5>1 DEF WriterOK
      <4>4. ASSUME NEW s \in log', s.seq \in at[q].rewritten PROVE s.what # "erasure"
        <5>1. s # e
          BY <2>3, <4>1, <4>4 DEF WriterOK
        <5>2. PICK r \in log : s = F[r]
          BY <2>7, <5>1
        <5>3. r.seq \in at[q].rewritten
          BY <2>6, <4>4, <5>2
        <5>4. r.what # "erasure"
          BY <4>1, <5>3 DEF WriterOK
        <5> QED
          BY <2>6, <5>2, <5>4
      <4> QED
        BY <2>10, <4>1, <4>2, <4>3, <4>4 DEF WriterOK
    <3> QED
      BY <3>1, <3>2
  <2> QED
    BY <1>3, <1>4, <2>11, <2>12, <2>13, <2>14 DEF LogInv
<1> QED
  BY <1>5, <1>6

-----------------------------------------------------------------------------
(* The anchors. *)

(* What an anchor's record says. *)
LEMMA AnchorFields ==
  ASSUME AnchorInv, NEW id \in DOMAIN anchors
  PROVE  /\ id \in 1 .. Len(anchors) /\ Len(anchors) \in Nat /\ id \in 1 .. MaxAnchors
         /\ anchors[id] \in AnchorRows
         /\ anchors[id].from \in 1 .. MaxSeq /\ anchors[id].to \in 1 .. MaxSeq
         /\ anchors[id].status \in {"pending", "confirmed", "failed"}
         /\ anchors[id].index \in Nat
<1>1. id \in 1 .. Len(anchors) /\ Len(anchors) \in Nat /\ anchors[id] \in AnchorRows
  BY LenProperties, ElementOfSeq DEF AnchorInv
<1>2. id \in 1 .. MaxAnchors
  BY <1>1, AuditAssumptions DEF AnchorInv
<1> QED
  BY <1>1, <1>2 DEF AnchorRows

(* The last anchored entry, and all before it, are in confirmed anchors. *)
LEMMA LastAnchoredIs ==
  ASSUME LogInv, AnchorInv
  PROVE  /\ LastAnchored \in 0 .. MaxSeq /\ LastAnchored <= LogEnd
         /\ CoveredTo(LastAnchored)
<1> DEFINE T == {a.to : a \in {a \in ToSet(anchors) : Valid(a)}} \cup {0}
<1>1. ASSUME NEW n \in T, n # 0
      PROVE  \E id \in DOMAIN anchors : n = anchors[id].to /\ anchors[id].status = "confirmed"
  <2>1. PICK id \in DOMAIN anchors : n = anchors[id].to /\ Valid(anchors[id])
    BY <1>1 DEF ToSet
  <2> QED
    BY <2>1, AnchorFields DEF Valid
<1>2. T \in SUBSET (0 .. MaxSeq) /\ T # {}
  <2>1. ASSUME NEW n \in T PROVE n \in 0 .. MaxSeq
    <3>1. CASE n = 0
      BY <3>1, AuditAssumptions
    <3>2. CASE n # 0
      <4>1. PICK id \in DOMAIN anchors : n = anchors[id].to
        BY <1>1, <3>2
      <4> QED
        BY <4>1, AnchorFields
    <3> QED
      BY <3>1, <3>2
  <2> QED
    BY <2>1
<1> HIDE DEF T
<1> PICK m : m = LastAnchored
  OBVIOUS
<1>3. m \in T /\ m \in 0 .. MaxSeq
  <2>1. m = Max(T)
    BY DEF LastAnchored, T
  <2> QED
    BY <1>2, <2>1, GreatestNat, AuditAssumptions
<1>4. CASE m = 0
  <2>1. CoveredTo(0) /\ 0 <= LogEnd
    BY AuditAssumptions DEF CoveredTo, LogInv, LogOK
  <2> QED
    BY <1>3, <1>4, <2>1
<1>5. CASE m # 0
  <2>1. PICK id \in DOMAIN anchors : m = anchors[id].to /\ anchors[id].status = "confirmed"
    BY <1>1, <1>3, <1>5
  <2>2. AnchorOK(id)
    BY DEF AnchorInv
  <2>3. m <= LogEnd
    BY <2>1, <2>2 DEF AnchorOK
  <2>4. ASSUME NEW n \in 1 .. m
        PROVE  \E j \in DOMAIN anchors :
                 anchors[j].status = "confirmed" /\ anchors[j].from <= n /\ n <= anchors[j].to
    <3>1. CASE anchors[id].from <= n
      BY <2>1, <3>1
    <3>2. CASE ~ (anchors[id].from <= n)
      <4>1. n \in 1 .. (anchors[id].from - 1)
        BY <3>2, AnchorFields
      <4> QED
        BY <2>2, <4>1 DEF AnchorOK, CoveredTo
    <3> QED
      BY <3>1, <3>2
  <2>5. CoveredTo(m)
    BY <2>4 DEF CoveredTo
  <2> QED
    BY <1>3, <2>3, <2>5
<1> QED
  BY <1>4, <1>5

(* What is covered by confirmed anchors stays so. *)
LEMMA CoveredStays ==
  ASSUME NEW m, CoveredTo(m),
         \A id \in DOMAIN anchors : anchors[id].status = "confirmed" =>
           /\ id \in DOMAIN anchors' /\ anchors'[id].status = "confirmed"
           /\ anchors'[id].from = anchors[id].from /\ anchors'[id].to = anchors[id].to
  PROVE  CoveredTo(m)'
BY DEF CoveredTo

(* The hashes of entries that there are do not change, nor does a root of them. *)
LEMMA HashesOfStay ==
  ASSUME LogKept, NEW from \in Nat \ {0}, NEW to \in Nat, to <= LogEnd
  PROVE  HashesOf(from, to)' = HashesOf(from, to)
<1>1. \A k \in 1 .. to - from + 1 : HashOf(from + k - 1)' = HashOf(from + k - 1)
  <2> SUFFICES ASSUME NEW k \in 1 .. to - from + 1
               PROVE  HashOf(from + k - 1)' = HashOf(from + k - 1)
    OBVIOUS
  <2>1. from + k - 1 \in 0 .. LogEnd
    BY AuditAssumptions DEF LogKept
  <2> QED
    BY <2>1 DEF LogKept
<1> QED
  BY <1>1 DEF HashesOf

(* They are a sequence of hashes. *)
LEMMA HashesOfType ==
  ASSUME LogInv, NEW from \in 1 .. LogEnd, NEW to \in 1 .. LogEnd
  PROVE  HashesOf(from, to) \in Seq(Seq(Contents))
<1>1. LogEnd \in Nat
  BY AuditAssumptions DEF LogInv, LogOK
<1>2. ASSUME NEW k \in 1 .. to - from + 1 PROVE HashOf(from + k - 1) \in Seq(Contents)
  <2>1. from + k - 1 \in 0 .. LogEnd
    BY <1>1
  <2> QED
    BY <2>1, HashOfEntry DEF LogInv
<1>3. HashesOf(from, to) \in [1 .. to - from + 1 -> Seq(Contents)]
  BY <1>2 DEF HashesOf
<1>4. CASE to - from + 1 \in Nat
  BY <1>3, <1>4, SeqDef
<1>5. CASE to - from + 1 \notin Nat
  <2>1. 1 .. to - from + 1 = 1 .. 0
    BY <1>1, <1>5
  <2> QED
    BY <1>3, <2>1, SeqDef
<1> QED
  BY <1>4, <1>5

(* An anchor stays in order when its range and its root stay, the confirmed rows
   and what is on chain do too, and it is confirmed with an index it has. *)
LEMMA AnchorStays ==
  ASSUME LogKept, AnchorInv, NEW id \in DOMAIN anchors, id \in DOMAIN anchors',
         anchors'[id].from = anchors[id].from, anchors'[id].to = anchors[id].to,
         anchors'[id].root = anchors[id].root,
         \A j \in DOMAIN anchors : anchors[j].status = "confirmed" =>
           /\ j \in DOMAIN anchors' /\ anchors'[j].status = "confirmed"
           /\ anchors'[j].from = anchors[j].from /\ anchors'[j].to = anchors[j].to,
         anchors'[id].index <= Len(chain'),
         anchors'[id].status = "confirmed" =>
           anchors'[id].index \in DOMAIN chain' /\ chain'[anchors'[id].index].row = id
  PROVE  AnchorOK(id)'
<1> PICK f : f = anchors[id].from
  OBVIOUS
<1> PICK t : t = anchors[id].to
  OBVIOUS
<1>1. /\ f \in 1 .. MaxSeq /\ t \in 1 .. MaxSeq /\ t <= LogEnd /\ f <= t
      /\ anchors[id].root = MerkleRoot(HashesOf(f, t)) /\ CoveredTo(f - 1)
  BY AnchorFields DEF AnchorInv, AnchorOK
<1>2. CoveredTo(f - 1)'
  BY <1>1, CoveredStays
<1>3. HashesOf(f, t)' = HashesOf(f, t)
  BY <1>1, HashesOfStay
<1>4. t <= LogEnd'
  BY <1>1, AuditAssumptions DEF LogKept
<1>5. anchors'[id].root = MerkleRoot(HashesOf(f, t)')
  BY <1>1, <1>3
<1> QED
  BY <1>1, <1>2, <1>4, <1>5 DEF AnchorOK

-----------------------------------------------------------------------------
(* Every step keeps both. *)

AuditInv == LogInv /\ AnchorInv

(* A step that leaves the anchors and the chain alone. *)
LEMMA AnchorsUntouched ==
  ASSUME LogKept, AnchorInv, anchors' = anchors, chain' = chain,
         flying' \subseteq DOMAIN anchors, \A p \in Procs : AnchorerOK(p)'
  PROVE  AnchorInv'
<1>1. ASSUME NEW id \in DOMAIN anchors PROVE AnchorOK(id)'
  <2>1. AnchorOK(id)
    BY DEF AnchorInv
  <2> QED
    BY <2>1, AnchorStays DEF AnchorOK
<1>2. ASSUME NEW i \in DOMAIN chain PROVE OnChainOK(i)'
  BY DEF AnchorInv, OnChainOK
<1> QED
  BY <1>1, <1>2 DEF AnchorInv

(* A step of one process that does not make it speak for a row. *)
LEMMA OneMoves ==
  ASSUME LogInv, AnchorInv, anchors' = anchors, NEW p \in Procs, NEW x \in Places,
         at' = [at EXCEPT ![p] = x],
         x.step = "Looked" => CoveredTo(x.last),
         x.step \in {"Begun", "Sent"} => Speaks(p) /\ x.row = at[p].row
  PROVE  \A q \in Procs : AnchorerOK(q)'
<1>1. at'[p] = x /\ \A q \in Procs : q # p => at'[q] = at[q]
  BY DEF LogInv
<1>2. \A q \in Procs : Speaks(q)' => Speaks(q) /\ at'[q].row = at[q].row
  BY <1>1 DEF Speaks
<1>3. \A m : CoveredTo(m)' <=> CoveredTo(m)
  BY DEF CoveredTo
<1> SUFFICES ASSUME NEW q \in Procs PROVE AnchorerOK(q)'
  OBVIOUS
<1>4. AnchorerOK(q)
  BY DEF AnchorInv
<1>5. ASSUME at'[q].step = "Looked" PROVE CoveredTo(at[q].last)'
  <2> PICK m : m = at'[q].last
    OBVIOUS
  <2>1. CoveredTo(m)
    BY <1>1, <1>4, <1>5 DEF AnchorerOK
  <2> QED
    BY <1>3, <2>1 DEF CoveredTo
<1>6. Speaks(q)' => /\ at'[q].row \in DOMAIN anchors
                    /\ anchors[at'[q].row].status = "pending"
                    /\ \A o \in Procs \ {q} : Speaks(o)' => at'[o].row # at'[q].row
  BY <1>2, <1>4 DEF AnchorerOK
<1> QED
  BY <1>5, <1>6 DEF AnchorerOK

(* A process that is anchoring rewrites nothing. *)
LEMMA AnchoringWritesNothing ==
  ASSUME LogInv, NEW p \in Procs, at[p].step \notin {"Append", "Insert"}
  PROVE  at[p] \in Places /\ at[p].rewritten = {}
BY DEF LogInv, WriterOK

(* A step of one process that anchors, and leaves log and lock alone. *)
LEMMA AnchorerLeavesLog ==
  ASSUME LogInv, NEW p \in Procs, NEW x \in Places, at' = [at EXCEPT ![p] = x], log' = log,
         lock' = lock, x.step # "Insert", x.rewritten = {}
  PROVE  LogInv' /\ LogKept
BY WriterMoves DEF LogInv

(* Looking for the last anchored entry. *)
LEMMA LookKeeps ==
  ASSUME AuditInv, NEW p \in Procs, Look(p)
  PROVE  AuditInv'
<1>1. PICK x : x = [at[p] EXCEPT !.step = "Looked", !.last = LastAnchored]
  OBVIOUS
<1>2. at[p] \in Places /\ at[p].rewritten = {}
  BY AnchoringWritesNothing DEF Look, AuditInv
<1>3. /\ at' = [at EXCEPT ![p] = x] /\ log' = log /\ lock' = lock
      /\ UNCHANGED <<anchors, chain, flying>>
  BY <1>1 DEF Look, AuditInv, LogInv
<1>4. LastAnchored \in 0 .. MaxSeq /\ CoveredTo(LastAnchored)
  BY LastAnchoredIs DEF AuditInv
<1>5. x \in Places /\ x.step = "Looked" /\ x.rewritten = {} /\ x.last = LastAnchored
  BY <1>1, <1>2, <1>4 DEF Places, Steps
<1>6. LogInv' /\ LogKept
  BY <1>3, <1>5, AnchorerLeavesLog DEF AuditInv
<1>7. CoveredTo(x.last)
  BY <1>4, <1>5
<1>8. \A q \in Procs : AnchorerOK(q)'
  BY <1>3, <1>5, <1>7, OneMoves DEF AuditInv
<1> QED
  BY <1>3, <1>6, <1>8, AnchorsUntouched DEF AuditInv, AnchorInv

(* Finding nothing. *)
LEMMA NothingNewKeeps ==
  ASSUME AuditInv, NEW p \in Procs, NothingNew(p)
  PROVE  AuditInv'
<1>1. /\ at' = [at EXCEPT ![p] = Idle] /\ log' = log /\ lock' = lock
      /\ UNCHANGED <<anchors, chain, flying>>
  BY DEF NothingNew
<1>2. Idle \in Places /\ Idle.step = "Idle" /\ Idle.rewritten = {}
  BY IdleIsPlace DEF Idle
<1>3. LogInv' /\ LogKept
  BY <1>1, <1>2, AnchorerLeavesLog DEF AuditInv
<1>4. \A q \in Procs : AnchorerOK(q)'
  BY <1>1, <1>2, OneMoves DEF AuditInv
<1> QED
  BY <1>1, <1>3, <1>4, AnchorsUntouched DEF AuditInv, AnchorInv

(* Sending the root of one's own row. *)
LEMMA SendKeeps ==
  ASSUME AuditInv, NEW p \in Procs, Send(p)
  PROVE  AuditInv'
<1>1. PICK x : x = [at[p] EXCEPT !.step = "Sent"]
  OBVIOUS
<1>2. at[p] \in Places /\ at[p].rewritten = {} /\ at[p].step = "Begun"
  BY AnchoringWritesNothing DEF Send, AuditInv
<1>3. /\ at' = [at EXCEPT ![p] = x] /\ log' = log /\ lock' = lock
      /\ flying' = flying \cup {at[p].row} /\ UNCHANGED <<anchors, chain>>
  BY <1>1 DEF Send, AuditInv, LogInv
<1>4. x \in Places /\ x.step = "Sent" /\ x.rewritten = {} /\ x.row = at[p].row
  BY <1>1, <1>2 DEF Places, Steps
<1>5. LogInv' /\ LogKept
  BY <1>3, <1>4, AnchorerLeavesLog DEF AuditInv
<1>6. Speaks(p) /\ at[p].row \in DOMAIN anchors
  BY <1>2 DEF AuditInv, AnchorInv, AnchorerOK, Speaks
<1>7. \A q \in Procs : AnchorerOK(q)'
  BY <1>3, <1>4, <1>6, OneMoves DEF AuditInv
<1> QED
  BY <1>3, <1>5, <1>6, <1>7, AnchorsUntouched DEF AuditInv, AnchorInv

(* The steps of the log. *)
LEMMA WriterStepKeeps ==
  ASSUME AuditInv, LogInv', LogKept, NEW p \in Procs, NEW x \in Places,
         at' = [at EXCEPT ![p] = x], x.step \in {"Idle", "Append", "Insert"},
         UNCHANGED <<anchors, chain, flying>>
  PROVE  AuditInv'
<1>1. \A q \in Procs : AnchorerOK(q)'
  BY OneMoves DEF AuditInv
<1> QED
  BY <1>1, AnchorsUntouched DEF AuditInv, AnchorInv

(* A crash makes nobody speak. *)
LEMMA CrashKeeps ==
  ASSUME AuditInv, Crash
  PROVE  AuditInv'
<1>1. LogInv' /\ LogKept
  BY CrashKeepsLog DEF AuditInv
<1>2. UNCHANGED <<anchors, chain, flying>> /\ at' = [p \in Procs |-> Idle]
  BY DEF Crash
<1>3. \A q \in Procs : AnchorerOK(q)'
  BY <1>2 DEF AnchorerOK, Speaks, Idle
<1> QED
  BY <1>1, <1>2, <1>3, AnchorsUntouched DEF AuditInv, AnchorInv

(* A transaction that is dropped. *)
LEMMA DropKeeps ==
  ASSUME AuditInv, NEW id, Drop(id)
  PROVE  AuditInv'
<1>1. /\ UNCHANGED <<log, anchors, chain, lock, at>> /\ flying' = flying \ {id}
  BY DEF Drop
<1>2. LogInv' /\ LogKept
  <2>1. LogEnd' = LogEnd
    BY <1>1 DEF LogEnd
  <2>2. \A p \in Procs : WriterOK(p)'
    BY <1>1, <2>1 DEF AuditInv, LogInv, WriterOK
  <2> QED
    BY <1>1, <2>2, LogUntouched DEF AuditInv, LogInv
<1>3. \A q \in Procs : AnchorerOK(q)'
  BY <1>1 DEF AuditInv, AnchorInv, AnchorerOK, Speaks, CoveredTo
<1> QED
  BY <1>1, <1>2, <1>3, AnchorsUntouched DEF AuditInv, AnchorInv

(* A root that lands on chain is that of the row it was sent for. *)
LEMMA AnchorRootKeeps ==
  ASSUME AuditInv, NEW id, AnchorRoot(id)
  PROVE  AuditInv'
<1> PICK c : c = [root |-> anchors[id].root, count |-> anchors[id].to, row |-> id]
  OBVIOUS
<1>1. /\ UNCHANGED <<log, anchors, lock, at>> /\ flying' = flying \ {id} /\ id \in flying
      /\ chain' = Append(chain, c)
  BY DEF AnchorRoot
<1>2. id \in DOMAIN anchors
  BY <1>1 DEF AuditInv, AnchorInv
<1>3. LogInv' /\ LogKept
  <2>1. LogEnd' = LogEnd
    BY <1>1 DEF LogEnd
  <2>2. \A p \in Procs : WriterOK(p)'
    BY <1>1, <2>1 DEF AuditInv, LogInv, WriterOK
  <2> QED
    BY <1>1, <2>2, LogUntouched DEF AuditInv, LogInv
<1>4. \A q \in Procs : AnchorerOK(q)'
  BY <1>1 DEF AuditInv, AnchorInv, AnchorerOK, Speaks, CoveredTo
<1> DEFINE Landed == [root : MerkleRoots, count : 1 .. MaxSeq, row : 1 .. MaxAnchors]
<1>5. c \in Landed /\ c.row = id /\ c.root = anchors[id].root /\ c.count = anchors[id].to
  BY <1>2, AnchorFields DEF AuditInv, AnchorRows
<1>6. chain \in Seq(Landed)
  BY DEF AuditInv, AnchorInv
<1> HIDE DEF Landed
<1>7. /\ chain' \in Seq(Landed) /\ Len(chain') = Len(chain) + 1 /\ Len(chain) \in Nat
      /\ chain'[Len(chain) + 1] = c
      /\ \A i \in 1 .. Len(chain) : chain'[i] = chain[i]
      /\ DOMAIN chain = 1 .. Len(chain) /\ DOMAIN chain' = 1 .. Len(chain) + 1
  BY <1>1, <1>5, <1>6
<1>8. ASSUME NEW j \in DOMAIN anchors PROVE AnchorOK(j)'
  <2>1. AnchorOK(j) /\ anchors[j].index \in Nat
    BY AnchorFields DEF AuditInv, AnchorInv
  <2>2. anchors[j].index <= Len(chain')
    BY <1>7, <2>1 DEF AnchorOK
  <2>3. anchors[j].status = "confirmed" =>
          anchors[j].index \in DOMAIN chain' /\ chain'[anchors[j].index].row = j
    BY <1>7, <2>1 DEF AnchorOK
  <2> QED
    BY <1>1, <1>3, <2>2, <2>3, AnchorStays DEF AuditInv
<1>9. ASSUME NEW i \in DOMAIN chain' PROVE OnChainOK(i)'
  <2>1. CASE i = Len(chain) + 1
    BY <1>1, <1>2, <1>5, <1>7, <2>1 DEF OnChainOK
  <2>2. CASE i # Len(chain) + 1
    <3>1. i \in DOMAIN chain /\ chain'[i] = chain[i]
      BY <1>7, <2>2
    <3> QED
      BY <1>1, <3>1 DEF AuditInv, AnchorInv, OnChainOK
  <2> QED
    BY <2>1, <2>2
<1>10. AnchorInv'
  BY <1>1, <1>4, <1>7, <1>8, <1>9 DEF AuditInv, AnchorInv, Landed
<1> QED
  BY <1>3, <1>10 DEF AuditInv

(* A new row starts where the confirmed ones reached when that was looked up,
   and nobody else speaks for it. *)
LEMMA BeginKeeps ==
  ASSUME AuditInv, NEW p \in Procs, Begin(p)
  PROVE  AuditInv'
<1> PICK n : n = Len(anchors)
  OBVIOUS
<1> PICK x : x = [at[p] EXCEPT !.step = "Begun", !.row = n + 1]
  OBVIOUS
<1> PICK f : f = at[p].last + 1
  OBVIOUS
<1> PICK t : t = LogEnd
  OBVIOUS
<1> PICK root : root = MerkleRoot(HashesOf(f, t))
  OBVIOUS
<1> PICK a : a = [from |-> f, to |-> t, status |-> "pending", index |-> 0, root |-> root]
  OBVIOUS
<1>1. at[p] \in Places /\ at[p].rewritten = {} /\ at[p].step = "Looked"
  BY AnchoringWritesNothing DEF Begin, AuditInv
<1>2. /\ at' = [at EXCEPT ![p] = x] /\ UNCHANGED <<log, chain, flying, lock>>
      /\ anchors' = Append(anchors, a) /\ n < MaxAnchors /\ LogEnd > at[p].last
  BY DEF Begin, AuditInv, LogInv
<1>3. /\ anchors \in Seq(AnchorRows) /\ n \in Nat /\ t \in 0 .. MaxSeq
      /\ DOMAIN anchors = 1 .. n
  BY LenProperties DEF AuditInv, AnchorInv, LogInv, LogOK
<1>4. f \in 1 .. t /\ t \in 1 .. t /\ f \in 1 .. MaxSeq /\ t \in 1 .. MaxSeq /\ f - 1 = at[p].last
  <2>1. at[p].last \in Nat
    BY <1>1, PlaceFields
  <2> QED
    BY <1>2, <1>3, <2>1, AuditAssumptions
<1>5. a \in AnchorRows
  <2>1. HashesOf(f, t) \in Seq(Seq(Contents))
    BY <1>4, HashesOfType DEF AuditInv
  <2>2. root \in MerkleRoots
    BY <2>1 DEF MerkleRoots
  <2> QED
    BY <1>4, <2>2 DEF AnchorRows
<1>6. /\ anchors' \in Seq(AnchorRows) /\ Len(anchors') = n + 1 /\ anchors'[n + 1] = a
      /\ \A j \in 1 .. n : anchors'[j] = anchors[j]
      /\ DOMAIN anchors' = 1 .. n + 1
  BY <1>2, <1>3, <1>5
<1>7. x \in Places /\ x.step = "Begun" /\ x.rewritten = {} /\ x.row = n + 1
  <2>1. n + 1 \in 0 .. MaxAnchors
    BY <1>2, <1>3, AuditAssumptions
  <2> QED
    BY <1>1, <2>1 DEF Places, Steps
<1>8. LogInv' /\ LogKept
  BY <1>2, <1>7, AnchorerLeavesLog DEF AuditInv
<1>9. at'[p] = x /\ \A q \in Procs : q # p => at'[q] = at[q]
  BY <1>2 DEF AuditInv, LogInv
<1>10. \A j \in DOMAIN anchors : /\ j \in DOMAIN anchors' /\ anchors'[j] = anchors[j]
                                 /\ j # n + 1
  BY <1>3, <1>6
<1>11. CoveredTo(f - 1)'
  <2>1. CoveredTo(f - 1)
    BY <1>1, <1>4 DEF AuditInv, AnchorInv, AnchorerOK
  <2> QED
    BY <1>10, <2>1, CoveredStays
<1>12. AnchorOK(n + 1)'
  <2>1. HashesOf(f, t)' = HashesOf(f, t)
    BY <1>4, <1>8, HashesOfStay
  <2>2. a.root = MerkleRoot(HashesOf(f, t)') /\ a.from = f /\ a.to = t /\ a.index = 0
        /\ a.status = "pending"
    BY <2>1
  <2>3. t <= LogEnd' /\ f <= t /\ 0 <= Len(chain')
    <3>1. Len(chain) \in Nat
      BY LenProperties DEF AuditInv, AnchorInv
    <3> QED
      BY <1>2, <1>3, <1>4, <1>8, <3>1, AuditAssumptions DEF LogKept
  <2>4. anchors'[n + 1] = a
    BY <1>6
  <2> PICK k : k = n + 1
    OBVIOUS
  <2>5. AnchorOK(k)'
    BY <1>11, <2>2, <2>3, <2>4 DEF AnchorOK
  <2> QED
    BY <2>5
<1>13. ASSUME NEW j \in DOMAIN anchors PROVE AnchorOK(j)'
  <2>1. AnchorOK(j)
    BY DEF AuditInv, AnchorInv
  <2> QED
    BY <1>2, <1>8, <1>10, <2>1, AnchorStays DEF AuditInv, AnchorOK
<1>14. ASSUME NEW j \in DOMAIN anchors' PROVE AnchorOK(j)'
  <2>1. j \in DOMAIN anchors \/ j = n + 1
    BY <1>3, <1>6
  <2> QED
    BY <1>12, <1>13, <2>1
<1>15. ASSUME NEW q \in Procs PROVE AnchorerOK(q)'
  <2>1. ASSUME NEW o \in Procs, o # p, Speaks(o)'
        PROVE  /\ Speaks(o) /\ at'[o].row = at[o].row /\ at[o].row \in DOMAIN anchors
               /\ at[o].row # n + 1
    BY <1>9, <1>10, <2>1 DEF Speaks, AuditInv, AnchorInv, AnchorerOK
  <2>2. CASE q = p
    <3>1. at'[q].step = "Begun" /\ at'[q].row = n + 1
      BY <1>7, <1>9, <2>2
    <3>2. n + 1 \in DOMAIN anchors' /\ anchors'[n + 1].status = "pending"
      BY <1>3, <1>6
    <3>3. \A o \in Procs \ {q} : Speaks(o)' => at'[o].row # n + 1
      BY <2>1, <2>2
    <3> QED
      BY <3>1, <3>2, <3>3 DEF AnchorerOK
  <2>3. CASE q # p
    <3>1. AnchorerOK(q) /\ at'[q] = at[q]
      BY <1>9, <2>3 DEF AuditInv, AnchorInv
    <3>2. ASSUME at'[q].step = "Looked" PROVE CoveredTo(at[q].last)'
      <4> PICK m : m = at[q].last
        OBVIOUS
      <4>1. CoveredTo(m)
        BY <3>1, <3>2 DEF AnchorerOK
      <4>2. CoveredTo(m)'
        BY <1>10, <4>1, CoveredStays
      <4> QED
        BY <3>1, <4>2 DEF CoveredTo
    <3>3. ASSUME Speaks(q)'
          PROVE  /\ at'[q].row \in DOMAIN anchors'
                 /\ anchors'[at'[q].row].status = "pending"
                 /\ \A o \in Procs \ {q} : Speaks(o)' => at'[o].row # at'[q].row
      <4>1. Speaks(q) /\ at'[q].row = at[q].row /\ at[q].row # n + 1
        BY <2>1, <2>3, <3>3
      <4>2. at'[q].row \in DOMAIN anchors' /\ anchors'[at'[q].row].status = "pending"
        BY <1>10, <3>1, <4>1 DEF AnchorerOK
      <4>3. ASSUME NEW o \in Procs \ {q}, Speaks(o)' PROVE at'[o].row # at'[q].row
        <5>1. CASE o = p
          BY <1>7, <1>9, <4>1, <5>1
        <5>2. CASE o # p
          BY <2>1, <3>1, <4>1, <4>3, <5>2 DEF AnchorerOK
        <5> QED
          BY <5>1, <5>2
      <4> QED
        BY <4>2, <4>3
    <3> QED
      BY <3>2, <3>3 DEF AnchorerOK
  <2> QED
    BY <2>2, <2>3
<1>16. ASSUME NEW i \in DOMAIN chain' PROVE OnChainOK(i)'
  <2>1. i \in DOMAIN chain /\ chain'[i] = chain[i] /\ OnChainOK(i)
    BY <1>2 DEF AuditInv, AnchorInv
  <2> QED
    BY <1>10, <2>1 DEF OnChainOK
<1>17. Len(anchors') <= MaxAnchors /\ flying' \subseteq DOMAIN anchors'
  BY <1>2, <1>3, <1>6, <1>10, AuditAssumptions DEF AuditInv, AnchorInv
<1>18. chain' = chain /\ chain \in Seq([root : MerkleRoots, count : 1 .. MaxSeq, row : 1 .. MaxAnchors])
  BY <1>2 DEF AuditInv, AnchorInv
<1>19. AnchorInv'
  BY <1>6, <1>14, <1>15, <1>16, <1>17, <1>18 DEF AnchorInv
<1> QED
  BY <1>8, <1>19 DEF AuditInv

(* The outcome of a row is that of a root on chain, or a failure; a row that was
   confirmed stays confirmed. *)
LEMMA OutcomeKeeps ==
  ASSUME AuditInv, NEW p \in Procs, Speaks(p), NEW st \in {"confirmed", "failed"},
         NEW ix \in 0 .. Len(chain),
         st = "confirmed" => ix \in DOMAIN chain /\ chain[ix].row = at[p].row,
         Outcome(p, st, ix)
  PROVE  AuditInv'
<1> PICK k : k = at[p].row
  OBVIOUS
<1> PICK x : x = [at[p] EXCEPT !.step = "Append", !.what = "anchor"]
  OBVIOUS
<1> PICK a : a = [anchors[k] EXCEPT !.status = st, !.index = ix]
  OBVIOUS
<1>1. at[p] \in Places /\ at[p].rewritten = {}
  BY AnchoringWritesNothing DEF Speaks, AuditInv
<1>2. k \in DOMAIN anchors /\ anchors[k].status = "pending" /\ anchors[k] \in AnchorRows
  BY AnchorFields DEF AuditInv, AnchorInv, AnchorerOK
<1>3. anchors \in Seq(AnchorRows) /\ chain' = chain /\ Len(chain) \in Nat
  BY LenProperties DEF AuditInv, AnchorInv, Outcome
<1>4. /\ anchors' = [anchors EXCEPT ![k] = a] /\ at' = [at EXCEPT ![p] = x]
      /\ UNCHANGED <<log, chain, flying, lock>>
  BY <1>1, <1>2, <1>3 DEF Outcome, AuditInv, LogInv
<1>5. /\ a \in AnchorRows /\ a.from = anchors[k].from /\ a.to = anchors[k].to
      /\ a.root = anchors[k].root /\ a.status = st /\ a.index = ix
  <2> PICK b \in AnchorRows : b = anchors[k]
    BY <1>2
  <2>1. st \in {"pending", "confirmed", "failed"} /\ ix \in Nat
    BY <1>3
  <2>2. a = [b EXCEPT !.status = st, !.index = ix]
    OBVIOUS
  <2>3. a \in AnchorRows
    BY <2>1, <2>2 DEF AnchorRows
  <2>4. /\ a.from = b.from /\ a.to = b.to /\ a.root = b.root /\ a.status = st
        /\ a.index = ix
    BY <2>2 DEF AnchorRows
  <2> QED
    BY <2>3, <2>4
<1>6. x \in Places /\ x.step = "Append" /\ x.rewritten = {}
  BY <1>1 DEF Places, Steps, Contents
<1>7. LogInv' /\ LogKept
  BY <1>4, <1>6, AnchorerLeavesLog DEF AuditInv
<1>8. /\ anchors' \in Seq(AnchorRows) /\ Len(anchors') = Len(anchors)
      /\ DOMAIN anchors' = DOMAIN anchors /\ anchors'[k] = a
      /\ \A j \in DOMAIN anchors : j # k => anchors'[j] = anchors[j]
  BY <1>2, <1>3, <1>4, <1>5, ExceptSeq, LenProperties
<1>9. \A j \in DOMAIN anchors :
        /\ anchors'[j].from = anchors[j].from /\ anchors'[j].to = anchors[j].to
        /\ anchors'[j].root = anchors[j].root
        /\ anchors[j].status = "confirmed" => anchors'[j].status = "confirmed"
  BY <1>2, <1>5, <1>8
<1>10. ASSUME NEW j \in DOMAIN anchors PROVE AnchorOK(j)'
  <2>1. AnchorOK(j)
    BY DEF AuditInv, AnchorInv
  <2>2. /\ anchors'[j].index <= Len(chain')
        /\ anchors'[j].status = "confirmed" =>
             anchors'[j].index \in DOMAIN chain' /\ chain'[anchors'[j].index].row = j
    <3>1. CASE j = k
      <4>1. anchors'[j].index = ix /\ anchors'[j].status = st
        BY <1>5, <1>8, <3>1
      <4>2. ix <= Len(chain)
        BY <1>3
      <4> QED
        BY <1>3, <3>1, <4>1, <4>2
    <3>2. CASE j # k
      <4>1. anchors'[j] = anchors[j]
        BY <1>8, <3>2
      <4> QED
        BY <1>3, <2>1, <4>1 DEF AnchorOK
    <3> QED
      BY <3>1, <3>2
  <2> QED
    BY <1>7, <1>8, <1>9, <2>2, AnchorStays DEF AuditInv
<1>11. at'[p] = x /\ \A q \in Procs : q # p => at'[q] = at[q]
  BY <1>4 DEF AuditInv, LogInv
<1>12. ASSUME NEW q \in Procs PROVE AnchorerOK(q)'
  <2>1. CASE q = p
    BY <1>6, <1>11, <2>1 DEF AnchorerOK, Speaks
  <2>2. CASE q # p
    <3>1. AnchorerOK(q) /\ at'[q] = at[q]
      BY <1>11, <2>2 DEF AuditInv, AnchorInv
    <3>2. ASSUME at'[q].step = "Looked" PROVE CoveredTo(at[q].last)'
      <4> PICK m : m = at[q].last
        OBVIOUS
      <4>1. CoveredTo(m)
        BY <3>1, <3>2 DEF AnchorerOK
      <4>2. CoveredTo(m)'
        BY <1>8, <1>9, <4>1, CoveredStays
      <4> QED
        BY <3>1, <4>2 DEF CoveredTo
    <3>3. ASSUME NEW o \in Procs, Speaks(o)' PROVE Speaks(o) /\ at'[o].row = at[o].row
      BY <1>6, <1>11, <3>3 DEF Speaks
    <3>4. ASSUME Speaks(q)'
          PROVE  /\ at'[q].row \in DOMAIN anchors'
                 /\ anchors'[at'[q].row].status = "pending"
                 /\ \A o \in Procs \ {q} : Speaks(o)' => at'[o].row # at'[q].row
      <4>1. Speaks(q) /\ at'[q].row = at[q].row
        BY <3>3, <3>4
      <4>2. at[q].row # k
        BY <2>2, <3>1, <4>1 DEF AnchorerOK
      <4>3. \A o \in Procs \ {q} : Speaks(o)' => at'[o].row # at'[q].row
        BY <3>1, <3>3, <4>1 DEF AnchorerOK
      <4> QED
        BY <1>8, <3>1, <4>1, <4>2, <4>3 DEF AnchorerOK
    <3> QED
      BY <3>2, <3>4 DEF AnchorerOK
  <2> QED
    BY <2>1, <2>2
<1>13. ASSUME NEW i \in DOMAIN chain' PROVE OnChainOK(i)'
  <2>1. i \in DOMAIN chain /\ chain'[i] = chain[i] /\ OnChainOK(i)
    BY <1>3 DEF AuditInv, AnchorInv
  <2> QED
    BY <1>8, <1>9, <2>1 DEF OnChainOK
<1>14. AnchorInv'
  BY <1>4, <1>8, <1>10, <1>12, <1>13 DEF AuditInv, AnchorInv
<1> QED
  BY <1>7, <1>14 DEF AuditInv

(* So every step keeps both. *)
LEMMA AuditInvNext == AuditInv /\ [Next]_vars => AuditInv'
<1> SUFFICES ASSUME AuditInv, [Next]_vars PROVE AuditInv'
  OBVIOUS
<1>1. ASSUME NEW w \in Writers, NEW s \in Subjects, Ask(w, s) PROVE AuditInv'
  <2>1. PICK x : x = [at[w] EXCEPT !.step = "Append", !.what = s]
    OBVIOUS
  <2>2. w \in Procs /\ at[w] \in Places /\ s \in Contents
    BY DEF AuditInv, LogInv, Procs, Contents
  <2>3. x \in Places /\ x.step = "Append"
    BY <2>1, <2>2 DEF Places, Steps
  <2>4. at' = [at EXCEPT ![w] = x] /\ UNCHANGED <<anchors, chain, flying>>
    BY <1>1, <2>1, <2>2 DEF Ask, AuditInv, LogInv
  <2>5. LogInv' /\ LogKept
    BY <1>1, AskKeepsLog DEF AuditInv
  <2> QED
    BY <2>2, <2>3, <2>4, <2>5, WriterStepKeeps
<1>2. ASSUME NEW p \in Procs, ReadTail(p) PROVE AuditInv'
  <2>1. PICK x : x = [at[p] EXCEPT !.step = "Insert", !.tail = LogEnd]
    OBVIOUS
  <2>2. at[p] \in Places /\ LogEnd \in 0 .. MaxSeq
    BY DEF AuditInv, LogInv, LogOK
  <2>3. x \in Places /\ x.step = "Insert"
    BY <2>1, <2>2 DEF Places, Steps
  <2>4. at' = [at EXCEPT ![p] = x] /\ UNCHANGED <<anchors, chain, flying>>
    BY <1>2, <2>1 DEF ReadTail, AuditInv, LogInv
  <2>5. LogInv' /\ LogKept
    BY <1>2, ReadTailKeepsLog DEF AuditInv
  <2> QED
    BY <2>3, <2>4, <2>5, WriterStepKeeps
<1>3. ASSUME NEW p \in Procs, Insert(p) PROVE AuditInv'
  <2>1. at' = [at EXCEPT ![p] = Idle] /\ UNCHANGED <<anchors, chain, flying>>
    BY <1>3 DEF Insert
  <2>2. Idle \in Places /\ Idle.step = "Idle"
    BY IdleIsPlace DEF Idle
  <2>3. LogInv' /\ LogKept
    BY <1>3, InsertKeepsLog DEF AuditInv
  <2> QED
    BY <2>1, <2>2, <2>3, WriterStepKeeps
<1>4. ASSUME NEW e \in Erasers, NEW s \in Subjects, Rewrite(e, s) PROVE AuditInv'
  <2> PICK R : R = {r.seq : r \in {r \in log : r.what = s}}
    OBVIOUS
  <2>1. PICK x : x = [at[e] EXCEPT !.step = "Append", !.what = "erasure", !.rewritten = R]
    OBVIOUS
  <2>2. e \in Procs /\ at[e] \in Places /\ R \subseteq 1 .. MaxSeq
    BY DEF AuditInv, LogInv, LogOK, Entries, Procs
  <2>3. x \in Places /\ x.step = "Append"
    BY <2>1, <2>2 DEF Places, Steps, Contents
  <2>4. at' = [at EXCEPT ![e] = x] /\ UNCHANGED <<anchors, chain, flying>>
    BY <1>4, <2>1, <2>2 DEF Rewrite, AuditInv, LogInv
  <2>5. LogInv' /\ LogKept
    BY <1>4, RewriteKeepsLog DEF AuditInv
  <2> QED
    BY <2>2, <2>3, <2>4, <2>5, WriterStepKeeps
<1>5. ASSUME NEW p \in Anchorers,
             Look(p) \/ NothingNew(p) \/ Begin(p) \/ Send(p) \/ Confirm(p) \/ Fail(p)
      PROVE  AuditInv'
  <2>1. p \in Procs /\ Len(chain) \in Nat
    BY LenProperties DEF Procs, AuditInv, AnchorInv
  <2>2. ASSUME Confirm(p) PROVE AuditInv'
    <3>1. PICK i \in DOMAIN chain : chain[i].row = at[p].row /\ Outcome(p, "confirmed", i)
      BY <2>2 DEF Confirm
    <3>2. i \in 0 .. Len(chain)
      BY <2>1, LenProperties DEF AuditInv, AnchorInv
    <3> QED
      BY <2>1, <2>2, <3>1, <3>2, OutcomeKeeps DEF Confirm, Speaks
  <2>3. ASSUME Fail(p) PROVE AuditInv'
    BY <2>1, <2>3, OutcomeKeeps DEF Fail, Speaks
  <2> QED
    BY <1>5, <2>1, <2>2, <2>3, LookKeeps, NothingNewKeeps, BeginKeeps, SendKeeps
<1>6. ASSUME NEW id \in 1 .. MaxAnchors, AnchorRoot(id) \/ Drop(id) PROVE AuditInv'
  BY <1>6, AnchorRootKeeps, DropKeeps
<1>7. CASE Crash
  BY <1>7, CrashKeeps
<1>8. CASE UNCHANGED vars
  <2>1. UNCHANGED <<log, anchors, chain, flying, lock, at>>
    BY <1>8 DEF vars
  <2>2. LogInv' /\ LogKept
    <3>1. LogEnd' = LogEnd
      BY <2>1 DEF LogEnd
    <3>2. \A p \in Procs : WriterOK(p)'
      BY <2>1, <3>1 DEF AuditInv, LogInv, WriterOK
    <3> QED
      BY <2>1, <3>2, LogUntouched DEF AuditInv, LogInv
  <2>3. \A q \in Procs : AnchorerOK(q)'
    BY <2>1 DEF AuditInv, AnchorInv, AnchorerOK, Speaks, CoveredTo
  <2> QED
    BY <2>1, <2>2, <2>3, AnchorsUntouched DEF AuditInv, AnchorInv
<1> QED
  BY <1>1, <1>2, <1>3, <1>4, <1>5, <1>6, <1>7, <1>8 DEF Next

(* At first there is nothing. *)
LEMMA AuditInvInit == Init => AuditInv
<1> SUFFICES ASSUME Init PROVE AuditInv
  OBVIOUS
<1>1. log = {} /\ anchors = <<>> /\ chain = <<>> /\ flying = {} /\ lock = None
  BY DEF Init
<1>2. LogEnd = 0
  <2>1. EndOf(log) = 0
    BY <1>1, EndIs
  <2> QED
    BY <2>1 DEF EndOf, LogEnd
<1>3. at = [p \in Procs |-> Idle]
  BY DEF Init
<1>4. at \in [Procs -> Places] /\ \A p \in Procs : WriterOK(p) /\ AnchorerOK(p)
  BY <1>1, <1>3, IdleIsPlace DEF WriterOK, AnchorerOK, Speaks, Idle
<1>5. LogInv
  BY <1>1, <1>2, <1>4, AuditAssumptions DEF LogInv, LogOK
<1>6. AnchorInv
  BY <1>1, <1>4, EmptySeq, AuditAssumptions DEF AnchorInv
<1> QED
  BY <1>5, <1>6 DEF AuditInv

(* So they always hold. *)
LEMMA AuditInvAlways == Spec => []AuditInv
BY AuditInvInit, AuditInvNext, PTL DEF Spec

-----------------------------------------------------------------------------
(* What follows. *)

(* A log of N rows with the numbers from 1 to N is of cardinality N. *)
LEMMA RowsCounted ==
  ASSUME LogOK
  PROVE  IsFiniteSet(log) /\ Cardinality(log) = LogEnd
<1> PICK N \in Nat : N = LogEnd
  BY AuditAssumptions DEF LogOK
<1> DEFINE g == [n \in 1 .. N |-> CHOOSE r \in log : r.seq = n]
<1>1. ASSUME NEW n \in 1 .. N PROVE g[n] \in log /\ g[n].seq = n
  BY DEF LogOK
<1>2. g \in [1 .. N -> log]
  BY <1>1
<1>3. ASSUME NEW r \in log PROVE \E n \in 1 .. N : g[n] = r
  <2>1. r.seq \in 1 .. N
    BY AuditAssumptions DEF LogOK, Entries
  <2>2. g[r.seq] \in log /\ g[r.seq].seq = r.seq
    BY <1>1, <2>1
  <2> QED
    BY <2>1, <2>2 DEF LogOK
<1> HIDE DEF g
<1>4. \A m, n \in 1 .. N : g[m] = g[n] => m = n
  BY <1>1
<1>5. g \in Bijection(1 .. N, log)
  BY <1>2, <1>3, <1>4 DEF Bijection, Injection, Surjection, IsInjective
<1>6. ExistsBijection(1 .. N, log)
  BY <1>5 DEF ExistsBijection
<1>7. IsFiniteSet(1 .. N) /\ Cardinality(1 .. N) = N
  BY FS_Interval
<1> QED
  BY <1>6, <1>7, FS_Bijection

(* However appends with and without the lock meet, and whatever crashes: the log
   is numbered without a gap or a repetition, each row is linked to the one
   before, and each is what was hashed or is on record as erased. *)
THEOREM ChainAlwaysVerifies == Spec => []ChainVerifies
<1>1. AuditInv => ChainVerifies
  <2> SUFFICES ASSUME AuditInv PROVE ChainVerifies
    OBVIOUS
  <2>1. LogOK /\ \A r \in log : RowOK(r)
    BY DEF AuditInv, LogInv
  <2>2. ASSUME NEW r \in log
        PROVE  \E s \in log \cup {[seq |-> 0, hash |-> <<>>]} :
                 s.seq = r.seq - 1 /\ s.hash = r.prev
    <3>1. r.prev = HashOf(r.seq - 1) /\ r.seq \in Nat /\ r.seq # 0 /\ r.seq <= LogEnd
          /\ LogEnd \in Nat
      <4>1. r.seq \in 1 .. MaxSeq /\ r.seq <= LogEnd /\ LogEnd \in 0 .. MaxSeq
        BY <2>1 DEF LogOK, Entries
      <4> QED
        BY <2>1, <4>1, AuditAssumptions DEF RowOK
    <3>2. CASE r.seq = 1
      <4>1. r.prev = <<>> /\ r.seq - 1 = 0
        BY <3>1, <3>2 DEF HashOf
      <4> PICK s : s = [seq |-> 0, hash |-> <<>>]
        OBVIOUS
      <4>2. s \in log \cup {[seq |-> 0, hash |-> <<>>]} /\ s.seq = 0 /\ s.hash = <<>>
        OBVIOUS
      <4> QED
        BY <4>1, <4>2
    <3>3. CASE r.seq # 1
      <4>1. r.seq - 1 \in 1 .. LogEnd /\ r.seq - 1 # 0
        BY <3>1, <3>3
      <4>2. PICK s \in log : s.seq = r.seq - 1
        BY <2>1, <4>1 DEF LogOK
      <4>3. Row(r.seq - 1) = s
        BY <2>1, <4>2, RowAt DEF Row, LogOK
      <4>4. s.hash = r.prev
        BY <3>1, <4>1, <4>3 DEF HashOf
      <4> QED
        BY <4>2, <4>4
    <3> QED
      BY <3>2, <3>3
  <2> QED
    BY <2>1, <2>2, RowsCounted DEF ChainVerifies, RowOK
<1> QED
  BY <1>1, AuditInvAlways, PTL

(* Type correctness: the columns have their types, every anchor is of a range of
   entries there are, and what is on chain or on its way was sent for a row. *)
THEOREM AuditTypeCorrect == Spec => []AuditTypeOK
<1>1. AuditInv => AuditTypeOK
  <2> SUFFICES ASSUME AuditInv PROVE AuditTypeOK
    OBVIOUS
  <2>1. ASSUME NEW s \in Seq(Contents), Len(s) <= MaxSeq
        PROVE  s \in BoundedSeq(Contents, MaxSeq)
    <3>1. Len(s) \in 0 .. MaxSeq /\ s \in [1 .. Len(s) -> Contents]
      BY <2>1, LenProperties, AuditAssumptions
    <3> QED
      BY <3>1 DEF BoundedSeq, SeqOf
  <2>2. ASSUME NEW r \in log
        PROVE  r \in [seq : 1 .. MaxSeq, what : Contents,
                      hash : BoundedSeq(Contents, MaxSeq), prev : BoundedSeq(Contents, MaxSeq)]
    <3>1. r \in Entries /\ RowOK(r) /\ LogOK /\ r.seq <= LogEnd
      BY DEF AuditInv, LogInv, LogOK
    <3>2. r.hash \in BoundedSeq(Contents, MaxSeq)
      <4>1. r.hash \in Seq(Contents) /\ Len(r.hash) <= MaxSeq
        BY <3>1, AuditAssumptions DEF Entries, RowOK
      <4> QED
        BY <2>1, <4>1
    <3>3. r.prev \in BoundedSeq(Contents, MaxSeq)
      <4>1. r.seq - 1 \in 0 .. LogEnd /\ r.seq - 1 <= MaxSeq
        BY <3>1, AuditAssumptions DEF Entries, LogOK
      <4>2. r.prev \in Seq(Contents) /\ Len(r.prev) = r.seq - 1
        BY <3>1, <4>1, HashOfEntry DEF RowOK, AuditInv, LogInv
      <4> QED
        BY <2>1, <4>1, <4>2
    <3> QED
      BY <3>1, <3>2, <3>3 DEF Entries
  <2>3. ASSUME NEW a \in ToSet(anchors)
        PROVE  /\ 1 <= a.from /\ a.from <= a.to /\ a.to <= LogEnd
               /\ a.status \in {"pending", "confirmed", "failed"} /\ a.index \in 0 .. Len(chain)
    <3>1. PICK id \in DOMAIN anchors : a = anchors[id]
      BY DEF ToSet
    <3>2. AnchorOK(id) /\ Len(chain) \in Nat
      BY LenProperties DEF AuditInv, AnchorInv
    <3>3. /\ anchors[id].from \in 1 .. MaxSeq /\ anchors[id].index \in Nat
          /\ anchors[id].status \in {"pending", "confirmed", "failed"}
      BY AnchorFields DEF AuditInv
    <3> QED
      BY <3>1, <3>2, <3>3 DEF AnchorOK
  <2>4. ASSUME NEW p \in Procs
        PROVE  at[p].tail \in 0 .. MaxSeq /\ at[p].row \in 0 .. MaxAnchors
    BY PlaceFields DEF AuditInv, LogInv
  <2>5. /\ \A i \in DOMAIN chain : chain[i].row \in DOMAIN anchors
        /\ flying \subseteq DOMAIN anchors
        /\ lock \in Writers \cup Anchorers \cup {None}
    BY DEF AuditInv, AnchorInv, OnChainOK, LogInv
  <2> QED
    BY <2>2, <2>3, <2>4, <2>5 DEF AuditTypeOK
<1> QED
  BY <1>1, AuditInvAlways, PTL

-----------------------------------------------------------------------------
(* Merkle trees.  The three recursions are functions: the layers and the way up
   from a leaf, on the numbers, and the fold of a proof, on sets of its steps. *)

LayerOf(hashes) ==
  CHOOSE layer :
    layer = [n \in Nat |-> IF n = 0 THEN [k \in DOMAIN hashes |-> [leaf |-> hashes[k]]]
                           ELSE Half(layer[n - 1])]

HeightOf(hashes) ==
  CHOOSE n \in 0 .. Len(hashes) : /\ Len(LayerOf(hashes)[n]) = 1
                                  /\ \A m \in 0 .. n - 1 : Len(LayerOf(hashes)[m]) > 1

NodeOf(k) ==
  CHOOSE node : node = [n \in Nat |-> IF n = 0 THEN k ELSE (node[n - 1] + 1) \div 2]

Sibling(layer, i) ==
  IF i % 2 = 1 THEN [side |-> "right", node |-> layer[Min({i + 1, Len(layer)})]]
  ELSE [side |-> "left", node |-> layer[i - 1]]

Parent(x, step) == IF step.side = "right" THEN [left |-> x, right |-> step.node]
                   ELSE [left |-> step.node, right |-> x]

FoldOf(base, proof) ==
  CHOOSE iter :
    iter = [s \in SUBSET DOMAIN proof |->
              IF s = {} THEN base ELSE Parent(iter[s \ {Max(s)}], proof[Max(s)])]

(* The tree of a sequence of hashes. *)
LEMMA LayersUnfold ==
  ASSUME NEW hashes
  PROVE  Layers(hashes) = [n \in 1 .. HeightOf(hashes) + 1 |-> LayerOf(hashes)[n - 1]]
BY DEF Layers, LayerOf, HeightOf

(* A proof names the siblings on the way up. *)
LEMMA MerkleProofUnfolds ==
  ASSUME NEW hashes, NEW k
  PROVE  MerkleProof(hashes, k) =
           [n \in 1 .. Len(Layers(hashes)) - 1 |-> Sibling(Layers(hashes)[n], NodeOf(k)[n - 1])]
BY DEF MerkleProof, NodeOf, Sibling

(* And is folded from the leaf. *)
LEMMA VerifyUnfolds ==
  ASSUME NEW hash, NEW proof, NEW root
  PROVE  VerifyMerkleProof(hash, proof, root) <=>
           FoldOf([leaf |-> hash], proof)[DOMAIN proof] = root
BY DEF VerifyMerkleProof, FoldLeft, MapThenFoldSet, FoldOf, Parent

(* A step of the recursion on the numbers, of the layers or of the way up. *)
Higher(kind, x) == IF kind = "layers" THEN Half(x) ELSE (x + 1) \div 2

(* g follows it as far as n; c does so for ever. *)
ClimbsTo(g, n, kind, base) ==
  \A m \in 0 .. n : g[m] = IF m = 0 THEN base ELSE Higher(kind, g[m - 1])
Climbs(c, kind, base) ==
  c = [n \in Nat |-> IF n = 0 THEN base ELSE Higher(kind, c[n - 1])]

(* Two functions that follow it agree as far as both do. *)
LEMMA ClimbsAgree ==
  ASSUME NEW kind, NEW base, NEW f, NEW n \in Nat, ClimbsTo(f, n, kind, base),
         NEW h, NEW m \in Nat, ClimbsTo(h, m, kind, base)
  PROVE  \A i \in Nat : i <= n /\ i <= m => f[i] = h[i]
<1> DEFINE Bad == {i \in Nat : i <= n /\ i <= m /\ f[i] # h[i]}
<1>1. Bad = {}
  <2> SUFFICES ASSUME Bad # {} PROVE FALSE
    OBVIOUS
  <2>1. PICK i \in Bad : \A j \in Bad : i <= j
    BY LeastNat
  <2>2. i \in 0 .. n /\ i \in 0 .. m
    OBVIOUS
  <2>3. CASE i = 0
    BY <2>2, <2>3 DEF ClimbsTo
  <2>4. CASE i # 0
    <3>1. i - 1 \in Nat /\ i - 1 \notin Bad
      BY <2>1, <2>2, <2>4
    <3>2. f[i - 1] = h[i - 1]
      BY <2>2, <3>1
    <3>3. f[i] = Higher(kind, f[i - 1]) /\ h[i] = Higher(kind, h[i - 1])
      BY <2>2, <2>4 DEF ClimbsTo
    <3> QED
      BY <3>2, <3>3
  <2> QED
    BY <2>3, <2>4
<1> QED
  BY <1>1

(* There is one for each number. *)
LEMMA ClimbsFar ==
  ASSUME NEW kind, NEW base
  PROVE  \A n \in Nat : \E g : ClimbsTo(g, n, kind, base)
<1> DEFINE Bad == {n \in Nat : ~ \E g : ClimbsTo(g, n, kind, base)}
<1>1. Bad = {}
  <2> SUFFICES ASSUME Bad # {} PROVE FALSE
    OBVIOUS
  <2>1. PICK n \in Bad : \A j \in Bad : n <= j
    BY LeastNat
  <2>2. CASE n = 0
    <3>1. ClimbsTo([i \in Nat |-> base], n, kind, base)
      BY <2>2 DEF ClimbsTo
    <3> QED
      BY <3>1
  <2>3. CASE n # 0
    <3>1. n - 1 \in Nat /\ n - 1 \notin Bad
      BY <2>1, <2>3
    <3>2. PICK f : ClimbsTo(f, n - 1, kind, base)
      BY <3>1
    <3> DEFINE h == [i \in Nat |-> IF i = n THEN Higher(kind, f[n - 1]) ELSE f[i]]
    <3>3. \A i \in 0 .. (n - 1) : h[i] = f[i] /\ (i # 0 => h[i - 1] = f[i - 1])
      BY <3>1
    <3>4. h[n] = Higher(kind, f[n - 1]) /\ h[n - 1] = f[n - 1]
      BY <2>3, <3>1
    <3>5. ClimbsTo(h, n, kind, base)
      <4> HIDE DEF h
      <4>1. ASSUME NEW i \in 0 .. n
            PROVE  h[i] = IF i = 0 THEN base ELSE Higher(kind, h[i - 1])
        <5>1. CASE i = n
          BY <2>3, <3>4, <5>1
        <5>2. CASE i # n
          <6>1. i \in 0 .. (n - 1)
            BY <5>2
          <6> QED
            BY <3>2, <3>3, <6>1 DEF ClimbsTo
        <5> QED
          BY <5>1, <5>2
      <4> QED
        BY <4>1 DEF ClimbsTo
    <3> QED
      BY <3>5
  <2> QED
    BY <2>2, <2>3
<1> QED
  BY <1>1

(* So there is one for all of them. *)
LEMMA ClimbsExists ==
  ASSUME NEW kind, NEW base
  PROVE  \E c : Climbs(c, kind, base)
<1> DEFINE upTo(n) == CHOOSE g : ClimbsTo(g, n, kind, base)
           c == [n \in Nat |-> upTo(n)[n]]
<1>1. \A n \in Nat : ClimbsTo(upTo(n), n, kind, base)
  BY ClimbsFar
<1>2. ASSUME NEW n \in Nat
      PROVE  c[n] = IF n = 0 THEN base ELSE Higher(kind, c[n - 1])
  <2>1. c[n] = upTo(n)[n] /\ n \in 0 .. n
    OBVIOUS
  <2>2. CASE n = 0
    BY <1>1, <2>1, <2>2 DEF ClimbsTo
  <2>3. CASE n # 0
    <3>1. n - 1 \in Nat /\ c[n - 1] = upTo(n - 1)[n - 1]
      BY <2>3
    <3> HIDE DEF c, upTo
    <3>2. upTo(n - 1)[n - 1] = upTo(n)[n - 1]
      BY <1>1, <3>1, ClimbsAgree
    <3>3. upTo(n)[n] = Higher(kind, upTo(n)[n - 1])
      BY <1>1, <2>1, <2>3 DEF ClimbsTo
    <3> QED
      BY <2>1, <2>3, <3>1, <3>2, <3>3
  <2> QED
    BY <2>2, <2>3
<1>3. c = [n \in Nat |-> IF n = 0 THEN base ELSE Higher(kind, c[n - 1])]
  <2>1. c = [n \in Nat |-> c[n]]
    OBVIOUS
  <2> HIDE DEF c
  <2> QED
    BY <1>2, <2>1
<1> HIDE DEF c
<1> QED
  BY <1>3 DEF Climbs

(* The layers start with the leaves, and each is half of the one below. *)
LEMMA LayersClimb ==
  ASSUME NEW hashes
  PROVE  /\ LayerOf(hashes)[0] = [k \in DOMAIN hashes |-> [leaf |-> hashes[k]]]
         /\ \A n \in Nat : LayerOf(hashes)[n + 1] = Half(LayerOf(hashes)[n])
<1> PICK leaves : leaves = [k \in DOMAIN hashes |-> [leaf |-> hashes[k]]]
  OBVIOUS
<1>1. PICK c : Climbs(c, "layers", leaves)
  BY ClimbsExists
<1>2. c = [n \in Nat |-> IF n = 0 THEN [k \in DOMAIN hashes |-> [leaf |-> hashes[k]]]
                         ELSE Half(c[n - 1])]
  BY <1>1 DEF Climbs, Higher
<1>3. LayerOf(hashes) =
        [n \in Nat |-> IF n = 0 THEN [k \in DOMAIN hashes |-> [leaf |-> hashes[k]]]
                       ELSE Half(LayerOf(hashes)[n - 1])]
  BY <1>2 DEF LayerOf
<1> PICK L : L = LayerOf(hashes)
  OBVIOUS
<1>4. L = [n \in Nat |-> IF n = 0 THEN leaves ELSE Half(L[n - 1])]
  BY <1>3
<1>5. L[0] = leaves
  BY <1>4
<1>6. ASSUME NEW n \in Nat PROVE L[n + 1] = Half(L[n])
  <2>1. n + 1 \in Nat /\ n + 1 # 0 /\ (n + 1) - 1 = n
    OBVIOUS
  <2>2. L[n + 1] = IF n + 1 = 0 THEN leaves ELSE Half(L[(n + 1) - 1])
    BY <1>4, <2>1
  <2> QED
    BY <2>1, <2>2
<1> QED
  BY <1>5, <1>6

(* The way up starts at the leaf, and each node's parent is at half its place. *)
LEMMA NodesClimb ==
  ASSUME NEW k
  PROVE  /\ NodeOf(k)[0] = k
         /\ \A n \in Nat : NodeOf(k)[n + 1] = (NodeOf(k)[n] + 1) \div 2
<1>1. PICK c : Climbs(c, "nodes", k)
  BY ClimbsExists
<1>2. c = [n \in Nat |-> IF n = 0 THEN k ELSE (c[n - 1] + 1) \div 2]
  BY <1>1 DEF Climbs, Higher
<1>3. NodeOf(k) = [n \in Nat |-> IF n = 0 THEN k ELSE (NodeOf(k)[n - 1] + 1) \div 2]
  BY <1>2 DEF NodeOf
<1> PICK N : N = NodeOf(k)
  OBVIOUS
<1>4. N = [n \in Nat |-> IF n = 0 THEN k ELSE (N[n - 1] + 1) \div 2]
  BY <1>3
<1>5. N[0] = k
  BY <1>4
<1>6. ASSUME NEW n \in Nat PROVE N[n + 1] = (N[n] + 1) \div 2
  <2>1. n + 1 \in Nat /\ n + 1 # 0 /\ (n + 1) - 1 = n
    OBVIOUS
  <2>2. N[n + 1] = IF n + 1 = 0 THEN k ELSE (N[(n + 1) - 1] + 1) \div 2
    BY <1>4, <2>1
  <2> QED
    BY <2>1, <2>2
<1> QED
  BY <1>5, <1>6

(* A step of the fold, and a function that follows it on the sets up to n. *)
FoldStep(base, proof, g, s) ==
  IF s = {} THEN base ELSE Parent(g[s \ {Max(s)}], proof[Max(s)])
FoldsTo(g, n, base, proof) ==
  \A s \in SUBSET (1 .. n) : g[s] = FoldStep(base, proof, g, s)

(* What is left of a set up to n + 1 without its greatest number is up to n. *)
LEMMA MaxLeaves ==
  ASSUME NEW n \in Nat, NEW s \in SUBSET (1 .. n + 1), s # {}
  PROVE  s \ {Max(s)} \in SUBSET (1 .. n)
<1>1. s \in SUBSET (0 .. n + 1) /\ n + 1 \in Nat
  OBVIOUS
<1>2. Max(s) \in s /\ \A x \in s : x <= Max(s)
  BY <1>1, GreatestNat
<1>3. ASSUME NEW x \in s, x # Max(s) PROVE x \in 1 .. n
  <2>1. x <= Max(s) /\ x \in 1 .. n + 1 /\ Max(s) \in 1 .. n + 1
    BY <1>2
  <2> QED
    BY <1>3, <2>1
<1> QED
  BY <1>3

(* There is one for each number. *)
LEMMA FoldsFar ==
  ASSUME NEW base, NEW proof
  PROVE  \A n \in Nat : \E g : FoldsTo(g, n, base, proof)
<1> DEFINE Bad == {n \in Nat : ~ \E g : FoldsTo(g, n, base, proof)}
<1>1. Bad = {}
  <2> SUFFICES ASSUME Bad # {} PROVE FALSE
    OBVIOUS
  <2>1. PICK n \in Bad : \A j \in Bad : n <= j
    BY LeastNat
  <2>2. CASE n = 0
    <3> DEFINE z == [s \in SUBSET (1 .. 0) |-> base]
    <3>1. \A s \in SUBSET (1 .. 0) : s = {}
      OBVIOUS
    <3>2. FoldsTo(z, 0, base, proof)
      BY <3>1 DEF FoldsTo, FoldStep
    <3> QED
      BY <2>2, <3>2
  <2>3. CASE n # 0
    <3>1. n - 1 \in Nat /\ n - 1 \notin Bad
      BY <2>1, <2>3
    <3> PICK m \in Nat : m = n - 1
      BY <3>1
    <3>2. PICK g : FoldsTo(g, m, base, proof)
      BY <3>1
    <3> DEFINE h == [s \in SUBSET (1 .. m + 1) |-> FoldStep(base, proof, g, s)]
    <3>3. \A s \in SUBSET (1 .. m) : h[s] = g[s]
      <4> SUFFICES ASSUME NEW s \in SUBSET (1 .. m) PROVE h[s] = g[s]
        OBVIOUS
      <4>1. s \in SUBSET (1 .. m + 1)
        OBVIOUS
      <4> QED
        BY <3>2, <4>1 DEF FoldsTo
    <3>4. ASSUME NEW s \in SUBSET (1 .. m + 1) PROVE h[s] = FoldStep(base, proof, h, s)
      <4>1. h[s] = FoldStep(base, proof, g, s)
        OBVIOUS
      <4> HIDE DEF h
      <4>2. s # {} => h[s \ {Max(s)}] = g[s \ {Max(s)}]
        BY <3>3, MaxLeaves
      <4> QED
        BY <4>1, <4>2 DEF FoldStep
    <3>5. FoldsTo(h, m + 1, base, proof) /\ n = m + 1
      <4> HIDE DEF h
      <4> QED
        BY <3>4 DEF FoldsTo
    <3> QED
      BY <3>5
  <2> QED
    BY <2>2, <2>3
<1> QED
  BY <1>1

(* So a proof is folded step by step. *)
LEMMA FoldsClimb ==
  ASSUME NEW base, NEW proof, NEW H \in Nat, DOMAIN proof = 1 .. H
  PROVE  /\ FoldOf(base, proof)[{}] = base
         /\ \A n \in 1 .. H : FoldOf(base, proof)[1 .. n] =
              Parent(FoldOf(base, proof)[1 .. n - 1], proof[n])
<1>1. PICK g : FoldsTo(g, H, base, proof)
  BY FoldsFar
<1> DEFINE i == [s \in SUBSET (1 .. H) |-> g[s]]
<1>2. i = [s \in SUBSET DOMAIN proof |->
             IF s = {} THEN base ELSE Parent(i[s \ {Max(s)}], proof[Max(s)])]
  <2>1. ASSUME NEW s \in SUBSET (1 .. H)
        PROVE  i[s] = IF s = {} THEN base ELSE Parent(i[s \ {Max(s)}], proof[Max(s)])
    <3>1. s \ {Max(s)} \in SUBSET (1 .. H)
      OBVIOUS
    <3> QED
      BY <1>1, <3>1 DEF FoldsTo, FoldStep
  <2>2. i = [s \in SUBSET (1 .. H) |-> i[s]]
    OBVIOUS
  <2> HIDE DEF i
  <2> QED
    BY <2>1, <2>2
<1> HIDE DEF i
<1> PICK f : f = FoldOf(base, proof)
  OBVIOUS
<1>3. f = [s \in SUBSET DOMAIN proof |->
             IF s = {} THEN base ELSE Parent(f[s \ {Max(s)}], proof[Max(s)])]
  BY <1>2 DEF FoldOf
<1>4. f[{}] = base
  BY <1>3
<1>5. ASSUME NEW n \in 1 .. H
      PROVE  f[1 .. n] = Parent(f[1 .. n - 1], proof[n])
  <2>1. 1 .. n \in SUBSET DOMAIN proof /\ 1 .. n # {}
    OBVIOUS
  <2>2. Max(1 .. n) = n
    <3>1. 1 .. n \in SUBSET (0 .. n) /\ n \in Nat /\ n \in 1 .. n
      OBVIOUS
    <3>2. Max(1 .. n) \in 1 .. n /\ n <= Max(1 .. n)
      BY <2>1, <3>1, GreatestNat
    <3> QED
      BY <3>2
  <2>3. (1 .. n) \ {n} = 1 .. n - 1
    OBVIOUS
  <2>4. f[1 .. n] = Parent(f[(1 .. n) \ {Max(1 .. n)}], proof[Max(1 .. n)])
    BY <1>3, <2>1
  <2> QED
    BY <2>2, <2>3, <2>4
<1> QED
  BY <1>4, <1>5

(* The lesser of two numbers. *)
LEMMA MinOfTwo ==
  ASSUME NEW a \in Int, NEW b \in Int
  PROVE  /\ a <= b => Min({a, b}) = a
         /\ b <= a => Min({a, b}) = b
<1>1. \E x \in {a, b} : \A y \in {a, b} : x =< y
  <2>1. CASE a <= b
    BY <2>1
  <2>2. CASE b <= a
    BY <2>2
  <2> QED
    BY <2>1, <2>2
<1>2. Min({a, b}) \in {a, b} /\ \A y \in {a, b} : Min({a, b}) =< y
  BY <1>1 DEF Min
<1>3. Min({a, b}) =< a /\ Min({a, b}) =< b
  BY <1>2
<1> QED
  BY <1>2, <1>3

(* Half of a number, rounded up. *)
LEMMA HalfNumber ==
  ASSUME NEW l \in Nat \ {0}
  PROVE  /\ (l + 1) \div 2 \in Nat \ {0}
         /\ l = 1 => (l + 1) \div 2 = 1
         /\ \A n, N \in Nat : l # 1 /\ l + n <= N => (l + 1) \div 2 + (n + 1) <= N
         /\ \A i \in 1 .. l : (i + 1) \div 2 \in 1 .. (l + 1) \div 2
<1>1. (l + 1) \div 2 \in Nat \ {0}
  OBVIOUS
<1>2. l = 1 => (l + 1) \div 2 = 1
  OBVIOUS
<1>3. ASSUME NEW n \in Nat, NEW N \in Nat, l # 1, l + n <= N
      PROVE  (l + 1) \div 2 + (n + 1) <= N
  <2>1. (l + 1) \div 2 <= l - 1
    BY <1>3
  <2> QED
    BY <1>1, <1>3, <2>1
<1>4. ASSUME NEW i \in 1 .. l PROVE (i + 1) \div 2 \in 1 .. (l + 1) \div 2
  OBVIOUS
<1> QED
  BY <1>1, <1>2, <1>3, <1>4

(* Half of a layer pairs its nodes, an odd last one with itself. *)
LEMMA HalfOf ==
  ASSUME NEW s, NEW l \in Nat \ {0}, Len(s) = l
  PROVE  /\ Len(Half(s)) = (l + 1) \div 2 /\ (l + 1) \div 2 \in Nat \ {0}
         /\ \A i \in 1 .. (l + 1) \div 2 :
              Half(s)[i] = [left |-> s[2 * i - 1], right |-> s[Min({2 * i, l})]]
<1> PICK h : h = (l + 1) \div 2
  OBVIOUS
<1>1. h \in Nat \ {0}
  OBVIOUS
<1>2. Half(s) = [i \in 1 .. h |-> [left |-> s[2 * i - 1], right |-> s[Min({2 * i, l})]]]
  BY DEF Half
<1>3. Len(Half(s)) = h
  <2> DEFINE e(i) == [left |-> s[2 * i - 1], right |-> s[Min({2 * i, l})]]
  <2>1. Half(s) = [i \in 1 .. h |-> e(i)]
    BY <1>2
  <2> HIDE DEF e
  <2> QED
    BY <1>1, <2>1
<1> QED
  BY <1>1, <1>2, <1>3

(* The layers get shorter until one node is left. *)
LEMMA LayersShrink ==
  ASSUME NEW S, NEW h \in Seq(S), h # <<>>
  PROVE  \A n \in Nat : /\ Len(LayerOf(h)[n]) \in Nat \ {0}
                        /\ Len(LayerOf(h)[n]) = 1 \/ Len(LayerOf(h)[n]) + n <= Len(h)
                        /\ n = 0 => Len(LayerOf(h)[n]) = Len(h)
<1> PICK L : L = LayerOf(h)
  OBVIOUS
<1>1. Len(h) \in Nat \ {0} /\ DOMAIN h = 1 .. Len(h)
  BY LenProperties, EmptySeq
<1> DEFINE Good(n) == /\ Len(L[n]) \in Nat \ {0}
                      /\ Len(L[n]) = 1 \/ Len(L[n]) + n <= Len(h)
                      /\ n = 0 => Len(L[n]) = Len(h)
           Bad == {n \in Nat : ~ Good(n)}
<1>2. Good(0)
  <2> DEFINE e(k) == [leaf |-> h[k]]
  <2>1. L[0] = [k \in 1 .. Len(h) |-> e(k)]
    BY <1>1, LayersClimb
  <2> HIDE DEF e
  <2>2. Len(L[0]) = Len(h)
    BY <1>1, <2>1
  <2> QED
    BY <1>1, <2>2
<1>3. ASSUME NEW n \in Nat, Good(n) PROVE Good(n + 1)
  <2> PICK l \in Nat \ {0} : l = Len(L[n])
    BY <1>3
  <2>1. L[n + 1] = Half(L[n])
    BY LayersClimb
  <2>2. Len(L[n + 1]) = (l + 1) \div 2 /\ (l + 1) \div 2 \in Nat \ {0}
    BY <2>1, HalfOf
  <2> PICK m \in Nat \ {0} : m = (l + 1) \div 2
    BY <2>2
  <2>3. m = 1 \/ m + (n + 1) <= Len(h)
    BY <1>1, <1>3, HalfNumber
  <2>7. n + 1 # 0
    OBVIOUS
  <2> QED
    BY <2>2, <2>3, <2>7
<1> HIDE DEF Good
<1>4. Bad = {}
  <2> SUFFICES ASSUME Bad # {} PROVE FALSE
    OBVIOUS
  <2>1. PICK n \in Bad : \A m \in Bad : n <= m
    BY LeastNat
  <2>2. CASE n = 0
    BY <1>2, <2>2
  <2>3. CASE n # 0
    <3>1. n - 1 \in Nat /\ n - 1 \notin Bad
      BY <2>1, <2>3
    <3>2. Good((n - 1) + 1)
      BY <1>3, <3>1
    <3>3. (n - 1) + 1 = n
      OBVIOUS
    <3> QED
      BY <3>2, <3>3
  <2> QED
    BY <2>2, <2>3
<1>5. \A n \in Nat : Good(n)
  BY <1>4
<1> QED
  BY <1>5 DEF Good

(* So there is a height at which one is left. *)
LEMMA HeightIs ==
  ASSUME NEW S, NEW h \in Seq(S), h # <<>>
  PROVE  HeightOf(h) \in 0 .. Len(h) /\ Len(LayerOf(h)[HeightOf(h)]) = 1
<1> PICK L : L = LayerOf(h)
  OBVIOUS
<1>1. \A n \in Nat : Len(L[n]) \in Nat \ {0} /\ (Len(L[n]) = 1 \/ Len(L[n]) + n <= Len(h))
  BY LayersShrink
<1> PICK N \in Nat : N = Len(h)
  BY LenProperties
<1>2. Len(L[N]) = 1
  <2>1. Len(L[N]) \in Nat \ {0} /\ (Len(L[N]) = 1 \/ Len(L[N]) + N <= N)
    BY <1>1
  <2> QED
    BY <2>1
<1> DEFINE T == {n \in Nat : Len(L[n]) = 1}
<1>3. PICK n \in T : \A m \in T : n <= m
  <2>1. T \in SUBSET Nat /\ T # {}
    BY <1>2
  <2> QED
    BY <2>1, LeastNat
<1>4. n \in 0 .. Len(h) /\ Len(L[n]) = 1
  <2>1. n <= N
    BY <1>2, <1>3
  <2> QED
    BY <2>1
<1>5. ASSUME NEW m \in 0 .. n - 1 PROVE Len(L[m]) > 1
  <2>0. \A x \in Nat \ {0} : x # 1 => x > 1
    OBVIOUS
  <2>1. m \in Nat /\ m \notin T
    BY <1>3
  <2>2. PICK l \in Nat \ {0} : l = Len(L[m])
    BY <1>1, <2>1
  <2>3. l # 1
    BY <2>1, <2>2
  <2> QED
    BY <2>0, <2>2, <2>3
<1>6. \E i \in 0 .. Len(h) : /\ Len(LayerOf(h)[i]) = 1
                             /\ \A m \in 0 .. i - 1 : Len(LayerOf(h)[m]) > 1
  BY <1>4, <1>5
<1> QED
  BY <1>6 DEF HeightOf

(* The way up goes through nodes that there are. *)
LEMMA NodesInLayers ==
  ASSUME NEW S, NEW h \in Seq(S), NEW k \in 1 .. Len(h)
  PROVE  \A n \in Nat : NodeOf(k)[n] \in 1 .. Len(LayerOf(h)[n])
<1> PICK L : L = LayerOf(h)
  OBVIOUS
<1> PICK N : N = NodeOf(k)
  OBVIOUS
<1>1. h # <<>>
  OBVIOUS
<1>2. \A n \in Nat : Len(L[n]) \in Nat \ {0}
  BY <1>1, LayersShrink
<1>3. N[0] \in 1 .. Len(L[0])
  BY <1>1, LayersShrink, NodesClimb
<1>4. ASSUME NEW n \in Nat, N[n] \in 1 .. Len(L[n]) PROVE N[n + 1] \in 1 .. Len(L[n + 1])
  <2> PICK l \in Nat \ {0} : l = Len(L[n])
    BY <1>2
  <2> PICK i \in 1 .. l : i = N[n]
    BY <1>4
  <2>1. N[n + 1] = (i + 1) \div 2
    BY NodesClimb
  <2>2. Len(L[n + 1]) = (l + 1) \div 2
    <3>1. L[n + 1] = Half(L[n])
      BY LayersClimb
    <3> QED
      BY <3>1, HalfOf
  <2>3. (i + 1) \div 2 \in 1 .. (l + 1) \div 2
    BY HalfNumber
  <2> QED
    BY <2>1, <2>2, <2>3
<1> DEFINE Bad == {n \in Nat : N[n] \notin 1 .. Len(L[n])}
<1>5. Bad = {}
  <2> SUFFICES ASSUME Bad # {} PROVE FALSE
    OBVIOUS
  <2>1. PICK n \in Bad : \A m \in Bad : n <= m
    BY LeastNat
  <2>2. CASE n = 0
    BY <1>3, <2>2
  <2>3. CASE n # 0
    <3>1. n - 1 \in Nat /\ n - 1 \notin Bad
      BY <2>1, <2>3
    <3>2. N[(n - 1) + 1] \in 1 .. Len(L[(n - 1) + 1])
      BY <1>4, <3>1
    <3>3. (n - 1) + 1 = n
      OBVIOUS
    <3> QED
      BY <3>2, <3>3
  <2> QED
    BY <2>2, <2>3
<1> QED
  BY <1>5

(* A node and the sibling a proof names make their parent. *)
LEMMA SiblingsMake ==
  ASSUME NEW layer, NEW l \in Nat \ {0}, Len(layer) = l, NEW i \in 1 .. l
  PROVE  Parent(layer[i], Sibling(layer, i)) = Half(layer)[(i + 1) \div 2]
<1> PICK j : j = (i + 1) \div 2
  OBVIOUS
<1>1. j \in 1 .. (l + 1) \div 2 /\ j \in Nat
  OBVIOUS
<1>2. Half(layer)[j] = [left |-> layer[2 * j - 1], right |-> layer[Min({2 * j, l})]]
  BY <1>1, HalfOf
<1>3. CASE i % 2 = 1
  <2>1. 2 * j - 1 = i /\ 2 * j = i + 1
    BY <1>3
  <2>2. Sibling(layer, i) = [side |-> "right", node |-> layer[Min({i + 1, l})]]
    BY <1>3 DEF Sibling
  <2>3. Parent(layer[i], Sibling(layer, i)) = [left |-> layer[i], right |-> layer[Min({i + 1, l})]]
    BY <2>2 DEF Parent
  <2> QED
    BY <1>2, <2>1, <2>3
<1>4. CASE ~ (i % 2 = 1)
  <2>1. 2 * j - 1 = i - 1 /\ 2 * j = i
    BY <1>4
  <2>2. Min({i, l}) = i
    BY MinOfTwo
  <2>3. Sibling(layer, i) = [side |-> "left", node |-> layer[i - 1]]
    BY <1>4 DEF Sibling
  <2>4. Parent(layer[i], Sibling(layer, i)) = [left |-> layer[i - 1], right |-> layer[i]]
    BY <2>3 DEF Parent
  <2> QED
    BY <1>2, <2>1, <2>2, <2>4
<1> QED
  BY <1>3, <1>4

(* A proof made for a leaf leads from it to the root, at any place of a tree of
   any size. *)
LEMMA MerkleProofVerifies ==
  ASSUME NEW S, NEW h \in Seq(S), NEW k \in 1 .. Len(h)
  PROVE  VerifyMerkleProof(h[k], MerkleProof(h, k), MerkleRoot(h))
<1> PICK L : L = LayerOf(h)
  OBVIOUS
<1> PICK N : N = NodeOf(k)
  OBVIOUS
<1> PICK H : H = HeightOf(h)
  OBVIOUS
<1> PICK proof : proof = MerkleProof(h, k)
  OBVIOUS
<1>1. h # <<>> /\ Len(h) \in Nat /\ DOMAIN h = 1 .. Len(h)
  BY LenProperties
<1>2. H \in Nat /\ Len(L[H]) = 1
  BY <1>1, HeightIs
<1>3. Layers(h) = [n \in 1 .. H + 1 |-> L[n - 1]]
  BY LayersUnfold
<1>4. Len(Layers(h)) = H + 1
  BY <1>2, <1>3
<1>5. proof = [n \in 1 .. H |-> Sibling(L[n - 1], N[n - 1])]
  <2>1. proof = [n \in 1 .. (H + 1) - 1 |-> Sibling(Layers(h)[n], N[n - 1])]
    BY <1>4, MerkleProofUnfolds
  <2>2. (H + 1) - 1 = H /\ \A n \in 1 .. H : Layers(h)[n] = L[n - 1]
    BY <1>2, <1>3
  <2> QED
    BY <2>1, <2>2
<1>6. MerkleRoot(h) = L[H][1]
  <2>1. H + 1 \in 1 .. H + 1 /\ (H + 1) - 1 = H
    BY <1>2
  <2>2. Layers(h)[H + 1] = L[H]
    BY <1>3, <2>1
  <2> QED
    BY <1>4, <2>2 DEF MerkleRoot, Last
<1> PICK leaf : leaf = [leaf |-> h[k]]
  OBVIOUS
<1> PICK f : f = FoldOf(leaf, proof)
  OBVIOUS
<1>7. /\ f[{}] = leaf /\ DOMAIN proof = 1 .. H
      /\ \A n \in 1 .. H : f[1 .. n] = Parent(f[1 .. n - 1], proof[n])
  <2>1. DOMAIN proof = 1 .. H
    BY <1>5
  <2> QED
    BY <1>2, <2>1, FoldsClimb
<1>8. f[1 .. 0] = L[0][N[0]]
  <2>1. 1 .. 0 = {}
    OBVIOUS
  <2>2. N[0] = k
    BY NodesClimb
  <2>3. L[0] = [i \in DOMAIN h |-> [leaf |-> h[i]]]
    BY LayersClimb
  <2>4. L[0][k] = leaf
    BY <1>1, <2>3
  <2> QED
    BY <1>7, <2>1, <2>2, <2>4
<1>9. ASSUME NEW n \in 0 .. H - 1, f[1 .. n] = L[n][N[n]]
      PROVE  f[1 .. n + 1] = L[n + 1][N[n + 1]]
  <2>1. n \in Nat /\ n + 1 \in 1 .. H /\ (n + 1) - 1 = n
    BY <1>2
  <2>2. f[1 .. n + 1] = Parent(f[1 .. n], proof[n + 1])
    BY <1>7, <2>1
  <2>3. proof[n + 1] = Sibling(L[n], N[n])
    BY <1>5, <2>1
  <2>4. PICK l \in Nat \ {0} : l = Len(L[n])
    BY <1>1, <2>1, LayersShrink
  <2>5. N[n] \in 1 .. l
    BY <2>1, <2>4, NodesInLayers
  <2>6. Parent(L[n][N[n]], Sibling(L[n], N[n])) = Half(L[n])[(N[n] + 1) \div 2]
    BY <2>4, <2>5, SiblingsMake
  <2>7. L[n + 1] = Half(L[n]) /\ N[n + 1] = (N[n] + 1) \div 2
    BY <2>1, LayersClimb, NodesClimb
  <2> QED
    BY <1>9, <2>2, <2>3, <2>6, <2>7
<1> DEFINE Bad == {n \in Nat : n <= H /\ f[1 .. n] # L[n][N[n]]}
<1>10. Bad = {}
  <2> SUFFICES ASSUME Bad # {} PROVE FALSE
    OBVIOUS
  <2>1. PICK n \in Bad : \A m \in Bad : n <= m
    BY LeastNat
  <2>2. CASE n = 0
    BY <1>8, <2>2
  <2>3. CASE n # 0
    <3> PICK m \in Nat : m = n - 1
      BY <2>3
    <3>1. m \notin Bad /\ m \in 0 .. H - 1 /\ n = m + 1 /\ m <= H
      BY <1>2, <2>1
    <3>2. f[1 .. m] = L[m][N[m]]
      BY <3>1
    <3>3. f[1 .. m + 1] = L[m + 1][N[m + 1]]
      BY <1>9, <3>1, <3>2
    <3> QED
      BY <3>1, <3>3
  <2> QED
    BY <2>2, <2>3
<1>11. f[1 .. H] = L[H][N[H]]
  BY <1>2, <1>10
<1>12. N[H] = 1
  <2>1. N[H] \in 1 .. Len(L[H])
    BY <1>2, NodesInLayers
  <2> QED
    BY <1>2, <2>1
<1>13. VerifyMerkleProof(h[k], proof, MerkleRoot(h)) <=> f[DOMAIN proof] = MerkleRoot(h)
  BY VerifyUnfolds
<1> QED
  BY <1>6, <1>7, <1>11, <1>12, <1>13

(* Every entry up to the last that is anchored has a proof that verifies against
   the root on record, whatever anchorings overlapped, failed, landed unseen or
   were cut short, and after erasures too; and a root that is recorded as
   confirmed is the one on chain at its index. *)
THEOREM AnchorsAlwaysProve == Spec => []AnchorsProve
<1>1. AuditInv => AnchorsProve
  <2> SUFFICES ASSUME AuditInv PROVE AnchorsProve
    OBVIOUS
  <2>1. LogInv /\ AnchorInv /\ LogEnd \in Nat
    BY AuditAssumptions DEF AuditInv, LogInv, LogOK
  <2>2. ASSUME NEW n \in 1 .. LastAnchored PROVE Covering(n) # {}
    <3>1. PICK id \in DOMAIN anchors :
            anchors[id].status = "confirmed" /\ anchors[id].from <= n /\ n <= anchors[id].to
      BY <2>1, LastAnchoredIs DEF CoveredTo
    <3>2. anchors[id] \in Covering(n)
      BY <3>1 DEF Covering, ToSet, Valid
    <3> QED
      BY <3>2
  <2>3. ASSUME NEW n \in 1 .. LastAnchored, NEW a \in Covering(n)
        PROVE  VerifyMerkleProof(HashOf(n), MerkleProof(HashesOf(a.from, a.to), n - a.from + 1),
                                 a.root)
    <3>1. PICK id \in DOMAIN anchors : a = anchors[id]
      BY DEF Covering, ToSet
    <3> PICK f : f = a.from
      OBVIOUS
    <3> PICK t : t = a.to
      OBVIOUS
    <3>2. f <= n /\ n <= t
      BY DEF Covering
    <3>3. f \in 1 .. LogEnd /\ t \in 1 .. LogEnd /\ a.root = MerkleRoot(HashesOf(f, t))
      <4>1. f \in 1 .. MaxSeq /\ t \in 1 .. MaxSeq
        BY <2>1, <3>1, AnchorFields
      <4>2. t <= LogEnd /\ f <= t /\ a.root = MerkleRoot(HashesOf(f, t))
        BY <2>1, <3>1 DEF AnchorInv, AnchorOK
      <4> QED
        BY <2>1, <4>1, <4>2, AuditAssumptions
    <3> PICK hashes : hashes = HashesOf(f, t)
      OBVIOUS
    <3>4. hashes \in Seq(Seq(Contents))
      BY <2>1, <3>3, HashesOfType
    <3> PICK k : k = n - f + 1
      OBVIOUS
    <3> PICK l : l = t - f + 1
      OBVIOUS
    <3>5. n \in Nat
      BY <2>1, LastAnchoredIs
    <3>6. l \in Nat /\ k \in 1 .. l /\ f + k - 1 = n
      BY <2>1, <3>2, <3>3, <3>5
    <3>7. hashes = [i \in 1 .. l |-> HashOf(f + i - 1)]
      BY DEF HashesOf
    <3>8. Len(hashes) = l
      <4>1. DOMAIN hashes = 1 .. l /\ DOMAIN hashes = 1 .. Len(hashes) /\ Len(hashes) \in Nat
        BY <3>4, <3>7, LenProperties
      <4> QED
        BY <3>6, <4>1
    <3>9. hashes[k] = HashOf(n)
      BY <3>6, <3>7
    <3>10. VerifyMerkleProof(hashes[k], MerkleProof(hashes, k), MerkleRoot(hashes))
      BY <3>4, <3>6, <3>8, MerkleProofVerifies
    <3> QED
      BY <3>3, <3>9, <3>10
  <2>4. ASSUME NEW a \in ToSet(anchors), a.status = "confirmed"
        PROVE  /\ a.index \in DOMAIN chain
               /\ chain[a.index].root = a.root /\ chain[a.index].count = a.to
    <3>1. PICK id \in DOMAIN anchors : a = anchors[id]
      BY DEF ToSet
    <3>2. a.index \in DOMAIN chain /\ chain[a.index].row = id
      BY <2>1, <2>4, <3>1 DEF AnchorInv, AnchorOK
    <3> QED
      BY <2>1, <3>1, <3>2 DEF AnchorInv, OnChainOK
  <2> QED
    BY <2>2, <2>3, <2>4 DEF AnchorsProve
<1> QED
  BY <1>1, AuditInvAlways, PTL

-----------------------------------------------------------------------------
(* What stays as it is. *)

(* What others may have relied on stays: a committed entry keeps its hash, though
   an erasure rewrite it and appends race; a row of an anchor that has its
   outcome keeps it, though other attempts are under way; and what is on chain
   stays there. *)
RecordStays ==
  [][/\ \A n \in 1 .. LogEnd : HashOf(n)' = HashOf(n)
     /\ \A id \in DOMAIN anchors : anchors[id].status # "pending" => anchors'[id] = anchors[id]
     /\ \A i \in DOMAIN chain : chain'[i] = chain[i]]_vars

(* Only an insert changes the log, and then every entry keeps its hash. *)
LEMMA LogKeptNext ==
  ASSUME LogInv, [Next]_vars
  PROVE  LogKept
<1>1. CASE log' = log
  <2>1. LogEnd' = LogEnd /\ \A n : HashOf(n)' = HashOf(n)
    BY <1>1 DEF LogEnd, HashOf, Row
  <2>2. LogEnd \in Nat /\ LogEnd \in 0 .. MaxSeq
    BY AuditAssumptions DEF LogInv, LogOK
  <2> QED
    BY <2>1, <2>2 DEF LogKept
<1>2. ASSUME NEW p \in Procs, Insert(p) PROVE LogKept
  BY <1>2, InsertKeepsLog
<1> QED
  BY <1>1, <1>2
  DEF Next, vars, Ask, ReadTail, Rewrite, Look, NothingNew, Begin, Send, Confirm, Fail, Outcome,
      AnchorRoot, Drop, Crash

(* An outcome is recorded by the one process that speaks for a pending row. *)
LEMMA OutcomesStay ==
  ASSUME AnchorInv, at \in [Procs -> Places], [Next]_vars
  PROVE  \A id \in DOMAIN anchors : anchors[id].status # "pending" => anchors'[id] = anchors[id]
<1> SUFFICES ASSUME NEW id \in DOMAIN anchors, anchors[id].status # "pending"
             PROVE  anchors'[id] = anchors[id]
  OBVIOUS
<1>1. ASSUME NEW p \in Procs, Begin(p) PROVE anchors'[id] = anchors[id]
  <2>1. PICK a : anchors' = Append(anchors, a)
    BY <1>1 DEF Begin
  <2>2. id \in 1 .. Len(anchors)
    BY LenProperties DEF AnchorInv
  <2> QED
    BY <2>1, <2>2 DEF AnchorInv
<1>2. ASSUME NEW p \in Procs, NEW status, NEW index, Speaks(p), Outcome(p, status, index)
      PROVE  anchors'[id] = anchors[id]
  <2>1. at[p].row \in DOMAIN anchors /\ at[p].row # id
    BY <1>2 DEF AnchorInv, AnchorerOK
  <2> QED
    BY <1>2, <2>1 DEF Outcome
<1>3. ASSUME NEW p \in Anchorers, Confirm(p) \/ Fail(p) PROVE anchors'[id] = anchors[id]
  BY <1>2, <1>3 DEF Confirm, Fail, Speaks, Procs
<1>4. ASSUME NEW p \in Anchorers, Begin(p) PROVE anchors'[id] = anchors[id]
  BY <1>1, <1>4 DEF Procs
<1>5. CASE UNCHANGED anchors
  BY <1>5
<1> QED
  BY <1>3, <1>4, <1>5
  DEF Next, vars, Ask, ReadTail, Insert, Rewrite, Look, NothingNew, Send, AnchorRoot, Drop, Crash

(* The contract only appends. *)
LEMMA ChainStays ==
  ASSUME AnchorInv, [Next]_vars
  PROVE  \A i \in DOMAIN chain : chain'[i] = chain[i]
<1>1. ASSUME NEW id, AnchorRoot(id), NEW i \in DOMAIN chain PROVE chain'[i] = chain[i]
  <2>1. PICK c : chain' = Append(chain, c)
    BY <1>1 DEF AnchorRoot
  <2>2. i \in 1 .. Len(chain)
    BY LenProperties DEF AnchorInv
  <2> QED
    BY <2>1, <2>2 DEF AnchorInv
<1>2. CASE UNCHANGED chain
  BY <1>2
<1> QED
  BY <1>1, <1>2
  DEF Next, vars, Ask, ReadTail, Insert, Rewrite, Look, NothingNew, Begin, Send, Confirm, Fail,
      Outcome, Drop, Crash

(* A committed entry keeps its hash, whatever is rewritten and appended beside
   it; a row of an anchor keeps its outcome, whatever other attempts are under
   way; and what is on chain stays there. *)
THEOREM RecordAlwaysStays == Spec => RecordStays
<1>1. ASSUME AuditInv, [Next]_vars
      PROVE  /\ \A n \in 1 .. LogEnd : HashOf(n)' = HashOf(n)
             /\ \A id \in DOMAIN anchors :
                  anchors[id].status # "pending" => anchors'[id] = anchors[id]
             /\ \A i \in DOMAIN chain : chain'[i] = chain[i]
  <2>1. LogKept /\ LogEnd \in Nat
    BY <1>1, LogKeptNext, AuditAssumptions DEF AuditInv, LogInv, LogOK
  <2>2. \A n \in 1 .. LogEnd : HashOf(n)' = HashOf(n)
    BY <2>1 DEF LogKept
  <2>3. at \in [Procs -> Places]
    BY <1>1 DEF AuditInv, LogInv
  <2> QED
    BY <1>1, <2>2, <2>3, OutcomesStay, ChainStays DEF AuditInv
<1> QED
  BY <1>1, AuditInvAlways, PTL DEF Spec, RecordStays
=============================================================================
