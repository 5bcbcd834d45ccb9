------------------------------ MODULE Channels ------------------------------
(***************************************************************************)
(* The on-chain half of bidirectional payment channels                     *)
(* (contract/contracts/channels/src/lib.rs and state.rs).  A channel is    *)
(* funded by both parties, its balance moves off chain in dual-signed      *)
(* states, and the contract is called only to open it, to close it or to   *)
(* adjudicate a stale close.  One transaction is one atomic step.          *)
(*                                                                         *)
(* A signature is abstracted to the key it verifies under, a revocation    *)
(* commitment to the secret that opens it (sha256 is injective here).      *)
(***************************************************************************)
EXTENDS Integers, FiniteSets

CONSTANTS Parties,      \* addresses: channel parties and onlookers
          Tokens,       \* token contracts
          Keys,         \* Ed25519 public keys
          Secrets,      \* revocation secrets, and their hashes
          None,         \* "not on record"
          SignedStates, \* the dual-signed states that get submitted
          MaxChannels,  \* bound: channels opened
          MaxDeposit,   \* bound: one party's deposit
          MaxBalance,   \* largest balance a signed state can carry (u64)
          MaxVersion,   \* bound: state versions
          Window,       \* DISPUTE_WINDOW_SECS
          MaxTime       \* bound: ledger timestamps

Ids == 1 .. MaxChannels

(* ChannelState; the keys stand for sig_a and sig_b. *)
ChannelStates ==
  [channel_id : Ids, version : 0 .. MaxVersion,
   balance_a : 0 .. MaxBalance, balance_b : 0 .. MaxBalance,
   commit_a : Secrets, commit_b : Secrets,
   key_a : Keys, key_b : Keys]

ASSUME ChannelAssumptions ==
  /\ SignedStates \subseteq ChannelStates
  /\ None \notin Parties /\ None \notin Tokens
  /\ None \notin Keys /\ None \notin Secrets
  /\ MaxChannels \in Nat /\ MaxDeposit \in Nat /\ MaxBalance \in Nat
  /\ MaxVersion \in Nat /\ Window \in Nat /\ MaxTime \in Nat

VARIABLES pubkey,    \* ChannelPubKey: party -> registered key
          nextId,    \* CH_NEXT: channels opened so far
          status,    \* Channel.status, "Absent" before open_channel
          channel,   \* the other fields of Channel, fixed at opening
          pending,   \* PendingClose
          escrow,    \* the contract's balance of each token
          wallet,    \* everyone else's balance of each token
          now        \* ledger timestamp

vars == <<pubkey, nextId, status, channel, pending, escrow, wallet, now>>

NoChannel == [party_a |-> None, party_b |-> None, token |-> None,
              deposit_a |-> 0, deposit_b |-> 0]
NoPending == [closer |-> None, deadline |-> 0, version |-> 0,
              balance_a |-> 0, balance_b |-> 0,
              commit_a |-> None, commit_b |-> None]

(* The pending close a state s leads to. *)
RestingOn(closer, deadline, s) ==
  [closer |-> closer, deadline |-> deadline, version |-> s.version,
   balance_a |-> s.balance_a, balance_b |-> s.balance_b,
   commit_a |-> s.commit_a, commit_b |-> s.commit_b]

Total(c) == channel[c].deposit_a + channel[c].deposit_b
PartiesOf(c) == {channel[c].party_a, channel[c].party_b}

-----------------------------------------------------------------------------
Init == /\ pubkey = [p \in Parties |-> None]
        /\ nextId = 0
        /\ status = [c \in Ids |-> "Absent"]
        /\ channel = [c \in Ids |-> NoChannel]
        /\ pending = [c \in Ids |-> NoPending]
        /\ escrow = [t \in Tokens |-> 0]
        /\ wallet = [t \in Tokens |-> [p \in Parties |-> 2 * MaxDeposit]]
        /\ now = 0

(* verify_dual_signature: both signatures verify under the keys registered
   now, whatever keys were registered when the state was signed. *)
VerifyDualSignature(c, s) == /\ s.key_a = pubkey[channel[c].party_a]
                             /\ s.key_b = pubkey[channel[c].party_b]

(* Mutant of RequireConserved: a state may pay out more than is locked. *)
MutCreateMoney(c, s) == s.balance_a + s.balance_b >= Total(c)

RequireConserved(c, s) == s.balance_a + s.balance_b = Total(c)

(* What close_cooperative, close_unilateral and dispute ask of a state. *)
Acceptable(c, s) == /\ s.channel_id = c
                    /\ VerifyDualSignature(c, s)
                    /\ RequireConserved(c, s)

(* Two transfers out of the contract, x to party A and y to party B. *)
PayOut(c, x, y) ==
  LET t == channel[c].token
  IN /\ wallet' = [wallet EXCEPT ![t][channel[c].party_a] = @ + x,
                                 ![t][channel[c].party_b] = @ + y]
     /\ escrow' = [escrow EXCEPT ![t] = @ - (x + y)]

(* Mutant of Finish: the closed channel is not saved. *)
MutFinishUnsaved(c) == /\ pending' = [pending EXCEPT ![c] = NoPending]
                       /\ UNCHANGED <<pubkey, nextId, status, channel, now>>

(* The channel is saved as Closed and its pending close removed. *)
Finish(c) == /\ status' = [status EXCEPT ![c] = "Closed"]
             /\ pending' = [pending EXCEPT ![c] = NoPending]
             /\ UNCHANGED <<pubkey, nextId, channel, now>>

-----------------------------------------------------------------------------
RegisterChannelKey(p, k) ==
  /\ pubkey' = [pubkey EXCEPT ![p] = k]
  /\ UNCHANGED <<nextId, status, channel, pending, escrow, wallet, now>>

OpenChannel(a, b, t, x, y) ==
  LET c == nextId + 1
  IN /\ nextId < MaxChannels
     /\ a # b
     /\ x + y > 0
     /\ pubkey[a] # None /\ pubkey[b] # None
     /\ wallet[t][a] >= x /\ wallet[t][b] >= y
     /\ wallet' = [wallet EXCEPT ![t][a] = @ - x, ![t][b] = @ - y]
     /\ escrow' = [escrow EXCEPT ![t] = @ + (x + y)]
     /\ nextId' = c
     /\ channel' = [channel EXCEPT ![c] =
                      [party_a |-> a, party_b |-> b, token |-> t,
                       deposit_a |-> x, deposit_b |-> y]]
     /\ status' = [status EXCEPT ![c] = "Open"]
     /\ UNCHANGED <<pubkey, pending, now>>

(* Mutant of CloseCooperative: a closed channel can be closed again. *)
MutCloseCooperativeAgain(c, s) ==
  /\ status[c] # "Absent"
  /\ Acceptable(c, s)
  /\ PayOut(c, s.balance_a, s.balance_b)
  /\ Finish(c)

(* Anyone may submit it, before or during a dispute. *)
CloseCooperative(c, s) ==
  /\ status[c] \in {"Open", "Closing"}
  /\ Acceptable(c, s)
  /\ PayOut(c, s.balance_a, s.balance_b)
  /\ Finish(c)

(* Bound: no close starts that would outlast MaxTime. *)
CloseUnilateral(closer, c, s) ==
  /\ status[c] = "Open"
  /\ closer \in PartiesOf(c)
  /\ Acceptable(c, s)
  /\ now + Window <= MaxTime
  /\ pending' = [pending EXCEPT ![c] = RestingOn(closer, now + Window, s)]
  /\ status' = [status EXCEPT ![c] = "Closing"]
  /\ UNCHANGED <<pubkey, nextId, channel, escrow, wallet, now>>

(* Mutant of Dispute: the pending close is replaced wholesale, deadline and all. *)
MutDisputeRestarts(challenger, c, s) ==
  /\ status[c] = "Closing"
  /\ challenger \in PartiesOf(c)
  /\ Acceptable(c, s)
  /\ s.version > pending[c].version
  /\ pending' = [pending EXCEPT ![c] = RestingOn(challenger, now + Window, s)]
  /\ UNCHANGED <<pubkey, nextId, status, channel, escrow, wallet, now>>

(* Mutant of Dispute: the later state's balances are not checked. *)
MutDisputeUnchecked(challenger, c, s) ==
  /\ status[c] = "Closing"
  /\ challenger \in PartiesOf(c)
  /\ s.channel_id = c /\ VerifyDualSignature(c, s)
  /\ s.version > pending[c].version
  /\ pending' = [pending EXCEPT ![c] =
                   RestingOn(@.closer, @.deadline, s)]
  /\ UNCHANGED <<pubkey, nextId, status, channel, escrow, wallet, now>>

(* The deadline is not consulted: a dispute succeeds until somebody calls
   force_close. *)
Dispute(challenger, c, s) ==
  /\ status[c] = "Closing"
  /\ challenger \in PartiesOf(c)
  /\ Acceptable(c, s)
  /\ s.version > pending[c].version
  /\ pending' = [pending EXCEPT ![c] =
                   RestingOn(@.closer, @.deadline, s)]
  /\ UNCHANGED <<pubkey, nextId, status, channel, escrow, wallet, now>>

(* Mutant of Punish: anyone who learns a secret names themselves. *)
MutPunishByAnyone(challenger, c, secret) ==
  /\ status[c] = "Closing"
  /\ challenger # pending[c].closer
  /\ secret \in {pending[c].commit_a, pending[c].commit_b}
  /\ wallet' = [wallet EXCEPT ![channel[c].token][challenger] = @ + Total(c)]
  /\ escrow' = [escrow EXCEPT ![channel[c].token] = @ - Total(c)]
  /\ Finish(c)

(* The secret may open either party's commitment; the challenger, whichever of
   the two parties that is, is paid the whole amount. *)
PunishWith(challenger, c, secret, payout) ==
  /\ status[c] = "Closing"
  /\ challenger \in PartiesOf(c)
  /\ challenger # pending[c].closer
  /\ secret \in {pending[c].commit_a, pending[c].commit_b}
  /\ PayOut(c, IF challenger = channel[c].party_a THEN payout ELSE 0,
               IF challenger = channel[c].party_b THEN payout ELSE 0)
  /\ Finish(c)

(* Mutant of Punish: only the other party's deposit is handed over. *)
MutPunishInPart(challenger, c, secret) ==
  PunishWith(challenger, c, secret,
             IF challenger = channel[c].party_a THEN channel[c].deposit_b
                                                ELSE channel[c].deposit_a)

Punish(challenger, c, secret) == PunishWith(challenger, c, secret, Total(c))

ForceClose(c) ==
  /\ status[c] = "Closing"
  /\ now >= pending[c].deadline
  /\ PayOut(c, pending[c].balance_a, pending[c].balance_b)
  /\ Finish(c)

(* A ledger closes. *)
Tick == /\ now < MaxTime
        /\ now' = now + 1
        /\ UNCHANGED <<pubkey, nextId, status, channel, pending, escrow, wallet>>

Next ==
  \/ \E p \in Parties, k \in Keys : RegisterChannelKey(p, k)
  \/ \E a, b \in Parties, t \in Tokens, x, y \in 0 .. MaxDeposit :
       OpenChannel(a, b, t, x, y)
  \/ \E c \in Ids, s \in SignedStates :
       \/ CloseCooperative(c, s)
       \/ \E p \in Parties : CloseUnilateral(p, c, s) \/ Dispute(p, c, s)
  \/ \E c \in Ids, p \in Parties, secret \in Secrets : Punish(p, c, secret)
  \/ \E c \in Ids : ForceClose(c)
  \/ Tick

Spec == Init /\ [][Next]_vars

(* Ledgers keep closing, and force_close is open to anyone, so somebody who
   wants the money out eventually calls it. *)
Fairness == WF_vars(Tick) /\ \A c \in Ids : WF_vars(ForceClose(c))
FairSpec == Spec /\ Fairness

-----------------------------------------------------------------------------
Live(c) == status[c] \in {"Open", "Closing"}

(* The units of token t that live channels are owed. *)
Owed(t) == {u \in Ids \X (1 .. 2 * MaxDeposit) :
              /\ Live(u[1])
              /\ channel[u[1]].token = t
              /\ u[2] <= Total(u[1])}

(* The variables other than the pool of tokens. *)
RecordsOK ==
  /\ pubkey \in [Parties -> Keys \cup {None}]
  /\ nextId \in 0 .. MaxChannels
  /\ status \in [Ids -> {"Absent", "Open", "Closing", "Closed"}]
  /\ channel \in [Ids -> [party_a : Parties \cup {None},
                          party_b : Parties \cup {None},
                          token : Tokens \cup {None},
                          deposit_a : 0 .. MaxDeposit,
                          deposit_b : 0 .. MaxDeposit]]
  /\ pending \in [Ids -> [closer : Parties \cup {None}, deadline : Nat,
                          version : 0 .. MaxVersion,
                          balance_a : 0 .. MaxBalance,
                          balance_b : 0 .. MaxBalance,
                          commit_a : Secrets \cup {None},
                          commit_b : Secrets \cup {None}]]
  /\ wallet \in [Tokens -> [Parties -> Nat]]
  /\ now \in 0 .. MaxTime

(* Every variable ranges over the values the contract's types allow; the pool
   and the wallets are token balances and never go negative. *)
TypeOK == RecordsOK /\ escrow \in [Tokens -> Nat]

(* The contract pools all channels of a token in one balance, and that pool
   holds exactly the deposits of the channels not yet closed: no close, dispute
   or punishment of one channel ever pays out of another's money. *)
EscrowBacked == \A t \in Tokens : escrow[t] = Cardinality(Owed(t))

(* A pending close exists exactly while its channel is Closing (load_pending
   would trap otherwise), was made by one of the two parties, and whatever
   state it has come to rest on still splits exactly the deposits. *)
PendingCoversDeposits ==
  \A c \in Ids :
    /\ (pending[c].closer # None) = (status[c] = "Closing")
    /\ status[c] = "Closing" =>
         /\ pending[c].closer \in PartiesOf(c)
         /\ pending[c].balance_a + pending[c].balance_b = Total(c)

(* While a close is pending, it only ever moves to a higher version, and it
   keeps its closer and its deadline: a dispute never buys time and never
   shifts the blame that punish goes by. *)
PendingOnlyRises ==
  [][\A c \in Ids :
       status[c] = "Closing" /\ status'[c] = "Closing" =>
         /\ pending'[c].closer = pending[c].closer
         /\ pending'[c].deadline = pending[c].deadline
         /\ \/ pending'[c] = pending[c]
            \/ pending'[c].version > pending[c].version]_vars

(* A step enriches an address only by closing a live channel it is a party of,
   and a closed channel stays closed for ever. *)
PaidOnlyToParties ==
  [][/\ \A t \in Tokens, p \in Parties :
          wallet'[t][p] > wallet[t][p] =>
            \E c \in Ids : /\ Live(c) /\ status'[c] = "Closed"
                           /\ channel[c].token = t
                           /\ p \in PartiesOf(c)
     /\ \A c \in Ids : status[c] = "Closed" => status'[c] = "Closed"]_vars

(* Money is never stuck behind a dispute: a pending close is eventually
   resolved, whatever the parties do. *)
CloseResolves == \A c \in Ids : status[c] = "Closing" ~> status[c] = "Closed"

(* The contract implements the escrow it promises. *)
StageOf(st) == CASE st = "Absent" -> "Idle"
                 [] st = "Closed" -> "Settled"
                 [] OTHER -> "Live"

Escrow == INSTANCE ChannelEscrow WITH
  stage <- [c \in Ids |-> StageOf(status[c])],
  stake <- [c \in Ids |-> [a |-> channel[c].party_a, b |-> channel[c].party_b,
                           token |-> channel[c].token, amount |-> Total(c)]],
  balances <- wallet

(* Every behaviour of the contract is a behaviour of ChannelEscrow: a stake is
   settled once, whole, between the two parties that put it in. *)
ImplementsEscrow == Escrow!Spec
=============================================================================
