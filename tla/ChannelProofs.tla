---------------------------- MODULE ChannelProofs -----------------------------
(***************************************************************************)
(* Theorems about the channels contract, and about the negotiation of a    *)
(* channel's states and the punishing of stale closes over it, for every   *)
(* value of the constants: any number of channels and versions, any split, *)
(* any loss, repetition and reordering of messages.                        *)
(*                                                                         *)
(* The contract.  RecordInv says that the records on the ledger are well   *)
(* formed: RecordsOK, ChannelInv (a channel on record has two different    *)
(* parties, a token and a positive stake, ids above nextId are unused) and *)
(* PendingCoversDeposits.  EscrowBacked is inductive relative to it, by    *)
(* counting the units of value live channels are owed; type correctness of *)
(* the pool and the refinement of ChannelEscrow follow.                    *)
(*                                                                         *)
(* The protocol.  ProtocolInv rests on three facts.  A party signs one     *)
(* state of a version at most, since its own slot of that version fills    *)
(* when it signs; a state that anybody holds was signed by both; and a     *)
(* secret is on record as revealed only once both its owner and whoever    *)
(* holds the record have moved past its version.                           *)
(***************************************************************************)
EXTENDS ChannelProtocol, FiniteSetTheorems, TLAPS

(* A channel on record is well formed, and ids above nextId are unused. *)
ChannelInv ==
  \A c \in Ids :
    /\ c > nextId => status[c] = "Absent"
    /\ status[c] = "Absent" => channel[c] = NoChannel
    /\ status[c] # "Absent" =>
         /\ channel[c].party_a \in Parties /\ channel[c].party_b \in Parties
         /\ channel[c].party_a # channel[c].party_b
         /\ channel[c].token \in Tokens
         /\ Total(c) > 0

RecordInv == /\ RecordsOK
             /\ ChannelInv
             /\ PendingCoversDeposits
             /\ escrow \in [Tokens -> Int]

-----------------------------------------------------------------------------
(* Adding to, or taking a covered amount from, two accounts keeps a ledger of
   non-negative balances. *)
LEMMA TwoTransfers ==
  ASSUME NEW w \in [Tokens -> [Parties -> Nat]], NEW t \in Tokens,
         NEW a \in Parties, NEW b \in Parties, a # b,
         NEW x \in Int, NEW y \in Int, w[t][a] + x >= 0, w[t][b] + y >= 0,
         NEW v, v = [w EXCEPT ![t][a] = @ + x, ![t][b] = @ + y]
  PROVE  v \in [Tokens -> [Parties -> Nat]]
<1>1. v[t] = [w[t] EXCEPT ![a] = @ + x, ![b] = @ + y]
  OBVIOUS
<1>2. v[t] \in [Parties -> Nat]
  BY <1>1
<1>3. \A u \in Tokens : u # t => v[u] = w[u]
  OBVIOUS
<1>4. \A u \in Tokens : v[u] \in [Parties -> Nat]
  BY <1>2, <1>3
<1> QED
  BY <1>4

(* A closing step hands x to party A and y to party B of a live channel. *)
LEMMA PayOutKeepsRecords ==
  ASSUME RecordInv, NEW c \in Ids, Live(c), NEW x \in Nat, NEW y \in Nat,
         PayOut(c, x, y), Finish(c)
  PROVE  RecordInv'
<1> USE ChannelAssumptions DEF RecordInv, Live
<1>1. /\ channel[c].party_a \in Parties /\ channel[c].party_b \in Parties
      /\ channel[c].party_a # channel[c].party_b
      /\ channel[c].token \in Tokens
  BY DEF ChannelInv
<1>2. wallet' \in [Tokens -> [Parties -> Nat]]
  <2> DEFINE t == channel[c].token
             a == channel[c].party_a
             b == channel[c].party_b
  <2>1. /\ wallet \in [Tokens -> [Parties -> Nat]]
        /\ wallet' = [wallet EXCEPT ![t][a] = @ + x, ![t][b] = @ + y]
    BY DEF RecordsOK, PayOut
  <2>2. t \in Tokens /\ a \in Parties /\ b \in Parties /\ a # b
    BY <1>1
  <2>3. wallet[t][a] + x >= 0 /\ wallet[t][b] + y >= 0
    BY <2>1, <2>2
  <2> HIDE DEF t, a, b
  <2> QED
    BY <2>1, <2>2, <2>3, TwoTransfers
<1>3. pending' \in [Ids -> [closer : Parties \cup {None}, deadline : Nat,
                          version : 0 .. MaxVersion,
                          balance_a : 0 .. MaxBalance,
                          balance_b : 0 .. MaxBalance,
                          commit_a : Secrets \cup {None},
                          commit_b : Secrets \cup {None}]]
  BY DEF RecordsOK, Finish, NoPending
<1>4. RecordsOK' /\ escrow' \in [Tokens -> Int]
  BY <1>1, <1>2, <1>3 DEF RecordsOK, PayOut, Finish
<1>5. ChannelInv'
  BY DEF ChannelInv, Finish, RecordsOK, Total
<1>6. PendingCoversDeposits'
  BY DEF PendingCoversDeposits, Finish, RecordsOK, Total, PartiesOf, NoPending
<1> QED
  BY <1>4, <1>5, <1>6

(* A punishment is such a payment too: the stake to one side, nothing to the
   other. *)
LEMMA PunishmentIsPayOut ==
  ASSUME RecordInv, NEW c \in Ids, NEW p \in Parties, NEW secret \in Secrets,
         Punish(p, c, secret)
  PROVE  \E x, y \in Nat : x + y = Total(c) /\ PayOut(c, x, y)
<1>1. Total(c) \in Nat
  BY ChannelAssumptions DEF RecordInv, RecordsOK, Total
<1>2. channel[c].party_a # channel[c].party_b /\ p \in PartiesOf(c)
  BY DEF RecordInv, ChannelInv, Punish, PunishWith
<1>3. CASE p = channel[c].party_a
  <2>1. PayOut(c, Total(c), 0)
    BY <1>2, <1>3 DEF Punish, PunishWith
  <2> QED
    BY <1>1, <2>1
<1>4. CASE p = channel[c].party_b
  <2>1. PayOut(c, 0, Total(c))
    BY <1>2, <1>4 DEF Punish, PunishWith
  <2> QED
    BY <1>1, <2>1
<1> QED
  BY <1>2, <1>3, <1>4 DEF PartiesOf

(* Opening writes a well-formed record at an unused id. *)
LEMMA OpenKeepsRecords ==
  ASSUME RecordInv, NEW a \in Parties, NEW b \in Parties, NEW t \in Tokens,
         NEW x \in 0 .. MaxDeposit, NEW y \in 0 .. MaxDeposit,
         OpenChannel(a, b, t, x, y)
  PROVE  RecordInv'
<1> USE ChannelAssumptions DEF RecordInv
<1> DEFINE c == nextId + 1
<1>1. c \in Ids /\ nextId \in Nat /\ Ids \subseteq Nat /\ status[c] = "Absent"
  BY DEF OpenChannel, RecordsOK, ChannelInv, Ids
<1>2. wallet' \in [Tokens -> [Parties -> Nat]]
  <2>1. /\ wallet \in [Tokens -> [Parties -> Nat]]
        /\ wallet' = [wallet EXCEPT ![t][a] = @ - x, ![t][b] = @ - y]
        /\ wallet[t][a] >= x /\ wallet[t][b] >= y /\ a # b
    BY DEF RecordsOK, OpenChannel
  <2>2. wallet' = [wallet EXCEPT ![t][a] = @ + (-x), ![t][b] = @ + (-y)]
    BY <2>1
  <2> QED
    BY <2>1, <2>2, TwoTransfers
<1>3. RecordsOK' /\ escrow' \in [Tokens -> Int]
  <2>1. /\ status' = [status EXCEPT ![c] = "Open"]
        /\ channel' = [channel EXCEPT ![c] =
             [party_a |-> a, party_b |-> b, token |-> t,
              deposit_a |-> x, deposit_b |-> y]]
        /\ nextId' = c /\ UNCHANGED <<pubkey, pending, now>>
        /\ escrow' = [escrow EXCEPT ![t] = @ + (x + y)]
    BY DEF OpenChannel
  <2>2. nextId' \in 0 .. MaxChannels
    BY <1>1, <2>1 DEF OpenChannel
  <2>3. channel' \in [Ids -> [party_a : Parties \cup {None},
                             party_b : Parties \cup {None},
                             token : Tokens \cup {None},
                             deposit_a : 0 .. MaxDeposit,
                             deposit_b : 0 .. MaxDeposit]]
    BY <1>1, <2>1 DEF RecordsOK
  <2> QED
    BY <1>1, <1>2, <2>1, <2>2, <2>3 DEF RecordsOK
<1>4. ChannelInv'
  <2> SUFFICES ASSUME NEW d \in Ids
               PROVE  ChannelInv!(d)'
    BY DEF ChannelInv
  <2>1. CASE d = c
    <3>1. channel'[d] = [party_a |-> a, party_b |-> b, token |-> t,
                         deposit_a |-> x, deposit_b |-> y]
      BY <1>1, <2>1 DEF OpenChannel, RecordsOK
    <3>2. nextId' = d /\ status'[d] = "Open" /\ a # b /\ x + y > 0
      BY <1>1, <2>1 DEF OpenChannel, RecordsOK
    <3> QED
      BY <1>1, <3>1, <3>2 DEF Total
  <2>2. CASE d # c
    <3>1. channel'[d] = channel[d] /\ status'[d] = status[d]
      BY <1>1, <2>2 DEF OpenChannel, RecordsOK
    <3>2. d > nextId' => d > nextId
      BY <1>1 DEF OpenChannel
    <3> QED
      BY <3>1, <3>2 DEF ChannelInv, Total
  <2> QED
    BY <2>1, <2>2
<1>5. PendingCoversDeposits'
  BY <1>1 DEF PendingCoversDeposits, OpenChannel, RecordsOK, Total, PartiesOf
<1> QED
  BY <1>3, <1>4, <1>5

(* A unilateral close writes a pending close that splits the deposits. *)
LEMMA CloseUnilateralKeepsRecords ==
  ASSUME RecordInv, NEW c \in Ids, NEW p \in Parties, NEW s \in SignedStates,
         CloseUnilateral(p, c, s)
  PROVE  RecordInv'
<1> USE ChannelAssumptions DEF RecordInv, CloseUnilateral, ChannelStates, RestingOn
<1>1. /\ s.version \in 0 .. MaxVersion
      /\ s.balance_a \in 0 .. MaxBalance /\ s.balance_b \in 0 .. MaxBalance
      /\ s.commit_a \in Secrets /\ s.commit_b \in Secrets
      /\ now + Window \in Nat
  BY DEF RecordsOK
<1>2. RecordsOK'
  BY <1>1 DEF RecordsOK
<1>3. ChannelInv'
  BY DEF ChannelInv, RecordsOK, Total
<1>4. PendingCoversDeposits'
  BY DEF PendingCoversDeposits, RecordsOK, Total, PartiesOf, Acceptable,
         RequireConserved
<1> QED
  BY <1>2, <1>3, <1>4

(* So does the state that corrects it. *)
LEMMA DisputeKeepsRecords ==
  ASSUME RecordInv, NEW c \in Ids, NEW p \in Parties, NEW s \in SignedStates,
         Dispute(p, c, s)
  PROVE  RecordInv'
<1> USE ChannelAssumptions DEF RecordInv, Dispute, ChannelStates, RestingOn
<1>1. /\ s.version \in 0 .. MaxVersion
      /\ s.balance_a \in 0 .. MaxBalance /\ s.balance_b \in 0 .. MaxBalance
      /\ s.commit_a \in Secrets /\ s.commit_b \in Secrets
  OBVIOUS
<1>2. /\ pending[c].closer \in Parties \cup {None}
      /\ pending[c].deadline \in Nat
  BY DEF RecordsOK
<1>3. RecordsOK'
  BY <1>1, <1>2 DEF RecordsOK
<1>4. ChannelInv'
  BY DEF ChannelInv, RecordsOK, Total
<1>5. PendingCoversDeposits'
  BY <1>2 DEF PendingCoversDeposits, RecordsOK, Total, PartiesOf, Acceptable,
         RequireConserved
<1> QED
  BY <1>3, <1>4, <1>5

(* Registering a key touches no channel. *)
LEMMA RegisterKeepsRecords ==
  ASSUME RecordInv, NEW p \in Parties, NEW k \in Keys, RegisterChannelKey(p, k)
  PROVE  RecordInv'
BY DEF RecordInv, RegisterChannelKey, RecordsOK, ChannelInv,
       PendingCoversDeposits, Total, PartiesOf

(* Nor does a step that changes the clock only. *)
LEMMA RecordsStable ==
  ASSUME RecordInv,
         UNCHANGED <<pubkey, nextId, status, channel, pending, escrow, wallet>>,
         now' \in 0 .. MaxTime
  PROVE  RecordInv'
BY DEF RecordInv, RecordsOK, ChannelInv, PendingCoversDeposits, Total, PartiesOf

(* What a step of the contract is, with each closing action reduced to the
   payment it makes. *)
LEMMA RecordInvNext == RecordInv /\ [Next]_vars => RecordInv'
<1> SUFFICES ASSUME RecordInv, [Next]_vars PROVE RecordInv'
  OBVIOUS
<1> USE DEF Live
<1>1. ASSUME NEW p \in Parties, NEW k \in Keys, RegisterChannelKey(p, k)
      PROVE  RecordInv'
  BY <1>1, RegisterKeepsRecords
<1>2. ASSUME NEW a \in Parties, NEW b \in Parties, NEW t \in Tokens,
             NEW x \in 0 .. MaxDeposit, NEW y \in 0 .. MaxDeposit,
             OpenChannel(a, b, t, x, y)
      PROVE  RecordInv'
  BY <1>2, OpenKeepsRecords
<1>3. ASSUME NEW c \in Ids, NEW s \in SignedStates, CloseCooperative(c, s)
      PROVE  RecordInv'
  <2>1. s.balance_a \in Nat /\ s.balance_b \in Nat
    BY ChannelAssumptions DEF ChannelStates
  <2> QED
    BY <1>3, <2>1, PayOutKeepsRecords DEF CloseCooperative
<1>4. ASSUME NEW c \in Ids, NEW s \in SignedStates, NEW p \in Parties,
             CloseUnilateral(p, c, s)
      PROVE  RecordInv'
  BY <1>4, CloseUnilateralKeepsRecords
<1>5. ASSUME NEW c \in Ids, NEW s \in SignedStates, NEW p \in Parties,
             Dispute(p, c, s)
      PROVE  RecordInv'
  BY <1>5, DisputeKeepsRecords
<1>6. ASSUME NEW c \in Ids, NEW p \in Parties, NEW secret \in Secrets,
             Punish(p, c, secret)
      PROVE  RecordInv'
  <2>1. PICK x \in Nat, y \in Nat : PayOut(c, x, y)
    BY <1>6, PunishmentIsPayOut
  <2> QED
    BY <1>6, <2>1, PayOutKeepsRecords DEF Punish, PunishWith
<1>7. ASSUME NEW c \in Ids, ForceClose(c)
      PROVE  RecordInv'
  <2>1. pending[c].balance_a \in Nat /\ pending[c].balance_b \in Nat
    BY ChannelAssumptions DEF RecordInv, RecordsOK
  <2> QED
    BY <1>7, <2>1, PayOutKeepsRecords DEF ForceClose
<1>8. CASE Tick
  <2>1. now' \in 0 .. MaxTime
    BY <1>8, ChannelAssumptions DEF Tick, RecordInv, RecordsOK
  <2> QED
    BY <1>8, <2>1, RecordsStable DEF Tick
<1>9. CASE UNCHANGED vars
  BY <1>9, RecordsStable DEF vars, RecordInv, RecordsOK
<1> QED
  BY <1>1, <1>2, <1>3, <1>4, <1>5, <1>6, <1>7, <1>8, <1>9 DEF Next

(* Before any call nothing is on record. *)
LEMMA RecordInvInit == Init => RecordInv
BY ChannelAssumptions
   DEF Init, RecordInv, RecordsOK, ChannelInv, PendingCoversDeposits,
       NoChannel, NoPending, Ids

(* The records the contract keeps are always well formed. *)
LEMMA RecordInvAlways == Spec => []RecordInv
BY RecordInvInit, RecordInvNext, PTL DEF Spec

(* A pending close is on record exactly while its channel is Closing, belongs
   to one of the two parties and splits exactly the deposits, for any number
   of channels, parties, tokens and states. *)
THEOREM PendingAlwaysCovers == Spec => []PendingCoversDeposits
<1>1. RecordInv => PendingCoversDeposits
  BY DEF RecordInv
<1> QED
  BY <1>1, RecordInvAlways, PTL

-----------------------------------------------------------------------------
(* The units of value locked in channel c. *)
UnitsOf(c) == {c} \X (1 .. Total(c))

(* The units of a stake of n are n. *)
LEMMA UnitsCounted ==
  ASSUME NEW c, NEW n \in Nat
  PROVE  IsFiniteSet({c} \X (1 .. n)) /\ Cardinality({c} \X (1 .. n)) = n
<1>1. IsFiniteSet({c}) /\ Cardinality({c}) = 1
  BY FS_Singleton
<1>2. IsFiniteSet(1 .. n) /\ Cardinality(1 .. n) = n
  BY FS_Interval
<1>3. /\ IsFiniteSet({c} \X (1 .. n))
      /\ Cardinality({c} \X (1 .. n)) = Cardinality({c}) * Cardinality(1 .. n)
  BY <1>1, <1>2, FS_Product, Zenon
<1> QED
  BY <1>1, <1>2, <1>3

(* What is owed can be counted. *)
LEMMA OwedIsFinite ==
  ASSUME NEW t
  PROVE  IsFiniteSet(Owed(t)) /\ Cardinality(Owed(t)) \in Nat
<1>1. IsFiniteSet(Ids) /\ IsFiniteSet(1 .. 2 * MaxDeposit)
  BY FS_Interval, ChannelAssumptions DEF Ids
<1>2. IsFiniteSet(Ids \X (1 .. 2 * MaxDeposit))
  BY <1>1, FS_Product
<1>3. Owed(t) \subseteq Ids \X (1 .. 2 * MaxDeposit)
  BY DEF Owed
<1> QED
  BY <1>2, <1>3, FS_Subset, FS_CardinalityType

(* A stake is at most two deposits. *)
LEMMA TotalBounded ==
  ASSUME RecordInv, NEW c \in Ids
  PROVE  Total(c) \in Nat /\ Total(c) <= 2 * MaxDeposit
BY ChannelAssumptions DEF RecordInv, RecordsOK, Total

(* Closing a live channel releases exactly its stake. *)
LEMMA OwedAfterClose ==
  ASSUME RecordInv, NEW c \in Ids, Live(c),
         status' = [status EXCEPT ![c] = "Closed"], channel' = channel,
         NEW t \in Tokens
  PROVE  Cardinality(Owed(t)') =
           Cardinality(Owed(t)) - (IF t = channel[c].token THEN Total(c) ELSE 0)
<1>1. \A d \in Ids : /\ Live(d)' <=> (Live(d) /\ d # c)
                     /\ Total(d)' = Total(d)
                     /\ channel'[d].token = channel[d].token
  BY DEF RecordInv, RecordsOK, Live, Total
<1>2. CASE t = channel[c].token
  <2>1. Owed(t)' = Owed(t) \ UnitsOf(c)
    BY <1>1, TotalBounded DEF Owed, UnitsOf
  <2>2. Owed(t) \cap UnitsOf(c) = UnitsOf(c)
    BY <1>2, TotalBounded, ChannelAssumptions DEF Owed, UnitsOf
  <2>3. Cardinality(UnitsOf(c)) = Total(c)
    BY UnitsCounted, TotalBounded DEF UnitsOf
  <2>4. Cardinality(Owed(t) \ UnitsOf(c)) =
          Cardinality(Owed(t)) - Cardinality(Owed(t) \cap UnitsOf(c))
    BY OwedIsFinite, FS_Difference
  <2> QED
    BY <1>2, <2>1, <2>2, <2>3, <2>4
<1>3. CASE t # channel[c].token
  <2>1. Owed(t)' = Owed(t)
    BY <1>1, <1>3 DEF Owed
  <2> QED
    BY <1>3, <2>1, OwedIsFinite
<1> QED
  BY <1>2, <1>3

(* Opening a channel adds exactly its stake. *)
LEMMA OwedAfterOpen ==
  ASSUME RecordInv, RecordInv', NEW c \in Ids, ~ Live(c), NEW opened,
         status' = [status EXCEPT ![c] = "Open"],
         channel' = [channel EXCEPT ![c] = opened],
         NEW t \in Tokens
  PROVE  Cardinality(Owed(t)') =
           Cardinality(Owed(t)) + (IF t = opened.token THEN Total(c)' ELSE 0)
<1>1. /\ \A d \in Ids \ {c} : /\ Live(d)' <=> Live(d)
                             /\ Total(d)' = Total(d)
                             /\ channel'[d] = channel[d]
      /\ Live(c)' /\ channel'[c] = opened
      /\ Total(c)' \in Nat /\ Total(c)' <= 2 * MaxDeposit
  <2>1. Total(c)' \in Nat /\ Total(c)' <= 2 * MaxDeposit
    BY ChannelAssumptions DEF RecordInv, RecordsOK, Total
  <2> QED
    BY <2>1 DEF RecordInv, RecordsOK, Live, Total
<1>2. CASE t = opened.token
  <2> DEFINE U == {c} \X (1 .. Total(c)')
  <2>1. Owed(t)' = Owed(t) \cup U
    BY <1>1, <1>2, ChannelAssumptions DEF Owed
  <2>2. Owed(t) \cap U = {}
    BY DEF Owed
  <2>3. IsFiniteSet(U) /\ Cardinality(U) = Total(c)'
    BY <1>1, UnitsCounted
  <2> HIDE DEF U
  <2>4. Cardinality(Owed(t) \cap U) = 0
    BY <2>2, FS_EmptySet
  <2>5. Cardinality(Owed(t) \cup U) =
          Cardinality(Owed(t)) + Cardinality(U) - Cardinality(Owed(t) \cap U)
    BY <2>3, OwedIsFinite, FS_Union
  <2>6. Cardinality(Owed(t)') = Cardinality(Owed(t) \cup U)
    BY <2>1
  <2> QED
    BY <1>1, <1>2, <2>3, <2>4, <2>5, <2>6, OwedIsFinite
<1>3. CASE t # opened.token
  <2>1. Owed(t)' = Owed(t)
    BY <1>1, <1>3 DEF Owed
  <2> QED
    BY <1>3, <2>1, OwedIsFinite
<1> QED
  BY <1>2, <1>3

(* A closing step that takes exactly the stake out of the pool keeps it backed. *)
LEMMA CloseKeepsBacked ==
  ASSUME RecordInv, EscrowBacked, NEW c \in Ids, Live(c), Finish(c),
         escrow' = [escrow EXCEPT ![channel[c].token] = @ - Total(c)]
  PROVE  EscrowBacked'
<1> SUFFICES ASSUME NEW t \in Tokens
             PROVE  escrow'[t] = Cardinality(Owed(t)')
  BY DEF EscrowBacked
<1>1. Cardinality(Owed(t)') =
        Cardinality(Owed(t)) - (IF t = channel[c].token THEN Total(c) ELSE 0)
  BY OwedAfterClose DEF Finish
<1>2. escrow[t] = Cardinality(Owed(t)) /\ escrow \in [Tokens -> Int]
  BY DEF EscrowBacked, RecordInv
<1> QED
  BY <1>1, <1>2, TotalBounded

(* Opening takes in what the channel is owed from then on. *)
LEMMA OpenKeepsBacked ==
  ASSUME RecordInv, EscrowBacked, RecordInv',
         NEW a \in Parties, NEW b \in Parties, NEW t \in Tokens,
         NEW x \in 0 .. MaxDeposit, NEW y \in 0 .. MaxDeposit,
         OpenChannel(a, b, t, x, y)
  PROVE  EscrowBacked'
<1>0. PICK c \in Ids : c = nextId + 1 /\ status[c] = "Absent"
  BY ChannelAssumptions DEF OpenChannel, RecordInv, RecordsOK, ChannelInv, Ids
<1> DEFINE opened == [party_a |-> a, party_b |-> b, token |-> t,
                     deposit_a |-> x, deposit_b |-> y]
<1>1. /\ ~ Live(c)
      /\ status' = [status EXCEPT ![c] = "Open"]
      /\ channel' = [channel EXCEPT ![c] = opened]
      /\ escrow' = [escrow EXCEPT ![t] = @ + (x + y)]
  BY <1>0 DEF OpenChannel, Live
<1>2. Total(c)' = x + y
  <2>1. channel'[c] = opened
    BY <1>1 DEF RecordInv, RecordsOK
  <2> QED
    BY <2>1 DEF Total
<1>3. opened.token = t
  OBVIOUS
<1> HIDE DEF opened
<1> SUFFICES ASSUME NEW u \in Tokens
             PROVE  escrow'[u] = Cardinality(Owed(u)')
  BY DEF EscrowBacked
<1>4. Cardinality(Owed(u)') = Cardinality(Owed(u)) + (IF u = t THEN x + y ELSE 0)
  BY <1>1, <1>2, <1>3, OwedAfterOpen
<1>5. escrow[u] = Cardinality(Owed(u)) /\ escrow \in [Tokens -> Int]
  BY DEF EscrowBacked, RecordInv
<1> QED
  BY <1>1, <1>4, <1>5

(* A payment that splits the deposits takes the whole stake out of the pool. *)
LEMMA PayOutIsTotal ==
  ASSUME RecordInv, NEW c \in Ids, NEW x, NEW y, x + y = Total(c), PayOut(c, x, y)
  PROVE  escrow' = [escrow EXCEPT ![channel[c].token] = @ - Total(c)]
BY DEF PayOut

(* A step that neither opens nor closes leaves pool and debts alone. *)
LEMMA BackedStable ==
  ASSUME EscrowBacked, UNCHANGED <<channel, escrow>>,
         \A c \in Ids : Live(c)' <=> Live(c)
  PROVE  EscrowBacked'
<1>1. \A t \in Tokens : Owed(t)' = Owed(t)
  BY DEF Owed, Total
<1> QED
  BY <1>1 DEF EscrowBacked

(* Every step keeps the pool and the debts equal. *)
LEMMA EscrowBackedNext ==
  RecordInv /\ RecordInv' /\ EscrowBacked /\ [Next]_vars => EscrowBacked'
<1> SUFFICES ASSUME RecordInv, RecordInv', EscrowBacked, [Next]_vars
             PROVE  EscrowBacked'
  OBVIOUS
<1>1. ASSUME NEW p \in Parties, NEW k \in Keys, RegisterChannelKey(p, k)
      PROVE  EscrowBacked'
  BY <1>1, BackedStable DEF RegisterChannelKey, Live
<1>2. ASSUME NEW a \in Parties, NEW b \in Parties, NEW t \in Tokens,
             NEW x \in 0 .. MaxDeposit, NEW y \in 0 .. MaxDeposit,
             OpenChannel(a, b, t, x, y)
      PROVE  EscrowBacked'
  BY <1>2, OpenKeepsBacked
<1>3. ASSUME NEW c \in Ids, NEW s \in SignedStates, CloseCooperative(c, s)
      PROVE  EscrowBacked'
  <2>1. s.balance_a + s.balance_b = Total(c)
    BY <1>3 DEF CloseCooperative, Acceptable, RequireConserved
  <2> QED
    BY <1>3, <2>1, PayOutIsTotal, CloseKeepsBacked DEF CloseCooperative, Live
<1>4. ASSUME NEW c \in Ids, NEW s \in SignedStates, NEW p \in Parties,
             CloseUnilateral(p, c, s)
      PROVE  EscrowBacked'
  BY <1>4, BackedStable DEF CloseUnilateral, Live, RecordInv, RecordsOK
<1>5. ASSUME NEW c \in Ids, NEW s \in SignedStates, NEW p \in Parties,
             Dispute(p, c, s)
      PROVE  EscrowBacked'
  BY <1>5, BackedStable DEF Dispute, Live
<1>6. ASSUME NEW c \in Ids, NEW p \in Parties, NEW secret \in Secrets,
             Punish(p, c, secret)
      PROVE  EscrowBacked'
  <2>1. PICK x \in Nat, y \in Nat : x + y = Total(c) /\ PayOut(c, x, y)
    BY <1>6, PunishmentIsPayOut
  <2> QED
    BY <1>6, <2>1, PayOutIsTotal, CloseKeepsBacked DEF Punish, PunishWith, Live
<1>7. ASSUME NEW c \in Ids, ForceClose(c)
      PROVE  EscrowBacked'
  <2>1. pending[c].balance_a + pending[c].balance_b = Total(c)
    BY <1>7 DEF ForceClose, RecordInv, PendingCoversDeposits
  <2> QED
    BY <1>7, <2>1, PayOutIsTotal, CloseKeepsBacked DEF ForceClose, Live
<1>8. CASE Tick
  BY <1>8, BackedStable DEF Tick, Live
<1>9. CASE UNCHANGED vars
  BY <1>9, BackedStable DEF vars, Live
<1> QED
  BY <1>1, <1>2, <1>3, <1>4, <1>5, <1>6, <1>7, <1>8, <1>9 DEF Next

(* The pool of each token holds exactly the deposits of the live channels in
   it, however many channels share the pool and in whatever order they are
   opened, disputed, punished and closed. *)
THEOREM PoolAlwaysBacked == Spec => []EscrowBacked
<1>1. Init => EscrowBacked
  <2> SUFFICES ASSUME Init, NEW t \in Tokens PROVE escrow[t] = Cardinality(Owed(t))
    BY DEF EscrowBacked
  <2>1. Owed(t) = {}
    BY DEF Init, Owed, Live
  <2>2. escrow[t] = 0
    BY DEF Init
  <2> QED
    BY <2>1, <2>2, FS_EmptySet
<1> QED
  BY <1>1, EscrowBackedNext, RecordInvAlways, PTL DEF Spec

(* Type correctness; that the pool never goes negative rests on EscrowBacked. *)
THEOREM ChannelsTypeCorrect == Spec => []TypeOK
<1>1. RecordInv /\ EscrowBacked => TypeOK
  <2> SUFFICES ASSUME RecordInv, EscrowBacked
               PROVE  escrow \in [Tokens -> Nat]
    BY DEF TypeOK, RecordInv
  <2>1. \A t \in Tokens : escrow[t] \in Nat
    BY OwedIsFinite DEF EscrowBacked
  <2> QED
    BY <2>1 DEF RecordInv
<1> QED
  BY <1>1, RecordInvAlways, PoolAlwaysBacked, PTL

(* The steps that touch a pending close. *)
LEMMA WhatMovesPending ==
  ASSUME Next
  PROVE  \/ UNCHANGED pending
         \/ \E d \in Ids : Finish(d)
         \/ \E d \in Ids, s \in SignedStates, p \in Parties :
               CloseUnilateral(p, d, s) \/ Dispute(p, d, s)
<1>1. ASSUME NEW p \in Parties, NEW k \in Keys, RegisterChannelKey(p, k)
      PROVE  UNCHANGED pending
  BY <1>1 DEF RegisterChannelKey
<1>2. ASSUME NEW a \in Parties, NEW b \in Parties, NEW t \in Tokens,
             NEW x \in 0 .. MaxDeposit, NEW y \in 0 .. MaxDeposit,
             OpenChannel(a, b, t, x, y)
      PROVE  UNCHANGED pending
  BY <1>2 DEF OpenChannel
<1>3. ASSUME NEW c \in Ids, NEW s \in SignedStates, CloseCooperative(c, s)
      PROVE  Finish(c)
  BY <1>3 DEF CloseCooperative
<1>4. ASSUME NEW c \in Ids, NEW p \in Parties, NEW secret \in Secrets,
             Punish(p, c, secret)
      PROVE  Finish(c)
  BY <1>4 DEF Punish, PunishWith
<1>5. ASSUME NEW c \in Ids, ForceClose(c)
      PROVE  Finish(c)
  BY <1>5 DEF ForceClose
<1>6. CASE Tick
  BY <1>6 DEF Tick
<1> QED
  BY <1>1, <1>2, <1>3, <1>4, <1>5, <1>6 DEF Next

(* A pending close never moves to a lower version, another closer or another
   deadline. *)
THEOREM PendingAlwaysRises == Spec => PendingOnlyRises
<1> DEFINE Rises(c) ==
      status[c] = "Closing" /\ status'[c] = "Closing" =>
        /\ pending'[c].closer = pending[c].closer
        /\ pending'[c].deadline = pending[c].deadline
        /\ \/ pending'[c] = pending[c]
           \/ pending'[c].version > pending[c].version
<1>1. RecordInv /\ [Next]_vars => [\A c \in Ids : Rises(c)]_vars
  <2> SUFFICES ASSUME RecordInv, Next, NEW c \in Ids,
                      status[c] = "Closing", status'[c] = "Closing"
               PROVE  Rises(c)
    OBVIOUS
  <2>0. /\ pending \in [Ids -> [closer : Parties \cup {None}, deadline : Nat,
                               version : 0 .. MaxVersion,
                               balance_a : 0 .. MaxBalance,
                               balance_b : 0 .. MaxBalance,
                               commit_a : Secrets \cup {None},
                               commit_b : Secrets \cup {None}]]
        /\ status \in [Ids -> {"Absent", "Open", "Closing", "Closed"}]
    BY DEF RecordInv, RecordsOK
  <2>1. ASSUME NEW d \in Ids, Finish(d) PROVE Rises(c)
    BY <2>0, <2>1 DEF Finish
  <2>2. ASSUME NEW d \in Ids, NEW s \in SignedStates, NEW p \in Parties,
               CloseUnilateral(p, d, s)
        PROVE  Rises(c)
    BY <2>0, <2>2 DEF CloseUnilateral
  <2>3. ASSUME NEW d \in Ids, NEW s \in SignedStates, NEW p \in Parties,
               Dispute(p, d, s)
        PROVE  Rises(c)
    <3>1. CASE d = c
      BY <2>0, <2>3, <3>1 DEF Dispute, RestingOn
    <3>2. CASE d # c
      BY <2>0, <2>3, <3>2 DEF Dispute
    <3> QED
      BY <3>1, <3>2
  <2>4. CASE UNCHANGED pending
    BY <2>4
  <2> HIDE DEF Rises
  <2>5. \/ UNCHANGED pending
        \/ \E d \in Ids : Finish(d)
        \/ \E d \in Ids, s \in SignedStates, p \in Parties :
              CloseUnilateral(p, d, s) \/ Dispute(p, d, s)
    BY WhatMovesPending
  <2> QED
    BY <2>1, <2>2, <2>3, <2>4, <2>5
<1> QED
  BY <1>1, RecordInvAlways, PTL DEF Spec, PendingOnlyRises

-----------------------------------------------------------------------------
(* Whom the contract pays.  A payment to two accounts enriches no other. *)
LEMMA OnlyTheTwoGain ==
  ASSUME NEW w \in [Tokens -> [Parties -> Nat]], NEW u \in Tokens,
         NEW a \in Parties, NEW b \in Parties, a # b, NEW x \in Int, NEW y \in Int,
         NEW v, v = [w EXCEPT ![u][a] = @ + x, ![u][b] = @ + y],
         NEW t \in Tokens, NEW p \in Parties, v[t][p] > w[t][p]
  PROVE  t = u /\ ((p = a /\ x > 0) \/ (p = b /\ y > 0))
<1>1. \A z \in Tokens : z # u => v[z] = w[z]
  OBVIOUS
<1>2. v[u] = [w[u] EXCEPT ![a] = @ + x, ![b] = @ + y]
  OBVIOUS
<1>3. w[t] \in [Parties -> Nat] /\ w[t][p] \in Nat
  OBVIOUS
<1>4. t = u
  BY <1>1, <1>3
<1>5. CASE p = a
  <2>1. v[t][p] = w[t][p] + x
    BY <1>2, <1>3, <1>4, <1>5
  <2>2. w[t][p] + x > w[t][p]
    BY <2>1
  <2>3. x > 0
    BY <1>3, <2>2
  <2> QED
    BY <1>4, <1>5, <2>3
<1>6. CASE p = b
  <2>1. v[t][p] = w[t][p] + y
    BY <1>2, <1>3, <1>4, <1>6
  <2>2. w[t][p] + y > w[t][p]
    BY <2>1
  <2>3. y > 0
    BY <1>3, <2>2
  <2> QED
    BY <1>4, <1>6, <2>3
<1>7. CASE p # a /\ p # b
  BY <1>2, <1>3, <1>4, <1>7
<1> QED
  BY <1>5, <1>6, <1>7

(* What a step does to the wallets: nothing, an opening, or a final payment. *)
LEMMA WhatMovesMoney ==
  ASSUME RecordInv, Next
  PROVE  \/ /\ UNCHANGED wallet
            /\ \A c \in Ids : status[c] = "Closed" => status'[c] = "Closed"
         \/ \E a, b \in Parties, t \in Tokens, x, y \in 0 .. MaxDeposit :
              OpenChannel(a, b, t, x, y)
         \/ \E c \in Ids, x, y \in Nat : Live(c) /\ PayOut(c, x, y) /\ Finish(c)
<1> DEFINE Idle == UNCHANGED wallet /\ \A c \in Ids : status[c] = "Closed" => status'[c] = "Closed"
           Final == \E c \in Ids, x, y \in Nat : Live(c) /\ PayOut(c, x, y) /\ Finish(c)
<1>1. ASSUME NEW p \in Parties, NEW k \in Keys, RegisterChannelKey(p, k) PROVE Idle
  BY <1>1 DEF RegisterChannelKey
<1>2. ASSUME NEW c \in Ids, NEW s \in SignedStates, CloseCooperative(c, s) PROVE Final
  <2>1. s.balance_a \in Nat /\ s.balance_b \in Nat
    BY ChannelAssumptions DEF ChannelStates
  <2> QED
    BY <1>2, <2>1 DEF CloseCooperative, Live
<1>3. ASSUME NEW c \in Ids, NEW s \in SignedStates, NEW p \in Parties,
             CloseUnilateral(p, c, s) \/ Dispute(p, c, s)
      PROVE  Idle
  BY <1>3 DEF CloseUnilateral, Dispute, RecordInv, RecordsOK
<1>4. ASSUME NEW c \in Ids, NEW p \in Parties, NEW secret \in Secrets, Punish(p, c, secret)
      PROVE  Final
  <2>1. PICK x \in Nat, y \in Nat : PayOut(c, x, y)
    BY <1>4, PunishmentIsPayOut
  <2> QED
    BY <1>4, <2>1 DEF Punish, PunishWith, Live
<1>5. ASSUME NEW c \in Ids, ForceClose(c) PROVE Final
  <2>1. pending[c].balance_a \in Nat /\ pending[c].balance_b \in Nat
    BY ChannelAssumptions DEF RecordInv, RecordsOK
  <2> QED
    BY <1>5, <2>1 DEF ForceClose, Live
<1>6. ASSUME Tick PROVE Idle
  BY <1>6 DEF Tick
<1> HIDE DEF Idle, Final
<1>7. Idle \/ Final \/ \E a, b \in Parties, t \in Tokens, x, y \in 0 .. MaxDeposit :
                         OpenChannel(a, b, t, x, y)
  BY <1>1, <1>2, <1>3, <1>4, <1>5, <1>6 DEF Next
<1> QED
  BY <1>7 DEF Idle, Final

(* An address gains only when a live channel that it is a party of is closed,
   and a closed channel stays closed. *)
THEOREM OnlyPartiesArePaid == Spec => PaidOnlyToParties
<1> DEFINE Gains == \A t \in Tokens, p \in Parties :
                      wallet'[t][p] > wallet[t][p] =>
                        \E c \in Ids : /\ Live(c) /\ status'[c] = "Closed"
                                       /\ channel[c].token = t
                                       /\ p \in PartiesOf(c)
           Ended == \A c \in Ids : status[c] = "Closed" => status'[c] = "Closed"
<1>1. ASSUME RecordInv, Next PROVE Gains /\ Ended
  <2>1. wallet \in [Tokens -> [Parties -> Nat]]
    BY <1>1 DEF RecordInv, RecordsOK
  <2>2. status \in [Ids -> {"Absent", "Open", "Closing", "Closed"}]
    BY <1>1 DEF RecordInv, RecordsOK
  <2>3. CASE UNCHANGED wallet /\ Ended
    <3>1. \A t \in Tokens, p \in Parties : ~(wallet'[t][p] > wallet[t][p])
      BY <2>1, <2>3
    <3> QED
      BY <2>3, <3>1
  <2>4. ASSUME NEW a \in Parties, NEW b \in Parties, NEW t \in Tokens,
               NEW x \in 0 .. MaxDeposit, NEW y \in 0 .. MaxDeposit,
               OpenChannel(a, b, t, x, y)
        PROVE  Gains /\ Ended
    <3>1. /\ wallet' = [wallet EXCEPT ![t][a] = @ - x, ![t][b] = @ - y] /\ a # b
          /\ status' = [status EXCEPT ![nextId + 1] = "Open"]
      BY <2>4 DEF OpenChannel
    <3>2. x \in Nat /\ y \in Nat /\ nextId + 1 \in Ids /\ status[nextId + 1] = "Absent"
      BY <1>1, <2>4, ChannelAssumptions DEF OpenChannel, RecordInv, RecordsOK, ChannelInv, Ids
    <3>3. wallet' = [wallet EXCEPT ![t][a] = @ + (-x), ![t][b] = @ + (-y)]
      BY <2>1, <3>1, <3>2
    <3>4. \A z \in Tokens, p \in Parties : ~(wallet'[z][p] > wallet[z][p])
      <4> SUFFICES ASSUME NEW z \in Tokens, NEW p \in Parties, wallet'[z][p] > wallet[z][p]
                   PROVE  FALSE
        OBVIOUS
      <4>1. -x \in Int /\ -y \in Int /\ ~(-x > 0) /\ ~(-y > 0)
        BY <3>2
      <4> QED
        BY <2>1, <3>1, <3>3, <4>1, OnlyTheTwoGain
    <3>5. Ended
      BY <2>2, <3>1, <3>2
    <3> QED
      BY <3>4, <3>5
  <2>5. ASSUME NEW c \in Ids, NEW x \in Nat, NEW y \in Nat, Live(c), PayOut(c, x, y), Finish(c)
        PROVE  Gains /\ Ended
    <3> DEFINE u == channel[c].token
               a == channel[c].party_a
               b == channel[c].party_b
    <3>1. u \in Tokens /\ a \in Parties /\ b \in Parties /\ a # b
      BY <1>1, <2>5 DEF RecordInv, ChannelInv, Live
    <3>2. wallet' = [wallet EXCEPT ![u][a] = @ + x, ![u][b] = @ + y]
      BY <2>5 DEF PayOut
    <3>3. PartiesOf(c) = {a, b}
      BY DEF PartiesOf
    <3>4. status'[c] = "Closed" /\ Ended
      BY <2>2, <2>5 DEF Finish
    <3> HIDE DEF a, b
    <3>5. \A z \in Tokens, p \in Parties :
            wallet'[z][p] > wallet[z][p] => z = u /\ p \in PartiesOf(c)
      BY <2>1, <3>1, <3>2, <3>3, OnlyTheTwoGain
    <3> QED
      BY <2>5, <3>4, <3>5
  <2> HIDE DEF Gains
  <2> QED
    BY <1>1, <2>3, <2>4, <2>5, WhatMovesMoney
<1>2. RecordInv /\ [Next]_vars => [Gains /\ Ended]_vars
  BY <1>1
<1> QED
  BY <1>2, RecordInvAlways, PTL DEF Spec, PaidOnlyToParties

-----------------------------------------------------------------------------
(* The refinement of ChannelEscrow.  The state functions it maps stage and
   stake to: *)
Stages == [c \in Ids |-> StageOf(status[c])]
Stakes == [c \in Ids |-> [a |-> channel[c].party_a, b |-> channel[c].party_b,
                         token |-> channel[c].token, amount |-> Total(c)]]

(* Steps that neither open nor close a channel are invisible to the escrow. *)
LEMMA EscrowStutters ==
  ASSUME UNCHANGED <<channel, wallet>>,
         \A c \in Ids : StageOf(status[c])' = StageOf(status[c])
  PROVE  UNCHANGED Escrow!vars
<1>1. Stages' = Stages
  BY DEF Stages
<1>2. Stakes' = Stakes
  BY DEF Stakes, Total
<1> QED
  BY <1>1, <1>2 DEF Escrow!vars, Stages, Stakes

(* A closing step that splits the stake into x for A and y for B settles it. *)
LEMMA ClosingSettles ==
  ASSUME RecordInv, NEW c \in Ids, Live(c), Finish(c),
         NEW x \in Nat, NEW y \in Nat, x + y = Total(c),
         wallet' = [wallet EXCEPT
           ![channel[c].token][channel[c].party_a] = @ + x,
           ![channel[c].token][channel[c].party_b] = @ + y]
  PROVE  Escrow!Settle(c)
<1>0. x \in 0 .. Total(c) /\ y = Total(c) - x
  OBVIOUS
<1>1. Stages[c] = "Live" /\ Stages' = [Stages EXCEPT ![c] = "Settled"]
  BY DEF Stages, StageOf, Live, Finish, RecordInv, RecordsOK
<1>2. Stakes' = Stakes
  BY DEF Stakes, Finish, Total
<1>3. /\ Stakes[c].amount = Total(c) /\ Stakes[c].token = channel[c].token
      /\ Stakes[c].a = channel[c].party_a /\ Stakes[c].b = channel[c].party_b
  BY DEF Stakes
<1> QED
  BY <1>0, <1>1, <1>2, <1>3 DEF Escrow!Settle, Stages, Stakes

(* Opening a channel funds its stake. *)
LEMMA OpeningFunds ==
  ASSUME RecordInv, NEW a \in Parties, NEW b \in Parties, NEW t \in Tokens,
         NEW x \in 0 .. MaxDeposit, NEW y \in 0 .. MaxDeposit,
         OpenChannel(a, b, t, x, y)
  PROVE  \E c \in Ids : Escrow!Fund(c, a, b, t)
<1>0. PICK c \in Ids : c = nextId + 1 /\ status[c] = "Absent"
  BY ChannelAssumptions DEF OpenChannel, RecordInv, RecordsOK, ChannelInv, Ids
<1> DEFINE opened == [party_a |-> a, party_b |-> b, token |-> t,
                     deposit_a |-> x, deposit_b |-> y]
<1>1. /\ status' = [status EXCEPT ![c] = "Open"]
      /\ channel' = [channel EXCEPT ![c] = opened]
      /\ wallet' = [wallet EXCEPT ![t][a] = @ - x, ![t][b] = @ - y]
      /\ a # b /\ x + y > 0
  BY <1>0 DEF OpenChannel
<1>2. x \in 0 .. wallet[t][a] /\ y \in 0 .. wallet[t][b]
  BY ChannelAssumptions DEF OpenChannel, RecordInv, RecordsOK
<1>3. Stages[c] = "Idle" /\ Stages' = [Stages EXCEPT ![c] = "Live"]
  BY <1>0, <1>1 DEF Stages, StageOf, RecordInv, RecordsOK
<1>4. Stakes' = [Stakes EXCEPT ![c] =
                   [a |-> a, b |-> b, token |-> t, amount |-> x + y]]
  <2>1. channel'[c] = opened /\ \A d \in Ids \ {c} : channel'[d] = channel[d]
    BY <1>1 DEF RecordInv, RecordsOK
  <2>2. Stakes'[c] = [a |-> a, b |-> b, token |-> t, amount |-> x + y]
    BY <2>1 DEF Stakes, Total
  <2>3. \A d \in Ids \ {c} : Stakes'[d] = Stakes[d]
    BY <2>1 DEF Stakes, Total
  <2>4. Stakes' = [d \in Ids |-> Stakes'[d]] /\ Stakes = [d \in Ids |-> Stakes[d]]
    BY DEF Stakes
  <2> HIDE DEF Stakes
  <2> QED
    BY <2>2, <2>3, <2>4
<1> QED
  BY <1>1, <1>2, <1>3, <1>4 DEF Escrow!Fund, Stages, Stakes

(* Every step of the contract is a step of the escrow, or none. *)
LEMMA EscrowStep == RecordInv /\ [Next]_vars => [Escrow!Next]_(Escrow!vars)
<1> SUFFICES ASSUME RecordInv, [Next]_vars
             PROVE  Escrow!Next \/ UNCHANGED Escrow!vars
  OBVIOUS
<1> USE DEF Live
<1>1. ASSUME NEW p \in Parties, NEW k \in Keys, RegisterChannelKey(p, k)
      PROVE  UNCHANGED Escrow!vars
  BY <1>1, EscrowStutters DEF RegisterChannelKey
<1>2. ASSUME NEW a \in Parties, NEW b \in Parties, NEW t \in Tokens,
             NEW x \in 0 .. MaxDeposit, NEW y \in 0 .. MaxDeposit,
             OpenChannel(a, b, t, x, y)
      PROVE  Escrow!Next
  BY <1>2, OpeningFunds DEF Escrow!Next
<1>3. ASSUME NEW c \in Ids, NEW s \in SignedStates, CloseCooperative(c, s)
      PROVE  Escrow!Next
  <2>1. /\ s.balance_a \in Nat /\ s.balance_b \in Nat
        /\ s.balance_a + s.balance_b = Total(c)
    BY <1>3, ChannelAssumptions
       DEF ChannelStates, CloseCooperative, Acceptable, RequireConserved
  <2>2. Escrow!Settle(c)
    BY <1>3, <2>1, ClosingSettles DEF CloseCooperative, PayOut
  <2> QED
    BY <2>2 DEF Escrow!Next
<1>4. ASSUME NEW c \in Ids, NEW s \in SignedStates, NEW p \in Parties,
             CloseUnilateral(p, c, s)
      PROVE  UNCHANGED Escrow!vars
  BY <1>4, EscrowStutters DEF CloseUnilateral, StageOf, RecordInv, RecordsOK
<1>5. ASSUME NEW c \in Ids, NEW s \in SignedStates, NEW p \in Parties,
             Dispute(p, c, s)
      PROVE  UNCHANGED Escrow!vars
  BY <1>5, EscrowStutters DEF Dispute
<1>6. ASSUME NEW c \in Ids, NEW p \in Parties, NEW secret \in Secrets,
             Punish(p, c, secret)
      PROVE  Escrow!Next
  <2>1. PICK x \in Nat, y \in Nat : x + y = Total(c) /\ PayOut(c, x, y)
    BY <1>6, PunishmentIsPayOut
  <2>2. Escrow!Settle(c)
    BY <1>6, <2>1, ClosingSettles DEF Punish, PunishWith, PayOut
  <2> QED
    BY <2>2 DEF Escrow!Next
<1>7. ASSUME NEW c \in Ids, ForceClose(c)
      PROVE  Escrow!Next
  <2>1. /\ pending[c].balance_a \in Nat /\ pending[c].balance_b \in Nat
        /\ pending[c].balance_a + pending[c].balance_b = Total(c)
    BY <1>7, ChannelAssumptions
       DEF ForceClose, RecordInv, RecordsOK, PendingCoversDeposits
  <2>2. Escrow!Settle(c)
    BY <1>7, <2>1, ClosingSettles DEF ForceClose, PayOut
  <2> QED
    BY <2>2 DEF Escrow!Next
<1>8. CASE Tick
  BY <1>8, EscrowStutters DEF Tick
<1>9. CASE UNCHANGED vars
  BY <1>9, EscrowStutters DEF vars
<1> QED
  BY <1>1, <1>2, <1>3, <1>4, <1>5, <1>6, <1>7, <1>8, <1>9 DEF Next

(* The contract implements the escrow it promises: whatever keys, versions,
   disputes and punishments do, a stake is settled at most once, whole, between
   the two parties that put it in. *)
THEOREM ContractImplementsEscrow == Spec => ImplementsEscrow
<1>1. Init => Escrow!Init
  BY ChannelAssumptions
     DEF Init, Escrow!Init, StageOf, NoChannel, Escrow!NoStake, Total
<1> QED
  BY <1>1, EscrowStep, RecordInvAlways, PTL DEF Spec, Escrow!Spec, ImplementsEscrow

-----------------------------------------------------------------------------
(***************************************************************************)
(* The negotiators, the watchtower and the monitor over the contract.      *)
(***************************************************************************)

Signatures == {"proposal", "counterSignature"}
Answers == {"ack", "completion"}
SignedBy(p, s) == \E m \in sent : m.type \in Signatures /\ m.from = p /\ m.state = s
SignedByBoth(s) == SignedBy("a", s) /\ SignedBy("b", s)

(* A signature fills the signer's slot.  An answer is about a state that both
   have signed and the sender has moved to; what it reveals is older, and is
   the sender's.  A completion goes to a party that has moved there first. *)
MessageOK(m) ==
  /\ m.from \in Sides /\ m.state \in States
  /\ m.type \in Signatures \cup Answers
  /\ m.type \in Signatures => store[m.from][<<m.from, m.state.version>>] # "empty"
  /\ m.type \in Answers => /\ SignedByBoth(m.state)
                           /\ VersionOf(m.from) >= m.state.version
                           /\ m.revealed \subseteq {m.from} \X (0 .. m.state.version - 1)
  /\ m.type = "completion" => VersionOf(Other(m.from)) >= m.state.version
SentOK == \A m \in sent : MessageOK(m)

(* Nobody signs two states of one version. *)
SignedOnce ==
  \A m, n \in sent : /\ m.type \in Signatures /\ n.type \in Signatures
                     /\ m.from = n.from /\ m.state.version = n.state.version
                     => m.state = n.state

(* A round under way leads to a later version; only what the others have signed
   too is held; what was handed back to be registered has been left. *)
SideOK(p) ==
  /\ current[p] \in States \cup {None}
  /\ flight[p] # None => /\ flight[p].role \in {"proposer", "counterparty"}
                         /\ flight[p].state \in States
                         /\ flight[p].state.version > VersionOf(p)
                         /\ SignedBy(p, flight[p].state)
  /\ \A s \in held[p] : s \in States /\ SignedByBoth(s)
  /\ \A s \in revoked[p] : s \in States /\ s.version < VersionOf(p)

(* What is revealed in p's records is behind its owner and behind p. *)
StoreOK(p) ==
  \A slot \in Slots : store[p][slot] = "revealed" =>
    slot[2] < VersionOf(slot[1]) /\ slot[2] < VersionOf(p)

SidesInv ==
  /\ DOMAIN current = Sides /\ DOMAIN flight = Sides /\ DOMAIN held = Sides
  /\ DOMAIN revoked = Sides /\ store \in [Sides -> [Slots -> Entries]]
  /\ \A p \in Sides : SideOK(p) /\ StoreOK(p)

HandshakeInv == SentOK /\ SignedOnce /\ SidesInv

(* A package of the watchtower names the party that has left the state. *)
PackageOK(b) ==
  \E p \in Sides, s \in States :
    /\ b = [state |-> s, challenger |-> Addr(p), secret |-> <<p, s.version>>]
    /\ s.version < VersionOf(p)
WatchInv == polling \in BOOLEAN /\ \A b \in blobs \cup jobs : PackageOK(b)

(* The channel stays as it was opened, and a close rests on one of its states. *)
TheChannel ==
  [party_a |-> AddrA, party_b |-> AddrB, token |-> Token,
   deposit_a |-> DepositA, deposit_b |-> DepositB]
RestsOn(s) ==
  /\ pending[ch].version = s.version
  /\ pending[ch].balance_a = s.balance_a /\ pending[ch].balance_b = s.balance_b
  /\ pending[ch].commit_a = s.commit_a /\ pending[ch].commit_b = s.commit_b
ContractInv ==
  /\ DOMAIN pending = Ids /\ DOMAIN status = Ids
  /\ channel[ch] = TheChannel
  /\ wallet \in [Tokens -> [Parties -> Nat]]
  /\ status[ch] = "Closing" => \E s \in States : RestsOn(s) /\ RequireConserved(ch, s)

ProtocolInv == HandshakeInv /\ WatchInv /\ ContractInv

-----------------------------------------------------------------------------
(* States, and what never goes back. *)

(* A state is not "none", and it has a version above 0. *)
LEMMA StateType ==
  ASSUME NEW s \in States
  PROVE  /\ s # None /\ s.version \in 1 .. MaxVersion /\ s.version \in Nat
         /\ s.commit_a = <<"a", s.version>> /\ s.commit_b = <<"b", s.version>>
         /\ s.balance_a \in Nat /\ s.balance_b \in Nat
         /\ \E split \in Splits : s.balance_a = split[1] /\ s.balance_b = split[2]
         /\ \A p \in Sides : <<p, s.version>> \in Slots
<1>1. PICK v \in 1 .. MaxVersion, split \in Splits : s = StateFor(v, split)
  BY DEF States
<1>2. split \in (0 .. MaxBalance) \X (0 .. MaxBalance)
  BY ProtocolAssumptions
<1>3. MaxVersion \in Nat /\ MaxBalance \in Nat /\ MaxChannels \in Nat
  BY ChannelAssumptions
<1>4. v \in 0 .. MaxVersion /\ v \in Nat
  BY <1>3
<1>5. \A p \in Sides : <<p, v>> \in Secrets
  BY <1>4, ProtocolAssumptions
<1>6. /\ s.version = v /\ s.commit_a = <<"a", v>> /\ s.commit_b = <<"b", v>>
      /\ s.balance_a = split[1] /\ s.balance_b = split[2]
  BY <1>1 DEF StateFor
<1>7. s \in ChannelStates
  <2>1. "a" \in Sides /\ "b" \in Sides
    BY DEF Sides
  <2>2. ch \in Ids
    BY <1>3, ProtocolAssumptions DEF ch, Ids
  <2>3. KeyA \in Keys /\ KeyB \in Keys
    BY ProtocolAssumptions
  <2> QED
    BY <1>1, <1>2, <1>4, <1>5, <2>1, <2>2, <2>3 DEF StateFor, ChannelStates
<1>8. s # None
  BY <1>7, ProtocolAssumptions
<1>9. split[1] \in Nat /\ split[2] \in Nat
  BY <1>2, <1>3
<1> QED
  BY <1>4, <1>6, <1>8, <1>9 DEF Slots

(* Versions are numbers. *)
LEMMA VersionIsNat ==
  ASSUME NEW p \in Sides, current[p] \in States \cup {None}
  PROVE  VersionOf(p) \in 0 .. MaxVersion /\ VersionOf(p) \in Nat
<1>1. MaxVersion \in Nat
  BY ChannelAssumptions
<1>2. CASE current[p] = None
  BY <1>1, <1>2 DEF VersionOf
<1>3. CASE current[p] \in States
  BY <1>1, <1>3, StateType DEF VersionOf
<1> QED
  BY <1>2, <1>3

(* Messages are not forgotten, no party goes back to an older version, and no
   slot is emptied. *)
Grows ==
  /\ sent \subseteq sent'
  /\ \A p \in Sides : VersionOf(p)' \in Nat /\ VersionOf(p)' >= VersionOf(p)
  /\ \A p \in Sides, slot \in Slots : store[p][slot] # "empty" => store'[p][slot] # "empty"

(* Then what was said of a message stays true. *)
LEMMA MessageStays ==
  ASSUME SidesInv, Grows, NEW m \in sent, MessageOK(m)
  PROVE  MessageOK(m)'
<1>1. m.from \in Sides /\ m.state \in States /\ Other(m.from) \in Sides
  BY DEF MessageOK, Sides, Other
<1>2. m.state.version \in Nat /\ <<m.from, m.state.version>> \in Slots
  BY <1>1, StateType
<1>3. \A p \in Sides : VersionOf(p) \in Nat
  BY VersionIsNat DEF SidesInv, SideOK
<1>4. SignedByBoth(m.state) => SignedByBoth(m.state)'
  BY DEF Grows, SignedByBoth, SignedBy
<1>5. VersionOf(m.from) >= m.state.version => (VersionOf(m.from) >= m.state.version)'
  <2>1. VersionOf(m.from)' \in Nat /\ VersionOf(m.from)' >= VersionOf(m.from)
    BY <1>1 DEF Grows
  <2> QED
    BY <1>1, <1>2, <1>3, <2>1
<1>6. VersionOf(Other(m.from)) >= m.state.version => (VersionOf(Other(m.from)) >= m.state.version)'
  <2>1. VersionOf(Other(m.from))' \in Nat /\ VersionOf(Other(m.from))' >= VersionOf(Other(m.from))
    BY <1>1 DEF Grows
  <2> QED
    BY <1>1, <1>2, <1>3, <2>1
<1> QED
  BY <1>1, <1>2, <1>4, <1>5, <1>6 DEF MessageOK, Grows

(* What is written to the records of one party. *)
LEMMA RecordWrites ==
  ASSUME store \in [Sides -> [Slots -> Entries]], NEW p \in Sides, NEW C, NEW R, Record(p, C, R)
  PROVE  /\ store' \in [Sides -> [Slots -> Entries]]
         /\ \A q \in Sides \ {p} : store'[q] = store[q]
         /\ \A slot \in Slots : store'[p][slot] = IF slot \in R THEN "revealed"
                                                  ELSE IF slot \in C THEN "committed"
                                                  ELSE store[p][slot]
         /\ \A q \in Sides, slot \in Slots : store[q][slot] # "empty" => store'[q][slot] # "empty"
<1> DEFINE new == [slot \in Slots |-> IF slot \in R THEN "revealed"
                                      ELSE IF slot \in C THEN "committed" ELSE store[p][slot]]
<1>1. store' = [store EXCEPT ![p] = new]
  BY DEF Record
<1>2. new \in [Slots -> Entries]
  BY DEF Entries
<1>3. \A slot \in Slots : new[slot] = IF slot \in R THEN "revealed"
                                      ELSE IF slot \in C THEN "committed" ELSE store[p][slot]
  OBVIOUS
<1> HIDE DEF new
<1>4. store'[p] = new /\ \A q \in Sides \ {p} : store'[q] = store[q]
  BY <1>1
<1>5. store' \in [Sides -> [Slots -> Entries]]
  BY <1>1, <1>2
<1>6. ASSUME NEW q \in Sides, NEW slot \in Slots, store[q][slot] # "empty"
      PROVE  store'[q][slot] # "empty"
  <2>1. CASE q = p
    BY <1>3, <1>4, <1>6, <2>1
  <2>2. CASE q # p
    BY <1>4, <1>6, <2>2
  <2> QED
    BY <2>1, <2>2
<1> QED
  BY <1>3, <1>4, <1>5, <1>6

(* The revealed slots of one who has not moved. *)
LEMMA StoreStays ==
  ASSUME SidesInv, Grows, NEW q \in Sides, NEW slot \in Slots, store[q][slot] = "revealed"
  PROVE  slot[2] < VersionOf(slot[1])' /\ slot[2] < VersionOf(q)'
<1>1. slot[1] \in Sides /\ slot[2] \in 0 .. MaxVersion /\ MaxVersion \in Nat
  BY ChannelAssumptions DEF Slots
<1>2. slot[2] \in Nat
  BY <1>1
<1>3. slot[2] < VersionOf(slot[1]) /\ slot[2] < VersionOf(q)
  BY DEF SidesInv, StoreOK
<1>4. \A p \in Sides : VersionOf(p) \in Nat /\ VersionOf(p)' \in Nat /\ VersionOf(p)' >= VersionOf(p)
  BY VersionIsNat DEF SidesInv, SideOK, Grows
<1>5. VersionOf(slot[1]) \in Nat /\ VersionOf(slot[1])' \in Nat /\ VersionOf(slot[1])' >= VersionOf(slot[1])
  BY <1>1, <1>4
<1>6. VersionOf(q) \in Nat /\ VersionOf(q)' \in Nat /\ VersionOf(q)' >= VersionOf(q)
  BY <1>4
<1> QED
  BY <1>2, <1>3, <1>5, <1>6

(* A step that only adds to a party's records. *)
LEMMA NoteKeeps ==
  ASSUME HandshakeInv, NEW p \in Sides, NEW C, NEW R, Record(p, C, R),
         \A slot \in R : slot[2] < VersionOf(slot[1]) /\ slot[2] < VersionOf(p),
         UNCHANGED <<current, flight, sent, held, revoked>>
  PROVE  HandshakeInv' /\ Grows
<1>1. SidesInv /\ SentOK /\ SignedOnce
  BY DEF HandshakeInv
<1>2. \A q : VersionOf(q)' = VersionOf(q)
  BY DEF VersionOf
<1>3. \A q \in Sides : VersionOf(q) \in Nat
  BY <1>1, VersionIsNat DEF SidesInv, SideOK
<1>4. store \in [Sides -> [Slots -> Entries]]
  BY <1>1 DEF SidesInv
<1>5. /\ store' \in [Sides -> [Slots -> Entries]]
      /\ \A q \in Sides \ {p} : store'[q] = store[q]
      /\ \A slot \in Slots : store'[p][slot] = IF slot \in R THEN "revealed"
                                               ELSE IF slot \in C THEN "committed"
                                               ELSE store[p][slot]
      /\ \A q \in Sides, slot \in Slots : store[q][slot] # "empty" => store'[q][slot] # "empty"
  BY <1>4, RecordWrites
<1>6. Grows
  <2>1. \A q \in Sides : VersionOf(q)' \in Nat /\ VersionOf(q)' >= VersionOf(q)
    BY <1>2, <1>3
  <2> QED
    BY <1>5, <2>1 DEF Grows
<1>7. SentOK'
  <2>1. \A m \in sent : MessageOK(m)'
    BY <1>1, <1>6, MessageStays DEF SentOK
  <2> QED
    BY <2>1 DEF SentOK
<1>8. SignedOnce'
  BY <1>1 DEF SignedOnce
<1>9. ASSUME NEW q \in Sides PROVE StoreOK(q)'
  <2> SUFFICES ASSUME NEW slot \in Slots, store'[q][slot] = "revealed"
               PROVE  slot[2] < VersionOf(slot[1])' /\ slot[2] < VersionOf(q)'
    BY DEF StoreOK
  <2>1. CASE store[q][slot] = "revealed"
    BY <1>1, <1>6, <2>1, StoreStays
  <2>2. CASE store[q][slot] # "revealed"
    <3>1. q = p /\ slot \in R
      BY <1>5, <2>2
    <3> QED
      BY <1>2, <3>1
  <2> QED
    BY <2>1, <2>2
<1>10. ASSUME NEW q \in Sides PROVE SideOK(q)'
  BY <1>1, <1>2 DEF SidesInv, SideOK, SignedBy, SignedByBoth
<1> QED
  BY <1>1, <1>5, <1>6, <1>7, <1>8, <1>9, <1>10 DEF HandshakeInv, SidesInv

(* A party signs a later state, for the first time at its version. *)
LEMMA SignKeeps ==
  ASSUME HandshakeInv, NEW p \in Sides, NEW s \in States, s.version > VersionOf(p),
         store[p][<<p, s.version>>] = "empty", NEW C, <<p, s.version>> \in C, Record(p, C, {}),
         NEW kind \in Signatures, Send([type |-> kind, from |-> p, state |-> s]),
         NEW role \in {"proposer", "counterparty"},
         flight' = [flight EXCEPT ![p] = [role |-> role, state |-> s]],
         UNCHANGED <<current, held, revoked>>
  PROVE  HandshakeInv' /\ Grows
<1> DEFINE new == [type |-> kind, from |-> p, state |-> s]
<1>1. SidesInv /\ SentOK /\ SignedOnce
  BY DEF HandshakeInv
<1>2. \A q : VersionOf(q)' = VersionOf(q)
  BY DEF VersionOf
<1>3. \A q \in Sides : VersionOf(q) \in Nat
  BY <1>1, VersionIsNat DEF SidesInv, SideOK
<1>4. store \in [Sides -> [Slots -> Entries]]
  BY <1>1 DEF SidesInv
<1>5. /\ store' \in [Sides -> [Slots -> Entries]]
      /\ \A q \in Sides \ {p} : store'[q] = store[q]
      /\ \A slot \in Slots : store'[p][slot] = IF slot \in {} THEN "revealed"
                                               ELSE IF slot \in C THEN "committed"
                                               ELSE store[p][slot]
      /\ \A q \in Sides, slot \in Slots : store[q][slot] # "empty" => store'[q][slot] # "empty"
  BY <1>4, RecordWrites
<1>6. sent' = sent \cup {new}
  BY DEF Send
<1>7. Grows
  <2>1. \A q \in Sides : VersionOf(q)' \in Nat /\ VersionOf(q)' >= VersionOf(q)
    BY <1>2, <1>3
  <2> QED
    BY <1>5, <1>6, <2>1 DEF Grows
<1>8. <<p, s.version>> \in Slots /\ s.version \in Nat
  BY StateType
<1>9. new.type = kind /\ new.from = p /\ new.state = s /\ kind \notin Answers
  BY DEF Signatures, Answers
<1> HIDE DEF new
<1>10. MessageOK(new)'
  <2>1. store'[p][<<p, s.version>>] # "empty"
    BY <1>5, <1>8
  <2> QED
    BY <1>9, <2>1 DEF MessageOK, Answers
<1>11. SentOK'
  <2>1. \A m \in sent : MessageOK(m)'
    BY <1>1, <1>7, MessageStays DEF SentOK
  <2> QED
    BY <1>6, <1>10, <2>1 DEF SentOK
<1>12. SignedOnce'
  <2>1. \A m \in sent : m.type \in Signatures /\ m.from = p => m.state.version # s.version
    BY <1>1 DEF SentOK, MessageOK
  <2> QED
    BY <1>1, <1>6, <1>9, <2>1 DEF SignedOnce
<1>13. ASSUME NEW q \in Sides PROVE StoreOK(q)'
  <2> SUFFICES ASSUME NEW slot \in Slots, store'[q][slot] = "revealed"
               PROVE  slot[2] < VersionOf(slot[1])' /\ slot[2] < VersionOf(q)'
    BY DEF StoreOK
  <2>1. store[q][slot] = "revealed"
    BY <1>5
  <2> QED
    BY <1>1, <1>7, <2>1, StoreStays
<1>14. \A q, t : SignedBy(q, t) => SignedBy(q, t)'
  BY <1>6 DEF SignedBy
<1>15. SignedBy(p, s)'
  BY <1>6, <1>9 DEF SignedBy
<1>16. ASSUME NEW q \in Sides PROVE SideOK(q)'
  <2>1. SideOK(q)
    BY <1>1 DEF SidesInv
  <2>2. \A t \in held'[q] : t \in States /\ SignedByBoth(t)'
    BY <1>14, <2>1 DEF SideOK, SignedByBoth
  <2>3. /\ current'[q] \in States \cup {None}
        /\ \A t \in revoked'[q] : t \in States /\ t.version < VersionOf(q)'
    BY <1>2, <2>1 DEF SideOK
  <2>4. CASE q = p
    <3>1. flight'[q].role = role /\ flight'[q].state = s
      BY <1>1, <2>4 DEF SidesInv
    <3>2. s.version > VersionOf(q)' /\ SignedBy(q, s)'
      BY <1>2, <1>15, <2>4
    <3>3. SignedBy(q, flight[q].state)'
      BY <3>1, <3>2 DEF SignedBy
    <3> QED
      BY <2>2, <2>3, <3>1, <3>2, <3>3 DEF SideOK
  <2>5. CASE q # p
    <3>1. flight'[q] = flight[q]
      BY <1>1, <2>5 DEF SidesInv
    <3>2. flight[q] # None => SignedBy(q, flight[q].state)'
      BY <1>14, <2>1, <3>1 DEF SideOK, SignedBy
    <3> QED
      BY <1>2, <2>1, <2>2, <2>3, <3>1, <3>2 DEF SideOK
  <2> QED
    BY <2>4, <2>5
<1> QED
  BY <1>1, <1>5, <1>7, <1>11, <1>12, <1>13, <1>16 DEF HandshakeInv, SidesInv

(* A party moves to a later state that both have signed. *)
LEMMA MoveKeeps ==
  ASSUME HandshakeInv, NEW p \in Sides, NEW s \in States, s.version > VersionOf(p),
         SignedByBoth(s), NEW kind \in Answers,
         kind = "completion" => VersionOf(Other(p)) >= s.version,
         NEW C, NEW R, Record(p, C, R \cup Superseded(p)), MoveTo(p, s, kind),
         \A slot \in R : slot[2] < s.version /\ slot[2] < VersionOf(slot[1])
  PROVE  HandshakeInv' /\ Grows
<1>0. PICK new : new = [type |-> kind, from |-> p, state |-> s, revealed |-> Superseded(p)]
  OBVIOUS
<1> DEFINE left == R \cup Superseded(p)
<1>1. SidesInv /\ SentOK /\ SignedOnce
  BY DEF HandshakeInv
<1>2. /\ current' = [current EXCEPT ![p] = s] /\ held' = [held EXCEPT ![p] = @ \cup {s}]
      /\ flight' = [flight EXCEPT ![p] = None] /\ sent' = sent \cup {new}
      /\ revoked' = [revoked EXCEPT ![p] = IF current[p] = None THEN @ ELSE @ \cup {current[p]}]
  BY <1>0 DEF MoveTo, Send
<1>3. s # None /\ s.version \in Nat
  BY StateType
<1>4. \A q \in Sides : VersionOf(q) \in Nat
  BY <1>1, VersionIsNat DEF SidesInv, SideOK
<1>5. VersionOf(p)' = s.version /\ \A q \in Sides \ {p} : VersionOf(q)' = VersionOf(q)
  <2>1. current'[p] = s /\ \A q \in Sides \ {p} : current'[q] = current[q]
    BY <1>1, <1>2 DEF SidesInv
  <2> QED
    BY <1>3, <2>1 DEF VersionOf
<1>6. \A q \in Sides : VersionOf(q)' \in Nat /\ VersionOf(q)' >= VersionOf(q)
  <2>1. VersionOf(p)' \in Nat /\ VersionOf(p)' >= VersionOf(p)
    BY <1>3, <1>4, <1>5
  <2>2. \A q \in Sides \ {p} : VersionOf(q)' \in Nat /\ VersionOf(q)' >= VersionOf(q)
    BY <1>4, <1>5
  <2> QED
    BY <2>1, <2>2
<1>7. \A slot \in Superseded(p) : slot[1] = p /\ slot[2] = VersionOf(p) /\ slot = <<p, VersionOf(p)>>
  BY DEF Superseded, VersionOf
<1>8. store \in [Sides -> [Slots -> Entries]]
  BY <1>1 DEF SidesInv
<1> HIDE DEF left
<1>9. /\ store' \in [Sides -> [Slots -> Entries]]
      /\ \A q \in Sides \ {p} : store'[q] = store[q]
      /\ \A slot \in Slots : store'[p][slot] = IF slot \in left THEN "revealed"
                                               ELSE IF slot \in C THEN "committed"
                                               ELSE store[p][slot]
      /\ \A q \in Sides, slot \in Slots : store[q][slot] # "empty" => store'[q][slot] # "empty"
  BY <1>8, RecordWrites DEF left
<1>10. Grows
  BY <1>2, <1>6, <1>9 DEF Grows
<1>11. /\ new.type = kind /\ new.from = p /\ new.state = s /\ new.revealed = Superseded(p)
       /\ kind \notin Signatures
  BY <1>0 DEF Signatures, Answers
<1>12. \A q, t : SignedBy(q, t) => SignedBy(q, t)'
  BY <1>2 DEF SignedBy
<1>13. MessageOK(new)'
  <2>1. SignedByBoth(s)'
    BY <1>12 DEF SignedByBoth
  <2>2. Superseded(p) \subseteq {p} \X (0 .. s.version - 1)
    <3>1. VersionOf(p) \in 0 .. s.version - 1
      BY <1>3, <1>4
    <3> QED
      BY <1>7, <3>1
  <2>3. Other(p) \in Sides \ {p}
    BY DEF Sides, Other
  <2>4. kind = "completion" => VersionOf(Other(p))' >= s.version
    BY <1>5, <2>3
  <2>5. VersionOf(p)' >= s.version
    BY <1>3, <1>5
  <2>6. SignedByBoth(new.state)'
    BY <1>11, <2>1 DEF SignedByBoth, SignedBy
  <2>7. VersionOf(new.from)' >= new.state.version
    BY <1>11, <2>5 DEF VersionOf
  <2>8. new.type = "completion" => VersionOf(Other(new.from))' >= new.state.version
    BY <1>11, <2>4 DEF VersionOf
  <2> QED
    BY <1>11, <2>2, <2>6, <2>7, <2>8 DEF MessageOK
<1>14. SentOK'
  <2>1. \A m \in sent : MessageOK(m)'
    BY <1>1, <1>10, MessageStays DEF SentOK
  <2> QED
    BY <1>2, <1>13, <2>1 DEF SentOK
<1>15. SignedOnce'
  BY <1>1, <1>2, <1>11 DEF SignedOnce
<1>16. ASSUME NEW q \in Sides PROVE StoreOK(q)'
  <2> SUFFICES ASSUME NEW slot \in Slots, store'[q][slot] = "revealed"
               PROVE  slot[2] < VersionOf(slot[1])' /\ slot[2] < VersionOf(q)'
    BY DEF StoreOK
  <2>1. CASE store[q][slot] = "revealed"
    BY <1>1, <1>10, <2>1, StoreStays
  <2>2. CASE store[q][slot] # "revealed"
    <3>1. q = p /\ slot \in left
      BY <1>9, <2>2
    <3>2. CASE slot \in Superseded(p)
      <4>1. slot[1] = p /\ slot[2] < s.version
        BY <1>7, <3>2
      <4> QED
        BY <1>5, <3>1, <4>1
    <3>3. CASE slot \in R
      <4>1. slot[2] < s.version /\ slot[2] < VersionOf(slot[1])
        BY <3>3
      <4>2. slot[1] \in Sides /\ slot[2] \in 0 .. MaxVersion /\ MaxVersion \in Nat
        BY ChannelAssumptions DEF Slots
      <4>3. slot[2] \in Nat
        BY <4>2
      <4>4. VersionOf(slot[1]) \in Nat /\ VersionOf(slot[1])' \in Nat
            /\ VersionOf(slot[1])' >= VersionOf(slot[1])
        BY <1>4, <1>6, <4>2
      <4>5. slot[2] < VersionOf(slot[1])'
        BY <4>1, <4>3, <4>4
      <4> QED
        BY <1>5, <3>1, <4>1, <4>5
    <3> QED
      BY <3>1, <3>2, <3>3 DEF left
  <2> QED
    BY <2>1, <2>2
<1>17. ASSUME NEW q \in Sides PROVE SideOK(q)'
  <2>1. SideOK(q)
    BY <1>1 DEF SidesInv
  <2>2. \A t : SignedByBoth(t) => SignedByBoth(t)'
    BY <1>12 DEF SignedByBoth
  <2>3. CASE q = p
    <3>1. /\ current'[q] = s /\ held'[q] = held[q] \cup {s} /\ flight'[q] = None
          /\ revoked'[q] = IF current[q] = None THEN revoked[q] ELSE revoked[q] \cup {current[q]}
      BY <1>1, <1>2, <2>3 DEF SidesInv
    <3>2. \A t \in held'[q] : t \in States /\ SignedByBoth(t)'
      BY <2>1, <2>2, <3>1 DEF SideOK
    <3>3. \A t \in revoked'[q] : t \in States /\ t.version < VersionOf(q)'
      <4>1. \A t \in revoked[q] : t \in States /\ t.version < VersionOf(q)
        BY <2>1 DEF SideOK
      <4>2. \A t \in States : t.version \in Nat
        BY StateType
      <4>3. \A t \in revoked[q] : t \in States /\ t.version < VersionOf(q)'
        <5>1. \A i, j, k \in Nat : i < j /\ k >= j => i < k
          OBVIOUS
        <5> QED
          BY <1>4, <1>6, <4>1, <4>2, <5>1
      <4>4. current[q] # None => current[q] \in States /\ current[q].version < VersionOf(q)'
        BY <1>5, <2>1, <2>3 DEF SideOK, VersionOf
      <4> QED
        BY <3>1, <4>3, <4>4
    <3> QED
      BY <3>1, <3>2, <3>3 DEF SideOK
  <2>4. CASE q # p
    <3>1. /\ current'[q] = current[q] /\ held'[q] = held[q] /\ flight'[q] = flight[q]
          /\ revoked'[q] = revoked[q]
      BY <1>1, <1>2, <2>4 DEF SidesInv
    <3>2. VersionOf(q)' = VersionOf(q)
      BY <1>5, <2>4
    <3>3. flight[q] # None => SignedBy(q, flight[q].state)'
      BY <1>12, <2>1, <3>1 DEF SideOK, SignedBy
    <3>4. \A t \in held'[q] : t \in States /\ SignedByBoth(t)'
      BY <2>1, <2>2, <3>1 DEF SideOK
    <3> QED
      BY <2>1, <3>1, <3>2, <3>3, <3>4 DEF SideOK
  <2> QED
    BY <2>3, <2>4
<1>18. /\ DOMAIN current' = Sides /\ DOMAIN flight' = Sides /\ DOMAIN held' = Sides
       /\ DOMAIN revoked' = Sides
  BY <1>1, <1>2 DEF SidesInv
<1> QED
  BY <1>9, <1>10, <1>14, <1>15, <1>16, <1>17, <1>18 DEF HandshakeInv, SidesInv

-----------------------------------------------------------------------------
(* The steps of the handshake. *)

(* A proposal is for the next version. *)
LEMMA ProposeKeeps ==
  ASSUME HandshakeInv, NEW p \in Sides, NEW split \in Splits, Propose(p, split)
  PROVE  HandshakeInv' /\ Grows
<1> DEFINE v == VersionOf(p) + 1
           s == StateFor(v, split)
<1>1. VersionOf(p) \in Nat
  BY VersionIsNat DEF HandshakeInv, SidesInv, SideOK
<1>2. v \in 1 .. MaxVersion
  BY <1>1, ChannelAssumptions DEF Propose
<1>3. s \in States
  BY <1>2 DEF States
<1>4. s.version = v /\ v > VersionOf(p)
  BY <1>1 DEF StateFor
<1>5. /\ store[p][<<p, v>>] = "empty" /\ Record(p, {<<p, v>>}, {})
      /\ flight' = [flight EXCEPT ![p] = [role |-> "proposer", state |-> s]]
      /\ Send([type |-> "proposal", from |-> p, state |-> s])
      /\ UNCHANGED <<current, held, revoked>>
  BY DEF Propose
<1> HIDE DEF s, v
<1>6. "proposal" \in Signatures /\ <<p, v>> \in {<<p, v>>}
  BY DEF Signatures
<1> QED
  BY <1>3, <1>4, <1>5, <1>6, SignKeeps

(* A counter-signature is on what was proposed. *)
LEMMA CounterSignKeeps ==
  ASSUME HandshakeInv, NEW p \in Sides, NEW m \in sent, CounterSign(p, m)
  PROVE  HandshakeInv' /\ Grows
<1> DEFINE s == m.state
           v == m.state.version
<1>1. s \in States
  BY DEF HandshakeInv, SentOK, MessageOK
<1>2. /\ v > VersionOf(p) /\ store[p][<<p, v>>] = "empty" /\ Record(p, Sides \X {v}, {})
      /\ flight' = [flight EXCEPT ![p] = [role |-> "counterparty", state |-> s]]
      /\ Send([type |-> "counterSignature", from |-> p, state |-> s])
      /\ UNCHANGED <<current, held, revoked>>
  BY DEF CounterSign
<1>3. "counterSignature" \in Signatures /\ <<p, v>> \in Sides \X {v}
  BY DEF Signatures
<1> QED
  BY <1>1, <1>2, <1>3, SignKeeps

(* A proposal that crosses another is only noted. *)
LEMMA CounterSignThrowsKeeps ==
  ASSUME HandshakeInv, NEW p \in Sides, NEW m \in sent, CounterSignThrows(p, m)
  PROVE  HandshakeInv' /\ Grows
<1>1. Record(p, {<<m.from, m.state.version>>}, {}) /\ UNCHANGED <<current, flight, sent, held, revoked>>
  BY DEF CounterSignThrows
<1> QED
  BY <1>1, NoteKeeps

(* The proposer moves to what it proposed. *)
LEMMA AckKeeps ==
  ASSUME HandshakeInv, NEW p \in Sides, NEW m \in sent, Ack(p, m)
  PROVE  HandshakeInv' /\ Grows
<1> DEFINE s == m.state
           C == {<<m.from, m.state.version>>}
<1>1. MessageOK(m) /\ SideOK(p)
  BY DEF HandshakeInv, SentOK, SidesInv
<1>2. /\ m.type = "counterSignature" /\ m.from = Other(p) /\ flight[p] # None /\ flight[p].state = s
      /\ Record(p, C, Superseded(p)) /\ MoveTo(p, s, "ack")
  BY DEF Ack
<1>3. s \in States /\ s.version > VersionOf(p)
  BY <1>1, <1>2 DEF SideOK
<1>4. SignedByBoth(s)
  <2>1. SignedBy(p, s)
    BY <1>1, <1>2 DEF SideOK
  <2>2. SignedBy(Other(p), s)
    BY <1>2 DEF SignedBy, Signatures
  <2> QED
    BY <2>1, <2>2 DEF SignedByBoth, Sides, Other
<1> DEFINE R == {}
<1>5. R \cup Superseded(p) = Superseded(p)
  OBVIOUS
<1>6. Record(p, C, R \cup Superseded(p))
  BY <1>2, <1>5
<1>7. \A slot \in R : slot[2] < s.version /\ slot[2] < VersionOf(slot[1])
  OBVIOUS
<1> DEFINE kind == "ack"
<1>8. kind \in Answers /\ (kind = "completion" => VersionOf(Other(p)) >= s.version)
  BY DEF Answers
<1>9. MoveTo(p, s, kind)
  BY <1>2
<1> HIDE DEF s, C, R, kind
<1> QED
  BY <1>3, <1>4, <1>6, <1>7, <1>8, <1>9, MoveKeeps

(* The counterparty moves where the proposer is. *)
LEMMA CompleteKeeps ==
  ASSUME HandshakeInv, NEW p \in Sides, NEW m \in sent, Complete(p, m)
  PROVE  HandshakeInv' /\ Grows
<1> DEFINE s == m.state
<1>1. MessageOK(m) /\ SideOK(p)
  BY DEF HandshakeInv, SentOK, SidesInv
<1>2. /\ m.type = "ack" /\ m.from = Other(p) /\ flight[p] # None
      /\ s.version = flight[p].state.version
      /\ Record(p, {}, m.revealed \cup Superseded(p)) /\ MoveTo(p, s, "completion")
  BY DEF Complete
<1>3. s \in States /\ s.version > VersionOf(p) /\ s.version \in Nat
  BY <1>1, <1>2, StateType DEF SideOK, MessageOK
<1>4. /\ SignedByBoth(s) /\ VersionOf(m.from) >= s.version
      /\ m.revealed \subseteq {m.from} \X (0 .. s.version - 1)
  BY <1>1, <1>2 DEF MessageOK, Answers
<1>5. VersionOf(Other(p)) >= s.version
  BY <1>2, <1>4
<1>6. m.from \in Sides /\ VersionOf(m.from) \in Nat
  BY <1>1, VersionIsNat DEF MessageOK, HandshakeInv, SidesInv, SideOK
<1>7. ASSUME NEW slot \in m.revealed
      PROVE  slot[2] < s.version /\ slot[2] < VersionOf(slot[1])
  <2>1. slot[1] = m.from /\ slot[2] \in 0 .. s.version - 1
    BY <1>4
  <2>2. slot[2] \in Nat /\ slot[2] < s.version
    BY <1>3, <2>1
  <2>3. slot[2] < VersionOf(m.from)
    BY <1>3, <1>4, <1>6, <2>2
  <2> QED
    BY <2>1, <2>2, <2>3
<1>8. "completion" \in Answers
  BY DEF Answers
<1> HIDE DEF s
<1> QED
  BY <1>2, <1>3, <1>4, <1>5, <1>7, <1>8, MoveKeeps

(* The proposer notes what the counterparty has left. *)
LEMMA FinalizeKeeps ==
  ASSUME HandshakeInv, NEW p \in Sides, NEW m \in sent, Finalize(p, m)
  PROVE  HandshakeInv' /\ Grows
<1>1. MessageOK(m)
  BY DEF HandshakeInv, SentOK
<1>2. /\ m.type = "completion" /\ m.from = Other(p) /\ Record(p, {}, m.revealed)
      /\ UNCHANGED <<current, flight, sent, held, revoked>>
  BY DEF Finalize
<1>3. Other(m.from) = p /\ m.from \in Sides
  BY <1>2 DEF Other, Sides
<1>4. /\ VersionOf(m.from) >= m.state.version /\ VersionOf(p) >= m.state.version
      /\ m.revealed \subseteq {m.from} \X (0 .. m.state.version - 1)
      /\ m.state.version \in Nat
  BY <1>1, <1>2, <1>3, StateType DEF MessageOK, Answers
<1>5. VersionOf(p) \in Nat /\ VersionOf(m.from) \in Nat
  BY <1>3, VersionIsNat DEF HandshakeInv, SidesInv, SideOK
<1>6. ASSUME NEW slot \in m.revealed
      PROVE  slot[2] < VersionOf(slot[1]) /\ slot[2] < VersionOf(p)
  <2>1. slot[1] = m.from /\ slot[2] \in 0 .. m.state.version - 1
    BY <1>4
  <2>2. slot[2] \in Nat /\ slot[2] < m.state.version
    BY <1>4, <2>1
  <2>3. slot[2] < VersionOf(m.from) /\ slot[2] < VersionOf(p)
    BY <1>4, <1>5, <2>2
  <2> QED
    BY <2>1, <2>3
<1> QED
  BY <1>2, <1>6, NoteKeeps

(* They touch neither the watchtower nor the contract. *)
HandshakeStep ==
  \E p \in Sides : \/ \E split \in Splits : Propose(p, split)
                   \/ \E m \in sent : Deliver(p, m)

(* Each keeps the handshake's invariant. *)
LEMMA HandshakeKeeps ==
  ASSUME HandshakeInv, HandshakeStep
  PROVE  HandshakeInv' /\ Grows /\ UNCHANGED handshakeRest
<1>1. ASSUME NEW p \in Sides, NEW split \in Splits, Propose(p, split)
      PROVE  HandshakeInv' /\ Grows /\ UNCHANGED handshakeRest
  <2>1. UNCHANGED handshakeRest
    BY <1>1 DEF Propose
  <2> QED
    BY <1>1, <2>1, ProposeKeeps
<1>2. ASSUME NEW p \in Sides, NEW m \in sent, Deliver(p, m)
      PROVE  HandshakeInv' /\ Grows /\ UNCHANGED handshakeRest
  <2>1. UNCHANGED handshakeRest
    BY <1>2 DEF Deliver, CounterSign, CounterSignThrows, Ack, Complete, Finalize
  <2>2. HandshakeInv' /\ Grows
    BY <1>2, CounterSignKeeps, CounterSignThrowsKeeps, AckKeeps, CompleteKeeps, FinalizeKeeps DEF Deliver
  <2> QED
    BY <2>1, <2>2
<1> QED
  BY <1>1, <1>2 DEF HandshakeStep

-----------------------------------------------------------------------------
(* The contract and the watchtower. *)

(* The channel that was opened. *)
LEMMA TheChannelIs ==
  ASSUME ContractInv
  PROVE  /\ channel[ch].party_a = AddrA /\ channel[ch].party_b = AddrB /\ channel[ch].token = Token
         /\ AddrA \in Parties /\ AddrB \in Parties /\ AddrA # AddrB /\ Token \in Tokens
         /\ Total(ch) = DepositA + DepositB /\ Total(ch) \in Nat /\ Total(ch) > 0
         /\ ch \in Ids
<1>1. MaxDeposit \in Nat /\ MaxChannels \in Nat
  BY ChannelAssumptions
<1>2. DepositA \in Nat /\ DepositB \in Nat /\ DepositA + DepositB > 0
  BY <1>1, ProtocolAssumptions
<1>3. Total(ch) = DepositA + DepositB
  BY DEF ContractInv, TheChannel, Total
<1>4. ch \in Ids
  BY <1>1, ProtocolAssumptions DEF ch, Ids
<1> QED
  BY <1>2, <1>3, <1>4, ProtocolAssumptions DEF ContractInv, TheChannel

(* What a payment out of the contract does to the two wallets. *)
LEMMA PaymentIs ==
  ASSUME ContractInv, NEW x \in Nat, NEW y \in Nat, PayOut(ch, x, y)
  PROVE  /\ wallet' \in [Tokens -> [Parties -> Nat]]
         /\ wallet'[Token][AddrA] = wallet[Token][AddrA] + x
         /\ wallet'[Token][AddrB] = wallet[Token][AddrB] + y
         /\ wallet[Token][AddrA] \in Nat /\ wallet[Token][AddrB] \in Nat
<1>1. /\ channel[ch].party_a = AddrA /\ channel[ch].party_b = AddrB /\ channel[ch].token = Token
      /\ AddrA \in Parties /\ AddrB \in Parties /\ AddrA # AddrB /\ Token \in Tokens
  BY TheChannelIs
<1>2. wallet \in [Tokens -> [Parties -> Nat]]
  BY DEF ContractInv
<1>3. wallet' = [wallet EXCEPT ![Token][AddrA] = @ + x, ![Token][AddrB] = @ + y]
  BY <1>1 DEF PayOut
<1> DEFINE w == [wallet[Token] EXCEPT ![AddrA] = @ + x, ![AddrB] = @ + y]
<1>4. wallet' = [wallet EXCEPT ![Token] = w]
  BY <1>1, <1>2, <1>3
<1>5. wallet[Token] \in [Parties -> Nat]
  BY <1>1, <1>2
<1>6. /\ w \in [Parties -> Nat] /\ w[AddrA] = wallet[Token][AddrA] + x
      /\ w[AddrB] = wallet[Token][AddrB] + y
  BY <1>1, <1>5
<1> HIDE DEF w
<1>7. wallet'[Token] = w /\ wallet' \in [Tokens -> [Parties -> Nat]]
  BY <1>1, <1>2, <1>4, <1>6
<1> QED
  BY <1>1, <1>5, <1>6, <1>7

(* A close that pays. *)
LEMMA FinishKeeps ==
  ASSUME ContractInv, NEW x \in Nat, NEW y \in Nat, PayOut(ch, x, y), Finish(ch)
  PROVE  ContractInv'
<1>1. wallet' \in [Tokens -> [Parties -> Nat]] /\ ch \in Ids
  BY PaymentIs, TheChannelIs
<1>2. /\ status' = [status EXCEPT ![ch] = "Closed"] /\ pending' = [pending EXCEPT ![ch] = NoPending]
      /\ channel' = channel
  BY DEF Finish
<1>3. status'[ch] # "Closing"
  BY <1>1, <1>2 DEF ContractInv
<1> QED
  BY <1>1, <1>2, <1>3 DEF ContractInv

(* A close, or a correction of one, rests on a state of the channel. *)
LEMMA RestKeeps ==
  ASSUME ContractInv, NEW s \in States, RequireConserved(ch, s), NEW closer, NEW deadline,
         pending' = [pending EXCEPT ![ch] = RestingOn(closer, deadline, s)],
         DOMAIN status' = Ids, UNCHANGED <<channel, wallet>>
  PROVE  ContractInv'
<1>1. ch \in Ids
  BY TheChannelIs
<1>2. pending'[ch] = RestingOn(closer, deadline, s) /\ DOMAIN pending' = Ids
  BY <1>1 DEF ContractInv
<1>3. RestsOn(s)'
  BY <1>2 DEF RestsOn, RestingOn
<1>4. RequireConserved(ch, s)'
  BY DEF RequireConserved, Total
<1> QED
  BY <1>2, <1>3, <1>4 DEF ContractInv

(* What a pending close would pay. *)
LEMMA PendingPays ==
  ASSUME ContractInv, status[ch] = "Closing"
  PROVE  /\ pending[ch].balance_a \in Nat /\ pending[ch].balance_b \in Nat
         /\ pending[ch].balance_a + pending[ch].balance_b = Total(ch)
         /\ pending[ch].version \in Nat
         /\ pending[ch].commit_a = <<"a", pending[ch].version>>
         /\ pending[ch].commit_b = <<"b", pending[ch].version>>
         /\ \E split \in Splits : pending[ch].balance_a = split[1] /\ pending[ch].balance_b = split[2]
<1>1. PICK s \in States : RestsOn(s) /\ RequireConserved(ch, s)
  BY DEF ContractInv
<1> QED
  BY <1>1, StateType DEF RestsOn, RequireConserved

(* Consent pays two amounts and closes the channel. *)
LEMMA ConsentPays ==
  ASSUME ContractInv, NEW s \in States, CloseCooperative(ch, s)
  PROVE  /\ PayOut(ch, s.balance_a, s.balance_b) /\ Finish(ch)
         /\ s.balance_a \in Nat /\ s.balance_b \in Nat /\ s.balance_a + s.balance_b = Total(ch)
BY StateType DEF CloseCooperative, Acceptable, RequireConserved

(* A punishment pays all to the one who asks for it. *)
LEMMA PunishPays ==
  ASSUME ContractInv, NEW p \in Sides, NEW secret, Punish(Addr(p), ch, secret)
  PROVE  /\ PayOut(ch, IF p = "a" THEN Total(ch) ELSE 0, IF p = "b" THEN Total(ch) ELSE 0)
         /\ Finish(ch) /\ Total(ch) \in Nat /\ status[ch] = "Closing"
         /\ secret \in {pending[ch].commit_a, pending[ch].commit_b}
<1>1. /\ channel[ch].party_a = AddrA /\ channel[ch].party_b = AddrB /\ AddrA # AddrB /\ Total(ch) \in Nat
  BY TheChannelIs
<1>2. (Addr(p) = AddrA <=> p = "a") /\ (Addr(p) = AddrB <=> p = "b")
  BY <1>1 DEF Addr, Sides
<1> QED
  BY <1>1, <1>2 DEF Punish, PunishWith

(* Any of them keeps the contract's invariant. *)
LEMMA PayingKeeps ==
  ASSUME ContractInv,
         \/ \E s \in States : CloseCooperative(ch, s)
         \/ \E p \in Sides, secret \in Slots : Punish(Addr(p), ch, secret)
         \/ ForceClose(ch)
  PROVE  ContractInv'
<1>1. ASSUME NEW s \in States, CloseCooperative(ch, s) PROVE ContractInv'
  BY <1>1, ConsentPays, FinishKeeps
<1>2. ASSUME NEW p \in Sides, NEW secret \in Slots, Punish(Addr(p), ch, secret) PROVE ContractInv'
  <2> DEFINE x == IF p = "a" THEN Total(ch) ELSE 0
             y == IF p = "b" THEN Total(ch) ELSE 0
  <2>1. x \in Nat /\ y \in Nat /\ PayOut(ch, x, y) /\ Finish(ch)
    BY <1>2, PunishPays
  <2> HIDE DEF x, y
  <2> QED
    BY <2>1, FinishKeeps
<1>3. ASSUME ForceClose(ch) PROVE ContractInv'
  BY <1>3, PendingPays, FinishKeeps DEF ForceClose
<1> QED
  BY <1>1, <1>2, <1>3

(* A step that keeps the packages and lets nobody fall back. *)
LEMMA PackagesStay ==
  ASSUME SidesInv, Grows, NEW b, PackageOK(b)
  PROVE  PackageOK(b)'
<1>1. PICK p \in Sides, s \in States :
        /\ b = [state |-> s, challenger |-> Addr(p), secret |-> <<p, s.version>>]
        /\ s.version < VersionOf(p)
  BY DEF PackageOK
<1>2. s.version \in Nat /\ VersionOf(p) \in Nat /\ VersionOf(p)' \in Nat /\ VersionOf(p)' >= VersionOf(p)
  BY StateType, VersionIsNat DEF SidesInv, SideOK, Grows
<1>3. s.version < VersionOf(p)'
  BY <1>1, <1>2
<1> QED
  BY <1>1, <1>3 DEF PackageOK

(* A step that leaves the handshake as it is. *)
LEMMA OthersKeep ==
  ASSUME ProtocolInv, UNCHANGED <<current, flight, store, sent, held>>,
         DOMAIN revoked' = Sides, \A q \in Sides : revoked'[q] \subseteq revoked[q],
         polling' \in BOOLEAN, \A b \in blobs' \cup jobs' : PackageOK(b), ContractInv'
  PROVE  ProtocolInv'
<1>1. SidesInv /\ SentOK /\ SignedOnce
  BY DEF ProtocolInv, HandshakeInv
<1>2. \A q : VersionOf(q)' = VersionOf(q)
  BY DEF VersionOf
<1>3. SentOK'
  BY <1>1, <1>2 DEF SentOK, MessageOK, SignedByBoth, SignedBy
<1>4. SignedOnce'
  BY <1>1 DEF SignedOnce
<1>5. ASSUME NEW q \in Sides PROVE SideOK(q)' /\ StoreOK(q)'
  <2>1. SideOK(q) /\ StoreOK(q)
    BY <1>1 DEF SidesInv
  <2>2. StoreOK(q)'
    BY <1>2, <2>1 DEF StoreOK
  <2>3. SideOK(q)'
    BY <1>2, <2>1 DEF SideOK, SignedByBoth, SignedBy
  <2> QED
    BY <2>2, <2>3
<1>6. SidesInv'
  BY <1>1, <1>5 DEF SidesInv
<1>7. WatchInv'
  BY <1>2 DEF WatchInv, PackageOK
<1> QED
  BY <1>3, <1>4, <1>6, <1>7 DEF ProtocolInv, HandshakeInv

(* The state a party has moved to, and those it has held, are of the channel. *)
LEMMA HeldIsState ==
  ASSUME ProtocolInv, NEW p \in Sides
  PROVE  /\ held[p] \subseteq States /\ (current[p] # None => current[p] \in States)
         /\ ProofOf(p) \subseteq Slots
BY DEF ProtocolInv, HandshakeInv, SidesInv, SideOK, ProofOf

(* A close, or a correction of one. *)
LEMMA ClosingKeeps ==
  ASSUME ContractInv, NEW s \in States, NEW x,
         CloseUnilateral(x, ch, s) \/ Dispute(x, ch, s)
  PROVE  ContractInv'
<1>1. CASE CloseUnilateral(x, ch, s)
  <2>1. /\ RequireConserved(ch, s) /\ pending' = [pending EXCEPT ![ch] = RestingOn(x, now + Window, s)]
        /\ status' = [status EXCEPT ![ch] = "Closing"] /\ UNCHANGED <<channel, wallet>>
    BY <1>1 DEF CloseUnilateral, Acceptable
  <2>2. DOMAIN status' = Ids
    BY <2>1 DEF ContractInv
  <2> QED
    BY <2>1, <2>2, RestKeeps
<1>2. CASE Dispute(x, ch, s)
  <2> DEFINE closer == pending[ch].closer
             deadline == pending[ch].deadline
  <2>1. ch \in DOMAIN pending
    BY TheChannelIs DEF ContractInv
  <2>2. /\ RequireConserved(ch, s) /\ UNCHANGED <<status, channel, wallet>>
        /\ pending' = [pending EXCEPT ![ch] = RestingOn(closer, deadline, s)]
    BY <1>2, <2>1 DEF Dispute, Acceptable
  <2>3. DOMAIN status' = Ids
    BY <2>2 DEF ContractInv
  <2> HIDE DEF closer, deadline
  <2> QED
    BY <2>2, <2>3, RestKeeps
<1> QED
  BY <1>1, <1>2

(* A step that does not touch the channel's contract. *)
LEMMA ContractStays ==
  ASSUME ContractInv, UNCHANGED <<status, channel, pending, wallet>>
  PROVE  ContractInv'
BY DEF ContractInv, RestsOn, RequireConserved, Total

-----------------------------------------------------------------------------
(* The invariant. *)

(* Every step keeps it. *)
LEMMA ProtocolInvNext ==
  ASSUME ProtocolInv, [ProtocolNext]_allVars
  PROVE  ProtocolInv'
<1>1. HandshakeInv /\ WatchInv /\ ContractInv /\ DOMAIN revoked = Sides
  BY DEF ProtocolInv, HandshakeInv, SidesInv
<1>2. polling \in BOOLEAN /\ \A b \in blobs \cup jobs : PackageOK(b)
  BY <1>1 DEF WatchInv
<1>3. CASE HandshakeStep
  <2>1. HandshakeInv' /\ Grows /\ UNCHANGED handshakeRest
    BY <1>1, <1>3, HandshakeKeeps
  <2>2. UNCHANGED <<blobs, polling, jobs>> /\ UNCHANGED <<status, channel, pending, wallet>>
    BY <2>1 DEF handshakeRest, vars
  <2>3. \A b \in blobs \cup jobs : PackageOK(b)'
    BY <1>1, <1>2, <2>1, PackagesStay DEF HandshakeInv
  <2>4. WatchInv'
    BY <1>2, <2>2, <2>3 DEF WatchInv
  <2> QED
    BY <1>1, <2>1, <2>2, <2>4, ContractStays DEF ProtocolInv
<1>4. ASSUME UNCHANGED protocolVars, ContractInv' PROVE ProtocolInv'
  <2>1. /\ UNCHANGED <<current, flight, store, sent, held>>
        /\ revoked' = revoked /\ polling' = polling /\ blobs' = blobs /\ jobs' = jobs
    BY <1>4 DEF protocolVars
  <2> QED
    BY <1>1, <1>2, <1>4, <2>1, OthersKeep
<1>5. ASSUME NEW p \in Sides, SubmitClose(p) PROVE ProtocolInv'
  <2>1. current[p] \in States /\ CloseCooperative(ch, current[p]) /\ UNCHANGED protocolVars
    BY <1>5, HeldIsState DEF SubmitClose
  <2> QED
    BY <1>1, <1>4, <2>1, PayingKeeps
<1>6. ASSUME NEW p \in Sides, NEW s \in held[p], StartClose(p, s) \/ Correct(p, s) PROVE ProtocolInv'
  <2>1. /\ s \in States /\ UNCHANGED protocolVars
        /\ CloseUnilateral(Addr(p), ch, s) \/ Dispute(Addr(p), ch, s)
    BY <1>6, HeldIsState DEF StartClose, Correct
  <2> QED
    BY <1>1, <1>4, <2>1, ClosingKeeps
<1>7. ASSUME NEW p \in Sides, Prosecute(p) PROVE ProtocolInv'
  <2>1. (\E secret \in Slots : Punish(Addr(p), ch, secret)) /\ UNCHANGED protocolVars
    BY <1>7, HeldIsState DEF Prosecute
  <2> QED
    BY <1>1, <1>4, <2>1, PayingKeeps
<1>8. ASSUME NEW p \in Sides, NEW s \in revoked[p], RegisterWatchtower(p, s) PROVE ProtocolInv'
  <2>1. PICK b : b = [state |-> s, challenger |-> Addr(p), secret |-> <<p, s.version>>]
    OBVIOUS
  <2>2. PackageOK(b)
    BY <1>1, <2>1 DEF PackageOK, HandshakeInv, SidesInv, SideOK
  <2>3. /\ blobs' \subseteq blobs \cup {b} /\ jobs' = jobs /\ polling' = polling
        /\ revoked' = [revoked EXCEPT ![p] = @ \ {s}]
        /\ UNCHANGED <<current, flight, store, sent, held>>
        /\ UNCHANGED <<status, channel, pending, wallet>>
    BY <1>8, <2>1 DEF RegisterWatchtower, vars
  <2>4. DOMAIN revoked' = Sides /\ \A q \in Sides : revoked'[q] \subseteq revoked[q]
    BY <1>1, <2>3
  <2>5. \A c \in blobs' \cup jobs' : PackageOK(c)
    BY <1>2, <2>2, <2>3
  <2> QED
    BY <1>1, <1>2, <2>3, <2>4, <2>5, ContractStays, OthersKeep
<1>9. ASSUME Finalise PROVE ProtocolInv'
  BY <1>1, <1>4, <1>9, PayingKeeps DEF Finalise
<1>10. ASSUME LedgerCloses PROVE ProtocolInv'
  BY <1>1, <1>4, <1>10, ContractStays DEF LedgerCloses, Tick
<1>11. ASSUME Poll PROVE ProtocolInv'
  <2>1. /\ UNCHANGED <<current, flight, store, sent, held>> /\ revoked' = revoked
        /\ polling' \in BOOLEAN /\ blobs' = blobs /\ jobs' \subseteq jobs \cup blobs
        /\ UNCHANGED <<status, channel, pending, wallet>>
    BY <1>11 DEF Poll, Justice, vars
  <2> QED
    BY <1>1, <1>2, <2>1, ContractStays, OthersKeep
<1>12. ASSUME NEW b \in jobs, MonitorPunishes(b) PROVE ProtocolInv'
  <2>1. /\ UNCHANGED <<current, flight, store, sent, held>> /\ revoked' = revoked
        /\ polling' = polling /\ blobs' = blobs /\ jobs' \subseteq jobs
        /\ Punish(b.challenger, ch, b.secret)
    BY <1>12 DEF MonitorPunishes
  <2>2. PICK p \in Sides, s \in States : b.challenger = Addr(p) /\ b.secret = <<p, s.version>>
    BY <1>2 DEF PackageOK
  <2>3. b.secret \in Slots
    BY <2>2, StateType
  <2> QED
    BY <1>1, <1>2, <2>1, <2>2, <2>3, PayingKeeps, OthersKeep
<1>13. ASSUME NEW b \in jobs, MonitorFails(b) PROVE ProtocolInv'
  <2>1. /\ UNCHANGED <<current, flight, store, sent, held>> /\ revoked' = revoked
        /\ polling' = polling /\ blobs' = blobs /\ jobs' \subseteq jobs
        /\ UNCHANGED <<status, channel, pending, wallet>>
    BY <1>13 DEF MonitorFails, vars
  <2> QED
    BY <1>1, <1>2, <2>1, ContractStays, OthersKeep
<1>14. CASE UNCHANGED allVars
  BY <1>1, <1>4, <1>14, ContractStays DEF allVars, vars
<1> QED
  BY <1>3, <1>5, <1>6, <1>7, <1>8, <1>9, <1>10, <1>11, <1>12, <1>13, <1>14 DEF ProtocolNext, HandshakeStep

(* It holds of a channel that has just been opened. *)
LEMMA ProtocolInvInit ==
  ASSUME ProtocolInit
  PROVE  ProtocolInv
<1>1. ch \in Ids
  BY ChannelAssumptions, ProtocolAssumptions DEF ch, Ids
<1>2. SentOK /\ SignedOnce
  BY DEF ProtocolInit, SentOK, SignedOnce
<1>3. store \in [Sides -> [Slots -> Entries]]
  BY DEF ProtocolInit, Entries
<1>4. \A p \in Sides : SideOK(p) /\ StoreOK(p)
  BY DEF ProtocolInit, SideOK, StoreOK
<1>5. SidesInv
  BY <1>3, <1>4 DEF ProtocolInit, SidesInv
<1>6. WatchInv
  BY DEF ProtocolInit, WatchInv
<1>7. status[ch] = "Open" /\ channel[ch] = TheChannel
  BY <1>1 DEF ProtocolInit, ChannelOpened, TheChannel
<1>8. wallet \in [Tokens -> [Parties -> Nat]] /\ DOMAIN pending = Ids /\ DOMAIN status = Ids
  BY DEF ProtocolInit, ChannelOpened
<1>9. ContractInv
  BY <1>7, <1>8 DEF ContractInv
<1> QED
  BY <1>2, <1>5, <1>6, <1>9 DEF ProtocolInv, HandshakeInv

(* So it always holds. *)
LEMMA ProtocolInvAlways == ProtocolSpec => []ProtocolInv
<1>1. ProtocolInit => ProtocolInv
  BY ProtocolInvInit
<1>2. ProtocolInv /\ [ProtocolNext]_allVars => ProtocolInv'
  BY ProtocolInvNext
<1> QED
  BY <1>1, <1>2, PTL DEF ProtocolSpec

-----------------------------------------------------------------------------
(* The properties. *)

(* The parties never both sign two different states of one version. *)
THEOREM OneStateAlways == ProtocolSpec => []OneStatePerVersion
<1>1. ASSUME ProtocolInv PROVE OneStatePerVersion
  <2> SUFFICES ASSUME NEW s \in held["a"] \cup held["b"], NEW t \in held["a"] \cup held["b"],
                      s.version = t.version
               PROVE  s = t
    BY DEF OneStatePerVersion
  <2>1. SignedBy("a", s) /\ SignedBy("a", t)
    BY <1>1 DEF ProtocolInv, HandshakeInv, SidesInv, SideOK, SignedByBoth, Sides
  <2> QED
    BY <1>1, <2>1 DEF ProtocolInv, HandshakeInv, SignedOnce, SignedBy
<1>2. ProtocolInv => OneStatePerVersion
  BY <1>1
<1> QED
  BY <1>2, ProtocolInvAlways, PTL

(* The latest state a party has moved to has not been revoked by anybody. *)
THEOREM LatestAlwaysSafe == ProtocolSpec => []LatestIsSafe
<1>1. ASSUME ProtocolInv PROVE LatestIsSafe
  <2> SUFFICES ASSUME NEW p \in Sides, current[p] # None, VersionOf(p) >= VersionOf(Other(p)),
                      NEW q \in Sides, NEW r \in Sides, store[q][<<r, VersionOf(p)>>] = "revealed"
               PROVE  FALSE
    BY DEF LatestIsSafe
  <2>1. \A x \in Sides : VersionOf(x) \in 0 .. MaxVersion /\ VersionOf(x) \in Nat
    BY <1>1, VersionIsNat DEF ProtocolInv, HandshakeInv, SidesInv, SideOK
  <2>2. <<r, VersionOf(p)>> \in Slots
    BY <2>1 DEF Slots
  <2>3. VersionOf(p) < VersionOf(r)
    BY <1>1, <2>2 DEF ProtocolInv, HandshakeInv, SidesInv, StoreOK
  <2>4. VersionOf(r) <= VersionOf(p)
    <3>1. r = p \/ r = Other(p)
      BY DEF Sides, Other
    <3> QED
      BY <2>1, <3>1
  <2> QED
    BY <2>1, <2>3, <2>4
<1>2. ProtocolInv => LatestIsSafe
  BY <1>1
<1> QED
  BY <1>2, ProtocolInvAlways, PTL

(* A version that has been revealed lies behind the one whose record shows it. *)
LEMMA ProofIsPast ==
  ASSUME ProtocolInv, NEW p \in Sides, NEW secret \in ProofOf(p), Punish(Addr(p), ch, secret)
  PROVE  pending[ch].version < VersionOf(p)
BY DEF ProofOf, ProtocolInv, HandshakeInv, SidesInv, StoreOK

(* So does the version of a state that the monitor punishes a close at, though
   the close it looked up may since have been corrected. *)
LEMMA JobIsPast ==
  ASSUME ProtocolInv, NEW b \in jobs, Punish(b.challenger, ch, b.secret), NEW p \in Sides,
         b.challenger = Addr(p)
  PROVE  pending[ch].version < VersionOf(p)
<1>1. PICK q \in Sides, s \in States :
        b.challenger = Addr(q) /\ b.secret = <<q, s.version>> /\ s.version < VersionOf(q)
  BY DEF ProtocolInv, WatchInv, PackageOK
<1>2. p = q
  BY <1>1, ProtocolAssumptions DEF Addr, Sides
<1>3. pending[ch].commit_a = <<"a", pending[ch].version>> /\ pending[ch].commit_b = <<"b", pending[ch].version>>
  BY PendingPays DEF ProtocolInv, Punish, PunishWith
<1>4. b.secret \in {pending[ch].commit_a, pending[ch].commit_b}
  BY DEF Punish, PunishWith
<1>5. b.secret[2] = pending[ch].version /\ b.secret[2] = s.version
  BY <1>1, <1>3, <1>4
<1> QED
  BY <1>1, <1>2, <1>5

(* A punishment by a party, or by the monitor on its behalf. *)
Punished(p) == Prosecute(p) \/ \E b \in jobs : b.challenger = Addr(p) /\ MonitorPunishes(b)

(* Whatever is proposed and however messages and look-ups are delayed, a
   punishment only hits a close at a version its beneficiary has moved past. *)
THEOREM NobodyPunishesTheLatest ==
  ProtocolSpec => [][\A p \in Sides : Punished(p) => pending[ch].version < VersionOf(p)]_allVars
<1>1. ProtocolInv => \A p \in Sides : Punished(p) => pending[ch].version < VersionOf(p)
  BY ProofIsPast, JobIsPast DEF Punished, Prosecute, MonitorPunishes
<1>2. ProtocolInv /\ [ProtocolNext]_allVars
        => [\A p \in Sides : Punished(p) => pending[ch].version < VersionOf(p)]_allVars
  BY <1>1
<1> QED
  BY <1>2, ProtocolInvAlways, PTL DEF ProtocolSpec

(* Two amounts paid out of the channel that are both above 0, or all of it to
   the other side, do not pay a side the whole. *)
LEMMA WholeTo ==
  ASSUME ContractInv, NEW p \in Sides, NEW x \in Nat, NEW y \in Nat, PayOut(ch, x, y),
         x + y = Total(ch), Paid(p)
  PROVE  (IF p = "a" THEN y ELSE x) = 0
<1>1. /\ wallet'[Token][AddrA] = wallet[Token][AddrA] + x
      /\ wallet'[Token][AddrB] = wallet[Token][AddrB] + y
      /\ wallet[Token][AddrA] \in Nat /\ wallet[Token][AddrB] \in Nat
  BY PaymentIs
<1>2. CASE p = "a"
  <2>1. wallet'[Token][AddrA] = wallet[Token][AddrA] + (x + y)
    BY <1>2 DEF Paid, Addr
  <2> QED
    BY <1>1, <1>2, <2>1
<1>3. CASE p # "a"
  <2>1. wallet'[Token][AddrB] = wallet[Token][AddrB] + (x + y)
    BY <1>3 DEF Paid, Addr
  <2> QED
    BY <1>1, <1>3, <2>1
<1> QED
  BY <1>2, <1>3

(* PunishedVersionIsPast knows a punishment by what it pays: one side has the
   whole channel.  So may a state that both agreed on, unless every split that
   is proposed leaves both sides something; that is the theorem's hypothesis. *)
THEOREM PunishingAlwaysLate ==
  ASSUME \A split \in Splits : split[1] > 0 /\ split[2] > 0
  PROVE  ProtocolSpec => PunishedVersionIsPast
<1> DEFINE Late == \A p \in Sides : Paid(p) => pending[ch].version < VersionOf(p)
<1>1. ASSUME ProtocolInv, ProtocolNext, NEW p \in Sides, Paid(p)
      PROVE  pending[ch].version < VersionOf(p)
  <2>1. /\ ContractInv /\ wallet[Token][Addr(p)] \in Nat
        /\ Total(ch) \in Nat /\ Total(ch) > 0
    <3>1. ContractInv
      BY <1>1 DEF ProtocolInv
    <3>2. Token \in Tokens /\ Addr(p) \in Parties
      BY ProtocolAssumptions DEF Addr
    <3> QED
      BY <3>1, <3>2, TheChannelIs DEF ContractInv
  <2>2. wallet' # wallet
    <3>1. wallet'[Token][Addr(p)] # wallet[Token][Addr(p)]
      BY <1>1, <2>1 DEF Paid
    <3> QED
      BY <3>1
  <2>3. \A s \in States : s.balance_a \in Nat \ {0} /\ s.balance_b \in Nat \ {0}
    BY StateType
  <2>4. ASSUME NEW q \in Sides, SubmitClose(q) PROVE FALSE
    <3>1. current[q] \in States /\ CloseCooperative(ch, current[q])
      BY <1>1, <2>4, HeldIsState DEF SubmitClose
    <3> DEFINE x == current[q].balance_a
               y == current[q].balance_b
    <3>2. PayOut(ch, x, y) /\ x + y = Total(ch) /\ x \in Nat \ {0} /\ y \in Nat \ {0}
      BY <2>1, <2>3, <3>1, ConsentPays
    <3> HIDE DEF x, y
    <3>3. (IF p = "a" THEN y ELSE x) = 0
      BY <1>1, <2>1, <3>2, WholeTo
    <3> QED
      BY <3>2, <3>3
  <2>5. ASSUME Finalise PROVE FALSE
    <3>1. status[ch] = "Closing" /\ PayOut(ch, pending[ch].balance_a, pending[ch].balance_b)
      BY <2>5 DEF Finalise, ForceClose
    <3> DEFINE x == pending[ch].balance_a
               y == pending[ch].balance_b
    <3>2. PICK s \in States : RestsOn(s) /\ RequireConserved(ch, s)
      BY <2>1, <3>1 DEF ContractInv
    <3>3. PayOut(ch, x, y) /\ x + y = Total(ch) /\ x \in Nat \ {0} /\ y \in Nat \ {0}
      BY <2>3, <3>1, <3>2 DEF RestsOn, RequireConserved
    <3> HIDE DEF x, y
    <3>4. (IF p = "a" THEN y ELSE x) = 0
      BY <1>1, <2>1, <3>3, WholeTo
    <3> QED
      BY <3>3, <3>4
  <2>6. ASSUME NEW q \in Sides, NEW secret, Punish(Addr(q), ch, secret) PROVE q = p
    <3> DEFINE x == IF q = "a" THEN Total(ch) ELSE 0
               y == IF q = "b" THEN Total(ch) ELSE 0
    <3>1. PayOut(ch, x, y) /\ x \in Nat /\ y \in Nat /\ x + y = Total(ch)
      BY <2>1, <2>6, PunishPays DEF Sides
    <3>2. (q = "a" => x > 0) /\ (q = "b" => y > 0)
      BY <2>1
    <3> HIDE DEF x, y
    <3>3. (IF p = "a" THEN y ELSE x) = 0
      BY <1>1, <2>1, <3>1, WholeTo
    <3> QED
      BY <3>2, <3>3 DEF Sides
  <2>7. ASSUME NEW q \in Sides, Prosecute(q) PROVE pending[ch].version < VersionOf(p)
    BY <1>1, <2>6, <2>7, ProofIsPast DEF Prosecute
  <2>8. ASSUME NEW b \in jobs, MonitorPunishes(b) PROVE pending[ch].version < VersionOf(p)
    <3>1. PICK q \in Sides : b.challenger = Addr(q)
      BY <1>1 DEF ProtocolInv, WatchInv, PackageOK
    <3>2. Punish(b.challenger, ch, b.secret)
      BY <2>8 DEF MonitorPunishes
    <3>3. q = p
      BY <2>6, <3>1, <3>2
    <3> QED
      BY <1>1, <3>1, <3>2, <3>3, JobIsPast
  <2>9. CASE HandshakeStep
    BY <1>1, <2>2, <2>9, HandshakeKeeps DEF handshakeRest, vars, ProtocolInv
  <2> QED
    BY <1>1, <2>2, <2>4, <2>5, <2>7, <2>8, <2>9
       DEF ProtocolNext, HandshakeStep, StartClose, Correct, CloseUnilateral, Dispute,
           RegisterWatchtower, LedgerCloses, Tick, Poll, MonitorFails, vars
<1>2. ProtocolInv /\ [ProtocolNext]_allVars => [Late]_allVars
  BY <1>1
<1> QED
  BY <1>2, ProtocolInvAlways, PTL DEF ProtocolSpec, PunishedVersionIsPast

-----------------------------------------------------------------------------
(* The types.  What ProtocolInv leaves open is that the negotiators' variables
   are functions and nothing else. *)
Shaped == /\ current = [p \in Sides |-> current[p]]
          /\ held = [p \in Sides |-> held[p]]
          /\ revoked = [p \in Sides |-> revoked[p]]

(* They are written with EXCEPT only. *)
LEMMA ShapedNext ==
  ASSUME Shaped, [ProtocolNext]_allVars
  PROVE  Shaped'
<1> DEFINE Same == UNCHANGED <<current, held, revoked>>
           Moves == \E p \in Sides : \E s, kind : MoveTo(p, s, kind)
           Drops == \E p \in Sides : \E s : /\ revoked' = [revoked EXCEPT ![p] = @ \ {s}]
                                            /\ UNCHANGED <<current, held>>
<1>1. Same \/ Moves \/ Drops
  <2>1. ASSUME NEW p \in Sides, NEW split, Propose(p, split) PROVE Same
    BY <2>1 DEF Propose
  <2>2. ASSUME NEW p \in Sides, NEW m, Deliver(p, m) PROVE Same \/ Moves
    BY <2>2 DEF Deliver, CounterSign, CounterSignThrows, Ack, Complete, Finalize
  <2>3. ASSUME NEW p \in Sides, NEW s, RegisterWatchtower(p, s) PROVE Drops
    BY <2>3 DEF RegisterWatchtower
  <2>4. ASSUME UNCHANGED protocolVars PROVE Same
    BY <2>4 DEF protocolVars
  <2> HIDE DEF Same, Moves, Drops
  <2>5. ASSUME NEW p \in Sides,
               \/ SubmitClose(p) \/ Prosecute(p)
               \/ \E s \in held[p] : StartClose(p, s) \/ Correct(p, s)
        PROVE  Same
    BY <2>4, <2>5 DEF SubmitClose, Prosecute, StartClose, Correct
  <2>6. ASSUME \/ Finalise \/ LedgerCloses \/ Poll \/ UNCHANGED allVars
               \/ \E b \in jobs : MonitorPunishes(b) \/ MonitorFails(b)
        PROVE  Same
    BY <2>4, <2>6 DEF Finalise, LedgerCloses, Poll, MonitorPunishes, MonitorFails, Same,
                      allVars, protocolVars
  <2> QED
    BY <2>1, <2>2, <2>3, <2>5, <2>6 DEF ProtocolNext
<1>2. CASE Same
  BY <1>2 DEF Shaped
<1>3. CASE Moves
  <2>1. PICK p, s, kind : p \in Sides /\ MoveTo(p, s, kind)
    BY <1>3
  <2>2. /\ current' = [current EXCEPT ![p] = s]
        /\ held' = [held EXCEPT ![p] = @ \cup {s}]
        /\ revoked' = [revoked EXCEPT ![p] = IF current[p] = None THEN @ ELSE @ \cup {current[p]}]
    BY <2>1 DEF MoveTo
  <2> QED
    BY <2>2 DEF Shaped
<1>4. CASE Drops
  BY <1>4 DEF Shaped
<1> QED
  BY <1>1, <1>2, <1>3, <1>4

(* The negotiators hold states of the channel, and messages, slots and packages
   are about versions that have been proposed. *)
THEOREM ProtocolTypeCorrect == ProtocolSpec => []ProtocolTypeOK
<1>1. ProtocolInit => Shaped
  BY DEF ProtocolInit, Shaped
<1>2. Shaped /\ [ProtocolNext]_allVars => Shaped'
  BY ShapedNext
<1>3. ASSUME ProtocolInv, Shaped PROVE ProtocolTypeOK
  <2>1. SidesInv /\ SentOK /\ WatchInv
    BY <1>3 DEF ProtocolInv, HandshakeInv
  <2>2. /\ current \in [Sides -> States \cup {None}]
        /\ held \in [Sides -> SUBSET States] /\ revoked \in [Sides -> SUBSET States]
    BY <1>3, <2>1 DEF SidesInv, SideOK, Shaped
  <2>3. \A p \in Sides : flight[p] = None \/ (/\ flight[p].role \in {"proposer", "counterparty"}
                                             /\ flight[p].state \in States)
    BY <2>1 DEF SidesInv, SideOK
  <2>4. \A m \in sent : m.from \in Sides /\ m.state \in States
    BY <2>1 DEF SentOK, MessageOK
  <2>5. jobs \cup blobs \subseteq [state : States, challenger : {AddrA, AddrB}, secret : Slots]
    <3>1. ASSUME NEW b \in jobs \cup blobs
          PROVE  b \in [state : States, challenger : {AddrA, AddrB}, secret : Slots]
      <4>1. PICK p \in Sides, s \in States :
              b = [state |-> s, challenger |-> Addr(p), secret |-> <<p, s.version>>]
        BY <2>1 DEF WatchInv, PackageOK
      <4>2. <<p, s.version>> \in Slots /\ Addr(p) \in {AddrA, AddrB}
        BY StateType DEF Addr
      <4> QED
        BY <4>1, <4>2
    <3> QED
      BY <3>1
  <2> QED
    BY <2>1, <2>2, <2>3, <2>4, <2>5 DEF SidesInv, WatchInv, ProtocolTypeOK
<1>4. ProtocolInv /\ Shaped => ProtocolTypeOK
  BY <1>3
<1> QED
  BY <1>1, <1>2, <1>4, ProtocolInvAlways, PTL DEF ProtocolSpec

-----------------------------------------------------------------------------
(* The negotiators as users of the contract of module Channels. *)

(* They make no call that the contract does not provide for, provided that the
   states it is shown include those they negotiate. *)
LEMMA ProtocolStepIsContractStep ==
  ASSUME States \subseteq SignedStates, ProtocolInv, [ProtocolNext]_allVars
  PROVE  [Next]_vars
<1>1. ch \in Ids /\ \A p \in Sides : Addr(p) \in Parties
  BY TheChannelIs DEF ProtocolInv, Addr
<1>2. Slots \subseteq Secrets
  BY ProtocolAssumptions DEF Slots
<1>3. ASSUME NEW s \in States, NEW p \in Sides,
             CloseCooperative(ch, s) \/ CloseUnilateral(Addr(p), ch, s) \/ Dispute(Addr(p), ch, s)
      PROVE  Next
  BY <1>1, <1>3 DEF Next
<1>4. ASSUME NEW p \in Sides, NEW secret \in Slots, Punish(Addr(p), ch, secret) PROVE Next
  BY <1>1, <1>2, <1>4 DEF Next
<1>5. CASE HandshakeStep
  BY <1>5, HandshakeKeeps DEF handshakeRest, ProtocolInv
<1>6. ASSUME NEW p \in Sides, SubmitClose(p) PROVE Next
  BY <1>3, <1>6, HeldIsState DEF SubmitClose
<1>7. ASSUME NEW p \in Sides, NEW s \in held[p], StartClose(p, s) \/ Correct(p, s) PROVE Next
  BY <1>3, <1>7, HeldIsState DEF StartClose, Correct
<1>8. ASSUME NEW p \in Sides, Prosecute(p) PROVE Next
  BY <1>4, <1>8, HeldIsState DEF Prosecute
<1>9. ASSUME NEW b \in jobs, MonitorPunishes(b) PROVE Next
  <2>1. PICK p \in Sides, s \in States : b.challenger = Addr(p) /\ b.secret = <<p, s.version>>
    BY DEF ProtocolInv, WatchInv, PackageOK
  <2>2. b.secret \in Slots /\ Punish(b.challenger, ch, b.secret)
    BY <1>9, <2>1, StateType DEF MonitorPunishes
  <2> QED
    BY <1>4, <2>1, <2>2
<1>10. ASSUME Finalise \/ LedgerCloses PROVE Next
  BY <1>1, <1>10 DEF Finalise, LedgerCloses, Next
<1>11. ASSUME \/ \E p \in Sides : \E s \in revoked[p] : RegisterWatchtower(p, s)
              \/ Poll \/ (\E b \in jobs : MonitorFails(b)) \/ UNCHANGED allVars
       PROVE  UNCHANGED vars
  BY <1>11 DEF RegisterWatchtower, Poll, MonitorFails, allVars
<1> QED
  BY <1>5, <1>6, <1>7, <1>8, <1>9, <1>10, <1>11 DEF ProtocolNext, HandshakeStep

(* The contract's records are in order when the channel has been opened. *)
LEMMA OpenedRecords ==
  ASSUME ChannelOpened
  PROVE  RecordInv /\ EscrowBacked
<1>1. /\ MaxDeposit \in Nat /\ MaxChannels \in Nat /\ MaxTime \in Nat /\ MaxChannels >= 1
      /\ AddrA \in Parties /\ AddrB \in Parties /\ AddrA # AddrB /\ Token \in Tokens
      /\ KeyA \in Keys /\ KeyB \in Keys
      /\ DepositA \in 0 .. MaxDeposit /\ DepositB \in 0 .. MaxDeposit /\ DepositA + DepositB > 0
      /\ None \notin Parties /\ None \notin Tokens
  BY ChannelAssumptions, ProtocolAssumptions
<1>2. DepositA \in Nat /\ DepositB \in Nat /\ DepositA + DepositB <= 2 * MaxDeposit
  BY <1>1
<1>3. ch \in Ids /\ nextId = 1 /\ ch = 1
  BY <1>1 DEF ch, Ids, ChannelOpened
<1>4. /\ status[ch] = "Open" /\ channel[ch].party_a = AddrA /\ channel[ch].party_b = AddrB
      /\ channel[ch].token = Token /\ Total(ch) = DepositA + DepositB
  BY <1>3 DEF ChannelOpened, Total
<1>5. \A c \in Ids \ {ch} : status[c] = "Absent" /\ channel[c] = NoChannel
  BY DEF ChannelOpened
<1>6. RecordsOK
  <2>1. pubkey \in [Parties -> Keys \cup {None}]
    BY <1>1 DEF ChannelOpened
  <2>2. channel \in [Ids -> [party_a : Parties \cup {None}, party_b : Parties \cup {None},
                             token : Tokens \cup {None},
                             deposit_a : 0 .. MaxDeposit, deposit_b : 0 .. MaxDeposit]]
    BY <1>1 DEF ChannelOpened, NoChannel
  <2>3. pending \in [Ids -> [closer : Parties \cup {None}, deadline : Nat,
                             version : 0 .. MaxVersion,
                             balance_a : 0 .. MaxBalance, balance_b : 0 .. MaxBalance,
                             commit_a : Secrets \cup {None}, commit_b : Secrets \cup {None}]]
    BY ChannelAssumptions DEF ChannelOpened, NoPending
  <2>4. /\ nextId \in 0 .. MaxChannels /\ now \in 0 .. MaxTime
        /\ status \in [Ids -> {"Absent", "Open", "Closing", "Closed"}]
        /\ wallet \in [Tokens -> [Parties -> Nat]]
    BY <1>1, <1>3 DEF ChannelOpened
  <2> QED
    BY <2>1, <2>2, <2>3, <2>4 DEF RecordsOK
<1>7. ChannelInv
  <2> SUFFICES ASSUME NEW c \in Ids
               PROVE  /\ c > nextId => status[c] = "Absent"
                      /\ status[c] = "Absent" => channel[c] = NoChannel
                      /\ status[c] # "Absent" =>
                           /\ channel[c].party_a \in Parties /\ channel[c].party_b \in Parties
                           /\ channel[c].party_a # channel[c].party_b
                           /\ channel[c].token \in Tokens
                           /\ Total(c) > 0
    BY DEF ChannelInv
  <2>1. CASE c = ch
    BY <1>1, <1>3, <1>4, <2>1
  <2>2. CASE c # ch
    BY <1>5, <2>2
  <2> QED
    BY <2>1, <2>2
<1>8. PendingCoversDeposits
  <2>1. \A c \in Ids : pending[c].closer = None /\ status[c] # "Closing"
    BY DEF ChannelOpened, NoPending
  <2> QED
    BY <2>1 DEF PendingCoversDeposits
<1>9. escrow \in [Tokens -> Int]
  BY <1>2 DEF ChannelOpened
<1>10. ASSUME NEW t \in Tokens PROVE escrow[t] = Cardinality(Owed(t))
  <2>1. \A u \in Owed(t) : u[1] = ch /\ t = Token
    BY <1>4, <1>5 DEF Owed, Live
  <2>2. CASE t = Token
    <3> DEFINE n == DepositA + DepositB
    <3>1. Owed(t) = {ch} \X (1 .. n)
      <4>1. Owed(t) \subseteq {ch} \X (1 .. n)
        BY <1>2, <1>4, <2>1 DEF Owed
      <4>2. {ch} \X (1 .. n) \subseteq Owed(t)
        BY <1>1, <1>2, <1>3, <1>4, <2>2 DEF Owed, Live
      <4> QED
        BY <4>1, <4>2
    <3>2. n \in Nat
      BY <1>2
    <3> HIDE DEF n
    <3>3. Cardinality(Owed(t)) = n
      BY <3>1, <3>2, UnitsCounted
    <3>4. escrow[t] = n
      BY <2>2 DEF ChannelOpened, n
    <3> QED
      BY <3>3, <3>4
  <2>3. CASE t # Token
    <3>1. Owed(t) = {}
      BY <2>1, <2>3
    <3>2. escrow[t] = 0
      BY <2>3 DEF ChannelOpened
    <3> QED
      BY <3>1, <3>2, FS_EmptySet
  <2> QED
    BY <2>2, <2>3
<1> QED
  BY <1>6, <1>7, <1>8, <1>9, <1>10 DEF RecordInv, EscrowBacked

(* So all that is proved of the contract's steps holds of the channel that the
   negotiators use: they, their punishments and the monitor's late calls never
   touch money that is not this channel's, and a close never lacks its record. *)
THEOREM NegotiatedChannelIsBacked ==
  ASSUME States \subseteq SignedStates
  PROVE  ProtocolSpec => [](EscrowBacked /\ PendingCoversDeposits) /\ [][Next]_vars
<1>1. ProtocolInit => RecordInv /\ EscrowBacked
  BY OpenedRecords DEF ProtocolInit
<1>2. ProtocolInv /\ [ProtocolNext]_allVars => [Next]_vars
  BY ProtocolStepIsContractStep
<1>3. RecordInv => PendingCoversDeposits
  BY DEF RecordInv
<1> QED
  BY <1>1, <1>2, <1>3, ProtocolInvAlways, RecordInvNext, EscrowBackedNext, PTL DEF ProtocolSpec
=============================================================================
