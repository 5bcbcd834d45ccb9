---------------------------- MODULE MetersProofs ----------------------------
(***************************************************************************)
(* Theorems about per-call billing, for every value of the constants: any  *)
(* number of streams, batches and keys, any prices and allowances, and     *)
(* beside time and usage streams that go on.                               *)
(*                                                                         *)
(* The step of a stream leaves the surplus of the contract over its        *)
(* streams as it is (StreamsProofs); what is proved here is that a step of *)
(* a meter changes it by what the meters hold more or less.                *)
(***************************************************************************)
EXTENDS UsageMeters, StreamsProofs

Claimed(i) == {b \in Recorded(i) : batch[i][b].status = "Claimed"}

MeterTypes ==
  /\ sellerKey \in [Parties -> Keys \cup {None}]
  /\ meter \in [Ids -> Meters \cup {None}]
  /\ batch \in [Ids -> [BatchIds -> Batches \cup {None}]]

(* A batch was charged for its calls, and refunded for those that are void. *)
BatchOK(i, b) ==
  /\ batch[i][b].charged = batch[i][b].calls * meter[i].price
  /\ batch[i][b].voided <= batch[i][b].calls
  /\ batch[i][b].refunded = batch[i][b].voided * meter[i].price
  /\ batch[i][b].first + batch[i][b].calls =
       IF b < meter[i].count THEN batch[i][b + 1].first ELSE meter[i].next

(* What goes through a meter is bounded, and its columns add up. *)
MeterOK(i) ==
  meter[i] # None =>
    /\ status[i] # "Absent"
    /\ meter[i].escrowed + meter[i].charged + meter[i].claimed <= MaxCharge
    /\ meter[i].charged =
         meter[i].price * Cardinality(Standing(i, Recorded(i) \ Claimed(i)))
    /\ meter[i].claimed = meter[i].price * Cardinality(Standing(i, Claimed(i)))

StreamMetersOK(i) ==
  /\ Recorded(i) = IF meter[i] = None THEN {} ELSE {b \in BatchIds : b <= meter[i].count}
  /\ MeterOK(i)
  /\ \A b \in Recorded(i) : BatchOK(i, b)

MetersHeld == \A t \in Tokens : Surplus(t) = Cardinality(HeldForMeters(t))

MetersInv ==
  /\ Books /\ MeterTypes
  /\ \A i \in Ids : StreamMetersOK(i)
  /\ MetersHeld

-----------------------------------------------------------------------------
(* What the records of a meter say, field by field. *)
LEMMA MeterFields ==
  ASSUME MeterTypes, NEW i \in Ids, meter[i] # None
  PROVE  /\ meter[i] \in Meters /\ meter[i].price \in Nat \ {0}
         /\ meter[i].escrowed \in Nat /\ meter[i].charged \in Nat
         /\ meter[i].claimed \in Nat /\ meter[i].next \in Nat /\ meter[i].count \in Nat
         /\ meter[i].escrowed <= MaxCharge /\ meter[i].count <= MaxBatches
<1>1. meter[i] \in Meters
  BY DEF MeterTypes
<1>2. PICK m \in Meters : m = meter[i]
  BY <1>1
<1>3. m.price \in Nat \ {0}
  BY MeterAssumptions DEF Meters
<1>4. /\ m.escrowed \in Nat /\ m.charged \in Nat /\ m.claimed \in Nat /\ m.next \in Nat
      /\ m.count \in Nat /\ m.escrowed <= MaxCharge /\ m.count <= MaxBatches
  BY MeterAssumptions DEF Meters
<1> QED
  BY <1>2, <1>3, <1>4

(* And those of a batch. *)
LEMMA BatchFields ==
  ASSUME MeterTypes, NEW i \in Ids, NEW b \in Recorded(i)
  PROVE  /\ b \in BatchIds /\ b \in Nat /\ batch[i][b] # None /\ batch[i][b] \in Batches
         /\ batch[i][b].calls \in 1 .. MaxCalls /\ batch[i][b].calls \in Nat
         /\ batch[i][b].first \in Nat /\ batch[i][b].charged \in Nat
         /\ batch[i][b].voided \in Nat /\ batch[i][b].refunded \in Nat
         /\ batch[i][b].key \in Keys /\ batch[i][b].root \in SUBSET Leaves
<1>1. b \in BatchIds /\ batch[i][b] # None /\ batch[i][b] \in Batches
  BY DEF MeterTypes, Recorded
<1> QED
  BY <1>1, MeterAssumptions DEF Batches, BatchIds

(* The calls that stand, and what is held for the meters, can be counted. *)
LEMMA StandingIsFinite ==
  ASSUME NEW i, NEW B \in SUBSET BatchIds
  PROVE  IsFiniteSet(Standing(i, B)) /\ Cardinality(Standing(i, B)) \in Nat
<1>1. IsFiniteSet(BatchIds) /\ IsFiniteSet(1 .. MaxCalls)
  BY FS_Interval, MeterAssumptions DEF BatchIds
<1>2. IsFiniteSet(BatchIds \X (1 .. MaxCalls))
  BY <1>1, FS_Product
<1>3. Standing(i, B) \subseteq BatchIds \X (1 .. MaxCalls)
  BY DEF Standing
<1> QED
  BY <1>2, <1>3, FS_Subset, FS_CardinalityType

(* What is held for the meters can be counted. *)
LEMMA HeldForMetersIsFinite ==
  ASSUME NEW t
  PROVE  IsFiniteSet(HeldForMeters(t)) /\ Cardinality(HeldForMeters(t)) \in Nat
<1>1. IsFiniteSet(Ids) /\ IsFiniteSet(1 .. MaxCharge)
  BY FS_Interval, StreamAssumptions, MeterAssumptions DEF Ids
<1>2. IsFiniteSet(Ids \X (1 .. MaxCharge))
  BY <1>1, FS_Product
<1>3. HeldForMeters(t) \subseteq Ids \X (1 .. MaxCharge)
  BY DEF HeldForMeters
<1> QED
  BY <1>2, <1>3, FS_Subset, FS_CardinalityType

(* When one meter goes from holding a units to holding b, so does the sum. *)
LEMMA HeldMoves ==
  ASSUME MeterTypes, NEW k \in Ids, NEW m \in Meters, meter' = [meter EXCEPT ![k] = m],
         UNCHANGED terms, NEW a \in Nat, NEW b \in Nat, a <= MaxCharge, b <= MaxCharge,
         meter[k] = None => a = 0,
         meter[k] # None => a = meter[k].escrowed + meter[k].charged,
         b = m.escrowed + m.charged, NEW t \in Tokens
  PROVE  Cardinality(HeldForMeters(t)') =
           Cardinality(HeldForMeters(t)) + (IF terms[k].token = t THEN b - a ELSE 0)
<1>1. meter'[k] = m /\ m # None /\ \A i \in Ids : i # k => meter'[i] = meter[i]
  BY MeterAssumptions DEF MeterTypes
<1>2. \A v \in Ids \X (1 .. MaxCharge) :
        v[1] # k => (v \in HeldForMeters(t)' <=> v \in HeldForMeters(t))
  BY <1>1 DEF HeldForMeters
<1>3. /\ HeldForMeters(t) \subseteq Ids \X (1 .. MaxCharge)
      /\ HeldForMeters(t)' \subseteq Ids \X (1 .. MaxCharge)
  BY DEF HeldForMeters
<1>4. CASE terms[k].token # t
  <2>1. \A v \in Ids \X (1 .. MaxCharge) :
          v[1] = k => v \notin HeldForMeters(t)' /\ v \notin HeldForMeters(t)
    BY <1>4 DEF HeldForMeters
  <2>2. HeldForMeters(t)' = HeldForMeters(t)
    BY <1>2, <1>3, <2>1
  <2> QED
    BY <1>4, <2>2, HeldForMetersIsFinite
<1>5. CASE terms[k].token = t
  <2>1. \A v \in Ids \X (1 .. MaxCharge) :
          v[1] = k => (v \in HeldForMeters(t)' <=> v[2] <= b)
    BY <1>1, <1>5 DEF HeldForMeters
  <2>2. \A v \in Ids \X (1 .. MaxCharge) :
          v[1] = k => (v \in HeldForMeters(t) <=> v[2] <= a)
    BY <1>5, MeterAssumptions DEF HeldForMeters
  <2>3. ASSUME NEW x \in Nat, NEW y \in Nat, x <= y, y <= MaxCharge
        PROVE  {k} \X (x + 1 .. y) =
                 {v \in Ids \X (1 .. MaxCharge) : v[1] = k /\ ~ (v[2] <= x) /\ v[2] <= y}
    <3>1. x + 1 .. y = {n \in 1 .. MaxCharge : ~ (n <= x) /\ n <= y}
      BY <2>3, MeterAssumptions
    <3> QED
      BY <3>1
  <2>4. CASE a <= b
    <3> DEFINE D == {k} \X (a + 1 .. b)
    <3>1. D = {v \in Ids \X (1 .. MaxCharge) : v[1] = k /\ ~ (v[2] <= a) /\ v[2] <= b}
      BY <2>3, <2>4
    <3>2. IsFiniteSet(D) /\ Cardinality(D) = b - a
      BY <2>4, UnitsCounted
    <3> HIDE DEF D
    <3>3. \A n \in 1 .. MaxCharge : n <= a => n <= b
      BY <2>4, MeterAssumptions
    <3>4. HeldForMeters(t)' = HeldForMeters(t) \cup D /\ HeldForMeters(t) \cap D = {}
      BY <1>2, <1>3, <2>1, <2>2, <3>1, <3>3
    <3>5. Cardinality(HeldForMeters(t)') = Cardinality(HeldForMeters(t)) + Cardinality(D)
      BY <3>2, <3>4, HeldForMetersIsFinite, UnitsAdded
    <3> QED
      BY <1>5, <3>2, <3>5
  <2>5. CASE b <= a
    <3> DEFINE D == {k} \X (b + 1 .. a)
    <3>1. D = {v \in Ids \X (1 .. MaxCharge) : v[1] = k /\ ~ (v[2] <= b) /\ v[2] <= a}
      BY <2>3, <2>5
    <3>2. IsFiniteSet(D) /\ Cardinality(D) = a - b
      BY <2>5, UnitsCounted
    <3> HIDE DEF D
    <3>3. \A n \in 1 .. MaxCharge : n <= b => n <= a
      BY <2>5, MeterAssumptions
    <3>4. HeldForMeters(t)' = HeldForMeters(t) \ D /\ D \subseteq HeldForMeters(t)
      BY <1>2, <1>3, <2>1, <2>2, <3>1, <3>3
    <3>5. Cardinality(HeldForMeters(t)') = Cardinality(HeldForMeters(t)) - Cardinality(D)
      BY <3>4, HeldForMetersIsFinite, UnitsTaken
    <3> QED
      BY <1>5, <3>2, <3>5, HeldForMetersIsFinite
  <2> QED
    BY <2>4, <2>5
<1> QED
  BY <1>4, <1>5

(* Money paid into the contract that no stream holds is surplus. *)
LEMMA PayIn ==
  ASSUME Books, UNCHANGED restOfStreams, NEW p \in Parties, NEW t \in Tokens, NEW x \in Nat,
         Deposit(p, t, x)
  PROVE  Books' /\ \A u \in Tokens : Surplus(u)' = Surplus(u) + (IF u = t THEN x ELSE 0)
<1>1. AccrualInv'
  BY AccrualStable DEF Books, restOfStreams
<1>2. wallet' \in [Tokens -> [Parties -> Nat]] /\ escrow' \in [Tokens -> Int]
  BY DepositKeepsWallets DEF Books
<1>3. BooksInv'
  BY <1>2 DEF Books, BooksInv, restOfStreams
<1>4. ASSUME NEW u \in Tokens
      PROVE  Surplus(u)' = Surplus(u) + (IF u = t THEN x ELSE 0)
  <2>1. HeldFor(u)' = HeldFor(u) /\ HeldForUsage(u)' = HeldForUsage(u)
    BY DEF HeldFor, HeldForUsage, restOfStreams, streamVars
  <2>2. escrow'[u] = escrow[u] + (IF u = t THEN x ELSE 0) /\ escrow[u] \in Int
    BY DEF Deposit, Books, BooksInv
  <2> QED
    BY <2>1, <2>2, HeldIsFinite DEF Surplus
<1> QED
  BY <1>1, <1>3, <1>4 DEF Books

(* And money paid out that no stream held was. *)
LEMMA PayOut ==
  ASSUME Books, UNCHANGED restOfStreams, NEW p \in Parties, NEW t \in Tokens, NEW x \in Nat,
         Transfer(p, t, x)
  PROVE  Books' /\ \A u \in Tokens : Surplus(u)' = Surplus(u) - (IF u = t THEN x ELSE 0)
<1>1. AccrualInv'
  BY AccrualStable DEF Books, restOfStreams
<1>2. wallet' \in [Tokens -> [Parties -> Nat]] /\ escrow' \in [Tokens -> Int]
  BY TransferKeepsWallets DEF Books
<1>3. BooksInv'
  BY <1>2 DEF Books, BooksInv, restOfStreams
<1>4. ASSUME NEW u \in Tokens
      PROVE  Surplus(u)' = Surplus(u) - (IF u = t THEN x ELSE 0)
  <2>1. HeldFor(u)' = HeldFor(u) /\ HeldForUsage(u)' = HeldForUsage(u)
    BY DEF HeldFor, HeldForUsage, restOfStreams, streamVars
  <2>2. escrow'[u] = escrow[u] - (IF u = t THEN x ELSE 0) /\ escrow[u] \in Int
    BY DEF Transfer, Books, BooksInv
  <2> QED
    BY <2>1, <2>2, HeldIsFinite DEF Surplus
<1> QED
  BY <1>1, <1>3, <1>4 DEF Books

(* A meter that nothing touches stays in order. *)
LEMMA MeterUnchanged ==
  ASSUME NEW i \in Ids, StreamMetersOK(i), meter'[i] = meter[i], batch'[i] = batch[i],
         status[i] # "Absent" => status'[i] # "Absent"
  PROVE  StreamMetersOK(i)' /\ Recorded(i)' = Recorded(i)
<1>1. Recorded(i)' = Recorded(i)
  BY DEF Recorded
<1>2. Claimed(i)' = Claimed(i)
  BY <1>1 DEF Claimed
<1>3. /\ Standing(i, Claimed(i))' = Standing(i, Claimed(i))
      /\ Standing(i, Recorded(i) \ Claimed(i))' = Standing(i, Recorded(i) \ Claimed(i))
  BY <1>1, <1>2 DEF Standing
<1>4. MeterOK(i)'
  BY <1>3 DEF MeterOK, StreamMetersOK
<1>5. ASSUME NEW b \in Recorded(i) PROVE BatchOK(i, b)'
  BY DEF BatchOK, StreamMetersOK
<1> QED
  BY <1>1, <1>4, <1>5 DEF StreamMetersOK

(* The meters do not depend on what their streams do, once these were opened. *)
LEMMA MetersStable ==
  ASSUME MetersInv, Books', MeterTypes', SurplusKept, UNCHANGED <<meter, batch>>,
         \A i \in Ids : status[i] # "Absent" => terms'[i] = terms[i] /\ status'[i] # "Absent"
  PROVE  MetersInv'
<1>1. ASSUME NEW i \in Ids PROVE StreamMetersOK(i)'
  BY MeterUnchanged DEF MetersInv
<1>2. ASSUME NEW t \in Tokens PROVE HeldForMeters(t)' = HeldForMeters(t)
  <2>1. \A i \in Ids : meter[i] # None => terms'[i] = terms[i]
    BY DEF MetersInv, StreamMetersOK, MeterOK
  <2> QED
    BY <2>1 DEF HeldForMeters
<1>3. MetersHeld'
  BY <1>2 DEF MetersInv, MetersHeld, SurplusKept
<1> QED
  BY <1>1, <1>3 DEF MetersInv

(* One meter moves, and the surplus with what it holds. *)
LEMMA OneMeterMoves ==
  ASSUME MetersInv, Books', MeterTypes', UNCHANGED streamVars,
         NEW k \in Ids, NEW m \in Meters, meter' = [meter EXCEPT ![k] = m],
         \A i \in Ids : i # k => batch'[i] = batch[i], StreamMetersOK(k)',
         NEW a \in Nat, NEW b \in Nat, a <= MaxCharge, b <= MaxCharge,
         meter[k] = None => a = 0,
         meter[k] # None => a = meter[k].escrowed + meter[k].charged,
         b = m.escrowed + m.charged,
         \A t \in Tokens :
           Surplus(t)' = Surplus(t) + (IF terms[k].token = t THEN b - a ELSE 0)
  PROVE  MetersInv'
<1>1. ASSUME NEW i \in Ids, i # k PROVE StreamMetersOK(i)'
  <2>1. meter'[i] = meter[i] /\ batch'[i] = batch[i] /\ status'[i] = status[i]
    BY <1>1 DEF MetersInv, MeterTypes, streamVars
  <2> QED
    BY <2>1, MeterUnchanged DEF MetersInv
<1>2. ASSUME NEW t \in Tokens PROVE Surplus(t)' = Cardinality(HeldForMeters(t)')
  <2>1. Cardinality(HeldForMeters(t)') =
          Cardinality(HeldForMeters(t)) + (IF terms[k].token = t THEN b - a ELSE 0)
    BY HeldMoves DEF MetersInv, streamVars
  <2> QED
    BY <2>1 DEF MetersInv, MetersHeld
<1>3. MetersHeld'
  BY <1>2 DEF MetersHeld
<1> QED
  BY <1>1, <1>3 DEF MetersInv

-----------------------------------------------------------------------------
(* Allowances. *)

(* A meter whose allowance alone changes stays in order. *)
LEMMA AllowanceChanges ==
  ASSUME MetersInv, NEW k \in Ids, meter[k] # None, NEW m \in Meters,
         meter' = [meter EXCEPT ![k] = m], UNCHANGED <<batch, streamVars>>,
         m.price = meter[k].price, m.charged = meter[k].charged,
         m.claimed = meter[k].claimed, m.next = meter[k].next, m.count = meter[k].count,
         m.escrowed + m.charged + m.claimed <= MaxCharge
  PROVE  StreamMetersOK(k)'
<1>1. meter'[k] = m /\ m # None /\ batch'[k] = batch[k] /\ status'[k] = status[k]
  BY MeterAssumptions DEF MetersInv, MeterTypes, streamVars
<1>2. Recorded(k)' = Recorded(k)
  BY <1>1 DEF Recorded
<1>3. Claimed(k)' = Claimed(k)
  BY <1>1, <1>2 DEF Claimed
<1>4. /\ Standing(k, Claimed(k))' = Standing(k, Claimed(k))
      /\ Standing(k, Recorded(k) \ Claimed(k))' = Standing(k, Recorded(k) \ Claimed(k))
  BY <1>1, <1>2, <1>3 DEF Standing
<1>5. StreamMetersOK(k)
  BY DEF MetersInv
<1>6. MeterOK(k)'
  BY <1>1, <1>4, <1>5 DEF MeterOK, StreamMetersOK
<1>7. \A b \in Recorded(k) : BatchOK(k, b)'
  BY <1>1, <1>5 DEF BatchOK, StreamMetersOK
<1> QED
  BY <1>1, <1>2, <1>5, <1>6, <1>7 DEF StreamMetersOK

(* Funding adds to the allowance; the first funding opens the meter. *)
LEMMA FundKeepsMeters ==
  ASSUME MetersInv, NEW k \in Ids, NEW price \in Prices, NEW x \in Allowances,
         FundUsageMeter(k, price, x)
  PROVE  MetersInv'
<1>1. PICK m0 : /\ meter[k] # None => m0 = meter[k]
                /\ meter[k] = None => m0 = [price |-> price, escrowed |-> 0, charged |-> 0,
                                            claimed |-> 0, next |-> 0, count |-> 0]
                /\ status[k] \in {"Active", "Paused"}
                /\ m0.price = price
                /\ m0.escrowed + m0.charged + m0.claimed + x <= MaxCharge
                /\ Deposit(terms[k].sender, terms[k].token, x)
                /\ meter' = [meter EXCEPT ![k] = [m0 EXCEPT !.escrowed = @ + x]]
                /\ UNCHANGED <<sellerKey, batch, restOfStreams>>
  BY DEF FundUsageMeter
<1>2. Books /\ MeterTypes /\ x \in Nat
  BY MeterAssumptions DEF MetersInv
<1>3. m0 \in Meters
  <2>1. 0 \in 0 .. MaxCharge /\ 0 \in 0 .. MaxBatches /\ 0 \in Nat
    BY MeterAssumptions
  <2> QED
    BY <1>1, <1>2, <2>1 DEF MeterTypes, Meters
<1>4. PICK m : m = [m0 EXCEPT !.escrowed = m0.escrowed + x]
  OBVIOUS
<1>5. /\ m0.escrowed \in Nat /\ m0.charged \in Nat /\ m0.claimed \in Nat
      /\ m0.escrowed \in 0 .. MaxCharge /\ MaxCharge \in Nat
  BY <1>3, MeterAssumptions DEF Meters
<1>6. m0.escrowed + x \in 0 .. MaxCharge
  BY <1>1, <1>2, <1>5
<1>7. /\ m \in Meters /\ m.price = m0.price /\ m.escrowed = m0.escrowed + x
      /\ m.charged = m0.charged /\ m.claimed = m0.claimed
      /\ m.next = m0.next /\ m.count = m0.count
  BY <1>3, <1>4, <1>6 DEF Meters
<1>8. meter' = [meter EXCEPT ![k] = m]
  BY <1>1, <1>4
<1>9. MeterTypes'
  BY <1>1, <1>2, <1>7, <1>8 DEF MeterTypes
<1>10. m.escrowed + m.charged + m.claimed <= MaxCharge
  BY <1>1, <1>2, <1>5, <1>7
<1>11. StreamMetersOK(k)'
  <2>1. CASE meter[k] # None
    BY <1>1, <1>7, <1>8, <1>10, <2>1, AllowanceChanges DEF restOfStreams
  <2>2. CASE meter[k] = None
    <3>1. meter'[k] = m /\ m # None /\ status'[k] # "Absent" /\ batch'[k] = batch[k]
      BY <1>1, <1>2, <1>7, <1>8, MeterAssumptions DEF MeterTypes, restOfStreams, streamVars
    <3>2. m.charged = 0 /\ m.claimed = 0 /\ m.count = 0
      BY <1>1, <1>7, <2>2
    <3>3. Recorded(k) = {}
      BY <2>2 DEF MetersInv, StreamMetersOK
    <3>4. Recorded(k)' = {}
      BY <3>1, <3>3 DEF Recorded
    <3>5. {b \in BatchIds : b <= m.count} = {}
      BY <3>2, MeterAssumptions DEF BatchIds
    <3>6. /\ Standing(k, Recorded(k) \ Claimed(k))' = {}
          /\ Standing(k, Claimed(k))' = {}
      BY <3>4 DEF Standing, Claimed
    <3>7. Cardinality({}) = 0 /\ m.price * 0 = 0
      <4>1. m.price \in Nat
        BY <1>7, MeterAssumptions DEF Meters
      <4> QED
        BY <4>1, FS_EmptySet
    <3>8. MeterOK(k)'
      BY <1>10, <3>1, <3>2, <3>6, <3>7 DEF MeterOK
    <3> QED
      BY <3>1, <3>4, <3>5, <3>8 DEF StreamMetersOK
  <2> QED
    BY <2>1, <2>2
<1> DEFINE a == m0.escrowed + m0.charged
           b == m.escrowed + m.charged
<1>12. /\ a \in Nat /\ b \in Nat /\ a <= MaxCharge /\ b <= MaxCharge /\ b - a = x
  BY <1>1, <1>2, <1>5, <1>7
<1>13. /\ meter[k] = None => a = 0
       /\ meter[k] # None => a = meter[k].escrowed + meter[k].charged
  BY <1>1
<1>14. terms[k].sender \in Parties /\ terms[k].token \in Tokens
  BY <1>1, <1>2 DEF Books, AccrualInv, StreamOK
<1>15. Books' /\ \A t \in Tokens :
         Surplus(t)' = Surplus(t) + (IF terms[k].token = t THEN b - a ELSE 0)
  <2>1. ASSUME NEW p \in Parties, NEW t \in Tokens, Deposit(p, t, x)
        PROVE  Books' /\ \A u \in Tokens : Surplus(u)' = Surplus(u) + (IF u = t THEN x ELSE 0)
    BY <1>1, <1>2, <2>1, PayIn
  <2>2. Books' /\ \A u \in Tokens :
          Surplus(u)' = Surplus(u) + (IF u = terms[k].token THEN x ELSE 0)
    BY <1>1, <1>14, <2>1
  <2> HIDE DEF a, b
  <2> QED
    BY <1>12, <2>2
<1>16. b = m.escrowed + m.charged
  OBVIOUS
<1>17. UNCHANGED streamVars /\ \A i \in Ids : i # k => batch'[i] = batch[i]
  BY <1>1 DEF restOfStreams
<1> HIDE DEF a, b
<1> QED
  BY <1>7, <1>8, <1>9, <1>11, <1>12, <1>13, <1>15, <1>16, <1>17, OneMeterMoves

(* The buyer takes back what is left of its allowance. *)
LEMMA WithdrawKeepsMeters ==
  ASSUME MetersInv, NEW k \in Ids, NEW x \in 1 .. MaxCharge, WithdrawUsageEscrow(k, x)
  PROVE  MetersInv'
<1>1. /\ meter[k] # None /\ meter[k].escrowed >= x
      /\ meter' = [meter EXCEPT ![k].escrowed = @ - x]
      /\ Transfer(terms[k].sender, terms[k].token, x)
      /\ UNCHANGED <<sellerKey, batch, restOfStreams>>
  BY DEF WithdrawUsageEscrow
<1>2. Books /\ MeterTypes /\ x \in Nat /\ MaxCharge \in Nat
  BY MeterAssumptions DEF MetersInv
<1>3. PICK m0 \in Meters : m0 = meter[k]
  BY <1>1, <1>2 DEF MeterTypes
<1>4. PICK m : m = [m0 EXCEPT !.escrowed = m0.escrowed - x]
  OBVIOUS
<1>5. /\ m0.escrowed \in Nat /\ m0.charged \in Nat /\ m0.claimed \in Nat
      /\ m0.escrowed <= MaxCharge /\ m0.escrowed >= x
      /\ m0.escrowed + m0.charged + m0.claimed <= MaxCharge
  <2>1. m0.escrowed + m0.charged + m0.claimed <= MaxCharge
    BY <1>1, <1>3 DEF MetersInv, StreamMetersOK, MeterOK
  <2> QED
    BY <1>1, <1>2, <1>3, <2>1, MeterFields
<1>6. m0.escrowed - x \in 0 .. MaxCharge
  BY <1>2, <1>5
<1>7. /\ m \in Meters /\ m.price = m0.price /\ m.escrowed = m0.escrowed - x
      /\ m.charged = m0.charged /\ m.claimed = m0.claimed
      /\ m.next = m0.next /\ m.count = m0.count
  BY <1>3, <1>4, <1>6 DEF Meters
<1>8. meter' = [meter EXCEPT ![k] = m]
  BY <1>1, <1>2, <1>3, <1>4 DEF MeterTypes
<1>9. MeterTypes'
  BY <1>1, <1>2, <1>7, <1>8 DEF MeterTypes
<1>10. m.escrowed + m.charged + m.claimed <= MaxCharge
  BY <1>2, <1>5, <1>7
<1>11. StreamMetersOK(k)'
  BY <1>1, <1>3, <1>7, <1>8, <1>10, AllowanceChanges DEF restOfStreams
<1> DEFINE a == m0.escrowed + m0.charged
           b == m.escrowed + m.charged
<1>12. /\ a \in Nat /\ b \in Nat /\ a <= MaxCharge /\ b <= MaxCharge /\ b - a = 0 - x
  BY <1>2, <1>5, <1>7
<1>13. meter[k] # None /\ a = meter[k].escrowed + meter[k].charged
  BY <1>1, <1>3
<1>14. terms[k].sender \in Parties /\ terms[k].token \in Tokens
  BY <1>1, <1>2 DEF MetersInv, StreamMetersOK, MeterOK, Books, AccrualInv, StreamOK
<1>15. Books' /\ \A t \in Tokens :
         Surplus(t)' = Surplus(t) + (IF terms[k].token = t THEN b - a ELSE 0)
  <2>1. ASSUME NEW p \in Parties, NEW t \in Tokens, Transfer(p, t, x)
        PROVE  Books' /\ \A u \in Tokens : Surplus(u)' = Surplus(u) - (IF u = t THEN x ELSE 0)
    BY <1>1, <1>2, <2>1, PayOut
  <2>2. Books' /\ \A u \in Tokens :
          Surplus(u)' = Surplus(u) - (IF u = terms[k].token THEN x ELSE 0)
    BY <1>1, <1>14, <2>1
  <2>3. \A u \in Tokens : Surplus(u) \in Int
    BY HeldForMetersIsFinite DEF MetersInv, MetersHeld
  <2> HIDE DEF a, b
  <2> QED
    BY <1>2, <1>12, <2>2, <2>3
<1>16. b = m.escrowed + m.charged
  OBVIOUS
<1>17. UNCHANGED streamVars /\ \A i \in Ids : i # k => batch'[i] = batch[i]
  BY <1>1 DEF restOfStreams
<1> HIDE DEF a, b
<1> QED
  BY <1>7, <1>8, <1>9, <1>11, <1>12, <1>13, <1>15, <1>16, <1>17, OneMeterMoves

-----------------------------------------------------------------------------
(* Calls that stand, of batches B of which s[b] calls stand. *)
Calls(B, s) == {u \in B \X (1 .. MaxCalls) : u[2] <= s[u[1]]}

Left(i) == [b \in BatchIds |-> batch[i][b].calls - batch[i][b].voided]

(* Only the batches that are counted matter. *)
LEMMA CallsAgree ==
  ASSUME NEW B \in SUBSET BatchIds, NEW r, NEW s, \A b \in B : r[b] = s[b]
  PROVE  Calls(B, r) = Calls(B, s)
BY DEF Calls

(* A set of calls can be counted, and each batch counts for its own. *)
LEMMA CallsCount ==
  ASSUME NEW B \in SUBSET BatchIds, NEW s
  PROVE  /\ IsFiniteSet(Calls(B, s)) /\ Cardinality(Calls(B, s)) \in Nat
         /\ \A b \in B : s[b] \in 0 .. MaxCalls =>
              Cardinality(Calls(B, s)) = Cardinality(Calls(B \ {b}, s)) + s[b]
<1>1. ASSUME NEW A \in SUBSET BatchIds
      PROVE  IsFiniteSet(Calls(A, s)) /\ Cardinality(Calls(A, s)) \in Nat
  <2>1. IsFiniteSet(BatchIds) /\ IsFiniteSet(1 .. MaxCalls)
    BY FS_Interval, MeterAssumptions DEF BatchIds
  <2>2. IsFiniteSet(BatchIds \X (1 .. MaxCalls))
    BY <2>1, FS_Product
  <2>3. Calls(A, s) \subseteq BatchIds \X (1 .. MaxCalls)
    BY DEF Calls
  <2> QED
    BY <2>2, <2>3, FS_Subset, FS_CardinalityType
<1>2. ASSUME NEW b \in B, s[b] \in 0 .. MaxCalls
      PROVE  Cardinality(Calls(B, s)) = Cardinality(Calls(B \ {b}, s)) + s[b]
  <2> PICK n \in Nat : n = s[b] /\ n <= MaxCalls /\ 0 <= n
    BY <1>2, MeterAssumptions
  <2> DEFINE D == {b} \X (0 + 1 .. n)
  <2>1. D = {b} \X {x \in 1 .. MaxCalls : x <= n}
    <3>1. 0 + 1 .. n = {x \in 1 .. MaxCalls : x <= n}
      BY MeterAssumptions
    <3> QED
      BY <3>1
  <2>2. IsFiniteSet(D) /\ Cardinality(D) = n - 0
    <3>1. 0 \in Nat
      OBVIOUS
    <3> QED
      BY <3>1, UnitsCounted
  <2> HIDE DEF D
  <2>3. Calls(B, s) = Calls(B \ {b}, s) \cup D /\ Calls(B \ {b}, s) \cap D = {}
    BY <2>1 DEF Calls
  <2>4. B \ {b} \in SUBSET BatchIds
    OBVIOUS
  <2>5. IsFiniteSet(Calls(B \ {b}, s)) /\ Cardinality(Calls(B \ {b}, s)) \in Nat
    BY <1>1, <2>4
  <2>6. Cardinality(Calls(B, s)) = Cardinality(Calls(B \ {b}, s)) + Cardinality(D)
    BY <2>2, <2>3, <2>5, UnitsAdded
  <2> QED
    BY <2>2, <2>6
<1> QED
  BY <1>1, <1>2

(* The calls of a meter that stand. *)
LEMMA StandingIsCalls ==
  ASSUME NEW i, NEW B \in SUBSET BatchIds
  PROVE  Standing(i, B) = Calls(B, Left(i))
BY DEF Standing, Calls, Left

(* A product grows by the price for each call. *)
LEMMA PriceTimes ==
  ASSUME NEW p \in Nat, NEW x \in Int, NEW y \in Int
  PROVE  /\ p * (x + y) = p * x + y * p
         /\ p * x \in Int /\ y * p \in Int
         /\ x \in Nat => p * x \in Nat
         /\ y \in Nat => y * p \in Nat
OBVIOUS

-----------------------------------------------------------------------------
(* Batches. *)

(* A batch is charged to the allowance for its calls, which all stand. *)
LEMMA RecordKeepsMeters ==
  ASSUME MetersInv, NEW k \in Ids, NEW root \in Roots, NEW calls \in 1 .. MaxCalls,
         RecordUsageBatch(k, root, calls)
  PROVE  MetersInv'
<1>1. PICK m0 \in Meters : m0 = meter[k]
  BY DEF MetersInv, MeterTypes, RecordUsageBatch
<1> DEFINE b == m0.count + 1
           charge == calls * m0.price
<1>2. PICK m : m = [m0 EXCEPT !.escrowed = m0.escrowed - charge,
                              !.charged = m0.charged + charge,
                              !.count = b, !.next = m0.next + calls]
  OBVIOUS
<1>3. PICK c : c = [root |-> root, calls |-> calls, first |-> m0.next,
                    charged |-> charge, voided |-> 0, refunded |-> 0,
                    recorded_at |-> now, status |-> "Recorded",
                    key |-> sellerKey[terms[k].recipient]]
  OBVIOUS
<1>4. /\ status[k] = "Active" /\ sellerKey[terms[k].recipient] # None
      /\ meter[k] # None /\ m0.count < MaxBatches /\ m0.escrowed >= charge
      /\ meter' = [meter EXCEPT ![k] = m]
      /\ batch' = [batch EXCEPT ![k][b] = c]
      /\ UNCHANGED <<sellerKey, escrow, wallet, restOfStreams>>
  <2>1. /\ status[k] = "Active" /\ sellerKey[terms[k].recipient] # None
        /\ meter[k] # None /\ m0.count < MaxBatches /\ m0.escrowed >= charge
        /\ UNCHANGED <<sellerKey, escrow, wallet, restOfStreams>>
    BY <1>1 DEF RecordUsageBatch
  <2>2. meter' = [meter EXCEPT ![k] =
                    [m0 EXCEPT !.escrowed = m0.escrowed - charge,
                               !.charged = m0.charged + charge,
                               !.count = b, !.next = m0.next + calls]]
    BY <1>1 DEF RecordUsageBatch
  <2>3. batch' = [batch EXCEPT ![k][b] = c]
    BY <1>1, <1>3 DEF RecordUsageBatch
  <2> QED
    BY <1>2, <2>1, <2>2, <2>3
<1>5. Books /\ MeterTypes /\ StreamMetersOK(k) /\ MaxCharge \in Nat /\ MaxCalls \in Nat
  BY MeterAssumptions DEF MetersInv
<1>6. /\ m0.price \in Nat /\ m0.escrowed \in Nat /\ m0.charged \in Nat
      /\ m0.claimed \in Nat /\ m0.next \in Nat /\ m0.count \in Nat
      /\ m0.price \in Prices
  BY <1>1, <1>4, <1>5, MeterFields DEF Meters
<1>7. m0.escrowed + m0.charged + m0.claimed <= MaxCharge
  BY <1>1, <1>4, <1>5 DEF StreamMetersOK, MeterOK
<1>8. calls \in Nat /\ 0 < calls /\ calls <= MaxCalls
  BY <1>5
<1>9. charge \in Nat
  BY <1>6, <1>8, PriceTimes
<1>10. b \in BatchIds /\ b \in Nat /\ b <= MaxBatches /\ MaxBatches \in Nat
  BY <1>4, <1>6, MeterAssumptions DEF BatchIds
<1>11. b = m0.count + 1
  OBVIOUS
<1>12. charge = calls * m0.price
  OBVIOUS
<1> HIDE DEF b, charge
<1>13. /\ m \in Meters /\ m # None /\ m.price = m0.price
       /\ m.escrowed = m0.escrowed - charge /\ m.charged = m0.charged + charge
       /\ m.claimed = m0.claimed /\ m.count = b /\ m.next = m0.next + calls
  <2>1. m0.escrowed - charge \in 0 .. MaxCharge /\ m0.charged + charge \in 0 .. MaxCharge
    BY <1>4, <1>5, <1>6, <1>7, <1>9
  <2>2. b \in 0 .. MaxBatches /\ m0.next + calls \in Nat
    BY <1>6, <1>8, <1>10
  <2> QED
    BY <1>2, <2>1, <2>2, MeterAssumptions DEF Meters
<1>14. /\ c \in Batches /\ c # None /\ c.calls = calls /\ c.voided = 0 /\ c.first = m0.next
       /\ c.charged = charge /\ c.refunded = 0 /\ c.status = "Recorded"
  <2>1. terms[k].recipient \in Parties
    BY <1>4, <1>5 DEF Books, AccrualInv, StreamOK
  <2>2. sellerKey[terms[k].recipient] \in Keys
    BY <1>4, <1>5, <2>1 DEF MeterTypes
  <2>3. now \in Nat /\ 0 \in 0 .. MaxCalls /\ 0 \in Nat
    BY <1>5, StreamAssumptions DEF Books, AccrualInv, StreamTypes
  <2> QED
    BY <1>3, <1>6, <1>9, <2>2, <2>3, MeterAssumptions DEF Batches
<1>15. MeterTypes'
  <2>1. [batch[k] EXCEPT ![b] = c] \in [BatchIds -> Batches \cup {None}]
    BY <1>5, <1>14 DEF MeterTypes
  <2>2. batch' = [batch EXCEPT ![k] = [batch[k] EXCEPT ![b] = c]]
    BY <1>4, <1>5 DEF MeterTypes
  <2>3. batch' \in [Ids -> [BatchIds -> Batches \cup {None}]]
    BY <1>5, <2>1, <2>2 DEF MeterTypes
  <2>4. meter' \in [Ids -> Meters \cup {None}]
    BY <1>4, <1>5, <1>13 DEF MeterTypes
  <2> QED
    BY <1>4, <1>5, <2>3, <2>4 DEF MeterTypes
<1>16. /\ meter'[k] = m /\ status'[k] = status[k]
       /\ \A i \in Ids : i # k => batch'[i] = batch[i]
       /\ batch'[k][b] = c
       /\ \A d \in BatchIds : d # b => batch'[k][d] = batch[k][d]
  BY <1>4, <1>5, <1>10 DEF MeterTypes, restOfStreams, streamVars
<1>17. Recorded(k) = {d \in BatchIds : d <= m0.count} /\ b \notin Recorded(k)
  BY <1>1, <1>4, <1>5, <1>6, <1>11 DEF StreamMetersOK
<1>18. Recorded(k)' = Recorded(k) \cup {b} /\ Recorded(k)' \in SUBSET BatchIds
  BY <1>10, <1>14, <1>16 DEF Recorded
<1>19. Recorded(k)' = {d \in BatchIds : d <= b}
  <2>1. \A d \in BatchIds : d <= b <=> d <= m0.count \/ d = b
    BY <1>6, <1>11 DEF BatchIds
  <2> QED
    BY <1>10, <1>17, <1>18, <2>1
<1>20. Claimed(k)' = Claimed(k)
  BY <1>14, <1>16, <1>17, <1>18 DEF Claimed
<1> DEFINE U == Recorded(k) \ Claimed(k)
           C == Claimed(k)
           s == Left(k)
           r == Left(k)'
<1>21. U \in SUBSET BatchIds /\ C \in SUBSET BatchIds /\ b \notin U /\ b \notin C
  BY <1>17 DEF Recorded, Claimed
<1>22. r[b] = calls /\ \A d \in BatchIds : d # b => r[d] = s[d]
  BY <1>8, <1>10, <1>14, <1>16 DEF Left
<1>23. (Recorded(k) \ Claimed(k))' = U \cup {b}
  BY <1>17, <1>18, <1>20 DEF Claimed
<1>24. /\ Standing(k, Recorded(k) \ Claimed(k)) = Calls(U, s)
       /\ Standing(k, Claimed(k)) = Calls(C, s)
       /\ Standing(k, Recorded(k) \ Claimed(k))' = Calls(U \cup {b}, r)
       /\ Standing(k, Claimed(k))' = Calls(C, r)
  BY <1>18, <1>20, <1>21, <1>23 DEF Standing, Calls, Left
<1> HIDE DEF U, C, s, r
<1>25. Calls(C, r) = Calls(C, s)
  BY <1>21, <1>22, CallsAgree
<1>26. /\ Cardinality(Calls(U \cup {b}, r)) = Cardinality(Calls(U, s)) + calls
       /\ Cardinality(Calls(U, s)) \in Nat
  <2>1. U \cup {b} \in SUBSET BatchIds /\ (U \cup {b}) \ {b} = U
    BY <1>10, <1>21
  <2>2. r[b] \in 0 .. MaxCalls
    BY <1>8, <1>22
  <2>3. Cardinality(Calls(U \cup {b}, r)) =
          Cardinality(Calls((U \cup {b}) \ {b}, r)) + r[b]
    BY <2>1, <2>2, CallsCount
  <2>4. Calls(U, r) = Calls(U, s)
    BY <1>21, <1>22, CallsAgree
  <2> QED
    BY <1>21, <1>22, <2>1, <2>3, <2>4, CallsCount
<1>27. /\ m0.charged = m0.price * Cardinality(Calls(U, s))
       /\ m0.claimed = m0.price * Cardinality(Calls(C, s))
  BY <1>1, <1>4, <1>5, <1>24 DEF StreamMetersOK, MeterOK
<1>28. m.charged = m.price * Cardinality(Calls(U \cup {b}, r))
  BY <1>6, <1>8, <1>12, <1>13, <1>26, <1>27, PriceTimes
<1>29. m.escrowed + m.charged + m.claimed <= MaxCharge
  BY <1>5, <1>6, <1>7, <1>9, <1>13
<1>30. MeterOK(k)'
  BY <1>4, <1>13, <1>16, <1>24, <1>25, <1>27, <1>28, <1>29 DEF MeterOK
<1>31. ASSUME NEW d \in Recorded(k)' PROVE BatchOK(k, d)'
  <2>1. CASE d = b
    <3>1. 0 <= calls /\ 0 * m0.price = 0
      BY <1>6, <1>8
    <3> QED
      BY <1>10, <1>12, <1>13, <1>14, <1>16, <2>1, <3>1 DEF BatchOK
  <2>2. CASE d # b
    <3>1. d \in Recorded(k) /\ d \in BatchIds /\ d \in Nat /\ d <= m0.count /\ d < b
      BY <1>6, <1>11, <1>17, <1>18, <2>2 DEF BatchIds
    <3>2. BatchOK(k, d) /\ batch'[k][d] = batch[k][d]
      BY <1>5, <1>16, <2>2, <3>1 DEF StreamMetersOK
    <3>3. IF d < m0.count THEN batch'[k][d + 1] = batch[k][d + 1] ELSE d + 1 = b
      <4>1. CASE d < m0.count
        <5>1. d + 1 \in BatchIds /\ d + 1 # b
          BY <1>6, <1>10, <1>11, <3>1, <4>1 DEF BatchIds
        <5> QED
          BY <1>16, <4>1, <5>1
      <4>2. CASE ~ (d < m0.count)
        BY <1>6, <1>11, <3>1, <4>2
      <4> QED
        BY <4>1, <4>2
    <3>4. batch[k][d].first + batch[k][d].calls = batch'[k][d + 1].first
      BY <1>1, <1>14, <1>16, <3>2, <3>3 DEF BatchOK
    <3> QED
      BY <1>1, <1>13, <1>16, <3>1, <3>2, <3>4 DEF BatchOK
  <2> QED
    BY <2>1, <2>2
<1>32. StreamMetersOK(k)'
  BY <1>13, <1>16, <1>19, <1>30, <1>31 DEF StreamMetersOK
<1>33. UNCHANGED streamsVars
  BY <1>4 DEF restOfStreams, streamsVars
<1>34. Books' /\ SurplusKept
  <2>1. AccrualInv'
    BY <1>5, <1>33, AccrualInvNext DEF Books
  <2> QED
    BY <1>5, <1>33, <2>1, BooksNext
<1> DEFINE x == m0.escrowed + m0.charged
<1>35. /\ x \in Nat /\ x <= MaxCharge /\ x = m.escrowed + m.charged /\ x - x = 0
       /\ x = meter[k].escrowed + meter[k].charged
  BY <1>1, <1>4, <1>5, <1>6, <1>7, <1>9, <1>13
<1>36. \A t \in Tokens : Surplus(t)' = Surplus(t) + (IF terms[k].token = t THEN x - x ELSE 0)
  <2>1. \A t \in Tokens : Surplus(t) \in Int
    BY HeldForMetersIsFinite DEF MetersInv, MetersHeld
  <2> QED
    BY <1>34, <1>35, <2>1 DEF SurplusKept
<1>37. UNCHANGED streamVars
  BY <1>33 DEF streamsVars
<1> HIDE DEF x
<1> QED
  BY <1>4, <1>13, <1>15, <1>16, <1>32, <1>34, <1>35, <1>36, <1>37, OneMeterMoves

(* What the standing calls of a batch cost, is paid once, and counts as paid. *)
LEMMA ClaimKeepsMeters ==
  ASSUME MetersInv, NEW k \in Ids, NEW b \in BatchIds, ClaimUsageBatch(k, b)
  PROVE  MetersInv'
<1>1. PICK c0 : c0 = batch[k][b]
  OBVIOUS
<1>2. PICK m0 : m0 = meter[k]
  OBVIOUS
<1> DEFINE payable == c0.charged - c0.refunded
<1>3. PICK c : c = [c0 EXCEPT !.status = "Claimed"]
  OBVIOUS
<1>4. PICK m : m = [m0 EXCEPT !.charged = m0.charged - payable,
                              !.claimed = m0.claimed + payable]
  OBVIOUS
<1>5. Books /\ MeterTypes /\ StreamMetersOK(k) /\ MaxCharge \in Nat /\ MaxCalls \in Nat
  BY MeterAssumptions DEF MetersInv
<1>6. /\ c0 # None /\ c0.status # "Claimed"
      /\ meter' = [meter EXCEPT ![k] = m]
      /\ batch' = [batch EXCEPT ![k][b].status = "Claimed"]
      /\ Transfer(terms[k].recipient, terms[k].token, payable)
      /\ UNCHANGED <<sellerKey, restOfStreams>>
  BY <1>1, <1>2, <1>4 DEF ClaimUsageBatch
<1>7. b \in Recorded(k) /\ meter[k] # None /\ b <= m0.count
  BY <1>1, <1>2, <1>5, <1>6 DEF StreamMetersOK, Recorded
<1>8. /\ m0 \in Meters /\ m0.price \in Nat /\ m0.escrowed \in Nat /\ m0.charged \in Nat
      /\ m0.claimed \in Nat /\ m0.next \in Nat /\ m0.count \in Nat
  BY <1>2, <1>5, <1>7, MeterFields
<1>9. /\ c0 \in Batches /\ c0.calls \in 1 .. MaxCalls /\ c0.calls \in Nat
      /\ c0.voided \in Nat /\ c0.charged \in Nat /\ c0.refunded \in Nat
  BY <1>1, <1>5, <1>7, BatchFields
<1>10. /\ BatchOK(k, b) /\ c0.charged = c0.calls * m0.price /\ c0.voided <= c0.calls
       /\ c0.refunded = c0.voided * m0.price
       /\ m0.escrowed + m0.charged + m0.claimed <= MaxCharge
  BY <1>1, <1>2, <1>5, <1>7 DEF StreamMetersOK, BatchOK, MeterOK
<1> DEFINE n == c0.calls - c0.voided
<1>11. n \in Nat /\ n \in 0 .. MaxCalls
  BY <1>5, <1>9, <1>10
<1>12. payable = n * m0.price /\ payable \in Nat
  <2>1. \A x, y, p \in Nat : x * p - y * p = (x - y) * p
    OBVIOUS
  <2>2. payable = n * m0.price
    BY <1>8, <1>9, <1>10, <2>1
  <2> HIDE DEF n, payable
  <2>3. n * m0.price \in Nat
    BY <1>8, <1>11, PriceTimes
  <2> QED
    BY <2>2, <2>3
<1>13. n = c0.calls - c0.voided
  OBVIOUS
<1> HIDE DEF n, payable
<1>14. /\ c \in Batches /\ c # None /\ c.calls = c0.calls /\ c.voided = c0.voided
       /\ c.first = c0.first /\ c.charged = c0.charged /\ c.refunded = c0.refunded
       /\ c.status = "Claimed"
  BY <1>3, <1>9, MeterAssumptions DEF Batches
<1>15. batch' = [batch EXCEPT ![k][b] = c] /\ batch[k] \in [BatchIds -> Batches \cup {None}]
  BY <1>1, <1>3, <1>5, <1>6 DEF MeterTypes
<1>16. /\ meter'[k] = m /\ status'[k] = status[k]
       /\ \A i \in Ids : i # k => batch'[i] = batch[i]
       /\ batch'[k][b] = c
       /\ \A d \in BatchIds : d # b => batch'[k][d] = batch[k][d]
  BY <1>5, <1>6, <1>15 DEF MeterTypes, restOfStreams, streamVars
<1>17. Recorded(k)' = Recorded(k) /\ Recorded(k) \in SUBSET BatchIds
  BY <1>1, <1>6, <1>14, <1>16 DEF Recorded
<1>18. Claimed(k)' = Claimed(k) \cup {b} /\ b \notin Claimed(k)
  BY <1>1, <1>6, <1>7, <1>14, <1>16, <1>17 DEF Claimed
<1> DEFINE U == Recorded(k) \ Claimed(k)
           C == Claimed(k)
           s == Left(k)
           r == Left(k)'
<1>19. U \in SUBSET BatchIds /\ C \in SUBSET BatchIds /\ b \in U /\ b \notin C
  BY <1>7, <1>17, <1>18 DEF Claimed
<1>20. s[b] = n /\ \A d \in BatchIds : r[d] = s[d]
  BY <1>1, <1>13, <1>14, <1>16 DEF Left
<1>21. (Recorded(k) \ Claimed(k))' = U \ {b}
  BY <1>17, <1>18
<1>22. /\ Standing(k, Recorded(k) \ Claimed(k)) = Calls(U, s)
       /\ Standing(k, Claimed(k)) = Calls(C, s)
       /\ Standing(k, Recorded(k) \ Claimed(k))' = Calls(U \ {b}, r)
       /\ Standing(k, Claimed(k))' = Calls(C \cup {b}, r)
  <2>1. C \cup {b} \in SUBSET BatchIds
    BY <1>19
  <2> QED
    BY <1>18, <1>19, <1>21, <2>1 DEF Standing, Calls, Left
<1> HIDE DEF U, C, s, r
<1>23. Calls(U \ {b}, r) = Calls(U \ {b}, s) /\ Calls(C \cup {b}, r) = Calls(C \cup {b}, s)
  <2>1. U \ {b} \in SUBSET BatchIds /\ C \cup {b} \in SUBSET BatchIds
    BY <1>19
  <2> QED
    BY <1>20, <2>1, CallsAgree
<1>24. /\ Cardinality(Calls(U, s)) = Cardinality(Calls(U \ {b}, s)) + n
       /\ Cardinality(Calls(U \ {b}, s)) \in Nat
  <2>1. U \ {b} \in SUBSET BatchIds
    BY <1>19
  <2> QED
    BY <1>11, <1>19, <1>20, <2>1, CallsCount
<1>25. /\ Cardinality(Calls(C \cup {b}, s)) = Cardinality(Calls(C, s)) + n
       /\ Cardinality(Calls(C, s)) \in Nat
  <2>1. C \cup {b} \in SUBSET BatchIds /\ (C \cup {b}) \ {b} = C /\ b \in C \cup {b}
    BY <1>19
  <2>2. Cardinality(Calls(C \cup {b}, s)) = Cardinality(Calls((C \cup {b}) \ {b}, s)) + s[b]
    BY <1>11, <1>20, <2>1, CallsCount
  <2> QED
    BY <1>19, <1>20, <2>1, <2>2, CallsCount
<1>26. /\ m0.charged = m0.price * Cardinality(Calls(U, s))
       /\ m0.claimed = m0.price * Cardinality(Calls(C, s))
  BY <1>2, <1>5, <1>7, <1>22 DEF StreamMetersOK, MeterOK
<1>27. m0.charged - payable = m0.price * Cardinality(Calls(U \ {b}, s))
  <2> PICK x \in Nat : x = Cardinality(Calls(U \ {b}, s))
    BY <1>24
  <2>1. m0.price * (x + n) = m0.price * x + n * m0.price /\ m0.price * x \in Int
    BY <1>8, <1>11, PriceTimes
  <2> QED
    BY <1>8, <1>12, <1>24, <1>26, <2>1
<1>28. m0.claimed + payable = m0.price * Cardinality(Calls(C \cup {b}, s))
  <2> PICK x \in Nat : x = Cardinality(Calls(C, s))
    BY <1>25
  <2>1. m0.price * (x + n) = m0.price * x + n * m0.price /\ m0.price * x \in Int
    BY <1>8, <1>11, PriceTimes
  <2> QED
    BY <1>8, <1>12, <1>25, <1>26, <2>1
<1>29. m0.charged - payable \in Nat
  BY <1>8, <1>24, <1>27, PriceTimes
<1>30. /\ m \in Meters /\ m # None /\ m.price = m0.price /\ m.escrowed = m0.escrowed
       /\ m.charged = m0.charged - payable /\ m.claimed = m0.claimed + payable
       /\ m.count = m0.count /\ m.next = m0.next
  <2>1. m0.charged - payable \in 0 .. MaxCharge /\ m0.claimed + payable \in 0 .. MaxCharge
    BY <1>5, <1>8, <1>10, <1>12, <1>29
  <2> QED
    BY <1>4, <1>8, <2>1, MeterAssumptions DEF Meters
<1>31. MeterTypes'
  <2>1. [batch[k] EXCEPT ![b] = c] \in [BatchIds -> Batches \cup {None}]
    BY <1>14, <1>15
  <2>2. batch' = [batch EXCEPT ![k] = [batch[k] EXCEPT ![b] = c]]
    BY <1>5, <1>15 DEF MeterTypes
  <2>3. batch' \in [Ids -> [BatchIds -> Batches \cup {None}]]
    BY <1>5, <2>1, <2>2 DEF MeterTypes
  <2>4. meter' \in [Ids -> Meters \cup {None}]
    BY <1>5, <1>6, <1>30 DEF MeterTypes
  <2> QED
    BY <1>5, <1>6, <2>3, <2>4 DEF MeterTypes
<1>32. m.escrowed + m.charged + m.claimed <= MaxCharge
  BY <1>5, <1>8, <1>10, <1>12, <1>30
<1>33. MeterOK(k)'
  <2>1. status[k] # "Absent"
    BY <1>5, <1>7 DEF StreamMetersOK, MeterOK
  <2> QED
    BY <1>16, <1>22, <1>23, <1>27, <1>28, <1>30, <1>32, <2>1 DEF MeterOK
<1>34. ASSUME NEW d \in Recorded(k) PROVE BatchOK(k, d)'
  <2>1. BatchOK(k, d) /\ d \in BatchIds
    BY <1>5, <1>17 DEF StreamMetersOK
  <2>2. /\ batch'[k][d].charged = batch[k][d].charged
        /\ batch'[k][d].calls = batch[k][d].calls
        /\ batch'[k][d].voided = batch[k][d].voided
        /\ batch'[k][d].refunded = batch[k][d].refunded
        /\ batch'[k][d].first = batch[k][d].first
    BY <1>1, <1>14, <1>16, <2>1
  <2>3. d < m0.count => batch'[k][d + 1].first = batch[k][d + 1].first
    <3>1. d < m0.count => d + 1 \in BatchIds
      BY <1>8, <2>1, MeterAssumptions DEF BatchIds, Meters
    <3> QED
      BY <1>1, <1>14, <1>16, <3>1
  <2> QED
    BY <1>2, <1>16, <1>30, <2>1, <2>2, <2>3 DEF BatchOK
<1>35. StreamMetersOK(k)'
  BY <1>2, <1>5, <1>7, <1>16, <1>17, <1>30, <1>33, <1>34 DEF StreamMetersOK
<1> DEFINE x == m0.escrowed + m0.charged
           y == m.escrowed + m.charged
<1>36. /\ x \in Nat /\ x <= MaxCharge /\ y \in Nat /\ y <= MaxCharge /\ y - x = 0 - payable
  BY <1>5, <1>8, <1>10, <1>12, <1>29, <1>30
<1>37. /\ meter[k] # None /\ x = meter[k].escrowed + meter[k].charged
       /\ y = m.escrowed + m.charged
  BY <1>2, <1>7
<1> HIDE DEF x, y
<1>38. terms[k].recipient \in Parties /\ terms[k].token \in Tokens
  BY <1>5, <1>7 DEF StreamMetersOK, MeterOK, Books, AccrualInv, StreamOK
<1>39. Books' /\ \A t \in Tokens :
         Surplus(t)' = Surplus(t) + (IF terms[k].token = t THEN y - x ELSE 0)
  <2>1. ASSUME NEW p \in Parties, NEW t \in Tokens, Transfer(p, t, payable)
        PROVE  Books' /\ \A u \in Tokens :
                 Surplus(u)' = Surplus(u) - (IF u = t THEN payable ELSE 0)
    BY <1>5, <1>6, <1>12, <2>1, PayOut
  <2>2. Books' /\ \A u \in Tokens :
          Surplus(u)' = Surplus(u) - (IF u = terms[k].token THEN payable ELSE 0)
    BY <1>6, <1>38, <2>1
  <2>3. \A u \in Tokens : Surplus(u) \in Int
    BY HeldForMetersIsFinite DEF MetersInv, MetersHeld
  <2> QED
    BY <1>12, <1>36, <2>2, <2>3
<1>40. UNCHANGED streamVars
  BY <1>6 DEF restOfStreams
<1> QED
  BY <1>6, <1>16, <1>30, <1>31, <1>35, <1>36, <1>37, <1>39, <1>40, OneMeterMoves

(* A challenge refunds the calls from a position on that were not void yet. *)
LEMMA VoidKeepsMeters ==
  ASSUME MetersInv, NEW k \in Ids, NEW b \in BatchIds, NEW leaf \in Leaves,
         Disputable(k, b), VoidFrom(k, b, leaf)
  PROVE  MetersInv'
<1>1. PICK c0 : c0 = batch[k][b]
  OBVIOUS
<1>2. PICK m0 : m0 = meter[k]
  OBVIOUS
<1> DEFINE position == leaf.index - c0.first
           voids == c0.calls - position
           refund == (voids - c0.voided) * m0.price
<1>3. PICK c : c = [c0 EXCEPT !.voided = voids, !.refunded = c0.refunded + refund,
                              !.status = IF voids = c0.calls THEN "Voided" ELSE "Challenged"]
  OBVIOUS
<1>4. PICK m : m = [m0 EXCEPT !.charged = m0.charged - refund,
                              !.escrowed = m0.escrowed + refund]
  OBVIOUS
<1>5. Books /\ MeterTypes /\ StreamMetersOK(k) /\ MaxCharge \in Nat /\ MaxCalls \in Nat
  BY MeterAssumptions DEF MetersInv
<1>6. /\ c0 # None /\ c0.status # "Claimed"
      /\ position \in 0 .. c0.calls - 1 /\ voids > c0.voided
      /\ meter' = [meter EXCEPT ![k] = m]
      /\ batch' = [batch EXCEPT ![k][b] = c]
      /\ UNCHANGED <<sellerKey, escrow, wallet, restOfStreams>>
  BY <1>1, <1>2, <1>3, <1>4 DEF Disputable, VoidFrom, VoidSuffix
<1>7. b \in Recorded(k) /\ meter[k] # None /\ b <= m0.count
  BY <1>1, <1>2, <1>5, <1>6 DEF StreamMetersOK, Recorded
<1>8. /\ m0 \in Meters /\ m0.price \in Nat /\ m0.escrowed \in Nat /\ m0.charged \in Nat
      /\ m0.claimed \in Nat /\ m0.next \in Nat /\ m0.count \in Nat
  BY <1>2, <1>5, <1>7, MeterFields
<1>9. /\ c0 \in Batches /\ c0.calls \in 1 .. MaxCalls /\ c0.calls \in Nat
      /\ c0.voided \in Nat /\ c0.charged \in Nat /\ c0.refunded \in Nat
  BY <1>1, <1>5, <1>7, BatchFields
<1>10. /\ BatchOK(k, b) /\ c0.charged = c0.calls * m0.price /\ c0.voided <= c0.calls
       /\ c0.refunded = c0.voided * m0.price
       /\ m0.escrowed + m0.charged + m0.claimed <= MaxCharge
  BY <1>1, <1>2, <1>5, <1>7 DEF StreamMetersOK, BatchOK, MeterOK
<1>11. position \in Nat /\ voids \in Nat /\ voids = c0.calls - position
  BY <1>6, <1>9
<1>12. refund = (voids - c0.voided) * m0.price
  OBVIOUS
<1> HIDE DEF position, voids, refund
<1> DEFINE n == c0.calls - c0.voided
           v == voids - c0.voided
<1>13. /\ n \in Nat /\ v \in Nat /\ n = v + position
       /\ voids <= c0.calls /\ voids \in 0 .. MaxCalls /\ position \in 0 .. MaxCalls
       /\ n \in 0 .. MaxCalls
  BY <1>5, <1>6, <1>9, <1>10, <1>11
<1>14. n = c0.calls - c0.voided /\ v = voids - c0.voided /\ refund = v * m0.price
  BY <1>12
<1> HIDE DEF n, v
<1>15. refund \in Nat
  BY <1>8, <1>13, <1>14, PriceTimes
<1>16. /\ c \in Batches /\ c # None /\ c.calls = c0.calls /\ c.voided = voids
       /\ c.first = c0.first /\ c.charged = c0.charged /\ c.refunded = c0.refunded + refund
       /\ c.status # "Claimed"
  <2>1. c0.refunded + refund \in Nat
    BY <1>9, <1>15
  <2>2. (IF voids = c0.calls THEN "Voided" ELSE "Challenged") \in {"Voided", "Challenged"}
    OBVIOUS
  <2> QED
    BY <1>3, <1>9, <1>13, <2>1, <2>2, MeterAssumptions DEF Batches
<1>17. batch[k] \in [BatchIds -> Batches \cup {None}]
  BY <1>5 DEF MeterTypes
<1>18. /\ meter'[k] = m /\ status'[k] = status[k]
       /\ \A i \in Ids : i # k => batch'[i] = batch[i]
       /\ batch'[k][b] = c
       /\ \A d \in BatchIds : d # b => batch'[k][d] = batch[k][d]
  BY <1>5, <1>6, <1>17 DEF MeterTypes, restOfStreams, streamVars
<1>19. Recorded(k)' = Recorded(k) /\ Recorded(k) \in SUBSET BatchIds
  BY <1>1, <1>6, <1>16, <1>18 DEF Recorded
<1>20. Claimed(k)' = Claimed(k) /\ b \notin Claimed(k)
  BY <1>1, <1>6, <1>16, <1>18, <1>19 DEF Claimed
<1> DEFINE U == Recorded(k) \ Claimed(k)
           C == Claimed(k)
           s == Left(k)
           r == Left(k)'
<1>21. U \in SUBSET BatchIds /\ C \in SUBSET BatchIds /\ b \in U /\ b \notin C
  BY <1>7, <1>19, <1>20 DEF Claimed
<1>22. s[b] = n /\ r[b] = position /\ \A d \in BatchIds : d # b => r[d] = s[d]
  <2>1. c0.calls - voids = position
    BY <1>9, <1>11
  <2> QED
    BY <1>1, <1>14, <1>16, <1>18, <2>1 DEF Left
<1>23. (Recorded(k) \ Claimed(k))' = U
  BY <1>19, <1>20
<1>24. /\ Standing(k, Recorded(k) \ Claimed(k)) = Calls(U, s)
       /\ Standing(k, Claimed(k)) = Calls(C, s)
       /\ Standing(k, Recorded(k) \ Claimed(k))' = Calls(U, r)
       /\ Standing(k, Claimed(k))' = Calls(C, r)
  BY <1>20, <1>21, <1>23 DEF Standing, Calls, Left
<1> HIDE DEF U, C, s, r
<1>25. Calls(U \ {b}, r) = Calls(U \ {b}, s) /\ Calls(C, r) = Calls(C, s)
  <2>1. U \ {b} \in SUBSET BatchIds
    BY <1>21
  <2> QED
    BY <1>21, <1>22, <2>1, CallsAgree
<1>26. /\ Cardinality(Calls(U, s)) = Cardinality(Calls(U \ {b}, s)) + n
       /\ Cardinality(Calls(U, r)) = Cardinality(Calls(U \ {b}, s)) + position
       /\ Cardinality(Calls(U \ {b}, s)) \in Nat
  <2>1. U \ {b} \in SUBSET BatchIds
    BY <1>21
  <2>2. Cardinality(Calls(U, r)) = Cardinality(Calls(U \ {b}, r)) + position
    BY <1>13, <1>21, <1>22, CallsCount
  <2> QED
    BY <1>13, <1>21, <1>22, <1>25, <2>1, <2>2, CallsCount
<1>27. /\ m0.charged = m0.price * Cardinality(Calls(U, s))
       /\ m0.claimed = m0.price * Cardinality(Calls(C, s))
  BY <1>2, <1>5, <1>7, <1>24 DEF StreamMetersOK, MeterOK
<1>28. /\ m0.charged - refund = m0.price * Cardinality(Calls(U, r))
       /\ m0.charged - refund \in Nat
  <2> PICK x \in Nat : x = Cardinality(Calls(U, r))
    BY <1>11, <1>26
  <2>1. Cardinality(Calls(U, s)) = x + v
    BY <1>11, <1>13, <1>26
  <2>2. /\ m0.price * (x + v) = m0.price * x + v * m0.price
        /\ m0.price * x \in Nat
    BY <1>8, <1>13, PriceTimes
  <2> QED
    BY <1>8, <1>14, <1>15, <1>27, <2>1, <2>2
<1>29. /\ m \in Meters /\ m # None /\ m.price = m0.price
       /\ m.escrowed = m0.escrowed + refund /\ m.charged = m0.charged - refund
       /\ m.claimed = m0.claimed /\ m.count = m0.count /\ m.next = m0.next
  <2>1. m0.charged - refund \in 0 .. MaxCharge /\ m0.escrowed + refund \in 0 .. MaxCharge
    BY <1>5, <1>8, <1>10, <1>15, <1>28
  <2> QED
    BY <1>4, <1>8, <2>1, MeterAssumptions DEF Meters
<1>30. MeterTypes'
  <2>1. [batch[k] EXCEPT ![b] = c] \in [BatchIds -> Batches \cup {None}]
    BY <1>16, <1>17
  <2>2. batch' = [batch EXCEPT ![k] = [batch[k] EXCEPT ![b] = c]]
    BY <1>5, <1>6 DEF MeterTypes
  <2>3. batch' \in [Ids -> [BatchIds -> Batches \cup {None}]]
    BY <1>5, <2>1, <2>2 DEF MeterTypes
  <2>4. meter' \in [Ids -> Meters \cup {None}]
    BY <1>5, <1>6, <1>29 DEF MeterTypes
  <2> QED
    BY <1>5, <1>6, <2>3, <2>4 DEF MeterTypes
<1>31. m.escrowed + m.charged + m.claimed <= MaxCharge
  BY <1>5, <1>8, <1>10, <1>15, <1>29
<1>32. MeterOK(k)'
  <2>1. status[k] # "Absent"
    BY <1>5, <1>7 DEF StreamMetersOK, MeterOK
  <2> QED
    BY <1>18, <1>24, <1>25, <1>27, <1>28, <1>29, <1>31, <2>1 DEF MeterOK
<1>33. ASSUME NEW d \in Recorded(k) PROVE BatchOK(k, d)'
  <2>1. BatchOK(k, d) /\ d \in BatchIds
    BY <1>5, <1>19 DEF StreamMetersOK
  <2>2. /\ batch'[k][d].charged = batch[k][d].charged
        /\ batch'[k][d].calls = batch[k][d].calls
        /\ batch'[k][d].first = batch[k][d].first
    BY <1>1, <1>16, <1>18, <2>1
  <2>3. d < m0.count => batch'[k][d + 1].first = batch[k][d + 1].first
    <3>1. d < m0.count => d + 1 \in BatchIds
      BY <1>8, <2>1, MeterAssumptions DEF BatchIds, Meters
    <3> QED
      BY <1>1, <1>16, <1>18, <3>1
  <2>4. /\ batch'[k][d].voided <= batch'[k][d].calls
        /\ batch'[k][d].refunded = batch'[k][d].voided * m0.price
    <3>1. CASE d = b
      <4>1. c0.voided + v = voids
        BY <1>9, <1>11, <1>14
      <4>2. /\ m0.price * (c0.voided + v) = m0.price * c0.voided + v * m0.price
            /\ m0.price * c0.voided \in Nat
        BY <1>8, <1>9, <1>13, PriceTimes
      <4>3. /\ m0.price * c0.voided = c0.voided * m0.price
            /\ m0.price * voids = voids * m0.price
        <5>1. \A x, y \in Nat : x * y = y * x
          OBVIOUS
        <5> QED
          BY <1>8, <1>9, <1>11, <5>1
      <4>4. c0.refunded + refund = voids * m0.price
        BY <1>10, <1>14, <1>15, <4>1, <4>2, <4>3
      <4> QED
        BY <1>13, <1>16, <1>18, <3>1, <4>4
    <3>2. CASE d # b
      BY <1>2, <1>18, <2>1, <3>2 DEF BatchOK
    <3> QED
      BY <3>1, <3>2
  <2> QED
    BY <1>2, <1>18, <1>29, <2>1, <2>2, <2>3, <2>4 DEF BatchOK
<1>34. StreamMetersOK(k)'
  BY <1>2, <1>5, <1>7, <1>18, <1>19, <1>29, <1>32, <1>33 DEF StreamMetersOK
<1>35. UNCHANGED streamsVars /\ UNCHANGED streamVars
  BY <1>6 DEF restOfStreams, streamsVars
<1>36. Books' /\ SurplusKept
  <2>1. AccrualInv'
    BY <1>5, <1>35, AccrualInvNext DEF Books
  <2> QED
    BY <1>5, <1>35, <2>1, BooksNext
<1> DEFINE x == m0.escrowed + m0.charged
<1>37. /\ x \in Nat /\ x <= MaxCharge /\ x = m.escrowed + m.charged /\ x - x = 0
       /\ x = meter[k].escrowed + meter[k].charged
  BY <1>2, <1>5, <1>8, <1>10, <1>15, <1>29
<1>38. \A t \in Tokens : Surplus(t)' = Surplus(t) + (IF terms[k].token = t THEN x - x ELSE 0)
  <2>1. \A t \in Tokens : Surplus(t) \in Int
    BY HeldForMetersIsFinite DEF MetersInv, MetersHeld
  <2> QED
    BY <1>36, <1>37, <2>1 DEF SurplusKept
<1> HIDE DEF x
<1> QED
  BY <1>6, <1>7, <1>18, <1>29, <1>30, <1>34, <1>35, <1>36, <1>37, <1>38, OneMeterMoves

-----------------------------------------------------------------------------
(* Every step keeps the meters in order and the pool equal to what is owed. *)
LEMMA MetersInvNext == MetersInv /\ [MetersNext]_metersVars => MetersInv'
<1> SUFFICES ASSUME MetersInv, [MetersNext]_metersVars PROVE MetersInv'
  OBVIOUS
<1>1. ASSUME [StreamsNext]_streamsVars, UNCHANGED <<meter, batch>>, MeterTypes'
      PROVE  MetersInv'
  <2>1. Books /\ AccrualInv
    BY DEF MetersInv, Books
  <2>2. AccrualInv'
    BY <1>1, <2>1, AccrualInvNext
  <2>3. Books' /\ SurplusKept
    BY <1>1, <2>1, <2>2, BooksNext
  <2>4. \A i \in Ids : status[i] # "Absent" => terms'[i] = terms[i] /\ status'[i] # "Absent"
    BY <1>1, <2>1, OpenedStays
  <2> QED
    BY <1>1, <2>3, <2>4, MetersStable
<1>2. CASE StreamsNext /\ UNCHANGED meterVars
  BY <1>1, <1>2 DEF meterVars, MetersInv, MeterTypes
<1>3. ASSUME NEW p \in Recipients, NEW k \in Keys, RegisterAttestationKey(p, k)
      PROVE  MetersInv'
  <2>1. MeterTypes'
    BY <1>3, StreamAssumptions DEF RegisterAttestationKey, MetersInv, MeterTypes
  <2> QED
    BY <1>1, <1>3, <2>1 DEF RegisterAttestationKey
<1>4. ASSUME NEW i \in Ids, NEW price \in Prices, NEW x \in Allowances,
             FundUsageMeter(i, price, x)
      PROVE  MetersInv'
  BY <1>4, FundKeepsMeters
<1>5. ASSUME NEW i \in Ids, NEW x \in 1 .. MaxCharge, WithdrawUsageEscrow(i, x)
      PROVE  MetersInv'
  BY <1>5, WithdrawKeepsMeters
<1>6. ASSUME NEW i \in Ids, NEW root \in Roots, NEW calls \in 1 .. MaxCalls,
             RecordUsageBatch(i, root, calls)
      PROVE  MetersInv'
  BY <1>6, RecordKeepsMeters
<1>7. ASSUME NEW i \in Ids, NEW b \in BatchIds, ClaimUsageBatch(i, b)
      PROVE  MetersInv'
  BY <1>7, ClaimKeepsMeters
<1>8. ASSUME NEW i \in Ids, NEW b \in BatchIds, NEW leaf \in Leaves,
             NEW signature \in Passable(leaf), ChallengeUsageBatch(i, b, leaf, signature)
      PROVE  MetersInv'
  BY <1>8, VoidKeepsMeters DEF ChallengeUsageBatch
<1>9. ASSUME NEW i \in Ids, NEW b \in BatchIds, NEW leaf \in Leaves,
             NEW ob \in BatchIds, NEW original \in Leaves,
             ChallengeNonceReplay(i, ob, original, b, leaf)
      PROVE  MetersInv'
  BY <1>9, VoidKeepsMeters DEF ChallengeNonceReplay
<1>10. CASE UNCHANGED metersVars
  BY <1>1, <1>10 DEF metersVars, meterVars, MetersInv, MeterTypes
<1> QED
  BY <1>2, <1>3, <1>4, <1>5, <1>6, <1>7, <1>8, <1>9, <1>10 DEF MetersNext

(* At first there are no meters, and no stream holds anything. *)
LEMMA MetersInvInit == MetersInit => MetersInv
<1> SUFFICES ASSUME MetersInit PROVE MetersInv
  OBVIOUS
<1>1. StreamsInit
  BY DEF MetersInit
<1>2. Books /\ NoSurplus
  BY <1>1, PoolInvInit, BackedIsNoSurplus DEF PoolInv
<1>3. MeterTypes
  BY DEF MetersInit, MeterTypes
<1>4. ASSUME NEW i \in Ids PROVE StreamMetersOK(i)
  <2>1. meter[i] = None /\ Recorded(i) = {}
    BY DEF MetersInit, Recorded
  <2> QED
    BY <2>1 DEF StreamMetersOK, MeterOK
<1>5. ASSUME NEW t \in Tokens PROVE Surplus(t) = Cardinality(HeldForMeters(t))
  <2>1. HeldForMeters(t) = {}
    BY DEF MetersInit, HeldForMeters
  <2> QED
    BY <1>2, <2>1, FS_EmptySet DEF NoSurplus
<1> QED
  BY <1>2, <1>3, <1>4, <1>5 DEF MetersInv, MetersHeld

(* So they always are. *)
LEMMA MetersInvAlways == MetersSpec => []MetersInv
BY MetersInvInit, MetersInvNext, PTL DEF MetersSpec

(* Streams, usage streams and meters are paid from one balance of the contract,
   and it is exactly what the three are owed, however many there are and
   whatever is billed, voided, claimed, cancelled or withdrawn in whatever
   order: none is paid out of another's money. *)
THEOREM PoolAlwaysBacksMeters == MetersSpec => []PoolBackedWithMeters
<1>1. MetersInv => PoolBackedWithMeters
  <2> SUFFICES ASSUME MetersInv, NEW t \in Tokens
               PROVE  escrow[t] = Cardinality(HeldFor(t)) + Cardinality(HeldForUsage(t))
                                  + Cardinality(HeldForMeters(t))
    BY DEF PoolBackedWithMeters
  <2>1. escrow[t] \in Int /\ Surplus(t) = Cardinality(HeldForMeters(t))
    BY DEF MetersInv, MetersHeld, Books, BooksInv
  <2> QED
    BY <2>1, HeldIsFinite, HeldForMetersIsFinite DEF Surplus
<1> QED
  BY <1>1, MetersInvAlways, PTL

(* What is charged to a seller is its calls that stand in unclaimed batches, and
   what it claimed those of claimed ones, at any price and however challenges
   overlap, follow each other or come before and after a claim: no call is both
   refunded and paid for. *)
THEOREM ChargesAlwaysStandingCalls == MetersSpec => []ChargesAreStandingCalls
<1>1. MetersInv => ChargesAreStandingCalls
  BY DEF MetersInv, StreamMetersOK, MeterOK, ChargesAreStandingCalls, Claimed
<1> QED
  BY <1>1, MetersInvAlways, PTL

(* Type correctness: no column of a meter and no balance goes negative, and the
   batches of a stream are numbered from 1 and cover its calls without a gap. *)
THEOREM MetersTypeCorrect == MetersSpec => []MetersTypeOK
<1>1. MetersInv => MetersTypeOK
  <2> SUFFICES ASSUME MetersInv PROVE MetersTypeOK
    OBVIOUS
  <2>1. \A t \in Tokens : escrow[t] \in Nat
    <3> SUFFICES ASSUME NEW t \in Tokens PROVE escrow[t] \in Nat
      OBVIOUS
    <3>1. escrow[t] \in Int /\ Surplus(t) = Cardinality(HeldForMeters(t))
      BY DEF MetersInv, MetersHeld, Books, BooksInv
    <3> QED
      BY <3>1, HeldIsFinite, HeldForMetersIsFinite DEF Surplus
  <2>2. StreamsTypeOK
    BY <2>1, BooksAreTyped DEF MetersInv
  <2>3. MeterTypes /\ \A i \in Ids : StreamMetersOK(i)
    BY DEF MetersInv
  <2>4. ASSUME NEW i \in Ids, meter[i] # None
        PROVE  /\ {meter[i].escrowed, meter[i].charged, meter[i].claimed} \subseteq 0 .. MaxCharge
               /\ Recorded(i) = 1 .. meter[i].count
    <3>1. meter[i] \in Meters
      BY <2>3, <2>4 DEF MeterTypes
    <3>2. Recorded(i) = {b \in BatchIds : b <= meter[i].count}
      BY <2>3, <2>4 DEF StreamMetersOK
    <3>3. meter[i].count \in 0 .. MaxBatches
      BY <3>1 DEF Meters
    <3>4. \A n \in 0 .. MaxBatches : {b \in BatchIds : b <= n} = 1 .. n
      BY MeterAssumptions DEF BatchIds
    <3> QED
      BY <3>1, <3>2, <3>3, <3>4 DEF Meters
  <2>5. ASSUME NEW i \in Ids, NEW b \in Recorded(i)
        PROVE  /\ batch[i][b].voided \in 0 .. batch[i][b].calls
               /\ batch[i][b].status \in {"Recorded", "Challenged", "Voided", "Claimed"}
               /\ batch[i][b].first + batch[i][b].calls =
                    IF b + 1 \in Recorded(i) THEN batch[i][b + 1].first ELSE meter[i].next
    <3>1. BatchOK(i, b) /\ meter[i] # None /\ batch[i][b] \in Batches /\ b \in Nat
      BY <2>3, BatchFields DEF StreamMetersOK
    <3>2. batch[i][b].voided \in 0 .. batch[i][b].calls
      BY <2>3, <3>1, BatchFields DEF BatchOK
    <3>3. b + 1 \in Recorded(i) <=> b < meter[i].count
      <4>1. Recorded(i) = 1 .. meter[i].count /\ meter[i].count \in Nat
        BY <2>3, <2>4, <3>1, MeterFields
      <4> QED
        BY <3>1, <4>1
    <3> QED
      BY <3>1, <3>2, <3>3 DEF BatchOK, Batches
  <2> QED
    BY <2>2, <2>3, <2>4, <2>5 DEF MetersTypeOK, MeterTypes
<1> QED
  BY <1>1, MetersInvAlways, PTL

-----------------------------------------------------------------------------
(* What a batch was recorded with, and what stands of it. *)
FieldsOfRecord == {"root", "calls", "first", "charged", "recorded_at", "key"}

(* A step voids calls of batch b of stream i only as StandingIsFinal says. *)
KeepsFinal(i, b) ==
  LET c == batch[i][b]
      v == batch'[i][b].voided
  IN /\ \A field \in FieldsOfRecord : batch'[i][b][field] = c[field]
     /\ c.status = "Claimed" => batch'[i][b] = c
     /\ v # c.voided => /\ v > c.voided
                        /\ now < c.recorded_at + ChallengeWindow
                        /\ \E leaf \in c.root : leaf.index - c.first = c.calls - v

KeepsAllFinal == \A i \in Ids : \A b \in Recorded(i) : KeepsFinal(i, b)

LEMMA UntouchedIsFinal ==
  ASSUME NEW i \in Ids, NEW b \in Recorded(i), batch'[i][b] = batch[i][b]
  PROVE  KeepsFinal(i, b)
BY DEF KeepsFinal

(* A new batch takes a number that no batch has. *)
LEMMA RecordIsFinal ==
  ASSUME MetersInv, NEW k \in Ids, NEW root \in Roots, NEW calls \in 1 .. MaxCalls,
         RecordUsageBatch(k, root, calls)
  PROVE  KeepsAllFinal
<1>1. PICK n : n = meter[k].count + 1
  OBVIOUS
<1>2. PICK c : batch' = [batch EXCEPT ![k][n] = c]
  BY <1>1 DEF RecordUsageBatch
<1>3. MeterTypes /\ StreamMetersOK(k) /\ meter[k] # None
  BY DEF MetersInv, RecordUsageBatch
<1>4. n \notin Recorded(k)
  <2>1. meter[k].count \in Nat
    BY <1>3, MeterFields
  <2> QED
    BY <1>1, <1>3, <2>1 DEF StreamMetersOK
<1>5. ASSUME NEW i \in Ids, NEW b \in Recorded(i) PROVE batch'[i][b] = batch[i][b]
  BY <1>2, <1>3, <1>4, <1>5 DEF MeterTypes, Recorded
<1> QED
  BY <1>5, UntouchedIsFinal DEF KeepsAllFinal

(* A claim changes the status of a batch that was not claimed. *)
LEMMA ClaimIsFinal ==
  ASSUME MetersInv, NEW k \in Ids, NEW n \in BatchIds, ClaimUsageBatch(k, n)
  PROVE  KeepsAllFinal
<1>1. MeterTypes
  BY DEF MetersInv
<1>2. /\ batch' = [batch EXCEPT ![k][n].status = "Claimed"]
      /\ batch[k][n].status # "Claimed" /\ batch[k][n] \in Batches
  BY <1>1 DEF ClaimUsageBatch, MeterTypes
<1>3. /\ batch'[k][n] = [batch[k][n] EXCEPT !.status = "Claimed"]
      /\ \A i \in Ids, b \in BatchIds : i # k \/ b # n => batch'[i][b] = batch[i][b]
  BY <1>1, <1>2 DEF MeterTypes
<1>4. KeepsFinal(k, n)
  BY <1>2, <1>3 DEF KeepsFinal, FieldsOfRecord, Batches
<1>5. ASSUME NEW i \in Ids, NEW b \in Recorded(i), i # k \/ b # n PROVE KeepsFinal(i, b)
  BY <1>3, <1>5, UntouchedIsFinal DEF Recorded
<1> QED
  BY <1>4, <1>5 DEF KeepsAllFinal

(* A challenge in the window voids from the committed call it names, and more
   than was void. *)
LEMMA VoidIsFinal ==
  ASSUME MetersInv, NEW k \in Ids, NEW n \in BatchIds, NEW leaf \in Leaves,
         Disputable(k, n), leaf \in batch[k][n].root, VoidFrom(k, n, leaf)
  PROVE  KeepsAllFinal
<1>1. MeterTypes /\ batch[k][n] # None
  BY DEF MetersInv, Disputable
<1>2. batch[k][n] \in Batches
  BY <1>1 DEF MeterTypes
<1>3. PICK voids : voids = batch[k][n].calls - (leaf.index - batch[k][n].first)
  OBVIOUS
<1>4. PICK refund : refund = (voids - batch[k][n].voided) * meter[k].price
  OBVIOUS
<1>5. PICK c : c = [batch[k][n] EXCEPT !.voided = voids, !.refunded = @ + refund,
                           !.status = IF voids = batch[k][n].calls
                                      THEN "Voided" ELSE "Challenged"]
  OBVIOUS
<1>6. batch' = [batch EXCEPT ![k][n] = c] /\ voids > batch[k][n].voided
  BY <1>3, <1>4, <1>5 DEF VoidFrom, VoidSuffix
<1>7. /\ c.voided = voids
      /\ \A field \in FieldsOfRecord : c[field] = batch[k][n][field]
  BY <1>2, <1>5 DEF Batches, FieldsOfRecord
<1>8. /\ batch'[k][n] = c
      /\ \A i \in Ids, b \in BatchIds : i # k \/ b # n => batch'[i][b] = batch[i][b]
  BY <1>1, <1>6 DEF MeterTypes
<1>9. leaf.index - batch[k][n].first = batch[k][n].calls - voids
  <2>1. batch[k][n].calls \in Nat /\ batch[k][n].first \in Nat
    BY <1>1, BatchFields DEF Recorded
  <2>2. leaf.index \in Nat
    BY MeterAssumptions
  <2> QED
    BY <1>3, <2>1, <2>2
<1>10. KeepsFinal(k, n)
  BY <1>6, <1>7, <1>8, <1>9 DEF KeepsFinal, Disputable
<1>11. ASSUME NEW i \in Ids, NEW b \in Recorded(i), i # k \/ b # n PROVE KeepsFinal(i, b)
  BY <1>8, <1>11, UntouchedIsFinal DEF Recorded
<1> QED
  BY <1>10, <1>11 DEF KeepsAllFinal

(* So every step does. *)
LEMMA EveryStepIsFinal == MetersInv /\ [MetersNext]_metersVars => KeepsAllFinal
<1> SUFFICES ASSUME MetersInv, [MetersNext]_metersVars PROVE KeepsAllFinal
  OBVIOUS
<1>1. ASSUME batch' = batch PROVE KeepsAllFinal
  BY <1>1, UntouchedIsFinal DEF KeepsAllFinal
<1>2. CASE StreamsNext /\ UNCHANGED meterVars
  BY <1>1, <1>2 DEF meterVars
<1>3. ASSUME NEW p \in Recipients, NEW k \in Keys, RegisterAttestationKey(p, k)
      PROVE  KeepsAllFinal
  BY <1>1, <1>3 DEF RegisterAttestationKey
<1>4. ASSUME NEW i \in Ids, NEW price \in Prices, NEW x \in Allowances,
             FundUsageMeter(i, price, x)
      PROVE  KeepsAllFinal
  BY <1>1, <1>4 DEF FundUsageMeter
<1>5. ASSUME NEW i \in Ids, NEW x \in 1 .. MaxCharge, WithdrawUsageEscrow(i, x)
      PROVE  KeepsAllFinal
  BY <1>1, <1>5 DEF WithdrawUsageEscrow
<1>6. ASSUME NEW i \in Ids, NEW root \in Roots, NEW calls \in 1 .. MaxCalls,
             RecordUsageBatch(i, root, calls)
      PROVE  KeepsAllFinal
  BY <1>6, RecordIsFinal
<1>7. ASSUME NEW i \in Ids, NEW b \in BatchIds, ClaimUsageBatch(i, b)
      PROVE  KeepsAllFinal
  BY <1>7, ClaimIsFinal
<1>8. ASSUME NEW i \in Ids, NEW b \in BatchIds, NEW leaf \in Leaves,
             NEW signature \in Passable(leaf), ChallengeUsageBatch(i, b, leaf, signature)
      PROVE  KeepsAllFinal
  BY <1>8, VoidIsFinal DEF ChallengeUsageBatch
<1>9. ASSUME NEW i \in Ids, NEW b \in BatchIds, NEW leaf \in Leaves,
             NEW ob \in BatchIds, NEW original \in Leaves,
             ChallengeNonceReplay(i, ob, original, b, leaf)
      PROVE  KeepsAllFinal
  BY <1>9, VoidIsFinal DEF ChallengeNonceReplay
<1>10. CASE UNCHANGED metersVars
  BY <1>1, <1>10 DEF metersVars, meterVars
<1> QED
  BY <1>2, <1>3, <1>4, <1>5, <1>6, <1>7, <1>8, <1>9, <1>10 DEF MetersNext

(* What a batch was recorded with never changes, and what stands of it is final
   when its window closes or it is claimed: whatever signature, key or replayed
   nonce a challenger comes with, voids only grow, only inside the window, and
   they start at a call that the batch committed to. *)
THEOREM StandingAlwaysFinal == MetersSpec => StandingIsFinal
<1>1. MetersInv /\ [MetersNext]_metersVars => KeepsAllFinal
  BY EveryStepIsFinal
<1>2. KeepsAllFinal =>
        [\A i \in Ids : \A b \in Recorded(i) :
           LET c == batch[i][b]
               v == batch'[i][b].voided
           IN /\ \A field \in {"root", "calls", "first", "charged", "recorded_at", "key"} :
                   batch'[i][b][field] = c[field]
              /\ c.status = "Claimed" => batch'[i][b] = c
              /\ v # c.voided =>
                   /\ v > c.voided
                   /\ now < c.recorded_at + ChallengeWindow
                   /\ \E leaf \in c.root : leaf.index - c.first = c.calls - v]_metersVars
  BY DEF KeepsAllFinal, KeepsFinal, FieldsOfRecord
<1> QED
  BY <1>1, <1>2, MetersInvAlways, PTL DEF MetersSpec, StandingIsFinal

(* A sender does not pay for the seconds in which its stream was paused, though
   the stream is metered as well: what a meter holds is its own money. *)
THEOREM MeteredPauseIsFree == MetersSpec => []PausedTimeIsFree
<1>1. MetersInv => PausedTimeIsFree
  BY DEF MetersInv, Books, AccrualInv, StreamOK, PausedTimeIsFree
<1> QED
  BY <1>1, MetersInvAlways, PTL
=============================================================================
