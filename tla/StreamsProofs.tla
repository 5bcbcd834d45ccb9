---------------------------- MODULE StreamsProofs ----------------------------
(***************************************************************************)
(* Theorems about time streams and usage streams, for every value of the   *)
(* constants.                                                              *)
(*                                                                         *)
(* AccrualInv, the inductive invariant of the time streams, relates what a *)
(* stream has paid and has accrued since it was last settled to the time   *)
(* it has been Active.  BooksInv adds usage streams and wallets.  That the *)
(* pool is backed is inductive relative to both, by counting units.        *)
(***************************************************************************)
EXTENDS Streams, FiniteSetTheorems, TLAPS

Statuses == {"Absent", "Active", "Paused", "Completed", "Cancelled"}

StreamTypes ==
  /\ opened \in 0 .. MaxStreams
  /\ terms \in [Ids -> [sender : Parties \cup {None}, recipient : Parties \cup {None},
                        token : Tokens \cup {None}, deposit : 0 .. MaxDeposit,
                        rate : Nat, end_time : Nat]]
  /\ status \in [Ids -> Statuses]
  /\ withdrawn \in [Ids -> Nat] /\ lastSettled \in [Ids -> Nat]
  /\ active \in [Ids -> Nat]
  /\ now \in 0 .. MaxTime

(* What is on record of stream i. *)
StreamOK(i) ==
  /\ i > opened => status[i] = "Absent"
  /\ status[i] = "Absent" => withdrawn[i] = 0
  /\ status[i] # "Absent" => /\ terms[i].sender \in Parties
                             /\ terms[i].recipient \in Parties
                             /\ terms[i].token \in Tokens
  /\ withdrawn[i] <= terms[i].deposit
  /\ lastSettled[i] <= now
  /\ withdrawn[i] <= terms[i].rate * active[i]
  /\ status[i] = "Active" => withdrawn[i] + Earned(i) <= terms[i].rate * active[i]

AccrualInv == StreamTypes /\ \A i \in Ids : StreamOK(i)

-----------------------------------------------------------------------------
(* What is claimable is covered by the deposit and has been earned. *)
LEMMA ClaimableBounds ==
  ASSUME AccrualInv, NEW i \in Ids
  PROVE  /\ Earned(i) \in Nat
         /\ Claimable(i) \in Nat
         /\ Claimable(i) <= Remaining(i)
         /\ Claimable(i) <= Earned(i)
         /\ Claimable(i) > 0 => status[i] = "Active"
<1>1. /\ now \in Nat /\ lastSettled[i] \in Nat /\ lastSettled[i] <= now
      /\ terms[i].rate \in Nat /\ terms[i].deposit \in Nat
      /\ withdrawn[i] \in Nat /\ withdrawn[i] <= terms[i].deposit
  BY StreamAssumptions DEF AccrualInv, StreamTypes, StreamOK
<1>2. now - lastSettled[i] \in Nat
  BY <1>1
<1>3. Earned(i) \in Nat
  <2>1. \A a, b \in Nat : a * b \in Nat
    OBVIOUS
  <2> QED
    BY <1>1, <1>2, <2>1 DEF Earned
<1>4. Remaining(i) \in Nat
  BY <1>1 DEF Remaining
<1> QED
  BY <1>3, <1>4 DEF Claimable

(* A stream that nothing touches but its own fields keeps its record, as long
   as the clock stands still. *)
LEMMA StreamUnchanged ==
  ASSUME NEW i \in Ids, StreamOK(i), opened' >= opened, opened \in Int, opened' \in Int,
         terms'[i] = terms[i], status'[i] = status[i], withdrawn'[i] = withdrawn[i],
         lastSettled'[i] = lastSettled[i], active'[i] = active[i], now' = now
  PROVE  StreamOK(i)'
<1>1. i \in Int
  BY StreamAssumptions DEF Ids
<1> QED
  BY <1>1 DEF StreamOK, Earned

(* A new stream has paid and accrued nothing. *)
LEMMA OpenStreamKeepsAccrual ==
  ASSUME AccrualInv, NEW s \in Senders, NEW r \in Recipients, NEW t \in Tokens,
         NEW x \in Deposits, NEW rate \in Rates, NEW d \in Durations,
         OpenStream(s, r, t, x, rate, d)
  PROVE  AccrualInv'
<1> DEFINE k == opened + 1
           T == [sender |-> s, recipient |-> r, token |-> t, deposit |-> x,
                 rate |-> rate, end_time |-> now + d]
<1>1. /\ k \in Ids /\ opened \in Nat /\ now \in Nat
      /\ x \in 1 .. MaxDeposit /\ rate \in Nat /\ d \in Nat
      /\ s \in Parties /\ r \in Parties /\ MaxDeposit \in Nat
  BY StreamAssumptions DEF AccrualInv, StreamTypes, OpenStream, Ids
<1>2. /\ opened' = k /\ terms' = [terms EXCEPT ![k] = T]
      /\ status' = [status EXCEPT ![k] = "Active"]
      /\ lastSettled' = [lastSettled EXCEPT ![k] = now]
      /\ UNCHANGED <<withdrawn, now, active>>
  BY DEF OpenStream
<1>3. T \in [sender : Parties \cup {None}, recipient : Parties \cup {None},
             token : Tokens \cup {None}, deposit : 0 .. MaxDeposit,
             rate : Nat, end_time : Nat]
  BY <1>1
<1> HIDE DEF T
<1>4. StreamTypes'
  <2>1. opened' \in 0 .. MaxStreams
    BY <1>1, <1>2 DEF Ids
  <2>2. terms' \in [Ids -> [sender : Parties \cup {None}, recipient : Parties \cup {None},
                           token : Tokens \cup {None}, deposit : 0 .. MaxDeposit,
                           rate : Nat, end_time : Nat]]
    BY <1>2, <1>3 DEF AccrualInv, StreamTypes
  <2>3. status' \in [Ids -> Statuses] /\ lastSettled' \in [Ids -> Nat]
    BY <1>1, <1>2 DEF AccrualInv, StreamTypes, Statuses
  <2> QED
    BY <1>2, <2>1, <2>2, <2>3 DEF AccrualInv, StreamTypes
<1>5. ASSUME NEW i \in Ids PROVE StreamOK(i)'
  <2>1. CASE i = k
    <3>1. /\ terms'[i] = T /\ status'[i] = "Active" /\ lastSettled'[i] = now
          /\ now' = now /\ opened' = i
      BY <1>1, <1>2, <2>1 DEF AccrualInv, StreamTypes
    <3>2. withdrawn'[i] = 0 /\ active'[i] \in Nat
      <4>1. k > opened
        BY <1>1
      <4>2. status[i] = "Absent" /\ withdrawn[i] = 0
        BY <2>1, <4>1 DEF AccrualInv, StreamOK
      <4> QED
        BY <1>2, <4>2 DEF AccrualInv, StreamTypes
    <3>3. /\ T.sender \in Parties /\ T.recipient \in Parties /\ T.token \in Tokens
          /\ T.deposit \in Nat /\ T.rate \in Nat
      BY <1>1 DEF T
    <3>4. Earned(i)' = 0
      <4>1. (now - now) * T.rate = 0
        BY <1>1, <3>3
      <4> QED
        BY <3>1, <4>1 DEF Earned
    <3>5. T.rate * active'[i] \in Nat
      <4>1. \A a, b \in Nat : a * b \in Nat
        OBVIOUS
      <4> QED
        BY <3>2, <3>3, <4>1
    <3>6. i \in Nat /\ now' \in Nat
      BY <1>1, <2>1, <3>1 DEF Ids
    <3> HIDE DEF k
    <3> QED
      BY <3>1, <3>2, <3>3, <3>4, <3>5, <3>6 DEF StreamOK
  <2>2. CASE i # k
    <3>1. /\ terms'[i] = terms[i] /\ status'[i] = status[i]
          /\ lastSettled'[i] = lastSettled[i]
      BY <1>2, <2>2 DEF AccrualInv, StreamTypes
    <3> QED
      BY <1>1, <1>2, <3>1, StreamUnchanged DEF AccrualInv
  <2> QED
    BY <2>1, <2>2
<1> QED
  BY <1>4, <1>5 DEF AccrualInv

(* Settling is the step the history is about: what has been earned since the
   last settlement becomes withdrawn, and the clock of the stream restarts. *)
LEMMA SettleAllKeepsAccrual ==
  ASSUME AccrualInv, NEW r, NEW S \in SUBSET Ids, SettleAll(r, S)
  PROVE  AccrualInv'
<1>1. /\ withdrawn' = [i \in Ids |-> IF i \in S /\ Claimable(i) > 0
                                     THEN withdrawn[i] + Claimable(i)
                                     ELSE withdrawn[i]]
      /\ lastSettled' = [i \in Ids |-> IF i \in S /\ Claimable(i) > 0
                                       THEN now ELSE lastSettled[i]]
      /\ status' = [i \in Ids |-> IF i \in S /\ Claimable(i) > 0 /\ Completes(i)
                                  THEN "Completed" ELSE status[i]]
      /\ UNCHANGED <<opened, terms, now, active>>
  BY DEF SettleAll
<1>2. \A i \in Ids : Claimable(i) \in Nat
  BY ClaimableBounds
<1>3. StreamTypes'
  BY <1>1, <1>2, StreamAssumptions DEF AccrualInv, StreamTypes, Statuses
<1>4. ASSUME NEW i \in Ids PROVE StreamOK(i)'
  <2>1. CASE i \in S /\ Claimable(i) > 0
    <3>1. /\ status[i] = "Active" /\ Claimable(i) <= Remaining(i)
          /\ Claimable(i) <= Earned(i) /\ Earned(i) \in Nat /\ Claimable(i) \in Nat
      BY <2>1, ClaimableBounds
    <3>2. /\ withdrawn'[i] = withdrawn[i] + Claimable(i)
          /\ lastSettled'[i] = now /\ status'[i] \in {"Active", "Completed"}
          /\ terms'[i] = terms[i] /\ active'[i] = active[i] /\ now' = now
          /\ opened' = opened
      BY <1>1, <2>1, <3>1
    <3>3. /\ withdrawn[i] \in Nat /\ terms[i].deposit \in Nat
          /\ terms[i].rate \in Nat /\ active[i] \in Nat /\ now \in Nat
          /\ StreamOK(i)
      BY StreamAssumptions DEF AccrualInv, StreamTypes
    <3>4. terms[i].rate * active[i] \in Nat
      <4>1. \A a, b \in Nat : a * b \in Nat
        OBVIOUS
      <4> QED
        BY <3>3, <4>1
    <3>5. withdrawn'[i] <= terms[i].rate * active[i]
      BY <3>1, <3>2, <3>3, <3>4 DEF StreamOK
    <3>6. Earned(i)' = 0
      <4>1. (now - now) * terms[i].rate = 0
        BY <3>3
      <4> QED
        BY <3>2, <4>1 DEF Earned
    <3>7. withdrawn'[i] \in Nat /\ withdrawn'[i] <= terms[i].deposit
      BY <3>1, <3>2, <3>3 DEF Remaining
    <3>8. i \in Int /\ opened \in Int /\ ~(i > opened)
      BY <3>1, <3>3, StreamAssumptions DEF StreamOK, Ids, AccrualInv, StreamTypes
    <3> QED
      BY <3>1, <3>2, <3>3, <3>4, <3>5, <3>6, <3>7, <3>8 DEF StreamOK
  <2>2. CASE ~(i \in S /\ Claimable(i) > 0)
    BY <1>1, <2>2, StreamUnchanged, StreamAssumptions DEF AccrualInv, StreamTypes
  <2> QED
    BY <2>1, <2>2
<1> QED
  BY <1>3, <1>4 DEF AccrualInv

(* Cancelling pays what has accrued and ends the stream. *)
LEMMA CancelKeepsAccrual ==
  ASSUME AccrualInv, NEW k \in Ids, CancelStream(k)
  PROVE  AccrualInv'
<1>1. /\ withdrawn' = [withdrawn EXCEPT ![k] = @ + Claimable(k)]
      /\ status' = [status EXCEPT ![k] = "Cancelled"]
      /\ UNCHANGED <<opened, terms, lastSettled, now, active>>
      /\ status[k] # "Absent"
  BY DEF CancelStream
<1>2. /\ Claimable(k) \in Nat /\ Claimable(k) <= Remaining(k)
      /\ Claimable(k) <= Earned(k) /\ Earned(k) \in Nat
      /\ Claimable(k) > 0 => status[k] = "Active"
  BY ClaimableBounds
<1>3. StreamTypes'
  BY <1>1, <1>2 DEF AccrualInv, StreamTypes, Statuses
<1>4. ASSUME NEW i \in Ids PROVE StreamOK(i)'
  <2>1. CASE i = k
    <3>1. /\ withdrawn'[i] = withdrawn[i] + Claimable(i) /\ status'[i] = "Cancelled"
          /\ StreamOK(i)
      BY <1>1, <2>1 DEF AccrualInv, StreamTypes
    <3>2. /\ withdrawn[i] \in Nat /\ terms[i].deposit \in Nat
          /\ terms[i].rate \in Nat /\ active[i] \in Nat
          /\ i \in Nat /\ opened \in Nat
      BY StreamAssumptions DEF AccrualInv, StreamTypes, Ids
    <3>3. terms[i].rate * active[i] \in Nat
      <4>1. \A a, b \in Nat : a * b \in Nat
        OBVIOUS
      <4> QED
        BY <3>2, <4>1
    <3>4. withdrawn'[i] <= terms[i].rate * active[i]
      BY <1>2, <2>1, <3>1, <3>2, <3>3 DEF StreamOK
    <3>5. withdrawn'[i] <= terms[i].deposit
      BY <1>2, <2>1, <3>1, <3>2 DEF Remaining
    <3> QED
      BY <1>1, <2>1, <3>1, <3>2, <3>4, <3>5 DEF StreamOK
  <2>2. CASE i # k
    <3>1. status'[i] = status[i] /\ withdrawn'[i] = withdrawn[i]
      BY <1>1, <2>2 DEF AccrualInv, StreamTypes
    <3> QED
      BY <1>1, <3>1, StreamUnchanged, StreamAssumptions DEF AccrualInv, StreamTypes
  <2> QED
    BY <2>1, <2>2
<1> QED
  BY <1>3, <1>4 DEF AccrualInv

(* Pausing drops what has accrued, resuming restarts the clock. *)
LEMMA PauseKeepsAccrual ==
  ASSUME AccrualInv, NEW k \in Ids, PauseStream(k)
  PROVE  AccrualInv'
<1>1. /\ status[k] = "Active" /\ status' = [status EXCEPT ![k] = "Paused"]
      /\ UNCHANGED <<opened, terms, withdrawn, lastSettled, now, active>>
  BY DEF PauseStream
<1>2. StreamTypes'
  BY <1>1 DEF AccrualInv, StreamTypes, Statuses
<1>3. ASSUME NEW i \in Ids PROVE StreamOK(i)'
  BY <1>1 DEF AccrualInv, StreamTypes, StreamOK, Earned
<1> QED
  BY <1>2, <1>3 DEF AccrualInv

(* A resumed stream accrues from nothing. *)
LEMMA ResumeKeepsAccrual ==
  ASSUME AccrualInv, NEW k \in Ids, ResumeStream(k)
  PROVE  AccrualInv'
<1>1. /\ status[k] = "Paused" /\ status' = [status EXCEPT ![k] = "Active"]
      /\ lastSettled' = [lastSettled EXCEPT ![k] = now]
      /\ UNCHANGED <<opened, terms, withdrawn, now, active>>
  BY DEF ResumeStream
<1>2. StreamTypes'
  BY <1>1, StreamAssumptions DEF AccrualInv, StreamTypes, Statuses
<1>3. ASSUME NEW i \in Ids PROVE StreamOK(i)'
  <2>1. CASE i = k
    <3>1. /\ lastSettled'[i] = now /\ status'[i] = "Active"
          /\ terms[i].rate \in Nat /\ active[i] \in Nat /\ now \in Nat
          /\ withdrawn[i] \in Nat /\ StreamOK(i)
      BY <1>1, <2>1, StreamAssumptions DEF AccrualInv, StreamTypes
    <3>2. Earned(i)' = 0
      <4>1. (now - now) * terms[i].rate = 0
        BY <3>1
      <4> QED
        BY <1>1, <3>1, <4>1 DEF Earned
    <3>3. terms[i].rate * active[i] \in Nat
      <4>1. \A a, b \in Nat : a * b \in Nat
        OBVIOUS
      <4> QED
        BY <3>1, <4>1
    <3> QED
      BY <1>1, <2>1, <3>1, <3>2, <3>3 DEF StreamOK
  <2>2. CASE i # k
    <3>1. status'[i] = status[i] /\ lastSettled'[i] = lastSettled[i]
      BY <1>1, <2>2 DEF AccrualInv, StreamTypes
    <3> QED
      BY <1>1, <3>1, StreamUnchanged, StreamAssumptions DEF AccrualInv, StreamTypes
  <2> QED
    BY <2>1, <2>2
<1> QED
  BY <1>2, <1>3 DEF AccrualInv

(* A second earns an Active stream one more rate, and counts as one second. *)
LEMMA SecondKeepsAccrual ==
  ASSUME AccrualInv, Second
  PROVE  AccrualInv'
<1>1. /\ now' = now + 1 /\ now < MaxTime
      /\ active' = [i \in Ids |-> IF status[i] = "Active" THEN active[i] + 1
                                  ELSE active[i]]
      /\ UNCHANGED <<opened, terms, status, withdrawn, lastSettled>>
  BY DEF Second, streamVars
<1>2. StreamTypes'
  BY <1>1, StreamAssumptions DEF AccrualInv, StreamTypes
<1>3. ASSUME NEW i \in Ids PROVE StreamOK(i)'
  <2>1. /\ lastSettled[i] \in Nat /\ lastSettled[i] <= now
        /\ terms[i].rate \in Nat /\ active[i] \in Nat /\ now \in Nat
        /\ withdrawn[i] \in Nat /\ StreamOK(i)
    BY StreamAssumptions DEF AccrualInv, StreamTypes, StreamOK
  <2>2. \A a, b \in Nat : a * b \in Nat /\ (a + 1) * b = a * b + b
                          /\ b * (a + 1) = b * a + b
    OBVIOUS
  <2>3. PICK e \in Nat : e = now - lastSettled[i]
    BY <2>1
  <2>4. now' - lastSettled[i] = e + 1
    BY <1>1, <2>1, <2>3
  <2>5. Earned(i)' = Earned(i) + terms[i].rate /\ Earned(i) \in Nat
    BY <1>1, <2>1, <2>2, <2>3, <2>4 DEF Earned
  <2>6. /\ terms[i].rate * active[i] \in Nat
        /\ terms[i].rate * (active[i] + 1) = terms[i].rate * active[i] + terms[i].rate
    BY <2>1, <2>2
  <2>7. CASE status[i] = "Active"
    <3>1. active'[i] = active[i] + 1
      BY <1>1, <2>7
    <3>2. terms[i].rate * active'[i] = terms[i].rate * active[i] + terms[i].rate
      BY <2>6, <3>1
    <3>3. /\ withdrawn'[i] = withdrawn[i] /\ terms'[i] = terms[i]
          /\ lastSettled'[i] <= now' /\ status'[i] = "Active"
      BY <1>1, <2>1, <2>7
    <3>4. withdrawn'[i] + Earned(i)' <= terms'[i].rate * active'[i]
      BY <2>1, <2>5, <2>6, <2>7, <3>2, <3>3 DEF StreamOK
    <3>5. withdrawn'[i] <= terms'[i].rate * active'[i]
      BY <2>1, <2>6, <3>2, <3>3 DEF StreamOK
    <3> QED
      BY <1>1, <2>1, <2>7, <3>3, <3>4, <3>5 DEF StreamOK
  <2>8. CASE status[i] # "Active"
    <3>1. active'[i] = active[i]
      BY <1>1, <2>8
    <3> QED
      BY <1>1, <2>1, <2>8, <3>1 DEF StreamOK
  <2> QED
    BY <2>7, <2>8
<1> QED
  BY <1>2, <1>3 DEF AccrualInv

(* A step that touches no stream and not the clock. *)
LEMMA AccrualStable ==
  ASSUME AccrualInv, UNCHANGED <<streamVars, now, active>>
  PROVE  AccrualInv'
BY DEF AccrualInv, StreamTypes, StreamOK, Earned, streamVars

(* Every step keeps the bound on what is paid and accrued. *)
LEMMA AccrualInvNext == AccrualInv /\ [StreamsNext]_streamsVars => AccrualInv'
<1> SUFFICES ASSUME AccrualInv, [StreamsNext]_streamsVars PROVE AccrualInv'
  OBVIOUS
<1>1. ASSUME NEW s \in Senders, NEW r \in Recipients, NEW t \in Tokens,
             NEW x \in Deposits, Open(s, r, t, x)
      PROVE  AccrualInv'
  BY <1>1, AccrualStable DEF Open
<1>2. ASSUME NEW s \in Senders, NEW r \in Recipients, NEW t \in Tokens,
             NEW x \in Deposits, NEW rate \in Rates, NEW d \in Durations,
             OpenStream(s, r, t, x, rate, d)
      PROVE  AccrualInv'
  BY <1>2, OpenStreamKeepsAccrual
<1>3. ASSUME NEW i \in UsageIds, Settle(i)
      PROVE  AccrualInv'
  BY <1>3, AccrualStable DEF Settle
<1>4. ASSUME NEW i \in UsageIds, NEW x \in 1 .. MaxDeposit, Increment(i, x)
      PROVE  AccrualInv'
  BY <1>4, AccrualStable DEF Increment
<1>5. ASSUME NEW i \in Ids, Withdraw(i)
      PROVE  AccrualInv'
  BY <1>5, SettleAllKeepsAccrual DEF Withdraw
<1>6. ASSUME NEW i \in Ids, CancelStream(i)
      PROVE  AccrualInv'
  BY <1>6, CancelKeepsAccrual
<1>7. ASSUME NEW i \in Ids, PauseStream(i)
      PROVE  AccrualInv'
  BY <1>7, PauseKeepsAccrual
<1>8. ASSUME NEW i \in Ids, ResumeStream(i)
      PROVE  AccrualInv'
  BY <1>8, ResumeKeepsAccrual
<1>9. ASSUME NEW r \in Recipients, NEW S \in SUBSET Ids, NEW n \in Nonces,
             NEW repeated \in SUBSET S, BatchSettle(r, S, repeated, n)
      PROVE  AccrualInv'
  BY <1>9, SettleAllKeepsAccrual DEF BatchSettle
<1>10. CASE Second
  BY <1>10, SecondKeepsAccrual
<1>11. CASE UNCHANGED streamsVars
  BY <1>11, AccrualStable DEF streamsVars
<1> QED
  BY <1>1, <1>2, <1>3, <1>4, <1>5, <1>6, <1>7, <1>8, <1>9, <1>10, <1>11
     DEF StreamsNext

(* At first there is no stream. *)
LEMMA AccrualInvInit == StreamsInit => AccrualInv
<1> SUFFICES ASSUME StreamsInit PROVE AccrualInv
  OBVIOUS
<1>1. StreamTypes
  BY StreamAssumptions DEF StreamsInit, StreamTypes, Statuses, NoTerms, Ids
<1>2. ASSUME NEW i \in Ids PROVE StreamOK(i)
  BY StreamAssumptions DEF StreamsInit, StreamOK, NoTerms, Ids
<1> QED
  BY <1>1, <1>2 DEF AccrualInv

(* So the bound always holds. *)
LEMMA AccrualInvAlways == StreamsSpec => []AccrualInv
BY AccrualInvInit, AccrualInvNext, PTL DEF StreamsSpec

(* A sender pays for the seconds its stream was Active and for no others, for
   any rates, deposits and durations and any number of streams, however they
   are paused, resumed, withdrawn from and settled in batches. *)
THEOREM PausedTimeAlwaysFree == StreamsSpec => []PausedTimeIsFree
<1>1. AccrualInv => PausedTimeIsFree
  BY DEF AccrualInv, StreamOK, PausedTimeIsFree
<1> QED
  BY <1>1, AccrualInvAlways, PTL

-----------------------------------------------------------------------------
(* What the books say of usage streams and balances. *)
BooksInv ==
  /\ usage \in [UsageIds -> UsageStreams \cup {None}]
  /\ \A i \in UsageIds : usage[i] # None =>
       usage[i].settled <= usage[i].accrued /\ usage[i].accrued <= usage[i].deposit
  /\ wallet \in [Tokens -> [Parties -> Nat]]
  /\ escrow \in [Tokens -> Int]

Books == AccrualInv /\ BooksInv

(* What the contract has of token t beyond what its streams hold. *)
Surplus(t) == escrow[t] - (Cardinality(HeldFor(t)) + Cardinality(HeldForUsage(t)))

NoSurplus == \A t \in Tokens : Surplus(t) = 0
SurplusKept == \A u \in Tokens : Surplus(u)' = Surplus(u)

PoolInv == Books /\ PoolBacked

(* The units that two deposits or payments of one stream lie between. *)
LEMMA UnitsCounted ==
  ASSUME NEW c, NEW a \in Nat, NEW b \in Nat, a <= b
  PROVE  /\ IsFiniteSet({c} \X (a + 1 .. b))
         /\ Cardinality({c} \X (a + 1 .. b)) = b - a
<1>1. IsFiniteSet({c}) /\ Cardinality({c}) = 1
  BY FS_Singleton
<1>2. IsFiniteSet(a + 1 .. b) /\ Cardinality(a + 1 .. b) = b - a
  <2>1. a + 1 \in Int /\ b \in Int
    OBVIOUS
  <2>2. /\ IsFiniteSet(a + 1 .. b)
        /\ Cardinality(a + 1 .. b) = IF a + 1 > b THEN 0 ELSE b - (a + 1) + 1
    BY <2>1, FS_Interval
  <2> QED
    BY <2>2
<1>3. /\ IsFiniteSet({c} \X (a + 1 .. b))
      /\ Cardinality({c} \X (a + 1 .. b)) = Cardinality({c}) * Cardinality(a + 1 .. b)
  BY <1>1, <1>2, FS_Product, Zenon
<1> QED
  BY <1>1, <1>2, <1>3

(* What the streams hold can be counted. *)
LEMMA HeldIsFinite ==
  ASSUME NEW t
  PROVE  /\ IsFiniteSet(HeldFor(t)) /\ Cardinality(HeldFor(t)) \in Nat
         /\ IsFiniteSet(HeldForUsage(t)) /\ Cardinality(HeldForUsage(t)) \in Nat
<1>1. IsFiniteSet(Ids) /\ IsFiniteSet(UsageIds) /\ IsFiniteSet(1 .. MaxDeposit)
  BY FS_Interval, StreamAssumptions DEF Ids, UsageIds
<1>2. IsFiniteSet(Ids \X (1 .. MaxDeposit)) /\ IsFiniteSet(UsageIds \X (1 .. MaxDeposit))
  BY <1>1, FS_Product
<1>3. /\ HeldFor(t) \subseteq Ids \X (1 .. MaxDeposit)
      /\ HeldForUsage(t) \subseteq UsageIds \X (1 .. MaxDeposit)
  BY DEF HeldFor, HeldForUsage
<1> QED
  BY <1>2, <1>3, FS_Subset, FS_CardinalityType

(* Taking units out of what is held, or adding fresh ones to it. *)
LEMMA UnitsTaken ==
  ASSUME NEW H, IsFiniteSet(H), NEW D \in SUBSET H
  PROVE  /\ IsFiniteSet(D) /\ Cardinality(D) \in Nat
         /\ Cardinality(H \ D) = Cardinality(H) - Cardinality(D)
<1>1. IsFiniteSet(D) /\ H \cap D = D
  BY FS_Subset
<1>2. Cardinality(H \ D) = Cardinality(H) - Cardinality(H \cap D)
  BY FS_Difference
<1> QED
  BY <1>1, <1>2, FS_CardinalityType

(* Disjoint units are counted together. *)
LEMMA UnitsAdded ==
  ASSUME NEW H, IsFiniteSet(H), NEW D, IsFiniteSet(D), H \cap D = {}
  PROVE  Cardinality(H \cup D) = Cardinality(H) + Cardinality(D)
<1>1. Cardinality(H \cup D) = Cardinality(H) + Cardinality(D) - Cardinality(H \cap D)
  BY FS_Union
<1>2. Cardinality(H \cap D) = 0
  BY FS_EmptySet
<1>3. Cardinality(H) \in Nat /\ Cardinality(D) \in Nat
  BY FS_CardinalityType
<1> QED
  BY <1>1, <1>2, <1>3

(* Paying into, and paying out of, the pool keeps the wallets whole. *)
LEMMA DepositKeepsWallets ==
  ASSUME BooksInv, NEW p \in Parties, NEW t \in Tokens, NEW x \in Nat, Deposit(p, t, x)
  PROVE  wallet' \in [Tokens -> [Parties -> Nat]] /\ escrow' \in [Tokens -> Int]
<1>1. [wallet[t] EXCEPT ![p] = wallet[t][p] - x] \in [Parties -> Nat]
  BY DEF BooksInv, Deposit
<1>2. wallet' = [wallet EXCEPT ![t] = [wallet[t] EXCEPT ![p] = wallet[t][p] - x]]
  BY DEF BooksInv, Deposit
<1> QED
  BY <1>1, <1>2 DEF BooksInv, Deposit

(* Crediting one account keeps a ledger of non-negative balances. *)
LEMMA CreditOne ==
  ASSUME NEW w \in [Tokens -> [Parties -> Nat]], NEW p \in Parties, NEW t \in Tokens,
         NEW x \in Nat
  PROVE  [w EXCEPT ![t][p] = @ + x] \in [Tokens -> [Parties -> Nat]]
<1>1. [w[t] EXCEPT ![p] = w[t][p] + x] \in [Parties -> Nat]
  OBVIOUS
<1>2. [w EXCEPT ![t][p] = @ + x] = [w EXCEPT ![t] = [w[t] EXCEPT ![p] = w[t][p] + x]]
  OBVIOUS
<1> QED
  BY <1>1, <1>2

(* A transfer out of the contract leaves the books well typed. *)
LEMMA TransferKeepsWallets ==
  ASSUME BooksInv, NEW p \in Parties, NEW t \in Tokens, NEW x \in Nat, Transfer(p, t, x)
  PROVE  wallet' \in [Tokens -> [Parties -> Nat]] /\ escrow' \in [Tokens -> Int]
BY CreditOne DEF BooksInv, Transfer

(* Opening a usage stream takes in what it holds. *)
LEMMA OpenKeepsSurplus ==
  ASSUME Books, AccrualInv', NEW s \in Senders, NEW r \in Recipients,
         NEW t \in Tokens, NEW x \in Deposits, Open(s, r, t, x)
  PROVE  Books' /\ SurplusKept
<1> USE DEF Books
<1>1. PICK k \in UsageIds :
        /\ usage[k] = None /\ Deposit(s, t, x)
        /\ usage' = [usage EXCEPT ![k] = [sender |-> s, recipient |-> r, token |-> t,
                                         deposit |-> x, accrued |-> 0, settled |-> 0]]
        /\ UNCHANGED <<streamVars, settlements, now, active>>
  BY DEF Open
<1>2. PICK U : U = [sender |-> s, recipient |-> r, token |-> t,
                    deposit |-> x, accrued |-> 0, settled |-> 0]
  OBVIOUS
<1>3. /\ U \in UsageStreams /\ U # None /\ U.token = t /\ U.deposit = x /\ U.settled = 0
      /\ U.accrued = 0 /\ x \in 1 .. MaxDeposit /\ s \in Parties
  BY <1>2, StreamAssumptions DEF UsageStreams
<1>4. usage' = [usage EXCEPT ![k] = U]
  BY <1>1, <1>2
<1>5. BooksInv'
  <2>1. wallet' \in [Tokens -> [Parties -> Nat]] /\ escrow' \in [Tokens -> Int]
    BY <1>1, <1>3, DepositKeepsWallets
  <2>2. usage' \in [UsageIds -> UsageStreams \cup {None}]
    BY <1>3, <1>4 DEF BooksInv
  <2>3. \A i \in UsageIds : usage'[i] # None =>
          usage'[i].settled <= usage'[i].accrued /\ usage'[i].accrued <= usage'[i].deposit
    BY <1>3, <1>4 DEF BooksInv
  <2> QED
    BY <2>1, <2>2, <2>3 DEF BooksInv
<1>6. ASSUME NEW u \in Tokens
      PROVE  Surplus(u)' = Surplus(u)
  <2>1. HeldFor(u)' = HeldFor(u)
    BY <1>1 DEF HeldFor, streamVars
  <2>2. escrow[u] \in Int
    BY DEF BooksInv
  <2>3. CASE u = t
    <3>1. HeldForUsage(u)' = HeldForUsage(u) \cup ({k} \X (0 + 1 .. x))
      <4>1. \A v \in UsageIds \X (1 .. MaxDeposit) :
              v[1] # k => (v \in HeldForUsage(u)' <=> v \in HeldForUsage(u))
        BY <1>4 DEF HeldForUsage, BooksInv
      <4>2. \A v \in UsageIds \X (1 .. MaxDeposit) :
              v[1] = k => (v \in HeldForUsage(u)' <=> v[2] <= x)
        BY <1>3, <1>4, <2>3 DEF HeldForUsage, BooksInv
      <4>3. \A v \in HeldForUsage(u) : v[1] # k
        BY <1>1 DEF HeldForUsage
      <4>4. /\ HeldForUsage(u) \subseteq UsageIds \X (1 .. MaxDeposit)
            /\ HeldForUsage(u)' \subseteq UsageIds \X (1 .. MaxDeposit)
        BY DEF HeldForUsage
      <4>5. {k} \X (0 + 1 .. x) =
              {v \in UsageIds \X (1 .. MaxDeposit) : v[1] = k /\ v[2] <= x}
        <5>1. 0 + 1 .. x = {n \in 1 .. MaxDeposit : n <= x}
          BY <1>3, StreamAssumptions
        <5> QED
          BY <5>1
      <4> QED
        BY <4>1, <4>2, <4>3, <4>4, <4>5
    <3>2. HeldForUsage(u) \cap ({k} \X (0 + 1 .. x)) = {}
      BY <1>1 DEF HeldForUsage
    <3>3. /\ IsFiniteSet({k} \X (0 + 1 .. x))
          /\ Cardinality({k} \X (0 + 1 .. x)) = x
      <4>1. 0 \in Nat /\ x \in Nat /\ 0 <= x
        BY <1>3, StreamAssumptions
      <4> HIDE DEF Books
      <4>2. /\ IsFiniteSet({k} \X (0 + 1 .. x))
            /\ Cardinality({k} \X (0 + 1 .. x)) = x - 0
        BY <4>1, UnitsCounted
      <4> QED
        BY <4>1, <4>2
    <3>4. Cardinality(HeldForUsage(u)') = Cardinality(HeldForUsage(u)) + x
      BY <3>1, <3>2, <3>3, HeldIsFinite, UnitsAdded
    <3>5. escrow'[u] = escrow[u] + x
      BY <1>1, <2>3 DEF Deposit, BooksInv
    <3> QED
      BY <1>3, <2>1, <2>2, <3>4, <3>5, HeldIsFinite DEF Surplus
  <2>4. CASE u # t
    <3>1. HeldForUsage(u)' = HeldForUsage(u)
      BY <1>1, <1>3, <1>4, <2>4 DEF HeldForUsage, BooksInv
    <3> QED
      BY <1>1, <2>1, <2>2, <2>4, <3>1 DEF Deposit, BooksInv, Surplus
  <2> QED
    BY <2>3, <2>4
<1> QED
  BY <1>5, <1>6 DEF SurplusKept

(* Usage moves units of its stream only. *)
LEMMA IncrementKeepsSurplus ==
  ASSUME Books, AccrualInv', NEW k \in UsageIds, NEW x \in 1 .. MaxDeposit,
         Increment(k, x)
  PROVE  Books' /\ SurplusKept
<1> USE DEF Books
<1>1. PICK U : U = [usage[k] EXCEPT !.accrued = usage[k].accrued + x]
  OBVIOUS
<1>2. /\ usage[k] \in UsageStreams /\ usage[k] # None
      /\ usage[k].accrued + x <= usage[k].deposit
  BY DEF BooksInv, Increment
<1>3. usage' = [usage EXCEPT ![k] = U]
  BY <1>1 DEF Increment, BooksInv
<1>4. /\ U \in UsageStreams /\ U # None /\ U.token = usage[k].token
      /\ U.deposit = usage[k].deposit /\ U.settled = usage[k].settled
      /\ U.accrued = usage[k].accrued + x
  BY <1>1, <1>2, StreamAssumptions DEF UsageStreams
<1>5. BooksInv'
  <2>1. UNCHANGED <<wallet, escrow>>
    BY DEF Increment
  <2>2. usage' \in [UsageIds -> UsageStreams \cup {None}]
    BY <1>3, <1>4 DEF BooksInv
  <2>3. \A i \in UsageIds : usage'[i] # None =>
          usage'[i].settled <= usage'[i].accrued /\ usage'[i].accrued <= usage'[i].deposit
    BY <1>2, <1>3, <1>4 DEF BooksInv, UsageStreams
  <2> QED
    BY <2>1, <2>2, <2>3 DEF BooksInv
<1>6. ASSUME NEW u \in Tokens
      PROVE  HeldFor(u)' = HeldFor(u) /\ HeldForUsage(u)' = HeldForUsage(u)
  <2>1. HeldFor(u)' = HeldFor(u)
    BY DEF HeldFor, streamVars, Increment
  <2>2. HeldForUsage(u)' = HeldForUsage(u)
    BY <1>2, <1>3, <1>4 DEF HeldForUsage, BooksInv
  <2> QED
    BY <2>1, <2>2
<1> QED
  BY <1>5, <1>6 DEF SurplusKept, Surplus, Increment

(* A settlement pays the units that it releases. *)
LEMMA SettleKeepsSurplus ==
  ASSUME Books, AccrualInv', NEW k \in UsageIds, Settle(k)
  PROVE  Books' /\ SurplusKept
<1> USE DEF Books
<1>1. PICK U : U = [usage[k] EXCEPT !.settled = usage[k].accrued]
  OBVIOUS
<1>2. /\ usage[k] \in UsageStreams /\ usage[k] # None
      /\ usage[k].settled < usage[k].accrued /\ usage[k].accrued <= usage[k].deposit
      /\ usage[k].settled \in Nat /\ usage[k].accrued \in Nat
      /\ usage[k].deposit \in 1 .. MaxDeposit
      /\ usage[k].recipient \in Parties /\ usage[k].token \in Tokens
  BY StreamAssumptions DEF BooksInv, Settle, UsageStreams
<1>3. usage' = [usage EXCEPT ![k] = U]
  BY <1>1 DEF Settle, BooksInv
<1>4. /\ U \in UsageStreams /\ U # None /\ U.token = usage[k].token
      /\ U.deposit = usage[k].deposit /\ U.settled = usage[k].accrued
      /\ U.accrued = usage[k].accrued
  BY <1>1, <1>2, StreamAssumptions DEF UsageStreams
<1>5. PICK a \in Nat, b \in Nat : a = usage[k].settled /\ b = usage[k].accrued
  BY <1>2
<1>6. Transfer(usage[k].recipient, usage[k].token, b - a) /\ b - a \in Nat /\ a <= b
  BY <1>2, <1>5 DEF Settle
<1>7. BooksInv'
  <2>1. wallet' \in [Tokens -> [Parties -> Nat]] /\ escrow' \in [Tokens -> Int]
    BY <1>2, <1>6, TransferKeepsWallets
  <2>2. usage' \in [UsageIds -> UsageStreams \cup {None}]
    BY <1>3, <1>4 DEF BooksInv
  <2>3. \A i \in UsageIds : usage'[i] # None =>
          usage'[i].settled <= usage'[i].accrued /\ usage'[i].accrued <= usage'[i].deposit
    BY <1>2, <1>3, <1>4 DEF BooksInv, UsageStreams
  <2> QED
    BY <2>1, <2>2, <2>3 DEF BooksInv
<1>8. ASSUME NEW u \in Tokens
      PROVE  Surplus(u)' = Surplus(u)
  <2>1. HeldFor(u)' = HeldFor(u)
    BY DEF HeldFor, streamVars, Settle
  <2>2. escrow[u] \in Int
    BY DEF BooksInv
  <2>3. CASE u = usage[k].token
    <3>0. {k} \X (a + 1 .. b) =
            {v \in UsageIds \X (1 .. MaxDeposit) : v[1] = k /\ v[2] > a /\ v[2] <= b}
      <4>1. a + 1 .. b = {n \in 1 .. MaxDeposit : n > a /\ n <= b}
        BY <1>2, <1>5, StreamAssumptions
      <4> QED
        BY <4>1
    <3>1. HeldForUsage(u)' = HeldForUsage(u) \ ({k} \X (a + 1 .. b))
      <4>1. \A v \in UsageIds \X (1 .. MaxDeposit) :
              v[1] # k => (v \in HeldForUsage(u)' <=> v \in HeldForUsage(u))
        BY <1>3 DEF HeldForUsage, BooksInv
      <4>2. \A v \in UsageIds \X (1 .. MaxDeposit) :
              v[1] = k => (v \in HeldForUsage(u)'
                            <=> v \in HeldForUsage(u) /\ ~(v[2] > a /\ v[2] <= b))
        BY <1>2, <1>3, <1>4, <1>5, <2>3 DEF HeldForUsage, BooksInv
      <4>3. /\ HeldForUsage(u) \subseteq UsageIds \X (1 .. MaxDeposit)
            /\ HeldForUsage(u)' \subseteq UsageIds \X (1 .. MaxDeposit)
        BY DEF HeldForUsage
      <4> HIDE DEF Books
      <4> QED
        BY <3>0, <4>1, <4>2, <4>3
    <3>2. {k} \X (a + 1 .. b) \subseteq HeldForUsage(u)
      BY <1>2, <1>5, <2>3, <3>0 DEF HeldForUsage
    <3>3. Cardinality(HeldForUsage(u)') = Cardinality(HeldForUsage(u)) - (b - a)
      <4> HIDE DEF Books
      <4>1. Cardinality({k} \X (a + 1 .. b)) = b - a
        BY <1>6, UnitsCounted
      <4> QED
        BY <3>1, <3>2, <4>1, HeldIsFinite, UnitsTaken
    <3>4. escrow'[u] = escrow[u] - (b - a)
      BY <1>6, <2>3 DEF Transfer, BooksInv
    <3> QED
      BY <1>6, <2>1, <2>2, <3>3, <3>4, HeldIsFinite DEF Surplus
  <2>4. CASE u # usage[k].token
    <3>1. HeldForUsage(u)' = HeldForUsage(u)
      BY <1>2, <1>3, <1>4, <2>4 DEF HeldForUsage, BooksInv
    <3> QED
      BY <1>2, <1>6, <2>1, <2>2, <2>4, <3>1 DEF Transfer, BooksInv, Surplus
  <2> QED
    BY <2>3, <2>4
<1> QED
  BY <1>7, <1>8 DEF SurplusKept

(* Opening a time stream takes in what it holds. *)
LEMMA OpenStreamKeepsSurplus ==
  ASSUME Books, AccrualInv', NEW s \in Senders, NEW r \in Recipients, NEW t \in Tokens,
         NEW x \in Deposits, NEW rate \in Rates, NEW d \in Durations,
         OpenStream(s, r, t, x, rate, d)
  PROVE  Books' /\ SurplusKept
<1>0. PICK k \in Ids : k = opened + 1 /\ k > opened
  BY StreamAssumptions DEF Books, AccrualInv, StreamTypes, OpenStream, Ids
<1> PICK T : T = [sender |-> s, recipient |-> r, token |-> t, deposit |-> x,
                  rate |-> rate, end_time |-> now + d]
  OBVIOUS
<1>1. /\ status[k] = "Absent" /\ withdrawn[k] = 0
      /\ terms' = [terms EXCEPT ![k] = T] /\ T.token = t /\ T.deposit = x
      /\ status' = [status EXCEPT ![k] = "Active"]
      /\ UNCHANGED <<withdrawn, usage>> /\ Deposit(s, t, x)
  <2>1. status[k] = "Absent" /\ withdrawn[k] = 0
    BY <1>0 DEF Books, AccrualInv, StreamOK
  <2>2. T.token = t /\ T.deposit = x
    OBVIOUS
  <2> QED
    BY <1>0, <2>1, <2>2 DEF OpenStream
<1>2. /\ x \in 1 .. MaxDeposit /\ x \in Nat /\ 0 \in Nat /\ 0 <= x /\ s \in Parties
  BY StreamAssumptions
<1>3. BooksInv'
  <2>1. wallet' \in [Tokens -> [Parties -> Nat]] /\ escrow' \in [Tokens -> Int]
    BY <1>1, <1>2, DepositKeepsWallets DEF Books
  <2> QED
    BY <1>1, <2>1 DEF Books, BooksInv
<1>4. ASSUME NEW u \in Tokens
      PROVE  Surplus(u)' = Surplus(u)
  <2>1. HeldForUsage(u)' = HeldForUsage(u)
    BY <1>1 DEF HeldForUsage
  <2>2. escrow[u] \in Int
    BY DEF Books, BooksInv
  <2>3. \A v \in Ids \X (1 .. MaxDeposit) :
          v[1] # k => (v \in HeldFor(u)' <=> v \in HeldFor(u))
    BY <1>1 DEF HeldFor, Books, AccrualInv, StreamTypes
  <2>4. /\ HeldFor(u) \subseteq Ids \X (1 .. MaxDeposit)
        /\ HeldFor(u)' \subseteq Ids \X (1 .. MaxDeposit)
    BY DEF HeldFor
  <2>5. \A v \in HeldFor(u) : v[1] # k
    BY <1>1 DEF HeldFor
  <2>6. CASE u = t
    <3>0. {k} \X (0 + 1 .. x) =
            {v \in Ids \X (1 .. MaxDeposit) : v[1] = k /\ v[2] <= x}
      <4>1. 0 + 1 .. x = {n \in 1 .. MaxDeposit : n <= x}
        BY <1>2, StreamAssumptions
      <4> QED
        BY <4>1
    <3>1. HeldFor(u)' = HeldFor(u) \cup ({k} \X (0 + 1 .. x))
      <4>1. \A v \in Ids \X (1 .. MaxDeposit) :
              v[1] = k => (v \in HeldFor(u)' <=> v[2] <= x)
        BY <1>1, <1>2, <2>6 DEF HeldFor, Books, AccrualInv, StreamTypes
      <4> QED
        BY <2>3, <2>4, <2>5, <3>0, <4>1
    <3>2. HeldFor(u) \cap ({k} \X (0 + 1 .. x)) = {}
      BY <2>5
    <3>3. /\ IsFiniteSet({k} \X (0 + 1 .. x))
          /\ Cardinality({k} \X (0 + 1 .. x)) = x - 0
      BY <1>2, UnitsCounted
    <3>4. Cardinality(HeldFor(u)') = Cardinality(HeldFor(u)) + (x - 0)
      BY <3>1, <3>2, <3>3, HeldIsFinite, UnitsAdded
    <3>5. escrow'[u] = escrow[u] + x
      BY <1>1, <2>6 DEF Deposit, Books, BooksInv
    <3> QED
      BY <1>2, <2>1, <2>2, <3>4, <3>5, HeldIsFinite DEF Surplus
  <2>7. CASE u # t
    <3>1. \A v \in HeldFor(u)' : v[1] # k
      BY <1>1, <2>7 DEF HeldFor, Books, AccrualInv, StreamTypes
    <3>2. HeldFor(u)' = HeldFor(u)
      BY <2>3, <2>4, <2>5, <3>1
    <3> QED
      BY <1>1, <2>1, <2>2, <2>7, <3>2 DEF Deposit, Books, BooksInv, Surplus
  <2> QED
    BY <2>6, <2>7
<1> QED
  BY <1>3, <1>4 DEF Books, SurplusKept

(* Settling, whether one stream or a batch, releases exactly the units due. *)
LEMMA SettleAllKeepsSurplus ==
  ASSUME Books, AccrualInv', NEW r \in Parties, NEW S \in SUBSET Ids, SettleAll(r, S)
  PROVE  Books' /\ SurplusKept
<1>1. /\ wallet' = [t \in Tokens |->
                      [wallet[t] EXCEPT ![r] = wallet[t][r] + Cardinality(Due(t, S))]]
      /\ escrow' = [t \in Tokens |-> escrow[t] - Cardinality(Due(t, S))]
      /\ withdrawn' = [i \in Ids |-> IF i \in S /\ Claimable(i) > 0
                                     THEN withdrawn[i] + Claimable(i)
                                     ELSE withdrawn[i]]
      /\ status' = [i \in Ids |-> IF i \in S /\ Claimable(i) > 0 /\ Completes(i)
                                  THEN "Completed" ELSE status[i]]
      /\ UNCHANGED <<terms, usage>>
  BY DEF SettleAll
<1>2. \A i \in Ids : /\ Claimable(i) \in Nat /\ Claimable(i) <= Remaining(i)
                     /\ Claimable(i) > 0 => status[i] = "Active"
  BY ClaimableBounds DEF Books
<1>3. \A i \in Ids : withdrawn[i] \in Nat /\ terms[i].deposit \in Nat
  BY DEF Books, AccrualInv, StreamTypes
<1>4. ASSUME NEW t \in Tokens
      PROVE  Due(t, S) \subseteq HeldFor(t) /\ HeldFor(t)' = HeldFor(t) \ Due(t, S)
  <2>1. Due(t, S) \subseteq HeldFor(t)
    <3> SUFFICES ASSUME NEW u \in Due(t, S) PROVE u \in HeldFor(t)
      OBVIOUS
    <3>1. /\ u \in S \X (1 .. MaxDeposit) /\ u[1] \in Ids /\ u[2] \in Nat
          /\ terms[u[1]].token = t /\ u[2] > withdrawn[u[1]]
          /\ u[2] <= withdrawn[u[1]] + Claimable(u[1])
      BY DEF Due
    <3>2. Claimable(u[1]) > 0
      BY <1>2, <1>3, <3>1
    <3>3. status[u[1]] = "Active" /\ u[2] <= terms[u[1]].deposit
      BY <1>2, <1>3, <3>1, <3>2 DEF Remaining
    <3> QED
      BY <1>3, <3>1, <3>3 DEF HeldFor
  <2>2. ASSUME NEW i \in Ids, NEW n \in 1 .. MaxDeposit
        PROVE  <<i, n>> \in HeldFor(t)' <=> <<i, n>> \in HeldFor(t) \ Due(t, S)
    <3>1. /\ status'[i] \in {"Absent", "Cancelled"} <=> status[i] \in {"Absent", "Cancelled"}
      BY <1>1, <1>2
    <3>2. CASE i \in S
      <4>1. withdrawn'[i] = withdrawn[i] + Claimable(i)
        BY <1>1, <1>2, <1>3, <3>2
      <4> QED
        BY <1>1, <1>2, <1>3, <3>1, <3>2, <4>1 DEF HeldFor, Due
    <3>3. CASE i \notin S
      <4>1. withdrawn'[i] = withdrawn[i]
        BY <1>1, <3>3
      <4> QED
        BY <1>1, <3>1, <3>3, <4>1 DEF HeldFor, Due
    <3> QED
      BY <3>2, <3>3
  <2>3. /\ HeldFor(t) \subseteq Ids \X (1 .. MaxDeposit)
        /\ HeldFor(t)' \subseteq Ids \X (1 .. MaxDeposit)
    BY DEF HeldFor
  <2> QED
    BY <2>1, <2>2, <2>3
<1>5. \A t \in Tokens : /\ Cardinality(Due(t, S)) \in Nat
                        /\ Cardinality(HeldFor(t)') =
                             Cardinality(HeldFor(t)) - Cardinality(Due(t, S))
  BY <1>4, HeldIsFinite, UnitsTaken
<1>6. BooksInv'
  <2>1. \A t \in Tokens :
          [wallet[t] EXCEPT ![r] = wallet[t][r] + Cardinality(Due(t, S))] \in [Parties -> Nat]
    BY <1>5 DEF Books, BooksInv
  <2>2. wallet' \in [Tokens -> [Parties -> Nat]]
    BY <1>1, <2>1
  <2>3. escrow' \in [Tokens -> Int]
    BY <1>1, <1>5 DEF Books, BooksInv
  <2> QED
    BY <1>1, <2>2, <2>3 DEF Books, BooksInv
<1>7. ASSUME NEW t \in Tokens
      PROVE  Surplus(t)' = Surplus(t)
  <2>1. HeldForUsage(t)' = HeldForUsage(t)
    BY <1>1 DEF HeldForUsage
  <2> QED
    BY <1>1, <1>5, <2>1, HeldIsFinite DEF Books, BooksInv, Surplus
<1> QED
  BY <1>6, <1>7 DEF Books, SurplusKept

(* Cancelling releases everything the stream has left. *)
LEMMA CancelKeepsSurplus ==
  ASSUME Books, AccrualInv', NEW k \in Ids, CancelStream(k)
  PROVE  Books' /\ SurplusKept
<1>1. PICK w \in Nat, d \in Nat, e \in Nat, f \in Nat, t \in Tokens,
           p \in Parties, q \in Parties :
        /\ w = withdrawn[k] /\ d = terms[k].deposit /\ e = Claimable(k)
        /\ f = Remaining(k) - Claimable(k) /\ t = terms[k].token
        /\ p = terms[k].recipient /\ q = terms[k].sender
        /\ w <= d /\ d <= MaxDeposit /\ e + f = d - w
  <2>1. Claimable(k) \in Nat /\ Claimable(k) <= Remaining(k)
    BY ClaimableBounds DEF Books
  <2>2. /\ withdrawn[k] \in Nat /\ terms[k].deposit \in 0 .. MaxDeposit
        /\ withdrawn[k] <= terms[k].deposit
        /\ terms[k].token \in Tokens /\ terms[k].recipient \in Parties
        /\ terms[k].sender \in Parties
    BY DEF Books, AccrualInv, StreamTypes, StreamOK, CancelStream
  <2>3. Remaining(k) - Claimable(k) \in Nat
    BY <2>1, <2>2 DEF Remaining
  <2>4. Claimable(k) + (Remaining(k) - Claimable(k)) = terms[k].deposit - withdrawn[k]
    BY <2>1, <2>2 DEF Remaining
  <2>5. /\ withdrawn[k] \in Nat /\ terms[k].deposit \in Nat /\ Claimable(k) \in Nat
        /\ terms[k].deposit <= MaxDeposit
    BY <2>1, <2>2, StreamAssumptions
  <2> QED
    BY <2>2, <2>3, <2>4, <2>5, Zenon
<1>2. /\ wallet' = [wallet EXCEPT ![t] = Credit(Credit(wallet[t], p, e), q, f)]
      /\ escrow' = [escrow EXCEPT ![t] = @ - (e + f)]
      /\ withdrawn' = [withdrawn EXCEPT ![k] = @ + e]
      /\ status' = [status EXCEPT ![k] = "Cancelled"]
      /\ status[k] \in {"Active", "Paused"}
      /\ UNCHANGED <<terms, usage>>
  BY <1>1 DEF CancelStream
<1>3. BooksInv'
  <2>1. wallet \in [Tokens -> [Parties -> Nat]]
    BY DEF Books, BooksInv
  <2>2. wallet'[t] \in [Parties -> Nat]
    <3>1. Credit(wallet[t], p, e) \in [Parties -> Nat]
      BY <2>1 DEF Credit
    <3>2. Credit(Credit(wallet[t], p, e), q, f) \in [Parties -> Nat]
      BY <3>1 DEF Credit
    <3> QED
      BY <1>2, <2>1, <3>2
  <2>3. \A u \in Tokens : u # t => wallet'[u] = wallet[u]
    BY <1>2, <2>1
  <2>4. wallet' \in [Tokens -> [Parties -> Nat]]
    BY <1>2, <2>1, <2>2, <2>3
  <2>6. escrow' \in [Tokens -> Int]
    BY <1>2 DEF Books, BooksInv
  <2> QED
    BY <1>2, <2>4, <2>6 DEF Books, BooksInv
<1>4. ASSUME NEW u \in Tokens
      PROVE  Surplus(u)' = Surplus(u)
  <2>1. HeldForUsage(u)' = HeldForUsage(u)
    BY <1>2 DEF HeldForUsage
  <2>2. escrow[u] \in Int
    BY DEF Books, BooksInv
  <2>3. \A v \in Ids \X (1 .. MaxDeposit) :
          v[1] # k => (v \in HeldFor(u)' <=> v \in HeldFor(u))
    BY <1>2 DEF HeldFor, Books, AccrualInv, StreamTypes
  <2>4. /\ HeldFor(u) \subseteq Ids \X (1 .. MaxDeposit)
        /\ HeldFor(u)' \subseteq Ids \X (1 .. MaxDeposit)
    BY DEF HeldFor
  <2>5. \A v \in HeldFor(u)' : v[1] # k
    BY <1>2 DEF HeldFor, Books, AccrualInv, StreamTypes
  <2>6. CASE u = t
    <3>0. {k} \X (w + 1 .. d) =
            {v \in Ids \X (1 .. MaxDeposit) : v[1] = k /\ v[2] > w /\ v[2] <= d}
      <4>1. w + 1 .. d = {n \in 1 .. MaxDeposit : n > w /\ n <= d}
        BY <1>1, StreamAssumptions
      <4> QED
        BY <4>1
    <3>1. {k} \X (w + 1 .. d) = {v \in HeldFor(u) : v[1] = k}
      BY <1>1, <1>2, <2>6, <3>0 DEF HeldFor
    <3>2. HeldFor(u)' = HeldFor(u) \ ({k} \X (w + 1 .. d))
      BY <2>3, <2>4, <2>5, <3>1
    <3>3. Cardinality({k} \X (w + 1 .. d)) = d - w
      BY <1>1, UnitsCounted
    <3>4. Cardinality(HeldFor(u)') = Cardinality(HeldFor(u)) - (d - w)
      BY <3>1, <3>2, <3>3, HeldIsFinite, UnitsTaken
    <3>5. escrow'[u] = escrow[u] - (e + f)
      BY <1>2, <2>6 DEF Books, BooksInv
    <3> QED
      BY <1>1, <2>1, <2>2, <3>4, <3>5, HeldIsFinite DEF Surplus
  <2>7. CASE u # t
    <3>1. \A v \in HeldFor(u) : v[1] # k
      BY <1>1, <2>7 DEF HeldFor
    <3>2. HeldFor(u)' = HeldFor(u)
      BY <2>3, <2>4, <2>5, <3>1
    <3> QED
      BY <1>2, <2>1, <2>2, <2>7, <3>2 DEF Books, BooksInv, Surplus
  <2> QED
    BY <2>6, <2>7
<1> QED
  BY <1>3, <1>4 DEF Books, SurplusKept

(* Pausing, resuming and the passing of time move no money. *)
LEMMA SurplusStable ==
  ASSUME Books, AccrualInv', UNCHANGED <<terms, withdrawn, usage, escrow, wallet>>,
         \A i \in Ids : status'[i] \in {"Absent", "Cancelled"}
                         <=> status[i] \in {"Absent", "Cancelled"}
  PROVE  Books' /\ SurplusKept
<1>1. \A t \in Tokens : HeldFor(t)' = HeldFor(t) /\ HeldForUsage(t)' = HeldForUsage(t)
  BY DEF HeldFor, HeldForUsage
<1> QED
  BY <1>1 DEF Books, BooksInv, SurplusKept, Surplus

(* Every step keeps the pool equal to what the streams hold. *)
LEMMA BooksNext == Books /\ AccrualInv' /\ [StreamsNext]_streamsVars => Books' /\ SurplusKept
<1> SUFFICES ASSUME Books, AccrualInv', [StreamsNext]_streamsVars PROVE Books' /\ SurplusKept
  OBVIOUS
<1>1. ASSUME NEW s \in Senders, NEW r \in Recipients, NEW t \in Tokens,
             NEW x \in Deposits, Open(s, r, t, x)
      PROVE  Books' /\ SurplusKept
  BY <1>1, OpenKeepsSurplus
<1>2. ASSUME NEW s \in Senders, NEW r \in Recipients, NEW t \in Tokens,
             NEW x \in Deposits, NEW rate \in Rates, NEW d \in Durations,
             OpenStream(s, r, t, x, rate, d)
      PROVE  Books' /\ SurplusKept
  BY <1>2, OpenStreamKeepsSurplus
<1>3. ASSUME NEW i \in UsageIds, Settle(i)
      PROVE  Books' /\ SurplusKept
  BY <1>3, SettleKeepsSurplus
<1>4. ASSUME NEW i \in UsageIds, NEW x \in 1 .. MaxDeposit, Increment(i, x)
      PROVE  Books' /\ SurplusKept
  BY <1>4, IncrementKeepsSurplus
<1>5. ASSUME NEW i \in Ids, Withdraw(i)
      PROVE  Books' /\ SurplusKept
  <2>1. status[i] = "Active"
    BY <1>5, ClaimableBounds DEF Books, Withdraw
  <2>2. terms[i].recipient \in Parties /\ {i} \in SUBSET Ids
    BY <2>1 DEF Books, AccrualInv, StreamOK
  <2> QED
    BY <1>5, <2>2, SettleAllKeepsSurplus DEF Withdraw
<1>6. ASSUME NEW i \in Ids, CancelStream(i)
      PROVE  Books' /\ SurplusKept
  BY <1>6, CancelKeepsSurplus
<1>7. ASSUME NEW i \in Ids, PauseStream(i)
      PROVE  Books' /\ SurplusKept
  BY <1>7, SurplusStable DEF PauseStream, Books, AccrualInv, StreamTypes
<1>8. ASSUME NEW i \in Ids, ResumeStream(i)
      PROVE  Books' /\ SurplusKept
  BY <1>8, SurplusStable DEF ResumeStream, Books, AccrualInv, StreamTypes
<1>9. ASSUME NEW r \in Recipients, NEW S \in SUBSET Ids, NEW n \in Nonces,
             NEW repeated \in SUBSET S, BatchSettle(r, S, repeated, n)
      PROVE  Books' /\ SurplusKept
  <2>1. r \in Parties
    BY StreamAssumptions
  <2> QED
    BY <1>9, <2>1, SettleAllKeepsSurplus DEF BatchSettle
<1>10. CASE Second
  BY <1>10, SurplusStable DEF Second, streamVars
<1>11. CASE UNCHANGED streamsVars
  BY <1>11, SurplusStable DEF streamsVars, streamVars
<1> QED
  BY <1>1, <1>2, <1>3, <1>4, <1>5, <1>6, <1>7, <1>8, <1>9, <1>10, <1>11
     DEF StreamsNext

(* An empty pool holds nothing. *)
LEMMA PoolInvInit == StreamsInit => PoolInv
<1> SUFFICES ASSUME StreamsInit PROVE PoolInv
  OBVIOUS
<1>1. BooksInv
  BY StreamAssumptions DEF StreamsInit, BooksInv
<1>2. ASSUME NEW t \in Tokens
      PROVE  escrow[t] = Cardinality(HeldFor(t)) + Cardinality(HeldForUsage(t))
  <2>1. HeldFor(t) = {} /\ HeldForUsage(t) = {} /\ escrow[t] = 0
    BY DEF StreamsInit, HeldFor, HeldForUsage
  <2>2. Cardinality(HeldFor(t)) = 0 /\ Cardinality(HeldForUsage(t)) = 0
    BY <2>1, FS_EmptySet
  <2> QED
    BY <2>1, <2>2
<1> QED
  BY <1>1, <1>2, AccrualInvInit DEF PoolInv, Books, PoolBacked

(* The pool is backed as long as it has no surplus. *)
LEMMA BackedIsNoSurplus == Books => (PoolBacked <=> NoSurplus)
<1> SUFFICES ASSUME Books PROVE PoolBacked <=> NoSurplus
  OBVIOUS
<1>1. ASSUME NEW t \in Tokens
      PROVE  escrow[t] = Cardinality(HeldFor(t)) + Cardinality(HeldForUsage(t))
               <=> Surplus(t) = 0
  <2>1. /\ escrow[t] \in Int
        /\ Cardinality(HeldFor(t)) \in Nat /\ Cardinality(HeldForUsage(t)) \in Nat
    BY HeldIsFinite DEF Books, BooksInv
  <2> QED
    BY <2>1 DEF Surplus
<1> QED
  BY <1>1 DEF PoolBacked, NoSurplus

(* So the pool always is what the streams hold. *)
LEMMA PoolInvAlways == StreamsSpec => []PoolInv
<1>1. Books /\ NoSurplus /\ [StreamsNext]_streamsVars => Books' /\ NoSurplus'
  BY AccrualInvNext, BooksNext DEF Books, NoSurplus, SurplusKept
<1> QED
  BY <1>1, PoolInvInit, BackedIsNoSurplus, PTL DEF StreamsSpec, PoolInv

(* All streams of a token are paid from one balance, and it is exactly what
   they have not yet paid, however many there are and in whatever order they
   are withdrawn from, settled in batches and cancelled: none spends the
   deposit of another. *)
THEOREM PoolAlwaysBacksStreams == StreamsSpec => []PoolBacked
<1>1. PoolInv => PoolBacked
  BY DEF PoolInv
<1> QED
  BY <1>1, PoolInvAlways, PTL

(* A stream that was opened stays on record, and its terms are fixed. *)
LEMMA OpenedStays ==
  ASSUME AccrualInv, [StreamsNext]_streamsVars, NEW i \in Ids, status[i] # "Absent"
  PROVE  terms'[i] = terms[i] /\ status'[i] # "Absent"
<1>1. ASSUME NEW s \in Senders, NEW r \in Recipients, NEW t \in Tokens,
             NEW x \in Deposits, NEW rate \in Rates, NEW d \in Durations,
             OpenStream(s, r, t, x, rate, d)
      PROVE  terms'[i] = terms[i] /\ status'[i] # "Absent"
  <2>1. i # opened + 1
    <3>1. ~ (i > opened) /\ i \in Int /\ opened \in Int
      BY StreamAssumptions DEF AccrualInv, StreamTypes, StreamOK, Ids
    <3> QED
      BY <3>1
  <2> QED
    BY <1>1, <2>1 DEF OpenStream, AccrualInv, StreamTypes
<1>2. ASSUME NEW r, NEW S \in SUBSET Ids, SettleAll(r, S)
      PROVE  terms'[i] = terms[i] /\ status'[i] # "Absent"
  BY <1>2 DEF SettleAll
<1>3. ASSUME NEW k \in Ids, CancelStream(k) \/ PauseStream(k) \/ ResumeStream(k)
      PROVE  terms'[i] = terms[i] /\ status'[i] # "Absent"
  BY <1>3 DEF CancelStream, PauseStream, ResumeStream, AccrualInv, StreamTypes
<1>4. CASE UNCHANGED streamVars
  BY <1>4 DEF streamVars
<1>5. ASSUME NEW s \in Senders, NEW r \in Recipients, NEW t \in Tokens,
             NEW x \in Deposits, Open(s, r, t, x)
      PROVE  UNCHANGED streamVars
  BY <1>5 DEF Open
<1>6. ASSUME NEW k \in UsageIds, Settle(k) \/ \E x \in 1 .. MaxDeposit : Increment(k, x)
      PROVE  UNCHANGED streamVars
  BY <1>6 DEF Settle, Increment
<1>7. CASE Second \/ UNCHANGED streamsVars
  BY <1>4, <1>7 DEF Second, streamsVars
<1> QED
  BY <1>1, <1>2, <1>3, <1>4, <1>5, <1>6, <1>7 DEF StreamsNext, Withdraw, BatchSettle

(* What the books say is what the records must be, but that no balance goes
   negative. *)
LEMMA BooksAreTyped ==
  ASSUME Books, \A t \in Tokens : escrow[t] \in Nat
  PROVE  StreamsTypeOK
<1>1. escrow \in [Tokens -> Nat]
  BY DEF Books, BooksInv
<1>2. \A i \in Ids : withdrawn[i] \in 0 .. MaxDeposit
  BY StreamAssumptions DEF Books, AccrualInv, StreamTypes, StreamOK
<1>3. withdrawn \in [Ids -> 0 .. MaxDeposit]
  BY <1>2 DEF Books, AccrualInv, StreamTypes
<1>4. StreamsRecordsOK
  BY <1>3 DEF StreamsRecordsOK, Books, AccrualInv, BooksInv, StreamTypes, Statuses
<1> QED
  BY <1>1, <1>4 DEF StreamsTypeOK

(* Type correctness; that the balance never goes negative and that no stream
   pays more than its deposit rest on PoolInv. *)
THEOREM StreamsTypeCorrect == StreamsSpec => []StreamsTypeOK
<1>1. PoolInv => StreamsTypeOK
  <2> SUFFICES ASSUME PoolInv PROVE StreamsTypeOK
    OBVIOUS
  <2>1. \A t \in Tokens : escrow[t] \in Nat
    BY HeldIsFinite DEF PoolInv, PoolBacked
  <2> QED
    BY <2>1, BooksAreTyped DEF PoolInv
<1> QED
  BY <1>1, PoolInvAlways, PTL
=============================================================================
