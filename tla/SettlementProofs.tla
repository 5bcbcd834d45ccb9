--------------------------- MODULE SettlementProofs ---------------------------
(***************************************************************************)
(* Theorems about batch settlement, for every value of the constants.      *)
(*                                                                         *)
(* RunOK ties together what the process, its record, the chain and the     *)
(* streams table know of one settlement; RowOK bounds the row of a stream. *)
(* With the types they are inductive.  The contract is untouched by all    *)
(* this: the settlement implements Streams, and its theorems carry over.   *)
(***************************************************************************)
EXTENDS Settlement, StreamsProofs, SumLemmas

Records == [status : {"None", "PENDING", "CONFIRMED", "FAILED"},
            ids : SUBSET Ids, amounts : [Ids -> 0 .. MaxDeposit]]

TableTypes ==
  /\ calls \in [Ids -> Nat] /\ recorded \in [Ids -> Nat]
  /\ start \in [Ids -> 0 .. MaxTime]
  /\ record \in [Nonces -> Records]

ProcessTypes ==
  /\ run \in [Nonces -> InProgress \cup {"none", "done", "lost"}]
  /\ found \in [Nonces -> SUBSET Ids]
  /\ quoted \in [Nonces -> [Ids -> 0 .. MaxDeposit]]
  /\ inflight \subseteq Nonces /\ todo \subseteq Nonces
  /\ backend \in {"up", "down", "recovering"}

HistoryTypes ==
  /\ metered \in [Ids -> 0 .. MaxCalls]
  /\ taken \in [Nonces -> [Ids -> Nat]]
  /\ written \in [Nonces -> Nat]

(* The row of stream i: no call is counted that was not metered, no more is
   recorded than the deposit, and what was never opened has no terms. *)
RowOK(i) ==
  /\ calls[i] <= metered[i]
  /\ recorded[i] <= terms[i].deposit
  /\ start[i] <= now
  /\ i > opened => terms[i].deposit = 0

(* Settlement n: the status of its record says how far its run can have come,
   whether its amounts are written, and whether it was paid; recovery takes up
   only what is PENDING; and a record has amounts for its streams only. *)
RunOK(n) ==
  /\ record[n].status = "None" =>
       run[n] \in {"none", "found", "taken", "done", "lost"} /\ written[n] = 0
  /\ record[n].status = "PENDING" =>
       run[n] \in {"begun", "sent", "lost"} /\ written[n] = 0
  /\ record[n].status = "CONFIRMED" =>
       /\ Paid(n)
       /\ \/ run[n] \in {"confirmed", "lost"} /\ written[n] = 0
          \/ run[n] = "done" /\ written[n] = 1
  /\ record[n].status = "FAILED" => run[n] = "done" /\ written[n] = 0
  /\ n \in todo => \/ record[n].status = "PENDING"
                   \/ record[n].status = "CONFIRMED" /\ run[n] = "confirmed"

AmountsOK(n) ==
  /\ \A i \in Ids \ record[n].ids : record[n].amounts[i] = 0
  /\ run[n] = "taken" => \A i \in Ids \ found[n] : quoted[n][i] = 0

(* Before its run takes anything, a nonce has taken nothing. *)
TakenOK(n) ==
  /\ run[n] \in {"none", "found"} => \A i \in Ids : taken[n][i] = 0
  /\ run[n] \notin {"none", "found"} => \A i \in found[n] : taken[n][i] >= Batch

TakenOf(i) == [n \in Nonces |-> taken[n][i]]
CountOK(i) == metered[i] = calls[i] + SumFunctionOnSet(TakenOf(i), Nonces)

TypesInv == AccrualInv /\ TableTypes /\ ProcessTypes /\ HistoryTypes
RowsInv == \A i \in Ids : RowOK(i)
RunsInv == \A n \in Nonces : RunOK(n)
AmountsInv == \A n \in Nonces : AmountsOK(n)
BatchesInv == (\A n \in Nonces : TakenOK(n)) /\ \A i \in Ids : CountOK(i)

SettlementInv == TypesInv /\ RowsInv /\ RunsInv /\ AmountsInv /\ BatchesInv

-----------------------------------------------------------------------------
(* The contract under the settlement. *)

(* What a record settles on chain is a batch of Streams. *)
LEMMA LandIsBatch ==
  ASSUME TableTypes, NEW n \in Nonces, BatchSettle(Server, record[n].ids, {}, n)
  PROVE  StreamsNext
<1>1. Server \in Recipients /\ record[n].ids \in SUBSET Ids
  BY SettlementAssumptions DEF TableTypes, Records
<1>2. {} \in SUBSET record[n].ids
  OBVIOUS
<1> QED
  BY <1>1, <1>2 DEF StreamsNext

(* Each step of the settlement is a step of the contract or leaves it alone. *)
LEMMA StepOfStreams ==
  ASSUME TableTypes, [SettlementNext]_settlementVars
  PROVE  [StreamsNext]_streamsVars
<1>1. ASSUME NEW s \in Senders, NEW r \in Recipients, NEW t \in Tokens, NEW x \in Deposits,
             NEW rate \in Rates, NEW d \in Durations, OpenAndIndex(s, r, t, x, rate, d)
      PROVE  [StreamsNext]_streamsVars
  BY <1>1 DEF OpenAndIndex, StreamsNext
<1>2. CASE OnChain
  BY <1>2 DEF OnChain, StreamsNext
<1>3. ASSUME NEW n \in Nonces, Land(n)
      PROVE  [StreamsNext]_streamsVars
  BY <1>3, LandIsBatch DEF Land
<1>4. ASSUME NEW n \in Nonces,
             Expire(n) \/ Find(n) \/ Take(n) \/ Settling(n) \/ Recover(n)
      PROVE  UNCHANGED streamsVars
  BY <1>4 DEF Expire, Find, Take, Settling, Begin, Submit, Confirm, Write, Fail, Recover
<1>5. ASSUME NEW i \in Ids, MeterCall(i)
      PROVE  UNCHANGED streamsVars
  BY <1>5 DEF MeterCall
<1>6. CASE Crash \/ Restart \/ EndRecovery
  BY <1>6 DEF Crash, Restart, EndRecovery
<1>7. CASE UNCHANGED settlementVars
  BY <1>7 DEF settlementVars
<1> QED
  BY <1>1, <1>2, <1>3, <1>4, <1>5, <1>6, <1>7 DEF SettlementNext, Chain

(* The clock does not go back, and a nonce that was paid stays paid. *)
LEMMA StreamsOnlyAdvance ==
  ASSUME AccrualInv, [StreamsNext]_streamsVars
  PROVE  /\ now <= now'
         /\ \A n \in Nonces : Paid(n) => Paid(n)'
<1>1. now \in Nat
  BY StreamAssumptions DEF AccrualInv, StreamTypes
<1>2. ASSUME NEW r \in Recipients, NEW S \in SUBSET Ids, NEW m \in Nonces,
             NEW repeated \in SUBSET S, BatchSettle(r, S, repeated, m)
      PROVE  now' = now /\ \A n \in Nonces : Paid(n) => Paid(n)'
  BY <1>2 DEF BatchSettle, SettleAll, Paid
<1>3. CASE Second
  BY <1>1, <1>3 DEF Second, Paid
<1>4. CASE UNCHANGED <<now, settlements>>
  BY <1>1, <1>4 DEF Paid
<1>5. ASSUME NEW s \in Senders, NEW r \in Recipients, NEW t \in Tokens, NEW x \in Deposits,
             Open(s, r, t, x) \/ \E rate \in Rates, d \in Durations :
                                     OpenStream(s, r, t, x, rate, d)
      PROVE  UNCHANGED <<now, settlements>>
  BY <1>5 DEF Open, OpenStream
<1>6. ASSUME NEW i \in UsageIds, Settle(i) \/ \E x \in 1 .. MaxDeposit : Increment(i, x)
      PROVE  UNCHANGED <<now, settlements>>
  BY <1>6 DEF Settle, Increment
<1>7. ASSUME NEW i \in Ids,
             Withdraw(i) \/ CancelStream(i) \/ PauseStream(i) \/ ResumeStream(i)
      PROVE  UNCHANGED <<now, settlements>>
  BY <1>7 DEF Withdraw, SettleAll, CancelStream, PauseStream, ResumeStream
<1>8. CASE UNCHANGED streamsVars
  BY <1>4, <1>8 DEF streamsVars
<1> QED
  BY <1>1, <1>2, <1>3, <1>4, <1>5, <1>6, <1>7, <1>8 DEF StreamsNext

-----------------------------------------------------------------------------
(* Types. *)

(* The lesser of two numbers is one of them. *)
LEMMA MinOfTwo ==
  ASSUME NEW a \in Int, NEW b \in Int
  PROVE  Min({a, b}) \in {a, b} /\ Min({a, b}) <= a /\ Min({a, b}) <= b
<1>1. \E x \in {a, b} : \A y \in {a, b} : x <= y
  <2>1. CASE a <= b
    BY <2>1
  <2>2. CASE ~ (a <= b)
    BY <2>2
  <2> QED
    BY <2>1, <2>2
<1> QED
  BY <1>1 DEF Min

(* What the backend expects of a stream is within the deposit. *)
LEMMA ExpectedBounds ==
  ASSUME TypesInv, NEW i \in Ids, RowOK(i)
  PROVE  Expected(i) \in 0 .. MaxDeposit
<1> DEFINE left == terms[i].deposit - recorded[i]
           time == now - start[i]
           due == time * terms[i].rate
<1>1. terms[i].deposit \in 0 .. MaxDeposit /\ terms[i].rate \in Nat /\ now \in Nat
  BY StreamAssumptions DEF TypesInv, AccrualInv, StreamTypes
<1>2. recorded[i] \in Nat /\ start[i] \in Nat
  BY StreamAssumptions DEF TypesInv, TableTypes
<1>3. left \in 0 .. MaxDeposit
  BY <1>1, <1>2, StreamAssumptions DEF RowOK
<1>4. due \in Nat
  <2>1. \A a, b \in Nat : a * b \in Nat
    OBVIOUS
  <2>2. time \in Nat
    BY <1>1, <1>2 DEF RowOK
  <2> QED
    BY <1>1, <2>1, <2>2
<1>5. Expected(i) = Min({left, due})
  BY DEF Expected
<1> HIDE DEF left, due
<1>6. left \in Int /\ due \in Int
  BY <1>3, <1>4
<1>7. Expected(i) \in {left, due} /\ Expected(i) <= left
  BY <1>5, <1>6, MinOfTwo
<1> QED
  BY <1>3, <1>4, <1>7, StreamAssumptions

(* A record whose status changes is otherwise as it was. *)
LEMMA StatusChanges ==
  ASSUME TableTypes, NEW n \in Nonces, NEW st \in {"CONFIRMED", "FAILED"},
         record' = [record EXCEPT ![n].status = st]
  PROVE  /\ record' \in [Nonces -> Records]
         /\ record'[n].status = st
         /\ record'[n].ids = record[n].ids /\ record'[n].amounts = record[n].amounts
         /\ \A m \in Nonces \ {n} : record'[m] = record[m]
BY DEF TableTypes, Records

(* Taking a batch. *)
LEMMA TakeKeepsTypes ==
  ASSUME TypesInv, RowsInv, NEW n \in Nonces, Take(n)
  PROVE  TableTypes' /\ ProcessTypes' /\ HistoryTypes'
<1> DEFINE due == {i \in found[n] : StillDue(i)}
<1>1. due \in SUBSET Ids
  BY DEF TypesInv, ProcessTypes
<1>2. [i \in Ids |-> IF i \in due THEN Expected(i) ELSE 0] \in [Ids -> 0 .. MaxDeposit]
  <2>1. \A i \in Ids : Expected(i) \in 0 .. MaxDeposit
    BY ExpectedBounds DEF RowsInv
  <2> QED
    BY <2>1, StreamAssumptions
<1>3. [i \in Ids |-> IF i \in due THEN calls[i] ELSE 0] \in [Ids -> Nat]
  BY DEF TypesInv, TableTypes
<1>4. TableTypes'
  BY DEF TypesInv, TableTypes, Take
<1>5. ProcessTypes'
  <2>1. found' \in [Nonces -> SUBSET Ids]
    BY <1>1 DEF TypesInv, ProcessTypes, Take
  <2>2. quoted' \in [Nonces -> [Ids -> 0 .. MaxDeposit]]
    BY <1>2 DEF TypesInv, ProcessTypes, Take
  <2>3. run' \in [Nonces -> InProgress \cup {"none", "done", "lost"}]
    BY DEF TypesInv, ProcessTypes, Take, InProgress
  <2> QED
    BY <2>1, <2>2, <2>3 DEF TypesInv, ProcessTypes, Take
<1>6. HistoryTypes'
  BY <1>3 DEF TypesInv, HistoryTypes, Take
<1> QED
  BY <1>4, <1>5, <1>6

(* Writing a settlement adds amounts of the right type. *)
LEMMA WriteKeepsTypes ==
  ASSUME TypesInv, NEW n \in Nonces, Write(n)
  PROVE  TableTypes' /\ ProcessTypes' /\ HistoryTypes'
<1>1. recorded' \in [Ids -> Nat]
  <2>1. record[n].amounts \in [Ids -> 0 .. MaxDeposit]
    BY DEF TypesInv, TableTypes, Records
  <2>2. \A i \in Ids : recorded[i] + record[n].amounts[i] \in Nat
    BY <2>1, StreamAssumptions DEF TypesInv, TableTypes
  <2> QED
    BY <2>2 DEF Write
<1>2. TableTypes'
  BY <1>1 DEF TypesInv, TableTypes, Write
<1>3. ProcessTypes'
  BY DEF TypesInv, ProcessTypes, Write, InProgress
<1>4. HistoryTypes'
  BY DEF TypesInv, HistoryTypes, Write
<1> QED
  BY <1>2, <1>3, <1>4

(* Every step keeps the types: the amounts that are expected and added up are
   numbers, and the contract's own invariant comes with StepOfStreams. *)
LEMMA TypesNext ==
  ASSUME SettlementInv, [SettlementNext]_settlementVars
  PROVE  TypesInv'
<1> DEFINE Types == TableTypes /\ ProcessTypes /\ HistoryTypes
<1>0. TypesInv /\ RowsInv /\ Types
  BY DEF SettlementInv, TypesInv
<1>1. AccrualInv'
  BY StepOfStreams, AccrualInvNext DEF SettlementInv, TypesInv
<1>2. ASSUME NEW s \in Senders, NEW r \in Recipients, NEW t \in Tokens, NEW x \in Deposits,
             NEW rate \in Rates, NEW d \in Durations, OpenAndIndex(s, r, t, x, rate, d)
      PROVE  Types'
  <2>1. start' \in [Ids -> 0 .. MaxTime]
    BY <1>0, <1>2 DEF OpenAndIndex, TypesInv, AccrualInv, StreamTypes, TableTypes
  <2> QED
    BY <1>0, <1>2, <2>1 DEF OpenAndIndex, TableTypes, ProcessTypes, HistoryTypes, process, history
<1>3. ASSUME OnChain PROVE Types'
  BY <1>0, <1>3 DEF OnChain, TableTypes, ProcessTypes, HistoryTypes, tables, process, history
<1>4. ASSUME NEW n \in Nonces, Land(n) \/ Expire(n)
      PROVE  Types'
  BY <1>0, <1>4
     DEF Land, Expire, TableTypes, ProcessTypes, HistoryTypes, tables, process, history
<1>5. ASSUME NEW i \in Ids, MeterCall(i)
      PROVE  Types'
  <2>1. calls' \in [Ids -> Nat]
    BY <1>0, <1>5 DEF MeterCall, TableTypes
  <2>2. metered' \in [Ids -> 0 .. MaxCalls]
    BY <1>0, <1>5, SettlementAssumptions DEF MeterCall, HistoryTypes
  <2> QED
    BY <1>0, <1>5, <2>1, <2>2 DEF MeterCall, TableTypes, ProcessTypes, HistoryTypes, process
<1>6. ASSUME NEW n \in Nonces, Find(n)
      PROVE  Types'
  BY <1>0, <1>6
     DEF Find, TableTypes, ProcessTypes, HistoryTypes, tables, history, InProgress
<1>7. ASSUME NEW n \in Nonces, Take(n)
      PROVE  Types'
  BY <1>0, <1>7, TakeKeepsTypes
<1>8. ASSUME NEW n \in Nonces, Begin(n)
      PROVE  Types'
  <2>1. [status |-> "PENDING", ids |-> found[n], amounts |-> quoted[n]] \in Records
    BY <1>0 DEF ProcessTypes, Records
  <2> QED
    BY <1>0, <1>8, <2>1 DEF Begin, TableTypes, ProcessTypes, HistoryTypes, history, InProgress
<1>9. ASSUME NEW n \in Nonces, Submit(n)
      PROVE  Types'
  BY <1>0, <1>9
     DEF Submit, TableTypes, ProcessTypes, HistoryTypes, tables, history, InProgress
<1>10. ASSUME NEW n \in Nonces, Confirm(n)
      PROVE  Types'
  <2>1. record' \in [Nonces -> Records]
    BY <1>0, <1>10, StatusChanges DEF Confirm
  <2> QED
    BY <1>0, <1>10, <2>1 DEF Confirm, TableTypes, ProcessTypes, HistoryTypes, history, InProgress
<1>11. ASSUME NEW n \in Nonces, Write(n)
      PROVE  Types'
  BY <1>0, <1>11, WriteKeepsTypes
<1>12. ASSUME NEW n \in Nonces, Fail(n)
      PROVE  Types'
  <2>1. record' \in [Nonces -> Records]
    BY <1>0, <1>12, StatusChanges DEF Fail
  <2> QED
    BY <1>0, <1>12, <2>1 DEF Fail, TableTypes, ProcessTypes, HistoryTypes, history, InProgress
<1>13. ASSUME Crash PROVE Types'
  <2>1. NoAmounts \in [Ids -> 0 .. MaxDeposit]
    BY StreamAssumptions DEF NoAmounts
  <2> QED
    BY <1>0, <1>13, <2>1
       DEF Crash, TableTypes, ProcessTypes, HistoryTypes, tables, InProgress
<1>14. ASSUME Restart \/ EndRecovery PROVE Types'
  BY <1>0, <1>14
     DEF Restart, EndRecovery, TableTypes, ProcessTypes, HistoryTypes, tables, history
<1>15. ASSUME NEW n \in Nonces, Recover(n)
      PROVE  Types'
  BY <1>0, <1>15
     DEF Recover, TableTypes, ProcessTypes, HistoryTypes, tables, history, InProgress
<1>16. ASSUME UNCHANGED settlementVars PROVE Types'
  BY <1>0, <1>16
     DEF settlementVars, TableTypes, ProcessTypes, HistoryTypes, tables, process, history
<1>17. Types'
  BY <1>2, <1>3, <1>4, <1>5, <1>6, <1>7, <1>8, <1>9, <1>10, <1>11, <1>12, <1>13, <1>14,
     <1>15, <1>16 DEF SettlementNext, Chain, Settling
<1> QED
  BY <1>1, <1>17 DEF TypesInv

-----------------------------------------------------------------------------
(* The rows of the streams table. *)

(* The rows are as good as before when neither they nor the terms change. *)
LEMMA RowsStable ==
  ASSUME TypesInv, RowsInv, now <= now', now' \in Nat,
         UNCHANGED <<calls, recorded, start, metered, terms, opened>>
  PROVE  RowsInv'
<1>1. now \in Nat /\ \A i \in Ids : start[i] \in Nat
  BY StreamAssumptions DEF TypesInv, AccrualInv, StreamTypes, TableTypes
<1> QED
  BY <1>1 DEF RowsInv, RowOK

(* A stream that is opened has a row with nothing on it. *)
LEMMA OpenKeepsRows ==
  ASSUME TypesInv, RowsInv,
         NEW s \in Senders, NEW r \in Recipients, NEW t \in Tokens, NEW x \in Deposits,
         NEW rate \in Rates, NEW d \in Durations, OpenAndIndex(s, r, t, x, rate, d)
  PROVE  RowsInv'
<1> DEFINE new == [sender |-> s, recipient |-> r, token |-> t, deposit |-> x,
                   rate |-> rate, end_time |-> now + d]
<1>1. /\ opened \in Nat /\ now \in Nat /\ x \in Nat /\ opened' = opened + 1 /\ now' = now
      /\ terms' = [terms EXCEPT ![opened + 1] = new] /\ DOMAIN terms = Ids
      /\ start' = [start EXCEPT ![opened + 1] = now]
      /\ UNCHANGED <<calls, recorded, metered>>
  BY StreamAssumptions
     DEF OpenAndIndex, OpenStream, TypesInv, AccrualInv, StreamTypes, history
<1>2. ASSUME NEW i \in Ids PROVE RowOK(i)'
  <2>1. /\ i \in Nat /\ calls[i] \in Nat /\ recorded[i] \in Nat /\ terms[i].deposit \in Nat
        /\ DOMAIN start = Ids
    BY StreamAssumptions DEF TypesInv, TableTypes, AccrualInv, StreamTypes, Ids
  <2>2. RowOK(i)
    BY DEF RowsInv
  <2>3. CASE i = opened + 1
    <3>1. terms'[i].deposit = x /\ start'[i] = now
      BY <1>1, <2>1, <2>3
    <3>2. recorded[i] = 0
      BY <1>1, <2>1, <2>2, <2>3 DEF RowOK
    <3> QED
      BY <1>1, <2>1, <2>2, <2>3, <3>1, <3>2 DEF RowOK
  <2>4. CASE i # opened + 1
    <3>1. terms'[i] = terms[i] /\ start'[i] = start[i]
      BY <1>1, <2>1, <2>4
    <3> QED
      BY <1>1, <2>1, <2>2, <2>4, <3>1 DEF RowOK
  <2> QED
    BY <2>3, <2>4
<1> QED
  BY <1>2 DEF RowsInv

(* A write keeps within the deposits: of the streams of the record that is
   checked, and the others get nothing. *)
LEMMA WriteKeepsRows ==
  ASSUME TypesInv, RowsInv, AmountsInv, NEW n \in Nonces, Write(n)
  PROVE  RowsInv'
<1>1. ASSUME NEW i \in Ids PROVE RowOK(i)'
  <2>1. recorded'[i] = recorded[i] + record[n].amounts[i]
    BY <1>1 DEF Write
  <2>2. recorded[i] \in Nat
    BY DEF TypesInv, TableTypes
  <2>3. RowOK(i)
    BY DEF RowsInv
  <2>4. recorded'[i] <= terms[i].deposit
    <3>1. CASE i \in record[n].ids
      BY <2>1, <3>1 DEF Write
    <3>2. CASE i \notin record[n].ids
      <4>1. record[n].amounts[i] = 0
        BY <3>2 DEF AmountsInv, AmountsOK
      <4> QED
        BY <2>1, <2>2, <2>3, <4>1 DEF RowOK
    <3> QED
      BY <3>1, <3>2
  <2> QED
    BY <2>3, <2>4 DEF Write, RowOK, streamsVars, streamVars
<1> QED
  BY <1>1 DEF RowsInv

(* Every step keeps the rows: only a stream that is opened, a call and a write
   touch one. *)
LEMMA RowsNext ==
  ASSUME SettlementInv, [SettlementNext]_settlementVars
  PROVE  RowsInv'
<1>0. TypesInv /\ RowsInv /\ AmountsInv
  BY DEF SettlementInv
<1>a. now <= now'
  BY <1>0, StepOfStreams, StreamsOnlyAdvance DEF TypesInv
<1>b. now' \in Nat
  BY TypesNext, StreamAssumptions DEF TypesInv, AccrualInv, StreamTypes
<1>1. ASSUME NEW s \in Senders, NEW r \in Recipients, NEW t \in Tokens, NEW x \in Deposits,
             NEW rate \in Rates, NEW d \in Durations, OpenAndIndex(s, r, t, x, rate, d)
      PROVE  RowsInv'
  BY <1>0, <1>1, OpenKeepsRows
<1>2. CASE OnChain
  <2>1. UNCHANGED <<calls, recorded, start, metered, terms, opened>>
    BY <1>2 DEF OnChain, Withdraw, SettleAll, CancelStream, PauseStream, ResumeStream, Second,
                tables, history, streamVars
  <2> QED
    BY <1>0, <1>a, <1>b, <2>1, RowsStable
<1>3. ASSUME NEW n \in Nonces, Land(n)
      PROVE  RowsInv'
  <2>1. UNCHANGED <<calls, recorded, start, metered, terms, opened>>
    BY <1>3 DEF Land, BatchSettle, SettleAll, tables, history, streamsVars, streamVars
  <2> QED
    BY <1>0, <1>a, <1>b, <2>1, RowsStable
<1>4. ASSUME NEW i \in Ids, MeterCall(i)
      PROVE  RowsInv'
  <2>1. ASSUME NEW j \in Ids PROVE RowOK(j)'
    <3>1. RowOK(j) /\ calls[j] \in Nat /\ metered[j] \in Nat
      BY <1>0, SettlementAssumptions DEF RowsInv, TypesInv, TableTypes, HistoryTypes
    <3>2. calls'[j] <= metered'[j]
      BY <1>0, <1>4, <3>1 DEF MeterCall, RowOK, TypesInv, TableTypes, HistoryTypes
    <3> QED
      BY <1>4, <3>1, <3>2 DEF MeterCall, RowOK, streamsVars, streamVars
  <2> QED
    BY <2>1 DEF RowsInv
<1>5. ASSUME NEW n \in Nonces, Take(n)
      PROVE  RowsInv'
  <2>1. ASSUME NEW j \in Ids PROVE RowOK(j)'
    <3>1. RowOK(j) /\ calls[j] \in Nat /\ metered[j] \in Nat
      BY <1>0, SettlementAssumptions DEF RowsInv, TypesInv, TableTypes, HistoryTypes
    <3>2. calls'[j] <= metered'[j]
      BY <1>5, <3>1 DEF Take, RowOK
    <3> QED
      BY <1>5, <3>1, <3>2 DEF Take, RowOK, streamsVars, streamVars
  <2> QED
    BY <2>1 DEF RowsInv
<1>6. ASSUME NEW n \in Nonces, Write(n)
      PROVE  RowsInv'
  BY <1>0, <1>6, WriteKeepsRows
<1>7. ASSUME NEW n \in Nonces, Expire(n) \/ Find(n) \/ Begin(n) \/ Submit(n) \/ Confirm(n)
                               \/ Fail(n) \/ Recover(n)
      PROVE  RowsInv'
  <2>1. UNCHANGED <<calls, recorded, start, metered, terms, opened>>
    BY <1>7 DEF Expire, Find, Begin, Submit, Confirm, Fail, Recover, tables, history,
                streamsVars, streamVars
  <2> QED
    BY <1>0, <1>a, <1>b, <2>1, RowsStable
<1>8. CASE Crash \/ Restart \/ EndRecovery \/ UNCHANGED settlementVars
  <2>1. UNCHANGED <<calls, recorded, start, metered, terms, opened>>
    BY <1>8 DEF Crash, Restart, EndRecovery, settlementVars, tables, history,
                streamsVars, streamVars
  <2> QED
    BY <1>0, <1>a, <1>b, <2>1, RowsStable
<1> QED
  BY <1>1, <1>2, <1>3, <1>4, <1>5, <1>6, <1>7, <1>8 DEF SettlementNext, Chain, Settling

-----------------------------------------------------------------------------
(* Runs and records. *)

(* A settlement that is not touched stays as good as it was: only its payment
   can still come. *)
LEMMA RunStable ==
  ASSUME NEW n \in Nonces, RunOK(n), Paid(n) => Paid(n)', n \in todo' => n \in todo,
         run'[n] = run[n], record'[n] = record[n], written'[n] = written[n]
  PROVE  RunOK(n)'
BY DEF RunOK

(* Every step keeps each settlement's record and run in agreement. *)
LEMMA RunsNext ==
  ASSUME SettlementInv, [SettlementNext]_settlementVars
  PROVE  RunsInv'
<1>0. TypesInv /\ RunsInv
  BY DEF SettlementInv
<1>a. \A m \in Nonces : Paid(m) => Paid(m)'
  BY <1>0, StepOfStreams, StreamsOnlyAdvance DEF TypesInv
<1>b. /\ record \in [Nonces -> Records] /\ written \in [Nonces -> Nat]
      /\ run \in [Nonces -> InProgress \cup {"none", "done", "lost"}]
      /\ \A m \in Nonces : record[m].status \in {"None", "PENDING", "CONFIRMED", "FAILED"}
  BY <1>0 DEF TypesInv, TableTypes, ProcessTypes, HistoryTypes, Records
<1>1. ASSUME UNCHANGED <<run, record, written, todo>>
      PROVE  RunsInv'
  BY <1>0, <1>1, <1>a, RunStable DEF RunsInv
<1>2. ASSUME NEW s \in Senders, NEW r \in Recipients, NEW t \in Tokens, NEW x \in Deposits,
             NEW rate \in Rates, NEW d \in Durations, OpenAndIndex(s, r, t, x, rate, d)
      PROVE  RunsInv'
  BY <1>1, <1>2 DEF OpenAndIndex, process, history
<1>3. CASE OnChain
  BY <1>1, <1>3 DEF OnChain, tables, process, history
<1>4. ASSUME NEW n \in Nonces, Land(n) \/ Expire(n)
      PROVE  RunsInv'
  BY <1>1, <1>4 DEF Land, Expire, tables, process, history
<1>5. ASSUME NEW i \in Ids, MeterCall(i)
      PROVE  RunsInv'
  BY <1>1, <1>5 DEF MeterCall, process
<1>6. ASSUME NEW n \in Nonces,
             Find(n) \/ Take(n) \/ Begin(n) \/ Submit(n) \/ Confirm(n) \/ Write(n) \/ Fail(n)
               \/ Recover(n)
      PROVE  RunsInv'
  <2>1. ASSUME NEW m \in Nonces, m # n PROVE RunOK(m)'
    <3>1. /\ m \in todo' => m \in todo
          /\ run'[m] = run[m] /\ record'[m] = record[m] /\ written'[m] = written[m]
      BY <1>6, <1>b, <2>1
         DEF Find, Take, Begin, Submit, Confirm, Write, Fail, Recover, tables, history
    <3> QED
      BY <1>0, <1>a, <3>1, RunStable DEF RunsInv
  <2>2. RunOK(n) /\ (Paid(n) => Paid(n)')
    BY <1>0, <1>a DEF RunsInv
  <2>3. ASSUME Find(n) PROVE RunOK(n)'
    <3>1. /\ run[n] = "none" /\ run'[n] = "found" /\ record'[n] = record[n]
          /\ written'[n] = written[n] /\ todo' = todo
      BY <1>b, <2>3 DEF Find, tables, history
    <3> QED
      BY <1>b, <2>2, <3>1 DEF RunOK
  <2>4. ASSUME Take(n) PROVE RunOK(n)'
    <3>1. /\ run[n] = "found" /\ run'[n] \in {"taken", "done"} /\ record'[n] = record[n]
          /\ written'[n] = written[n] /\ todo' = todo
      BY <1>b, <2>4 DEF Take
    <3> QED
      BY <1>b, <2>2, <3>1 DEF RunOK
  <2>5. ASSUME Begin(n) PROVE RunOK(n)'
    <3>1. /\ run[n] = "taken" /\ run'[n] = "begun" /\ record'[n].status = "PENDING"
          /\ written'[n] = written[n] /\ todo' = todo
      BY <1>b, <2>5 DEF Begin, history
    <3> QED
      BY <1>b, <2>2, <3>1 DEF RunOK
  <2>6. ASSUME Submit(n) PROVE RunOK(n)'
    <3>1. /\ run[n] = "begun" /\ run'[n] = "sent" /\ record'[n] = record[n]
          /\ written'[n] = written[n] /\ todo' = todo
      BY <1>b, <2>6 DEF Submit, tables, history
    <3> QED
      BY <1>b, <2>2, <3>1 DEF RunOK
  <2>7. ASSUME Confirm(n) PROVE RunOK(n)'
    <3>1. /\ run[n] = "sent" /\ Paid(n) /\ run'[n] = "confirmed"
          /\ record'[n].status = "CONFIRMED"
          /\ written'[n] = written[n] /\ todo' = todo
      BY <1>0, <1>b, <2>7, StatusChanges DEF Confirm, history, TypesInv
    <3> QED
      BY <1>b, <2>2, <3>1 DEF RunOK
  <2>8. ASSUME Write(n) PROVE RunOK(n)'
    <3>1. /\ run[n] = "confirmed" /\ run'[n] = "done" /\ record'[n] = record[n]
          /\ written'[n] = written[n] + 1 /\ n \notin todo'
      BY <1>b, <2>8 DEF Write
    <3> QED
      BY <1>b, <2>2, <3>1 DEF RunOK
  <2>9. ASSUME Fail(n) PROVE RunOK(n)'
    <3>1. /\ run[n] \in {"begun", "sent", "confirmed"} /\ run'[n] = "done"
          /\ record'[n].status = "FAILED"
          /\ written'[n] = written[n] /\ n \notin todo'
      BY <1>0, <1>b, <2>9, StatusChanges DEF Fail, history, TypesInv
    <3> QED
      BY <1>b, <2>2, <3>1 DEF RunOK
  <2>10. ASSUME Recover(n) PROVE RunOK(n)'
    <3>1. /\ n \in todo /\ run[n] \notin InProgress /\ run'[n] = "begun"
          /\ record'[n] = record[n] /\ written'[n] = written[n] /\ todo' = todo
      BY <1>b, <2>10 DEF Recover, tables, history
    <3> QED
      BY <1>b, <2>2, <3>1 DEF RunOK, InProgress
  <2>11. RunOK(n)'
    BY <1>6, <2>3, <2>4, <2>5, <2>6, <2>7, <2>8, <2>9, <2>10
  <2> QED
    BY <2>1, <2>11 DEF RunsInv
<1>7. CASE Crash
  <2>1. ASSUME NEW m \in Nonces PROVE RunOK(m)'
    <3>1. /\ m \notin todo' /\ record'[m] = record[m] /\ written'[m] = written[m]
          /\ run'[m] = IF run[m] = "found" THEN "none"
                       ELSE IF run[m] \in InProgress THEN "lost" ELSE run[m]
      BY <1>7 DEF Crash, tables
    <3> QED
      BY <1>0, <1>a, <1>b, <3>1 DEF RunsInv, RunOK, InProgress
  <2> QED
    BY <2>1 DEF RunsInv
<1>8. CASE Restart
  <2>1. ASSUME NEW m \in Nonces PROVE RunOK(m)'
    <3>1. /\ m \in todo' => record[m].status = "PENDING"
          /\ run'[m] = run[m] /\ record'[m] = record[m] /\ written'[m] = written[m]
      BY <1>8 DEF Restart, tables, history
    <3> QED
      BY <1>0, <1>a, <1>b, <3>1 DEF RunsInv, RunOK
  <2> QED
    BY <2>1 DEF RunsInv
<1>9. CASE EndRecovery \/ UNCHANGED settlementVars
  BY <1>1, <1>9 DEF EndRecovery, settlementVars, tables, process, history
<1> QED
  BY <1>2, <1>3, <1>4, <1>5, <1>6, <1>7, <1>8, <1>9 DEF SettlementNext, Chain, Settling

-----------------------------------------------------------------------------
(* The amounts of a record. *)

(* A settlement whose record keeps its amounts keeps them to its streams. *)
LEMMA AmountsStable ==
  ASSUME NEW n \in Nonces, AmountsOK(n),
         record'[n].ids = record[n].ids, record'[n].amounts = record[n].amounts,
         run'[n] = "taken" => run[n] = "taken" /\ found'[n] = found[n] /\ quoted'[n] = quoted[n]
  PROVE  AmountsOK(n)'
BY DEF AmountsOK

(* Every step keeps the amounts of a record to its own streams. *)
LEMMA AmountsNext ==
  ASSUME SettlementInv, [SettlementNext]_settlementVars
  PROVE  AmountsInv'
<1>0. TypesInv /\ AmountsInv
  BY DEF SettlementInv
<1>b. /\ DOMAIN record = Nonces /\ DOMAIN found = Nonces /\ DOMAIN quoted = Nonces
      /\ DOMAIN run = Nonces
  BY <1>0 DEF TypesInv, TableTypes, ProcessTypes
<1>1. ASSUME UNCHANGED <<record, run, found, quoted>>
      PROVE  AmountsInv'
  BY <1>0, <1>1 DEF AmountsInv, AmountsOK
<1>2. ASSUME NEW s \in Senders, NEW r \in Recipients, NEW t \in Tokens, NEW x \in Deposits,
             NEW rate \in Rates, NEW d \in Durations, OpenAndIndex(s, r, t, x, rate, d)
      PROVE  AmountsInv'
  BY <1>1, <1>2 DEF OpenAndIndex, process
<1>3. CASE OnChain \/ Restart \/ EndRecovery \/ UNCHANGED settlementVars
  BY <1>1, <1>3 DEF OnChain, Restart, EndRecovery, settlementVars, tables, process
<1>4. ASSUME NEW n \in Nonces, Land(n) \/ Expire(n)
      PROVE  AmountsInv'
  BY <1>1, <1>4 DEF Land, Expire, tables, process
<1>5. ASSUME NEW i \in Ids, MeterCall(i)
      PROVE  AmountsInv'
  BY <1>1, <1>5 DEF MeterCall, process
<1>6. ASSUME NEW n \in Nonces, Find(n) \/ Submit(n) \/ Write(n) \/ Recover(n)
      PROVE  AmountsInv'
  <2>1. ASSUME NEW m \in Nonces PROVE AmountsOK(m)'
    <3>1. /\ record'[m] = record[m]
          /\ run'[m] = "taken" =>
               run[m] = "taken" /\ found'[m] = found[m] /\ quoted'[m] = quoted[m]
      BY <1>6, <1>b DEF Find, Submit, Write, Recover, tables
    <3> QED
      BY <1>0, <3>1, AmountsStable DEF AmountsInv
  <2> QED
    BY <2>1 DEF AmountsInv
<1>7. ASSUME NEW n \in Nonces, Confirm(n) \/ Fail(n)
      PROVE  AmountsInv'
  <2>1. ASSUME NEW m \in Nonces PROVE AmountsOK(m)'
    <3>1. record'[m].ids = record[m].ids /\ record'[m].amounts = record[m].amounts
      BY <1>0, <1>7, StatusChanges DEF Confirm, Fail, TypesInv
    <3>2. run'[m] = "taken" =>
            run[m] = "taken" /\ found'[m] = found[m] /\ quoted'[m] = quoted[m]
      BY <1>7, <1>b DEF Confirm, Fail
    <3> QED
      BY <1>0, <3>1, <3>2, AmountsStable DEF AmountsInv
  <2> QED
    BY <2>1 DEF AmountsInv
<1>8. ASSUME NEW n \in Nonces, Take(n)
      PROVE  AmountsInv'
  <2>1. ASSUME NEW m \in Nonces, m # n PROVE AmountsOK(m)'
    <3>1. /\ record'[m] = record[m]
          /\ run'[m] = run[m] /\ found'[m] = found[m] /\ quoted'[m] = quoted[m]
      BY <1>8, <1>b, <2>1 DEF Take
    <3> QED
      BY <1>0, <3>1, AmountsStable DEF AmountsInv
  <2>2. AmountsOK(n)'
    <3>1. record'[n] = record[n] /\ \A i \in Ids \ found'[n] : quoted'[n][i] = 0
      BY <1>8, <1>b DEF Take
    <3> QED
      BY <1>0, <3>1 DEF AmountsInv, AmountsOK
  <2> QED
    BY <2>1, <2>2 DEF AmountsInv
<1>9. ASSUME NEW n \in Nonces, Begin(n)
      PROVE  AmountsInv'
  <2>1. ASSUME NEW m \in Nonces, m # n PROVE AmountsOK(m)'
    <3>1. /\ record'[m] = record[m]
          /\ run'[m] = run[m] /\ found'[m] = found[m] /\ quoted'[m] = quoted[m]
      BY <1>9, <1>b, <2>1 DEF Begin
    <3> QED
      BY <1>0, <3>1, AmountsStable DEF AmountsInv
  <2>2. AmountsOK(n)'
    <3>1. /\ run[n] = "taken" /\ run'[n] = "begun"
          /\ record'[n].ids = found[n] /\ record'[n].amounts = quoted[n]
      BY <1>9, <1>b DEF Begin
    <3>2. AmountsOK(n)
      BY <1>0 DEF AmountsInv
    <3> QED
      BY <3>1, <3>2 DEF AmountsOK
  <2> QED
    BY <2>1, <2>2 DEF AmountsInv
<1>10. CASE Crash
  <2>1. ASSUME NEW m \in Nonces PROVE AmountsOK(m)'
    <3>1. record'[m] = record[m] /\ (run'[m] = "taken" => FALSE)
      BY <1>10 DEF Crash, tables, InProgress
    <3> QED
      BY <1>0, <3>1, AmountsStable DEF AmountsInv
  <2> QED
    BY <2>1 DEF AmountsInv
<1> QED
  BY <1>2, <1>3, <1>4, <1>5, <1>6, <1>7, <1>8, <1>9, <1>10
     DEF SettlementNext, Chain, Settling

-----------------------------------------------------------------------------
(* Batches: where each call metered is. *)

(* What the runs took off one stream's counter adds up to a number. *)
LEMMA TakenIsFinite ==
  ASSUME HistoryTypes, NEW i \in Ids
  PROVE  /\ IsFiniteSet(Nonces)
         /\ \A n \in Nonces : TakenOf(i)[n] = taken[n][i] /\ TakenOf(i)[n] \in Nat
         /\ SumFunctionOnSet(TakenOf(i), Nonces) \in Nat
<1>1. \A n \in Nonces : TakenOf(i)[n] = taken[n][i] /\ TakenOf(i)[n] \in Nat
  BY DEF HistoryTypes, TakenOf
<1>2. IsFiniteSet(Nonces)
  BY SettlementAssumptions
<1> QED
  BY <1>1, <1>2, SumIsNat

(* What a step that takes nothing leaves in place. *)
LEMMA CountsStable ==
  ASSUME BatchesInv, taken' = taken, calls' = calls, metered' = metered
  PROVE  \A i \in Ids : CountOK(i)'
BY DEF BatchesInv, CountOK, TakenOf

(* A call that is metered is on the counter. *)
LEMMA MeterKeepsCounts ==
  ASSUME TypesInv, BatchesInv, NEW i \in Ids, MeterCall(i), NEW j \in Ids
  PROVE  CountOK(j)'
<1>1. TakenOf(j)' = TakenOf(j)
  BY DEF MeterCall, TakenOf
<1>2. calls[j] \in Nat /\ SumFunctionOnSet(TakenOf(j), Nonces) \in Nat
  BY TakenIsFinite DEF TypesInv, TableTypes
<1>3. CountOK(j)
  BY DEF BatchesInv
<1>4. \/ calls'[j] = calls[j] + 1 /\ metered'[j] = metered[j] + 1
      \/ calls'[j] = calls[j] /\ metered'[j] = metered[j]
  BY DEF MeterCall, TypesInv, TableTypes, HistoryTypes
<1>5. metered[j] \in Nat
  BY SettlementAssumptions DEF TypesInv, HistoryTypes
<1> QED
  BY <1>1, <1>2, <1>3, <1>4, <1>5 DEF CountOK

(* A call that is taken moves from the counter to the batch. *)
LEMMA TakeKeepsCounts ==
  ASSUME TypesInv, BatchesInv, NEW n \in Nonces, Take(n), NEW i \in Ids
  PROVE  CountOK(i)'
<1>1. HistoryTypes /\ HistoryTypes'
  <2>1. [j \in Ids |-> IF j \in {k \in found[n] : StillDue(k)} THEN calls[j] ELSE 0]
          \in [Ids -> Nat]
    BY DEF TypesInv, TableTypes
  <2> QED
    BY <2>1 DEF TypesInv, HistoryTypes, Take
<1> DEFINE f == TakenOf(i)
           h == TakenOf(i)'
<1>2. /\ IsFiniteSet(Nonces)
      /\ \A m \in Nonces : f[m] \in Nat /\ f[m] = taken[m][i]
      /\ SumFunctionOnSet(f, Nonces) \in Nat
  BY <1>1, TakenIsFinite
<1>3. \A m \in Nonces : h[m] \in Nat /\ h[m] = taken'[m][i]
  BY <1>1 DEF TakenOf, HistoryTypes
<1>4. \A m \in Nonces \ {n} : f[m] = h[m]
  BY <1>2, <1>3 DEF Take, TypesInv, HistoryTypes
<1>5. f[n] = 0
  BY <1>2 DEF Take, BatchesInv, TakenOK
<1>6. h[n] + calls'[i] = calls[i] /\ calls'[i] \in Nat
  <2>1. calls[i] \in Nat
    BY DEF TypesInv, TableTypes
  <2>2. \/ taken'[n][i] = calls[i] /\ calls'[i] = 0
        \/ taken'[n][i] = 0 /\ calls'[i] = calls[i]
    BY DEF Take, TypesInv, HistoryTypes
  <2> QED
    BY <1>3, <2>1, <2>2
<1>7. metered[i] = calls[i] + SumFunctionOnSet(f, Nonces) /\ metered' = metered
  BY DEF BatchesInv, CountOK, Take
<1>8. h[n] \in Nat /\ calls[i] \in Nat
  BY <1>3 DEF TypesInv, TableTypes
<1> HIDE DEF f, h
<1>9. SumFunctionOnSet(h, Nonces) = SumFunctionOnSet(f, Nonces) + (h[n] - f[n])
  <2>1. IsFiniteSet(Nonces) /\ n \in Nonces
    BY <1>2
  <2>2. \A m \in Nonces : f[m] \in Nat /\ h[m] \in Nat
    BY <1>2, <1>3
  <2>3. ASSUME NEW F, NEW H, \A m \in Nonces : F[m] \in Nat /\ H[m] \in Nat,
               \A m \in Nonces \ {n} : F[m] = H[m]
        PROVE  SumFunctionOnSet(H, Nonces) = SumFunctionOnSet(F, Nonces) + (H[n] - F[n])
    BY <2>1, <2>3, SumAtPoint
  <2> QED
    BY <1>4, <2>2, <2>3
<1>10. metered'[i] = calls'[i] + SumFunctionOnSet(h, Nonces)
  BY <1>2, <1>5, <1>6, <1>7, <1>8, <1>9
<1> QED
  BY <1>10 DEF CountOK, h

(* Nothing is taken from a batch, or added to it, after its run took it. *)
LEMMA TakenStable ==
  ASSUME NEW n \in Nonces, TakenOK(n), taken'[n] = taken[n],
         found'[n] = found[n] \/ found'[n] = {} \/ run'[n] \in {"none", "found"},
         run'[n] \in {"none", "found"} <=> run[n] \in {"none", "found"}
  PROVE  TakenOK(n)'
BY DEF TakenOK

(* Every step keeps the calls where they are counted once. *)
LEMMA BatchesNext ==
  ASSUME SettlementInv, [SettlementNext]_settlementVars
  PROVE  BatchesInv'
<1>0. TypesInv /\ RunsInv /\ BatchesInv
  BY DEF SettlementInv
<1>b. /\ DOMAIN found = Nonces /\ DOMAIN run = Nonces /\ DOMAIN taken = Nonces
      /\ \A m \in Nonces : DOMAIN taken[m] = Ids /\ found[m] \in SUBSET Ids
  BY <1>0 DEF TypesInv, ProcessTypes, HistoryTypes
<1>1. ASSUME UNCHANGED <<run, found, taken, calls, metered>>
      PROVE  BatchesInv'
  BY <1>0, <1>1, CountsStable, TakenStable DEF BatchesInv
<1>2. ASSUME NEW s \in Senders, NEW r \in Recipients, NEW t \in Tokens, NEW x \in Deposits,
             NEW rate \in Rates, NEW d \in Durations, OpenAndIndex(s, r, t, x, rate, d)
      PROVE  BatchesInv'
  BY <1>1, <1>2 DEF OpenAndIndex, process, history
<1>3. CASE OnChain \/ Restart \/ EndRecovery \/ UNCHANGED settlementVars
  BY <1>1, <1>3 DEF OnChain, Restart, EndRecovery, settlementVars, tables, process, history
<1>4. ASSUME NEW n \in Nonces, Land(n) \/ Expire(n)
      PROVE  BatchesInv'
  BY <1>1, <1>4 DEF Land, Expire, tables, process, history
<1>5. ASSUME NEW i \in Ids, MeterCall(i)
      PROVE  BatchesInv'
  <2>1. \A m \in Nonces : TakenOK(m)'
    BY <1>0, <1>5 DEF MeterCall, process, BatchesInv, TakenOK
  <2>2. \A j \in Ids : CountOK(j)'
    BY <1>0, <1>5, MeterKeepsCounts
  <2> QED
    BY <2>1, <2>2 DEF BatchesInv
<1>6. ASSUME NEW n \in Nonces,
             Find(n) \/ Begin(n) \/ Submit(n) \/ Confirm(n) \/ Write(n) \/ Fail(n)
      PROVE  BatchesInv'
  <2>1. ASSUME NEW m \in Nonces PROVE TakenOK(m)'
    <3>1. /\ taken'[m] = taken[m]
          /\ found'[m] = found[m] \/ run'[m] = "found"
          /\ run'[m] \in {"none", "found"} <=> run[m] \in {"none", "found"}
      BY <1>6, <1>b DEF Find, Begin, Submit, Confirm, Write, Fail, history
    <3> QED
      BY <1>0, <3>1, TakenStable DEF BatchesInv
  <2>2. \A i \in Ids : CountOK(i)'
    BY <1>0, <1>6, CountsStable
       DEF Find, Begin, Submit, Confirm, Write, Fail, tables, history
  <2> QED
    BY <2>1, <2>2 DEF BatchesInv
<1>7. ASSUME NEW n \in Nonces, Recover(n)
      PROVE  BatchesInv'
  <2>1. ASSUME NEW m \in Nonces PROVE TakenOK(m)'
    <3>1. run[n] \notin {"none", "found"}
      BY <1>0, <1>7 DEF Recover, RunsInv, RunOK, InProgress
    <3>2. /\ taken'[m] = taken[m] /\ found'[m] = found[m]
          /\ run'[m] \in {"none", "found"} <=> run[m] \in {"none", "found"}
      BY <1>7, <1>b, <3>1 DEF Recover, history
    <3> QED
      BY <1>0, <3>2, TakenStable DEF BatchesInv
  <2>2. \A i \in Ids : CountOK(i)'
    BY <1>0, <1>7, CountsStable DEF Recover, tables, history
  <2> QED
    BY <2>1, <2>2 DEF BatchesInv
<1>8. ASSUME NEW n \in Nonces, Take(n)
      PROVE  BatchesInv'
  <2>1. ASSUME NEW m \in Nonces, m # n PROVE TakenOK(m)'
    <3>1. taken'[m] = taken[m] /\ found'[m] = found[m] /\ run'[m] = run[m]
      BY <1>8, <1>b, <2>1 DEF Take
    <3> QED
      BY <1>0, <3>1, TakenStable DEF BatchesInv
  <2>2. TakenOK(n)'
    <3>1. run'[n] \in {"taken", "done"}
      BY <1>8, <1>b DEF Take
    <3>2. ASSUME NEW i \in found'[n] PROVE taken'[n][i] >= Batch
      <4>1. i \in found[n] /\ StillDue(i)
        BY <1>8, <1>b, <3>2 DEF Take
      <4>2. taken'[n][i] = calls[i]
        BY <1>8, <1>b, <4>1 DEF Take
      <4> QED
        BY <4>1, <4>2 DEF StillDue
    <3> QED
      BY <3>1, <3>2 DEF TakenOK
  <2>3. \A i \in Ids : CountOK(i)'
    BY <1>0, <1>8, TakeKeepsCounts
  <2> QED
    BY <2>1, <2>2, <2>3 DEF BatchesInv
<1>9. CASE Crash
  <2>1. ASSUME NEW m \in Nonces PROVE TakenOK(m)'
    <3>1. /\ taken'[m] = taken[m] /\ found'[m] = {}
          /\ run'[m] \in {"none", "found"} <=> run[m] \in {"none", "found"}
      BY <1>9 DEF Crash, InProgress
    <3> QED
      BY <1>0, <3>1, TakenStable DEF BatchesInv
  <2>2. \A i \in Ids : CountOK(i)'
    BY <1>0, <1>9, CountsStable DEF Crash, tables
  <2> QED
    BY <2>1, <2>2 DEF BatchesInv
<1> QED
  BY <1>2, <1>3, <1>4, <1>5, <1>6, <1>7, <1>8, <1>9 DEF SettlementNext, Chain, Settling

-----------------------------------------------------------------------------
(* The invariant, and what it says. *)

(* It holds at the start, when no call is metered and nothing is taken. *)
LEMMA SettlementInvInit == SettlementInit => SettlementInv
<1> SUFFICES ASSUME SettlementInit PROVE SettlementInv
  OBVIOUS
<1>1. AccrualInv /\ now \in Nat
  BY AccrualInvInit, StreamAssumptions DEF SettlementInit, AccrualInv, StreamTypes
<1>2. NoAmounts \in [Ids -> 0 .. MaxDeposit] /\ \A i \in Ids : NoAmounts[i] = 0
  BY StreamAssumptions DEF NoAmounts
<1>3. TypesInv
  <2>1. NoRecord \in Records
    BY <1>2 DEF NoRecord, Records
  <2>2. TableTypes
    BY <1>2, <2>1, StreamAssumptions DEF SettlementInit, TableTypes, NoAmounts
  <2>3. ProcessTypes
    BY <1>2 DEF SettlementInit, ProcessTypes
  <2>4. HistoryTypes
    BY SettlementAssumptions DEF SettlementInit, HistoryTypes, NoAmounts
  <2> QED
    BY <1>1, <2>2, <2>3, <2>4 DEF TypesInv
<1>4. RowsInv
  <2>1. ASSUME NEW i \in Ids PROVE RowOK(i)
    <3>1. terms[i].deposit = 0
      BY DEF SettlementInit, StreamsInit, NoTerms
    <3> QED
      BY <1>1, <1>2, <3>1 DEF SettlementInit, RowOK
  <2> QED
    BY <2>1 DEF RowsInv
<1>5. RunsInv
  BY DEF SettlementInit, RunsInv, RunOK, NoRecord
<1>6. AmountsInv
  BY <1>2 DEF SettlementInit, AmountsInv, AmountsOK, NoRecord
<1>7. BatchesInv
  <2>1. \A n \in Nonces : TakenOK(n)
    BY <1>2 DEF SettlementInit, TakenOK
  <2>2. ASSUME NEW i \in Ids PROVE CountOK(i)
    <3>1. IsFiniteSet(Nonces) /\ \A n \in Nonces : TakenOf(i)[n] = 0
      BY <1>2, SettlementAssumptions DEF SettlementInit, TakenOf
    <3>2. SumFunctionOnSet(TakenOf(i), Nonces) = 0
      BY <3>1, SumOfZeros
    <3> QED
      BY <1>2, <3>2 DEF SettlementInit, CountOK
  <2> QED
    BY <2>1, <2>2 DEF BatchesInv
<1> QED
  BY <1>3, <1>4, <1>5, <1>6, <1>7 DEF SettlementInv

(* Each step keeps all five parts. *)
LEMMA SettlementInvNext == SettlementInv /\ [SettlementNext]_settlementVars => SettlementInv'
BY TypesNext, RowsNext, RunsNext, AmountsNext, BatchesNext DEF SettlementInv

(* So it always holds. *)
LEMMA SettlementInvAlways == SettlementSpec => []SettlementInv
BY SettlementInvInit, SettlementInvNext, PTL DEF SettlementSpec

(* The backend reaches the contract only through the operations of Streams, so
   that every theorem about Streams holds of the two together. *)
THEOREM SettlementImplementsStreams == SettlementSpec => StreamsSpec
<1>1. SettlementInit => StreamsInit
  BY DEF SettlementInit
<1>2. SettlementInv /\ [SettlementNext]_settlementVars => [StreamsNext]_streamsVars
  BY StepOfStreams DEF SettlementInv, TypesInv
<1> QED
  BY <1>1, <1>2, SettlementInvAlways, PTL DEF SettlementSpec, StreamsSpec

(* The tables and the process hold what their types say; the database never
   records more than a stream's deposit. *)
THEOREM SettlementTypeCorrect == SettlementSpec => []SettlementTypeOK
<1>1. SettlementInv => SettlementTypeOK
  <2> SUFFICES ASSUME SettlementInv PROVE SettlementTypeOK
    OBVIOUS
  <2>1. TypesInv /\ RowsInv
    BY DEF SettlementInv
  <2>2. calls \in [Ids -> 0 .. MaxCalls]
    <3>1. ASSUME NEW i \in Ids PROVE calls[i] \in 0 .. MaxCalls
      BY <2>1, SettlementAssumptions DEF RowsInv, RowOK, TypesInv, TableTypes, HistoryTypes
    <3> QED
      BY <2>1, <3>1 DEF TypesInv, TableTypes
  <2>3. \A i \in Ids : recorded[i] \in 0 .. terms[i].deposit
    BY <2>1, StreamAssumptions
       DEF RowsInv, RowOK, TypesInv, TableTypes, AccrualInv, StreamTypes
  <2> QED
    BY <2>1, <2>2, <2>3
       DEF SettlementTypeOK, TypesInv, TableTypes, ProcessTypes, HistoryTypes, Records
<1> QED
  BY <1>1, SettlementInvAlways, PTL

(* No two runs settle the same usage: a batch that was taken holds the calls
   that made it due, and every call metered is on its counter or in one batch. *)
THEOREM EachCallAlwaysInOneBatch == SettlementSpec => []EachCallInOneBatch
<1>1. SettlementInv => EachCallInOneBatch
  BY DEF SettlementInv, BatchesInv, TakenOK, CountOK, TakenOf, EachCallInOneBatch
<1> QED
  BY <1>1, SettlementInvAlways, PTL

(* A settlement that is CONFIRMED was paid on chain, and its amounts are in the
   streams table or about to be, unless a crash cut its run off. *)
THEOREM ConfirmedAlwaysPaid == SettlementSpec => []ConfirmedIsPaid
<1>1. SettlementInv => ConfirmedIsPaid
  BY DEF SettlementInv, RunsInv, RunOK, ConfirmedIsPaid
<1> QED
  BY <1>1, SettlementInvAlways, PTL

(* A settlement is written to the streams table at most once, however often it
   is replayed, and never unless it was paid on chain. *)
THEOREM AlwaysWrittenOnce == SettlementSpec => []WrittenOnce
<1>1. SettlementInv => WrittenOnce
  <2> SUFFICES ASSUME SettlementInv, NEW n \in Nonces
               PROVE  written[n] <= 1 /\ (written[n] = 1 => Paid(n))
    BY DEF WrittenOnce
  <2>1. record[n].status \in {"None", "PENDING", "CONFIRMED", "FAILED"}
    BY DEF SettlementInv, TypesInv, TableTypes, Records
  <2> QED
    BY <2>1 DEF SettlementInv, RunsInv, RunOK
<1> QED
  BY <1>1, SettlementInvAlways, PTL
=============================================================================
