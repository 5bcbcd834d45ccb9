------------------------------ MODULE Settlement ------------------------------
(***************************************************************************)
(* The backend's batch settlement (backend/src/protocol/BatchSettler.js,   *)
(* SettlementLedger.js, and the settlement_ledger and streams tables),     *)
(* composed with the contract of Streams whose batch_settle it calls.      *)
(*                                                                         *)
(* A database transaction is one step; between two of them, or between one *)
(* and a call to the chain, anything else may happen: a metered call,      *)
(* another run of the timer, a crash.  A transaction that was sent is in   *)
(* flight until it lands or expires, whoever still waits for it.           *)
(*                                                                         *)
(* A run of the settler is named by the nonce its record will have.        *)
(***************************************************************************)
EXTENDS Streams, FiniteSetsExt, Functions

CONSTANTS Server,     \* the address whose key the backend signs with
          Batch,      \* calls after which a stream is settled (25)
          MaxCalls,   \* bound: calls a stream is sold with
          MaxCrashes  \* bound: crashes of the backend

(* Nonces have 64 bits.  The streams that the backend settles are paid to it. *)
ASSUME SettlementAssumptions ==
  /\ Server \in Parties \cap Recipients
  /\ Nonces \subseteq Nat /\ IsFiniteSet(Nonces)
  /\ Batch \in Nat \ {0} /\ MaxCalls \in Nat /\ MaxCrashes \in Nat

VARIABLES calls,    \* streams.calls_used
          recorded, \* streams.withdrawn, as the database has it
          start,    \* streams.start_time
          record,   \* settlement_ledger
          run,      \* how far the run of each nonce has come
          found,    \* the streams it found to settle, then those it took
          quoted,   \* its expectedAmounts
          inflight, \* nonces of batch_settle transactions in the network
          backend,  \* "up", "down", or "recovering" (isRecovering)
          todo,     \* PENDING records recovery has read and not yet finished
          metered,  \* history: calls metered
          taken,    \* history: calls each run took off a counter
          written,  \* history: times each settlement was written to streams
          crashes   \* history: crashes

tables == <<calls, recorded, start, record>>
process == <<run, found, quoted, backend, todo>>
history == <<metered, taken, written, crashes>>
settlementVars == <<streamsVars, tables, process, inflight, history>>

InProgress == {"found", "taken", "begun", "sent", "confirmed"}
NoAmounts == [i \in Ids |-> 0]
NoRecord == [status |-> "None", ids |-> {}, amounts |-> NoAmounts]
Paid(n) == settlements[Server][n] # None

SettlementInit ==
  /\ StreamsInit
  /\ calls = NoAmounts /\ recorded = NoAmounts /\ start = NoAmounts
  /\ record = [n \in Nonces |-> NoRecord]
  /\ run = [n \in Nonces |-> "none"]
  /\ found = [n \in Nonces |-> {}]
  /\ quoted = [n \in Nonces |-> NoAmounts]
  /\ inflight = {}
  /\ backend = "up"
  /\ todo = {}
  /\ metered = NoAmounts
  /\ taken = [n \in Nonces |-> NoAmounts]
  /\ written = [n \in Nonces |-> 0]
  /\ crashes = 0

-----------------------------------------------------------------------------
(* The chain. *)

(* A stream is opened, and its sender posts it to the backend. *)
OpenAndIndex(s, r, t, x, rate, duration) ==
  /\ OpenStream(s, r, t, x, rate, duration)
  /\ start' = [start EXCEPT ![opened + 1] = now]
  /\ UNCHANGED <<calls, recorded, record, process, inflight, history>>

(* The parties of a stream call the contract themselves, and time passes. *)
OnChain ==
  /\ \/ \E i \in Ids : Withdraw(i) \/ CancelStream(i) \/ PauseStream(i) \/ ResumeStream(i)
     \/ Second
  /\ UNCHANGED <<tables, process, inflight, history>>

(* A transaction in flight is applied; a repeated one changes nothing. *)
Land(n) ==
  /\ n \in inflight
  /\ inflight' = inflight \ {n}
  /\ IF Paid(n) THEN UNCHANGED streamsVars
     ELSE BatchSettle(Server, record[n].ids, {}, n)
  /\ UNCHANGED <<tables, process, history>>

(* Its time bound passes and it never will be. *)
Expire(n) ==
  /\ n \in inflight
  /\ inflight' = inflight \ {n}
  /\ UNCHANGED <<streamsVars, tables, process, history>>

-----------------------------------------------------------------------------
(* A run of the timer. *)

(* A call is metered and billed; the row is locked meanwhile. *)
MeterCall(i) ==
  /\ backend # "down" /\ i <= opened
  /\ metered[i] < MaxCalls
  /\ calls' = [calls EXCEPT ![i] = @ + 1]
  /\ metered' = [metered EXCEPT ![i] = @ + 1]
  /\ UNCHANGED <<streamsVars, recorded, start, record, process, inflight,
                 taken, written, crashes>>

(* The timer fires, whether or not an earlier run has ended.  The streams are
   looked up without a lock. *)
Find(n) ==
  /\ backend = "up" /\ run[n] = "none"
  /\ \A m \in Nonces : m < n => run[m] # "none"
  /\ found' = [found EXCEPT ![n] = {i \in Ids : calls[i] >= Batch}]
  /\ found'[n] # {}
  /\ run' = [run EXCEPT ![n] = "found"]
  /\ UNCHANGED <<streamsVars, tables, quoted, backend, todo, inflight, history>>

(* What the backend expects a stream to be paid: all that it has earned since
   it began, as far as its row has deposit left. *)
Expected(i) == Min({terms[i].deposit - recorded[i], (now - start[i]) * terms[i].rate})

(* Mutant of StillDue: the look-up is trusted. *)
MutStillDue(i) == TRUE

StillDue(i) == calls[i] >= Batch

(* Each row found is locked, looked at again, and its counter reset. *)
Take(n) ==
  LET due == {i \in found[n] : StillDue(i)}
  IN /\ run[n] = "found"
     /\ found' = [found EXCEPT ![n] = due]
     /\ run' = [run EXCEPT ![n] = IF due = {} THEN "done" ELSE "taken"]
     /\ calls' = [i \in Ids |-> IF i \in due THEN 0 ELSE calls[i]]
     /\ taken' = [taken EXCEPT ![n] = [i \in Ids |-> IF i \in due THEN calls[i] ELSE 0]]
     /\ quoted' = [quoted EXCEPT ![n] =
                     [i \in Ids |-> IF i \in due THEN Expected(i) ELSE 0]]
     /\ UNCHANGED <<streamsVars, recorded, start, record, backend, todo, inflight,
                    metered, written, crashes>>

(* The PENDING record, with all that a replay needs. *)
Begin(n) ==
  /\ run[n] = "taken"
  /\ record' = [record EXCEPT ![n] =
                  [status |-> "PENDING", ids |-> found[n], amounts |-> quoted[n]]]
  /\ run' = [run EXCEPT ![n] = "begun"]
  /\ UNCHANGED <<streamsVars, calls, recorded, start, found, quoted, backend,
                 todo, inflight, history>>

-----------------------------------------------------------------------------
(* Settling a record: the same steps in a run of the timer and in recovery. *)

(* invokeContract.  The simulation refuses a batch with a stream of another
   recipient. *)
Submit(n) ==
  /\ run[n] = "begun"
  /\ \A i \in record[n].ids : terms[i].recipient = Server
  /\ inflight' = inflight \cup {n}
  /\ run' = [run EXCEPT ![n] = "sent"]
  /\ UNCHANGED <<streamsVars, tables, found, quoted, backend, todo, history>>

(* Mutant of Confirm: whether the transaction was applied is not looked at. *)
MutConfirmUnseen(n) ==
  /\ run[n] = "sent"
  /\ record' = [record EXCEPT ![n].status = "CONFIRMED"]
  /\ run' = [run EXCEPT ![n] = "confirmed"]
  /\ UNCHANGED <<streamsVars, calls, recorded, start, found, quoted, backend,
                 todo, inflight, history>>

(* Mutant of Confirm: the record is not marked before the amounts are written. *)
MutConfirmUnmarked(n) ==
  /\ run[n] = "sent" /\ Paid(n)
  /\ run' = [run EXCEPT ![n] = "confirmed"]
  /\ UNCHANGED <<streamsVars, tables, found, quoted, backend, todo, inflight, history>>

(* The polling sees it applied. *)
Confirm(n) ==
  /\ run[n] = "sent" /\ Paid(n)
  /\ record' = [record EXCEPT ![n].status = "CONFIRMED"]
  /\ run' = [run EXCEPT ![n] = "confirmed"]
  /\ UNCHANGED <<streamsVars, calls, recorded, start, found, quoted, backend,
                 todo, inflight, history>>

(* Mutant of Write: the guard on the deposit is left out. *)
MutWriteUnguarded(n) ==
  LET total(i) == recorded[i] + record[n].amounts[i]
  IN /\ run[n] = "confirmed"
     /\ recorded' = [i \in Ids |-> total(i)]
     /\ run' = [run EXCEPT ![n] = "done"]
     /\ todo' = todo \ {n}
     /\ written' = [written EXCEPT ![n] = @ + 1]
     /\ UNCHANGED <<streamsVars, calls, start, record, found, quoted, backend,
                    inflight, metered, taken, crashes>>

(* recordWithdrawal refuses an amount the deposit does not cover, and then the
   whole transaction is rolled back. *)
Write(n) ==
  LET total(i) == recorded[i] + record[n].amounts[i]
  IN /\ run[n] = "confirmed"
     /\ \A i \in record[n].ids : total(i) <= terms[i].deposit
     /\ recorded' = [i \in Ids |-> total(i)]
     /\ run' = [run EXCEPT ![n] = "done"]
     /\ todo' = todo \ {n}
     /\ written' = [written EXCEPT ![n] = @ + 1]
     /\ UNCHANGED <<streamsVars, calls, start, record, found, quoted, backend,
                    inflight, metered, taken, crashes>>

(* Any of these calls throws.  That the network gave no answer in time says
   nothing of what becomes of the transaction, and a record that was CONFIRMED
   is overwritten. *)
Fail(n) ==
  /\ run[n] \in {"begun", "sent", "confirmed"}
  /\ record' = [record EXCEPT ![n].status = "FAILED"]
  /\ run' = [run EXCEPT ![n] = "done"]
  /\ todo' = todo \ {n}
  /\ UNCHANGED <<streamsVars, calls, recorded, start, found, quoted, backend,
                 inflight, history>>

-----------------------------------------------------------------------------
(* Crash and recovery. *)

(* A run that has taken calls off a counter is "lost"; one that has only looked
   leaves nothing behind. *)
Crash ==
  /\ backend # "down" /\ crashes < MaxCrashes
  /\ backend' = "down"
  /\ crashes' = crashes + 1
  /\ run' = [n \in Nonces |-> IF run[n] = "found" THEN "none"
                               ELSE IF run[n] \in InProgress THEN "lost" ELSE run[n]]
  /\ found' = [n \in Nonces |-> {}]
  /\ quoted' = [n \in Nonces |-> NoAmounts]
  /\ todo' = {}
  /\ UNCHANGED <<streamsVars, tables, inflight, metered, taken, written>>

(* Mutant of Restart: the timer is started at once. *)
MutRestartUnrecovered ==
  /\ backend = "down"
  /\ backend' = "up"
  /\ UNCHANGED <<streamsVars, tables, run, found, quoted, todo, inflight, history>>

(* start() reads the PENDING records before anything else. *)
Restart ==
  /\ backend = "down"
  /\ backend' = "recovering"
  /\ todo' = {n \in Nonces : record[n].status = "PENDING"}
  /\ UNCHANGED <<streamsVars, tables, run, found, quoted, inflight, history>>

(* The oldest one is replayed under its own nonce, when the one before is through. *)
Recover(n) ==
  /\ backend = "recovering"
  /\ n \in todo /\ \A m \in todo : n <= m
  /\ run[n] \notin InProgress
  /\ run' = [run EXCEPT ![n] = "begun"]
  /\ UNCHANGED <<streamsVars, tables, found, quoted, backend, todo, inflight, history>>

EndRecovery ==
  /\ backend = "recovering" /\ todo = {}
  /\ backend' = "up"
  /\ UNCHANGED <<streamsVars, tables, run, found, quoted, todo, inflight, history>>

Chain ==
  \/ \E s \in Senders, r \in Recipients, t \in Tokens, x \in Deposits,
        rate \in Rates, d \in Durations : OpenAndIndex(s, r, t, x, rate, d)
  \/ OnChain
  \/ \E n \in Nonces : Land(n) \/ Expire(n)

Settling(n) == Begin(n) \/ Submit(n) \/ Confirm(n) \/ Write(n) \/ Fail(n)

SettlementNext ==
  \/ Chain
  \/ \E i \in Ids : MeterCall(i)
  \/ \E n \in Nonces : Find(n) \/ Take(n) \/ Settling(n) \/ Recover(n)
  \/ Crash \/ Restart \/ EndRecovery

SettlementSpec == SettlementInit /\ [][SettlementNext]_settlementVars

(* The backend is started again after a crash, a call it awaits returns or
   throws, and it goes on with what it has begun.  Nothing is assumed of the
   network or of anybody else. *)
SettlementFairness ==
  /\ WF_settlementVars(Restart) /\ WF_settlementVars(EndRecovery)
  /\ \A n \in Nonces : WF_settlementVars(Recover(n)) /\ WF_settlementVars(Settling(n))
SettlementFairSpec == SettlementSpec /\ SettlementFairness

-----------------------------------------------------------------------------
(* The tables and the process hold what their types say; in particular the
   database never records more than a stream's deposit, whichever settlements
   it adds up. *)
SettlementTypeOK ==
  /\ calls \in [Ids -> 0 .. MaxCalls] /\ metered \in [Ids -> 0 .. MaxCalls]
  /\ \A i \in Ids : recorded[i] \in 0 .. terms[i].deposit
  /\ start \in [Ids -> 0 .. MaxTime]
  /\ record \in [Nonces -> [status : {"None", "PENDING", "CONFIRMED", "FAILED"},
                            ids : SUBSET Ids, amounts : [Ids -> 0 .. MaxDeposit]]]
  /\ run \in [Nonces -> InProgress \cup {"none", "done", "lost"}]
  /\ found \in [Nonces -> SUBSET Ids]
  /\ quoted \in [Nonces -> [Ids -> 0 .. MaxDeposit]]
  /\ inflight \subseteq Nonces /\ todo \subseteq Nonces
  /\ backend \in {"up", "down", "recovering"}

(* No two runs settle the same usage: a batch that was taken holds the calls
   that made it due, and every call metered is still on its counter or belongs
   to exactly one batch - however runs overlap, and whichever of them a crash
   cuts off. *)
EachCallInOneBatch ==
  /\ \A n \in Nonces : run[n] \notin {"none", "found"} =>
       \A i \in found[n] : taken[n][i] >= Batch
  /\ \A i \in Ids :
       metered[i] = calls[i] + SumFunctionOnSet([n \in Nonces |-> taken[n][i]], Nonces)

(* A settlement is CONFIRMED only when its nonce was paid on chain, and its
   amounts are then in the streams table or about to be: only a crash between
   the two transactions loses them. *)
ConfirmedIsPaid ==
  \A n \in Nonces : record[n].status = "CONFIRMED" =>
    /\ Paid(n)
    /\ written[n] = 1 \/ run[n] \in {"confirmed", "lost"}

(* A settlement is written to the streams table at most once, and never unless
   it was paid on chain, however it was replayed. *)
WrittenOnce ==
  \A n \in Nonces : written[n] <= 1 /\ (written[n] = 1 => Paid(n))

(* A PENDING record does not stay so: if its run is cut off, recovery replays
   it.  (It may be FAILED then, which nothing takes up again.) *)
PendingIsResolved ==
  \A n \in Nonces : record[n].status = "PENDING" ~> record[n].status # "PENDING"

(* What BatchSettler says of its last step: it updates "off-chain withdrawn
   amounts to match on-chain".  On chain a stream is never paid more than it
   has earned (PausedTimeIsFree); so of one that has run without a pause the
   database should not record more than that either. *)
RecordedIsEarned ==
  \A i \in Ids : status[i] = "Active" /\ active[i] = now - start[i] =>
                   recorded[i] <= terms[i].rate * active[i]
=============================================================================
