------------------------------- MODULE Streams -------------------------------
(***************************************************************************)
(* The streaming half of the micropayments contract                        *)
(* (contract/contracts/micropayments/src/lib.rs): time streams, which pay  *)
(* by the second until they are used up, cancelled or over; usage streams, *)
(* which pay what their sender accrues; and batch_settle with its nonces.  *)
(* One transaction is one atomic step.                                     *)
(*                                                                         *)
(* Money is counted in units.  A step that pays for several streams at     *)
(* once pays the units of the set Due.                                     *)
(***************************************************************************)
EXTENDS Integers, FiniteSets

CONSTANTS Parties,    \* addresses
          Senders,    \* those that open streams
          Recipients, \* those that streams are opened for
          Tokens,     \* token contracts
          Nonces,     \* batch nonces
          None,       \* "not on record"
          Rates,      \* rates that get used
          Durations,  \* durations that get used
          Deposits,   \* deposits that get used
          MaxDeposit, \* the largest of them
          Budget,     \* what each party owns of each token at first
          MaxStreams, \* bound: time streams opened
          MaxUsage,   \* bound: usage streams opened
          MaxTime     \* bound: ledger timestamps

Ids == 1 .. MaxStreams
UsageIds == 1 .. MaxUsage

(* UsageStream, without its id; it is Completed when settled reaches deposit. *)
UsageStreams == [sender : Parties, recipient : Parties, token : Tokens,
                 deposit : 1 .. MaxDeposit, accrued : 0 .. MaxDeposit,
                 settled : 0 .. MaxDeposit]

ASSUME StreamAssumptions ==
  /\ None \notin Parties /\ None \notin Tokens /\ None \notin UsageStreams
  /\ Senders \subseteq Parties /\ Recipients \subseteq Parties
  /\ Rates \subseteq Nat \ {0} /\ Durations \subseteq Nat \ {0}
  /\ MaxDeposit \in Nat /\ Deposits \subseteq 1 .. MaxDeposit
  /\ Budget \in Nat /\ MaxStreams \in Nat /\ MaxUsage \in Nat /\ MaxTime \in Nat

VARIABLES opened,      \* S_CNT
          terms,       \* the fields of a PaymentStream fixed at opening
          status,      \* its status, "Absent" before open_stream
          withdrawn,   \* its withdrawn
          lastSettled, \* its last_settled
          settlements, \* NONCE_REG: recipient, nonce -> cached amounts
          usage,       \* the UsageStreams; US_CNT is how many are not None
          escrow,      \* the contract's balance of each token
          wallet,      \* everyone else's balance of each token
          now,         \* ledger timestamp
          active       \* history: seconds each stream has been Active

streamVars == <<opened, terms, status, withdrawn, lastSettled>>
streamsVars == <<streamVars, settlements, usage, escrow, wallet, now, active>>

NoTerms == [sender |-> None, recipient |-> None, token |-> None,
            deposit |-> 0, rate |-> 0, end_time |-> 0]

StreamsInit ==
  /\ opened = 0
  /\ terms = [i \in Ids |-> NoTerms]
  /\ status = [i \in Ids |-> "Absent"]
  /\ withdrawn = [i \in Ids |-> 0]
  /\ lastSettled = [i \in Ids |-> 0]
  /\ settlements = [r \in Parties |-> [n \in Nonces |-> None]]
  /\ usage = [i \in UsageIds |-> None]
  /\ escrow = [t \in Tokens |-> 0]
  /\ wallet = [t \in Tokens |-> [p \in Parties |-> Budget]]
  /\ now = 0
  /\ active = [i \in Ids |-> 0]

Remaining(i) == terms[i].deposit - withdrawn[i]
Earned(i) == (now - lastSettled[i]) * terms[i].rate

(* end_time does not bound it: a stream goes on earning until it is settled. *)
Claimable(i) == IF status[i] # "Active" THEN 0
                ELSE IF Earned(i) > Remaining(i) THEN Remaining(i) ELSE Earned(i)

(* p pays x of token t into the contract. *)
Deposit(p, t, x) == /\ wallet[t][p] >= x
                    /\ wallet' = [wallet EXCEPT ![t][p] = @ - x]
                    /\ escrow' = [escrow EXCEPT ![t] = @ + x]

(* The contract pays x of token t to p. *)
Transfer(p, t, x) == /\ wallet' = [wallet EXCEPT ![t][p] = @ + x]
                     /\ escrow' = [escrow EXCEPT ![t] = @ - x]

(* The balances of one token after p received x of it. *)
Credit(balances, p, x) == [balances EXCEPT ![p] = @ + x]

-----------------------------------------------------------------------------
(* Usage streams. *)
Open(s, r, t, x) ==
  \E i \in UsageIds :
    /\ usage[i] = None /\ \A j \in 1 .. i - 1 : usage[j] # None
    /\ Deposit(s, t, x)
    /\ usage' = [usage EXCEPT ![i] = [sender |-> s, recipient |-> r, token |-> t,
                                      deposit |-> x, accrued |-> 0, settled |-> 0]]
    /\ UNCHANGED <<streamVars, settlements, now, active>>

(* Mutant of Increment: what has been settled counts a second time. *)
MutIncrementPastDeposit(i, x) ==
  /\ usage[i] # None
  /\ usage[i].settled < usage[i].deposit
  /\ usage[i].accrued - usage[i].settled + x <= usage[i].deposit
  /\ usage' = [usage EXCEPT ![i].accrued = @ + x]
  /\ UNCHANGED <<streamVars, settlements, escrow, wallet, now, active>>

Increment(i, x) ==
  /\ usage[i] # None
  /\ usage[i].settled < usage[i].deposit
  /\ usage[i].accrued + x <= usage[i].deposit
  /\ usage' = [usage EXCEPT ![i].accrued = @ + x]
  /\ UNCHANGED <<streamVars, settlements, escrow, wallet, now, active>>

Settle(i) ==
  /\ usage[i] # None
  /\ usage[i].accrued > usage[i].settled
  /\ Transfer(usage[i].recipient, usage[i].token, usage[i].accrued - usage[i].settled)
  /\ usage' = [usage EXCEPT ![i].settled = usage[i].accrued]
  /\ UNCHANGED <<streamVars, settlements, now, active>>

-----------------------------------------------------------------------------
(* Time streams.  Bound: none is opened whose end would lie past MaxTime. *)
OpenStream(s, r, t, x, rate, duration) ==
  LET i == opened + 1
  IN /\ opened < MaxStreams
     /\ now + duration <= MaxTime
     /\ Deposit(s, t, x)
     /\ opened' = i
     /\ terms' = [terms EXCEPT ![i] =
                    [sender |-> s, recipient |-> r, token |-> t, deposit |-> x,
                     rate |-> rate, end_time |-> now + duration]]
     /\ status' = [status EXCEPT ![i] = "Active"]
     /\ lastSettled' = [lastSettled EXCEPT ![i] = now]
     /\ UNCHANGED <<withdrawn, settlements, usage, now, active>>

(* The units of token t that settling the streams S pays. *)
Due(t, S) == {u \in S \X (1 .. MaxDeposit) :
                /\ terms[u[1]].token = t
                /\ u[2] > withdrawn[u[1]]
                /\ u[2] <= withdrawn[u[1]] + Claimable(u[1])}

(* Mutant of Completes: nothing does. *)
MutCompletesNever(i) == FALSE

Completes(i) == \/ withdrawn[i] + Claimable(i) >= terms[i].deposit
                \/ now >= terms[i].end_time

(* The recipient r is paid what the streams S owe it now; a stream that owes
   nothing is left as it is, even past its end. *)
SettleAll(r, S) ==
  LET paid == {i \in S : Claimable(i) > 0}
  IN /\ wallet' = [t \in Tokens |->
                     [wallet[t] EXCEPT ![r] = @ + Cardinality(Due(t, S))]]
     /\ escrow' = [t \in Tokens |-> escrow[t] - Cardinality(Due(t, S))]
     /\ withdrawn' = [i \in Ids |-> IF i \in paid THEN withdrawn[i] + Claimable(i)
                                    ELSE withdrawn[i]]
     /\ lastSettled' = [i \in Ids |-> IF i \in paid THEN now ELSE lastSettled[i]]
     /\ status' = [i \in Ids |-> IF i \in paid /\ Completes(i) THEN "Completed"
                                 ELSE status[i]]
     /\ UNCHANGED <<opened, terms, usage, now, active>>

Withdraw(i) ==
  /\ Claimable(i) > 0
  /\ SettleAll(terms[i].recipient, {i})
  /\ UNCHANGED settlements

(* A nonce on record returns its cached amounts and changes nothing.  Ids that
   were never opened settle for 0; an id listed again has nothing left to pay,
   and its cached amount is overwritten by 0. *)
BatchSettle(r, S, repeated, n) ==
  /\ settlements[r][n] = None
  /\ \A i \in S : status[i] # "Absent" => terms[i].recipient = r
  /\ SettleAll(r, S)
  /\ settlements' = [settlements EXCEPT ![r][n] =
       [i \in S |-> IF i \in repeated THEN 0 ELSE Claimable(i)]]

(* Mutant of CancelStream: the refund leaves out what was withdrawn before. *)
MutCancelRefundsDeposit(i) ==
  LET earned == Claimable(i)
      refund == terms[i].deposit - earned
      t == terms[i].token
  IN /\ status[i] \in {"Active", "Paused"}
     /\ wallet' = [wallet EXCEPT ![t] = Credit(Credit(wallet[t], terms[i].recipient, earned),
                                               terms[i].sender, refund)]
     /\ escrow' = [escrow EXCEPT ![t] = @ - (earned + refund)]
     /\ withdrawn' = [withdrawn EXCEPT ![i] = @ + earned]
     /\ status' = [status EXCEPT ![i] = "Cancelled"]
     /\ UNCHANGED <<opened, terms, lastSettled, settlements, usage, now, active>>

(* What is claimable goes to the recipient - nothing, while Paused - and the
   rest of the deposit back to the sender. *)
CancelStream(i) ==
  LET earned == Claimable(i)
      refund == Remaining(i) - earned
      t == terms[i].token
  IN /\ status[i] \in {"Active", "Paused"}
     /\ wallet' = [wallet EXCEPT ![t] = Credit(Credit(wallet[t], terms[i].recipient, earned),
                                               terms[i].sender, refund)]
     /\ escrow' = [escrow EXCEPT ![t] = @ - (earned + refund)]
     /\ withdrawn' = [withdrawn EXCEPT ![i] = @ + earned]
     /\ status' = [status EXCEPT ![i] = "Cancelled"]
     /\ UNCHANGED <<opened, terms, lastSettled, settlements, usage, now, active>>

(* What has accrued is not settled, and resuming drops it. *)
PauseStream(i) ==
  /\ status[i] = "Active"
  /\ status' = [status EXCEPT ![i] = "Paused"]
  /\ UNCHANGED <<opened, terms, withdrawn, lastSettled, settlements, usage,
                 escrow, wallet, now, active>>

(* Mutant of ResumeStream: the accrual clock is not restarted. *)
MutResumeKeepsClock(i) ==
  /\ status[i] = "Paused"
  /\ now < MaxTime
  /\ status' = [status EXCEPT ![i] = "Active"]
  /\ UNCHANGED <<opened, terms, withdrawn, lastSettled, settlements, usage,
                 escrow, wallet, now, active>>

(* Bound: not in the last second, after which nothing more accrues. *)
ResumeStream(i) ==
  /\ status[i] = "Paused"
  /\ now < MaxTime
  /\ status' = [status EXCEPT ![i] = "Active"]
  /\ lastSettled' = [lastSettled EXCEPT ![i] = now]
  /\ UNCHANGED <<opened, terms, withdrawn, settlements, usage, escrow, wallet,
                 now, active>>

(* A second passes. *)
Second == /\ now < MaxTime
          /\ now' = now + 1
          /\ active' = [i \in Ids |-> IF status[i] = "Active" THEN active[i] + 1
                                      ELSE active[i]]
          /\ UNCHANGED <<streamVars, settlements, usage, escrow, wallet>>

StreamsNext ==
  \/ \E s \in Senders, r \in Recipients, t \in Tokens, x \in Deposits :
       \/ Open(s, r, t, x)
       \/ \E rate \in Rates, d \in Durations : OpenStream(s, r, t, x, rate, d)
  \/ \E i \in UsageIds : Settle(i) \/ \E x \in 1 .. MaxDeposit : Increment(i, x)
  \/ \E i \in Ids : Withdraw(i) \/ CancelStream(i) \/ PauseStream(i) \/ ResumeStream(i)
  \/ \E r \in Recipients, S \in SUBSET Ids, n \in Nonces :
       \E repeated \in SUBSET S : BatchSettle(r, S, repeated, n)
  \/ Second

StreamsSpec == StreamsInit /\ [][StreamsNext]_streamsVars

(* Ledgers keep closing, and a recipient who is owed money withdraws it. *)
StreamsFairness == /\ WF_streamsVars(Second)
                   /\ \A i \in Ids : WF_streamsVars(Withdraw(i))
StreamsFairSpec == StreamsSpec /\ StreamsFairness

-----------------------------------------------------------------------------
StreamsRecordsOK ==
  /\ opened \in 0 .. MaxStreams
  /\ terms \in [Ids -> [sender : Parties \cup {None}, recipient : Parties \cup {None},
                        token : Tokens \cup {None}, deposit : 0 .. MaxDeposit,
                        rate : Nat, end_time : Nat]]
  /\ status \in [Ids -> {"Absent", "Active", "Paused", "Completed", "Cancelled"}]
  /\ withdrawn \in [Ids -> 0 .. MaxDeposit]
  /\ lastSettled \in [Ids -> Nat]
  /\ usage \in [UsageIds -> UsageStreams \cup {None}]
  /\ \A i \in UsageIds : usage[i] # None =>
       usage[i].settled <= usage[i].accrued /\ usage[i].accrued <= usage[i].deposit
  /\ now \in 0 .. MaxTime
  /\ wallet \in [Tokens -> [Parties -> Nat]]

(* The records have their types, a usage stream settles no more than it accrued
   and accrues no more than its deposit, and no balance is negative. *)
StreamsTypeOK == StreamsRecordsOK /\ escrow \in [Tokens -> Nat]

(* The units of token t the contract holds for its streams.  A Completed stream
   keeps what it never paid: no entry point gives that back. *)
HeldFor(t) == {u \in Ids \X (1 .. MaxDeposit) :
                 /\ status[u[1]] \notin {"Absent", "Cancelled"}
                 /\ terms[u[1]].token = t
                 /\ withdrawn[u[1]] < u[2] /\ u[2] <= terms[u[1]].deposit}
HeldForUsage(t) == {u \in UsageIds \X (1 .. MaxDeposit) :
                      /\ usage[u[1]] # None
                      /\ usage[u[1]].token = t
                      /\ usage[u[1]].settled < u[2] /\ u[2] <= usage[u[1]].deposit}

(* All streams of a token are paid from one balance, and it is exactly what
   they have not yet paid: withdrawals, batches and cancellations in any order
   never spend the deposit of another stream. *)
PoolBacked ==
  \A t \in Tokens :
    escrow[t] = Cardinality(HeldFor(t)) + Cardinality(HeldForUsage(t))

(* The sender pays for the seconds a stream was Active and for no others,
   however it was paused, resumed and settled in between, and whether or not it
   ran past its end. *)
PausedTimeIsFree ==
  \A i \in Ids : withdrawn[i] <= terms[i].rate * active[i]

(* A recipient who keeps withdrawing brings every running stream to an end,
   unless its sender pauses or cancels it. *)
StreamEnds == \A i \in Ids : status[i] = "Active" ~> status[i] # "Active"
=============================================================================
