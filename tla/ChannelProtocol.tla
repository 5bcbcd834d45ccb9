---------------------------- MODULE ChannelProtocol ----------------------------
(***************************************************************************)
(* One open channel from both ends: the two ChannelNegotiators with their  *)
(* RevocationStores, the messages between them, the watchtower they share  *)
(* with its ChannelMonitor, and the contract of module Channels, which     *)
(* each party may call with any dual-signed state it has held.             *)
(*                                                                         *)
(* The transport may lose, duplicate and reorder: a message sent stays in  *)
(* "sent", and is delivered any number of times, or never.                 *)
(***************************************************************************)
EXTENDS Channels

CONSTANTS AddrA, AddrB,  \* the parties' addresses
          Token,         \* the channel's token
          KeyA, KeyB,    \* their registered keys
          DepositA, DepositB,
          Splits         \* the pairs of balances that get proposed

Sides == {"a", "b"}
Other(p) == IF p = "a" THEN "b" ELSE "a"
Addr(p) == IF p = "a" THEN AddrA ELSE AddrB

(* open_channel wants a deposit that is not zero, and null is no state.  The one
   channel is ch; its secrets are <<p, v>>, generated by p for version v. *)
ch == 1

ASSUME ProtocolAssumptions ==
  /\ AddrA \in Parties /\ AddrB \in Parties /\ AddrA # AddrB
  /\ Token \in Tokens /\ KeyA \in Keys /\ KeyB \in Keys
  /\ Sides \X (0 .. MaxVersion) \subseteq Secrets
  /\ DepositA \in 0 .. MaxDeposit /\ DepositB \in 0 .. MaxDeposit
  /\ DepositA + DepositB > 0
  /\ Splits \subseteq (0 .. MaxBalance) \X (0 .. MaxBalance)
  /\ MaxChannels >= 1 /\ None \notin ChannelStates

VARIABLES current,  \* currentState of each negotiator
          flight,   \* _pending of each negotiator
          store,    \* RevocationStore of each party: slot -> status
          sent,     \* messages sent
          held,     \* the dual-signed states each party has held
          blobs,    \* Watchtower._blobs
          revoked,  \* revokedStates returned and not yet registered
          polling,  \* the close event is at or after the monitor's cursor
          jobs      \* punish calls the monitor has under way

protocolVars == <<current, flight, store, sent, held, blobs, revoked, polling, jobs>>
handshakeRest == <<blobs, polling, jobs, vars>>
allVars == <<protocolVars, vars>>

Slots == Sides \X (0 .. MaxVersion)

(* createState; both signatures are the keys'. *)
StateFor(v, split) ==
  [channel_id |-> ch, version |-> v,
   balance_a |-> split[1], balance_b |-> split[2],
   commit_a |-> <<"a", v>>, commit_b |-> <<"b", v>>,
   key_a |-> KeyA, key_b |-> KeyB]

States == {StateFor(v, split) : v \in 1 .. MaxVersion, split \in Splits}

(* currentState's version, 0 before the first negotiation. *)
VersionOf(p) == IF current[p] = None THEN 0 ELSE current[p].version

(* The slots p revokes by moving on from its current state. *)
Superseded(p) == IF current[p] = None THEN {} ELSE {<<p, current[p].version>>}

(* commit and recordCommitment fill slots, reveal and recordRevealedSecret
   mark them revealed. *)
Record(p, committed, revealed) ==
  store' = [store EXCEPT ![p] = [slot \in Slots |->
              IF slot \in revealed THEN "revealed"
              ELSE IF slot \in committed THEN "committed" ELSE @[slot]]]

(* open_channel has just succeeded. *)
ChannelOpened ==
  /\ pubkey = [x \in Parties |-> IF x = AddrA THEN KeyA
                                 ELSE IF x = AddrB THEN KeyB ELSE None]
  /\ nextId = ch
  /\ status = [c \in Ids |-> IF c = ch THEN "Open" ELSE "Absent"]
  /\ channel = [c \in Ids |->
                  IF c = ch
                  THEN [party_a |-> AddrA, party_b |-> AddrB, token |-> Token,
                        deposit_a |-> DepositA, deposit_b |-> DepositB]
                  ELSE NoChannel]
  /\ pending = [c \in Ids |-> NoPending]
  /\ escrow = [t \in Tokens |-> IF t = Token THEN DepositA + DepositB ELSE 0]
  /\ wallet = [t \in Tokens |-> [x \in Parties |-> 0]]
  /\ now = 0

ProtocolInit ==
  /\ ChannelOpened
  /\ current = [p \in Sides |-> None]
  /\ flight = [p \in Sides |-> None]
  /\ store = [p \in Sides |-> [slot \in Slots |-> "empty"]]
  /\ sent = {}
  /\ held = [p \in Sides |-> {}]
  /\ blobs = {}
  /\ revoked = [p \in Sides |-> {}]
  /\ polling = TRUE
  /\ jobs = {}

-----------------------------------------------------------------------------
(* The handshake.  Bound: no round goes on once the channel is closed. *)
Ongoing == status[ch] # "Closed"

Send(m) == sent' = sent \cup {m}

(* payInChannel and propose(). *)
Propose(p, split) ==
  LET v == VersionOf(p) + 1
  IN /\ Ongoing
     /\ v <= MaxVersion
     /\ flight[p] = None
     /\ store[p][<<p, v>>] = "empty"
     /\ Record(p, {<<p, v>>}, {})
     /\ flight' = [flight EXCEPT ![p] = [role |-> "proposer", state |-> StateFor(v, split)]]
     /\ Send([type |-> "proposal", from |-> p, state |-> StateFor(v, split)])
     /\ UNCHANGED <<current, held, revoked, handshakeRest>>

(* Mutant of CounterSign: a proposal in the other direction is signed without
   regard to the commitments on record or to the round p itself has under way. *)
MutCounterSignBeside(p, m) ==
  LET v == m.state.version
  IN /\ Ongoing
     /\ m.type = "proposal" /\ m.from = Other(p)
     /\ v > VersionOf(p)
     /\ Send([type |-> "counterSignature", from |-> p, state |-> m.state])
     /\ UNCHANGED <<current, flight, store, held, revoked, handshakeRest>>

(* counterSign(): it replaces whatever round p has under way. *)
CounterSign(p, m) ==
  LET v == m.state.version
  IN /\ Ongoing
     /\ m.type = "proposal" /\ m.from = Other(p)
     /\ v > VersionOf(p)
     /\ store[p][<<m.from, v>>] = "empty"
     /\ store[p][<<p, v>>] = "empty"
     /\ Record(p, Sides \X {v}, {})
     /\ flight' = [flight EXCEPT ![p] = [role |-> "counterparty", state |-> m.state]]
     /\ Send([type |-> "counterSignature", from |-> p, state |-> m.state])
     /\ UNCHANGED <<current, held, revoked, handshakeRest>>

(* counterSign() throws in commit(): p has committed to this version itself,
   and the proposer's commitment is already on record. *)
CounterSignThrows(p, m) ==
  LET v == m.state.version
  IN /\ Ongoing
     /\ m.type = "proposal" /\ m.from = Other(p)
     /\ v > VersionOf(p)
     /\ store[p][<<m.from, v>>] = "empty"
     /\ store[p][<<p, v>>] # "empty"
     /\ Record(p, {<<m.from, v>>}, {})
     /\ UNCHANGED <<current, flight, sent, held, revoked, handshakeRest>>

(* Mutant of MoveTo: a first round too hands back a state it left. *)
MutMoveToFirst(p, s, kind) ==
  /\ current' = [current EXCEPT ![p] = s]
  /\ held' = [held EXCEPT ![p] = @ \cup {s}]
  /\ flight' = [flight EXCEPT ![p] = None]
  /\ revoked' = [revoked EXCEPT ![p] = @ \cup {current[p]}]
  /\ Send([type |-> kind, from |-> p, state |-> s, revealed |-> Superseded(p)])

(* ack() and complete() both end so: p reveals its own secret for the version
   it leaves, holds state s from now on, and hands back the state it left. *)
MoveTo(p, s, kind) ==
  /\ current' = [current EXCEPT ![p] = s]
  /\ held' = [held EXCEPT ![p] = @ \cup {s}]
  /\ flight' = [flight EXCEPT ![p] = None]
  /\ revoked' = [revoked EXCEPT ![p] = IF current[p] = None THEN @ ELSE @ \cup {current[p]}]
  /\ Send([type |-> kind, from |-> p, state |-> s, revealed |-> Superseded(p)])

(* Mutant of Ack: it reveals the version it has just agreed to. *)
MutAckRevealsNew(p, m) ==
  LET v == m.state.version
  IN /\ Ongoing
     /\ m.type = "counterSignature" /\ m.from = Other(p)
     /\ flight[p] # None /\ flight[p].role = "proposer" /\ flight[p].state = m.state
     /\ store[p][<<m.from, v>>] = "empty"
     /\ Record(p, {<<m.from, v>>}, {<<p, v>>})
     /\ MoveTo(p, m.state, "ack")
     /\ UNCHANGED handshakeRest

(* ack(): the counter-signature verifies over the state p assembles itself. *)
Ack(p, m) ==
  /\ Ongoing
  /\ m.type = "counterSignature" /\ m.from = Other(p)
  /\ flight[p] # None /\ flight[p].role = "proposer"
  /\ flight[p].state = m.state
  /\ store[p][<<m.from, m.state.version>>] = "empty"
  /\ Record(p, {<<m.from, m.state.version>>}, Superseded(p))
  /\ MoveTo(p, m.state, "ack")
  /\ UNCHANGED handshakeRest

(* recordRevealedSecret: the secret must open a commitment on record. *)
Recordable(p, m) == \A slot \in m.revealed : store[p][slot] # "empty"

(* Mutant of Complete: only the very next version will do. *)
MutCompleteInStep(p, m) ==
  /\ Ongoing
  /\ m.type = "ack" /\ m.from = Other(p)
  /\ flight[p] # None /\ flight[p].role = "counterparty"
  /\ m.state.version = flight[p].state.version
  /\ m.state.version = VersionOf(p) + 1
  /\ Recordable(p, m)
  /\ Record(p, {}, m.revealed \cup Superseded(p))
  /\ MoveTo(p, m.state, "completion")
  /\ UNCHANGED handshakeRest

(* complete() *)
Complete(p, m) ==
  /\ Ongoing
  /\ m.type = "ack" /\ m.from = Other(p)
  /\ flight[p] # None /\ flight[p].role = "counterparty"
  /\ m.state.version = flight[p].state.version
  /\ Recordable(p, m)
  /\ Record(p, {}, m.revealed \cup Superseded(p))
  /\ MoveTo(p, m.state, "completion")
  /\ UNCHANGED handshakeRest

(* finalize() *)
Finalize(p, m) ==
  /\ Ongoing
  /\ m.type = "completion" /\ m.from = Other(p)
  /\ Recordable(p, m)
  /\ Record(p, {}, m.revealed)
  /\ UNCHANGED <<current, flight, sent, held, revoked, handshakeRest>>

-----------------------------------------------------------------------------
(* The contract, as the parties call it. *)

(* closeChannel, cooperative: the current state's two signatures are consent. *)
SubmitClose(p) == /\ current[p] # None
                  /\ CloseCooperative(ch, current[p])
                  /\ UNCHANGED protocolVars

(* closeChannel, unilateral: with the current state, or with a stale one. *)
StartClose(p, s) == CloseUnilateral(Addr(p), ch, s) /\ UNCHANGED protocolVars

(* The party notices a close that it can correct. *)
Correct(p, s) == Dispute(Addr(p), ch, s) /\ UNCHANGED protocolVars

(* Mutant of ProofOf: revealedSecretFor forgets to ask whether the secret was
   revealed, and p's own unrevealed one turns up. *)
MutProofUnrevealed(p) == {slot \in Slots : /\ slot[2] = pending[ch].version
                                           /\ slot[1] = p
                                           /\ store[p][slot] # "empty"}

(* FraudProofBuilder.build: either party's secret will do. *)
ProofOf(p) == {slot \in Slots : /\ slot[2] = pending[ch].version
                                /\ store[p][slot] = "revealed"}

Prosecute(p) == /\ \E secret \in ProofOf(p) : Punish(Addr(p), ch, secret)
                /\ UNCHANGED protocolVars

Finalise == ForceClose(ch) /\ UNCHANGED protocolVars
LedgerCloses == status[ch] = "Closing" /\ Tick /\ UNCHANGED protocolVars

-----------------------------------------------------------------------------
(* registerWatchtower: one blob for each state, the last one registered. *)
RegisterWatchtower(p, s) ==
  /\ Ongoing
  /\ s \in revoked[p]
  /\ blobs' = {b \in blobs : b.state # s} \cup
              {[state |-> s, challenger |-> Addr(p), secret |-> <<p, s.version>>]}
  /\ revoked' = [revoked EXCEPT ![p] = @ \ {s}]
  /\ UNCHANGED <<current, flight, store, sent, held, polling, jobs, vars>>

(* findJustice for the pending close. *)
Justice == {b \in blobs :
              RestingOn(pending[ch].closer, pending[ch].deadline, b.state) = pending[ch]}

(* poll() meets the UNILATERAL_CLOSE event and processUnilateralClose looks the
   pending close up.  A later event of the contract moves the cursor past it. *)
Poll == /\ polling
        /\ status[ch] = "Closing"
        /\ jobs' = jobs \cup Justice
        /\ polling' \in BOOLEAN
        /\ UNCHANGED <<current, flight, store, sent, held, blobs, revoked, vars>>

(* The punish call processUnilateralClose has made lands. *)
MonitorPunishes(b) == /\ Punish(b.challenger, ch, b.secret)
                      /\ jobs' = jobs \ {b}
                      /\ UNCHANGED <<current, flight, store, sent, held, blobs,
                                     revoked, polling>>

(* Or is rejected, and poll() only logs that. *)
MonitorFails(b) ==
  /\ \/ status[ch] # "Closing"
     \/ b.challenger = pending[ch].closer
     \/ b.secret \notin {pending[ch].commit_a, pending[ch].commit_b}
  /\ jobs' = jobs \ {b}
  /\ UNCHANGED <<current, flight, store, sent, held, blobs, revoked, polling, vars>>

Deliver(p, m) == \/ CounterSign(p, m) \/ CounterSignThrows(p, m)
                 \/ Ack(p, m) \/ Complete(p, m) \/ Finalize(p, m)

ProtocolNext ==
  \/ \E p \in Sides :
       \/ \E split \in Splits : Propose(p, split)
       \/ \E m \in sent : Deliver(p, m)
       \/ SubmitClose(p)
       \/ \E s \in held[p] : StartClose(p, s) \/ Correct(p, s)
       \/ Prosecute(p)
       \/ \E s \in revoked[p] : RegisterWatchtower(p, s)
  \/ Finalise
  \/ LedgerCloses
  \/ Poll
  \/ \E b \in jobs : MonitorPunishes(b) \/ MonitorFails(b)

ProtocolSpec == ProtocolInit /\ [][ProtocolNext]_allVars

(* The parties' transport retries: a message is delivered as long as its
   receiver would accept it. *)
DeliveryFairness == \A p \in Sides : WF_allVars(\E m \in sent : Deliver(p, m))
ProtocolFairSpec == ProtocolSpec /\ DeliveryFairness

-----------------------------------------------------------------------------
Entries == {"empty", "committed", "revealed"}

(* The negotiators hold states of this channel, and the slots, messages, blobs
   and jobs are about versions that have been proposed. *)
ProtocolTypeOK ==
  /\ current \in [Sides -> States \cup {None}]
  /\ \A p \in Sides : flight[p] = None \/ (/\ flight[p].role \in {"proposer", "counterparty"}
                                          /\ flight[p].state \in States)
  /\ store \in [Sides -> [Slots -> Entries]]
  /\ \A m \in sent : m.from \in Sides /\ m.state \in States
  /\ held \in [Sides -> SUBSET States] /\ revoked \in [Sides -> SUBSET States]
  /\ jobs \cup blobs \subseteq [state : States, challenger : {AddrA, AddrB}, secret : Slots]
  /\ polling \in BOOLEAN

(* Whatever messages are lost, repeated or cross each other, the parties never
   both sign two different states of one version: version numbers alone decide
   a dispute, so two such states could not be told apart on chain. *)
OneStatePerVersion ==
  \A s, t \in held["a"] \cup held["b"] : s.version = t.version => s = t

(* Someone can always close in safety: the latest state a party has moved to
   has not been revoked by anybody, in either party's records. *)
LatestIsSafe ==
  \A p \in Sides :
    current[p] # None /\ VersionOf(p) >= VersionOf(Other(p)) =>
      \A q, r \in Sides : store[q][<<r, VersionOf(p)>>] # "revealed"

(* The side a step pays the whole channel to. *)
Paid(p) == wallet'[Token][Addr(p)] = wallet[Token][Addr(p)] + Total(ch)

(* A punishment - by the party itself or by the monitor acting on a look-up
   that a dispute has overtaken - only ever hits a close at a version the
   punisher itself has moved past. *)
PunishedVersionIsPast ==
  [][\A p \in Sides : Paid(p) => pending[ch].version < VersionOf(p)]_allVars

(* When the transport retries, a party left behind by a lost ack catches up
   with what its counterparty has moved to, unless the channel closes first. *)
LaggardCatchesUp ==
  \A p \in Sides, v \in 1 .. MaxVersion :
    VersionOf(p) = v ~> (VersionOf(Other(p)) >= v \/ ~Ongoing)

(* punish's promise that the close it punishes "rests on a version both
   parties already moved past". *)
PunishedVersionIsPastForBoth ==
  [][\A p \in Sides : Paid(p) =>
       \A q \in Sides : pending[ch].version < VersionOf(q)]_allVars
=============================================================================
