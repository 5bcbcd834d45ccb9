---------------------------- MODULE AgentRegistry ----------------------------
(***************************************************************************)
(* The agent registry contract (contract/contracts/agent_registry/src/     *)
(* lib.rs): reputation that decays, the stake behind it, and the disputes  *)
(* that slash both.                                                        *)
(*                                                                         *)
(* An action is one entry point that succeeds.  What nothing in the contract *)
(* reads (capabilities, is_active, total_transactions) is left out.        *)
(***************************************************************************)
EXTENDS Integers, FiniteSets, FiniteSetsExt, Functions

CONSTANTS Users, Tokens, None,
          Owners, Complainants, Voters, \* those that register, complain, vote
          Admins,    \* those that may call configure
          Scores,    \* scores a vote may give, of 100
          Amounts,   \* stakes and unstakes
          Budget,    \* what each user has of each token at the start
          Default,   \* default_config
          Configs,   \* what configure may be called with
          MaxAgents, MaxDisputes, MaxTime \* bounds

Bps == 10000

(* Addresses have a fixed length.  configure refuses a negative quorum and shares
   above the whole, and lets the window and the period be 0. *)
ASSUME RegistryAssumptions ==
  /\ IsFiniteSet(Users) /\ None \notin Users \cup Tokens
  /\ Owners \cup Complainants \cup Voters \cup Admins \subseteq Users
  /\ Scores \subseteq 0 .. 100 /\ Amounts \subseteq Nat \ {0} /\ Budget \in Nat
  /\ MaxAgents \in Nat /\ MaxDisputes \in Nat /\ MaxTime \in Nat
  /\ Configs \cup {Default} \subseteq
       [slash : 0 .. Bps, window : Nat, quorum : Nat, decay : 0 .. Bps, period : Nat]

VARIABLES agent,      \* owner and stored score of each agent
          registered, \* AGENT_CNT
          scoredAt,   \* REP_TS
          rated,      \* who has given an agent a score
          stake,      \* StakeRecord of each address
          dispute,    \* Dispute records
          opened,     \* DISP_CNT
          voted,      \* VOTES: who has voted on a dispute
          met,        \* INTERACT: pairs with a count above 0
          config,     \* CONFIG
          admin,      \* ADMIN
          pool, wallet, \* balances of the contract and of the users
          now         \* ledger time

reputationVars == <<agent, registered, scoredAt, rated>>
disputeVars == <<dispute, opened, voted>>
money == <<pool, wallet>>
vars == <<reputationVars, stake, disputeVars, met, config, admin, money, now>>

AgentIds == 1 .. MaxAgents
DisputeIds == 1 .. MaxDisputes
NoAgent == [owner |-> None, score |-> 0]
NoStake == [token |-> None, amount |-> 0, slashed |-> 0]
NoDispute == [respondent |-> None, closes |-> 0, for |-> 0, against |-> 0,
              outcome |-> "None", slashed |-> 0]

Init ==
  /\ agent = [a \in AgentIds |-> NoAgent] /\ registered = 0
  /\ scoredAt = [a \in AgentIds |-> 0]
  /\ rated = {}
  /\ stake = [u \in Users |-> NoStake]
  /\ dispute = [d \in DisputeIds |-> NoDispute] /\ opened = 0
  /\ voted = [d \in DisputeIds |-> {}]
  /\ met = {}
  /\ config = Default /\ admin = None
  /\ pool = [t \in Tokens |-> 0]
  /\ wallet = [u \in Users |-> [t \in Tokens |-> Budget]]
  /\ now = 0

-----------------------------------------------------------------------------
(* Reputation. *)

(* MAX_DECAY_PERIODS is out of the reach of MaxTime. *)
DecayScore(base, elapsed) ==
  LET left[n \in Nat] == IF n = 0 THEN base ELSE (left[n - 1] * config.decay) \div Bps
  IN IF config.period = 0 THEN base ELSE left[elapsed \div config.period]

(* decayed_reputation: what a read reports. *)
Decayed(a) == DecayScore(agent[a].score, now - scoredAt[a])

Owned(u) == {a \in 1 .. registered : agent[a].owner = u}

RegisterAgent(u) ==
  /\ registered < MaxAgents
  /\ registered' = registered + 1
  /\ agent' = [agent EXCEPT ![registered + 1] = [owner |-> u, score |-> 5000]]
  /\ scoredAt' = [scoredAt EXCEPT ![registered + 1] = now]
  /\ UNCHANGED <<rated, stake, disputeVars, met, config, admin, money, now>>

(* settle_stored_reputation of some agents, with what is made of their decayed
   scores. *)
Settled(score) ==
  /\ agent' = [a \in AgentIds |-> IF a \in DOMAIN score THEN [agent[a] EXCEPT !.score = score[a]]
                                  ELSE agent[a]]
  /\ scoredAt' = [a \in AgentIds |-> IF a \in DOMAIN score THEN now ELSE scoredAt[a]]

VoteReputation(u, a, score) ==
  /\ a <= registered
  /\ agent[a].owner # u
  /\ <<u, a>> \notin rated
  /\ Settled([x \in {a} |-> (Decayed(x) * 9 + score * 100) \div 10])
  /\ rated' = rated \cup {<<u, a>>}
  /\ UNCHANGED <<registered, stake, disputeVars, met, config, admin, money, now>>

(* Mutant of SettleReputation: the clock starts again and the score stays. *)
MutSettleUndecayed(a) ==
  /\ a <= registered
  /\ scoredAt' = [scoredAt EXCEPT ![a] = now]
  /\ UNCHANGED <<agent, registered, rated, stake, disputeVars, met, config, admin, money, now>>

(* By anyone.  The part of a period that has elapsed is forgotten. *)
SettleReputation(a) ==
  /\ a <= registered
  /\ Settled([x \in {a} |-> Decayed(x)])
  /\ UNCHANGED <<registered, rated, stake, disputeVars, met, config, admin, money, now>>

-----------------------------------------------------------------------------
(* Stakes. *)

Stake(u, n, t) ==
  /\ stake[u].token \in {None, t}
  /\ wallet[u][t] >= n
  /\ stake' = [stake EXCEPT ![u].token = t, ![u].amount = @ + n]
  /\ wallet' = [wallet EXCEPT ![u][t] = @ - n]
  /\ pool' = [pool EXCEPT ![t] = @ + n]
  /\ UNCHANGED <<reputationVars, disputeVars, met, config, admin, now>>

HasOpenDispute(u) ==
  \E d \in DisputeIds : dispute[d].respondent = u /\ dispute[d].outcome = "Pending"

(* Mutant of Unstake: what is there is not compared with what is asked. *)
MutUnstakeMore(u, n) ==
  /\ ~ HasOpenDispute(u) /\ stake[u].token # None
  /\ stake' = [stake EXCEPT ![u].amount = @ - n]
  /\ wallet' = [wallet EXCEPT ![u][stake[u].token] = @ + n]
  /\ pool' = [pool EXCEPT ![stake[u].token] = @ - n]
  /\ UNCHANGED <<reputationVars, disputeVars, met, config, admin, now>>

Unstake(u, n) ==
  /\ ~ HasOpenDispute(u)
  /\ stake[u].amount >= n
  /\ stake' = [stake EXCEPT ![u].amount = @ - n]
  /\ wallet' = [wallet EXCEPT ![u][stake[u].token] = @ + n]
  /\ pool' = [pool EXCEPT ![stake[u].token] = @ - n]
  /\ UNCHANGED <<reputationVars, disputeVars, met, config, admin, now>>

(* Either party says that they have dealt with each other. *)
RecordInteraction(u, v) ==
  /\ u # v
  /\ met' = met \cup {{u, v}}
  /\ UNCHANGED <<reputationVars, stake, disputeVars, config, admin, money, now>>

-----------------------------------------------------------------------------
(* Disputes. *)

(* Mutant of OpenDispute: the respondent may have one already. *)
MutOpenSecond(c, r) ==
  /\ opened < MaxDisputes
  /\ c # r
  /\ stake[r].amount > 0
  /\ opened' = opened + 1
  /\ dispute' = [dispute EXCEPT ![opened + 1] =
                   [NoDispute EXCEPT !.respondent = r, !.closes = now + config.window,
                                     !.outcome = "Pending"]]
  /\ UNCHANGED <<reputationVars, stake, voted, met, config, admin, money, now>>

OpenDispute(c, r) ==
  /\ opened < MaxDisputes
  /\ c # r
  /\ stake[r].amount > 0
  /\ ~ HasOpenDispute(r)
  /\ opened' = opened + 1
  /\ dispute' = [dispute EXCEPT ![opened + 1] =
                   [NoDispute EXCEPT !.respondent = r, !.closes = now + config.window,
                                     !.outcome = "Pending"]]
  /\ UNCHANGED <<reputationVars, stake, voted, met, config, admin, money, now>>

(* The best of one's agents, or the neutral score if none has any left. *)
BestReputation(u) ==
  LET scores == {Decayed(a) : a \in Owned(u)}
  IN IF scores \subseteq {0} THEN 5000 ELSE Max(scores)

VotingWeight(u) == (stake[u].amount * BestReputation(u)) \div Bps

(* The weight is that of the moment; the stake behind it may leave before the
   verdict. *)
VoteDispute(u, d, guilty) ==
  /\ dispute[d].outcome = "Pending"
  /\ now < dispute[d].closes
  /\ u # dispute[d].respondent
  /\ u \notin voted[d]
  /\ {u, dispute[d].respondent} \in met
  /\ VotingWeight(u) > 0
  /\ dispute' = IF guilty THEN [dispute EXCEPT ![d].for = @ + VotingWeight(u)]
                ELSE [dispute EXCEPT ![d].against = @ + VotingWeight(u)]
  /\ voted' = [voted EXCEPT ![d] = @ \cup {u}]
  /\ UNCHANGED <<reputationVars, stake, opened, met, config, admin, money, now>>

(* By the configuration of now, not that of when it was opened. *)
Outcome(d) ==
  IF dispute[d].for + dispute[d].against < config.quorum THEN "QuorumFailed"
  ELSE IF dispute[d].for > dispute[d].against THEN "Guilty" ELSE "NotGuilty"

(* slash_stake; the tokens stay with the contract. *)
Slash(r) == (stake[r].amount * config.slash) \div Bps

(* Mutant of Taken: it is taken from the stake and not written down. *)
MutTaken(r) == [stake EXCEPT ![r].amount = @ - Slash(r)]

Taken(r) == [stake EXCEPT ![r].amount = @ - Slash(r), ![r].slashed = @ + Slash(r)]

(* Mutant of ResolveDispute: a vote without a quorum is no verdict. *)
MutResolveQuorate(d) ==
  LET r == dispute[d].respondent
      guilty == Outcome(d) = "Guilty"
  IN /\ dispute[d].outcome = "Pending" /\ Outcome(d) # "QuorumFailed"
     /\ now >= dispute[d].closes
     /\ dispute' = [dispute EXCEPT ![d].outcome = Outcome(d),
                                   ![d].slashed = IF guilty THEN Slash(r) ELSE 0]
     /\ IF guilty THEN stake' = Taken(r)
                       /\ Settled([a \in Owned(r) |-> (Decayed(a) * (Bps - config.slash)) \div Bps])
        ELSE UNCHANGED <<stake, agent, scoredAt>>
     /\ UNCHANGED <<registered, rated, opened, voted, met, config, admin, money, now>>

(* By anyone, once voting is over. *)
ResolveDispute(d) ==
  LET r == dispute[d].respondent
      guilty == Outcome(d) = "Guilty"
  IN /\ dispute[d].outcome = "Pending"
     /\ now >= dispute[d].closes
     /\ dispute' = [dispute EXCEPT ![d].outcome = Outcome(d),
                                   ![d].slashed = IF guilty THEN Slash(r) ELSE 0]
     /\ IF guilty THEN stake' = Taken(r)
                       /\ Settled([a \in Owned(r) |-> (Decayed(a) * (Bps - config.slash)) \div Bps])
        ELSE UNCHANGED <<stake, agent, scoredAt>>
     /\ UNCHANGED <<registered, rated, opened, voted, met, config, admin, money, now>>

(* The first to call becomes the administrator. *)
Configure(u, c) ==
  /\ admin \in {None, u}
  /\ admin' = u
  /\ config' = c
  /\ UNCHANGED <<reputationVars, stake, disputeVars, met, money, now>>

-----------------------------------------------------------------------------
(* Ledger time.  It goes on after MaxTime while a dispute waits for its end. *)
Tick ==
  /\ \/ now < MaxTime
     \/ \E d \in DisputeIds : dispute[d].outcome = "Pending" /\ now < dispute[d].closes
  /\ now' = now + 1
  /\ UNCHANGED <<reputationVars, stake, disputeVars, met, config, admin, money>>

Next ==
  \/ \E u \in Owners : RegisterAgent(u)
  \/ \E a \in AgentIds : \/ SettleReputation(a)
                         \/ \E u \in Voters, s \in Scores : VoteReputation(u, a, s)
  \/ \E u \in Users, n \in Amounts : Unstake(u, n) \/ \E t \in Tokens : Stake(u, n, t)
  \/ \E u \in Voters, v \in Users : RecordInteraction(u, v)
  \/ \E c \in Complainants, r \in Users : OpenDispute(c, r)
  \/ \E d \in DisputeIds : \/ ResolveDispute(d)
                           \/ \E u \in Voters, b \in BOOLEAN : VoteDispute(u, d, b)
  \/ \E u \in Admins, c \in Configs : Configure(u, c)
  \/ Tick

Spec == Init /\ [][Next]_vars

(* Ledgers keep closing, and somebody calls what anybody may call. *)
FairSpec ==
  /\ Spec
  /\ WF_vars(Tick)
  /\ \A d \in DisputeIds : WF_vars(ResolveDispute(d))

-----------------------------------------------------------------------------
RegistryTypeOK ==
  /\ registered \in 0 .. MaxAgents /\ opened \in 0 .. MaxDisputes
  /\ agent \in [AgentIds -> [owner : Users \cup {None}, score : 0 .. Bps]]
  /\ scoredAt \in [AgentIds -> 0 .. now]
  /\ rated \subseteq Users \X AgentIds
  /\ stake \in [Users -> [token : Tokens \cup {None}, amount : Nat, slashed : Nat]]
  /\ dispute \in [DisputeIds ->
       [respondent : Users \cup {None}, closes : Nat, for : Nat, against : Nat,
        outcome : {"None", "Pending", "Guilty", "NotGuilty", "QuorumFailed"},
        slashed : Nat]]
  /\ voted \in [DisputeIds -> SUBSET Users]
  /\ met \subseteq SUBSET Users
  /\ config \in Configs \cup {Default} /\ admin \in Users \cup {None}
  /\ pool \in [Tokens -> Nat] /\ wallet \in [Users -> [Tokens -> Nat]] /\ now \in Nat

(* The contract's balance of a token is the stakes in it and what the verdicts
   took from them, and a stake's record of its losses is that of the verdicts:
   stakes come and go between the vote and the verdict, and the share to be
   taken may change. *)
StakesBacked ==
  /\ \A t \in Tokens :
       pool[t] = SumFunctionOnSet(
         [u \in Users |-> IF stake[u].token = t THEN stake[u].amount + stake[u].slashed ELSE 0],
         Users)
  /\ \A u \in Users :
       stake[u].slashed = SumFunctionOnSet(
         [d \in DisputeIds |-> IF dispute[d].respondent = u THEN dispute[d].slashed ELSE 0],
         DisputeIds)

(* The stake of a respondent does not fall while a dispute against it is open:
   only the verdict of that dispute ends the protection, and takes its share. *)
DisputedStakeStays ==
  [][\A d \in DisputeIds :
       LET r == dispute[d].respondent
       IN dispute[d].outcome = "Pending" =>
            \/ stake'[r].amount >= stake[r].amount
            \/ /\ dispute'[d].outcome = "Guilty"
               /\ stake'[r].amount = stake[r].amount - Slash(r)]_vars

(* What a read reports of an agent rises only when the agent is voted for or the
   rate of decay is changed: settling, at whatever moment and by whomever, and
   the penalty of a verdict never bring a decayed score back. *)
ScoresOnlyFall ==
  [][\A a \in 1 .. registered :
       rated' = rated /\ config' = config => Decayed(a)' <= Decayed(a)]_vars

(* Every dispute is resolved in the end, with or without a quorum; until then
   the respondent cannot withdraw. *)
DisputeResolves ==
  \A d \in DisputeIds : dispute[d].outcome = "Pending" ~> dispute[d].outcome # "Pending"
=============================================================================
