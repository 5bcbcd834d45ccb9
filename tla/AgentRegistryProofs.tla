------------------------- MODULE AgentRegistryProofs -------------------------
(***************************************************************************)
(* Theorems about the agent registry, for every value of the constants.    *)
(*                                                                         *)
(* Reputation: the decay of a score, a recursive function, is shown to     *)
(* exist and never to rise with the periods that have elapsed, so that it  *)
(* matters to no score when somebody settles it.  Stakes: with at most one *)
(* open dispute to a respondent, the balances follow from what each step   *)
(* does to one term of a sum.                                              *)
(***************************************************************************)
EXTENDS AgentRegistry, SumLemmas, TLAPS

-----------------------------------------------------------------------------
(* Decay. *)

(* Fade(x, k): a share of k out of Bps of x. *)
Fade(x, k) == (x * k) \div Bps

(* A share of a number is a number no greater. *)
LEMMA ShareBounds ==
  ASSUME NEW x \in Nat, NEW k \in 0 .. Bps
  PROVE  (x * k) \div Bps \in 0 .. x
<1>1. x * k \in Nat
  OBVIOUS
<1>2. x * k <= x * Bps
  <2>1. PICK y \in Nat : k + y = Bps
    <3>1. Bps - k \in Nat /\ k + (Bps - k) = Bps
      BY DEF Bps
    <3> QED
      BY <3>1
  <2>2. x * y \in Nat
    BY <2>1
  <2>3. x * (k + y) = x * k + x * y
    BY <2>1
  <2> QED
    BY <1>1, <2>1, <2>2, <2>3
<1>3. \A z \in Nat : z <= x * Bps => z \div Bps \in 0 .. x
  BY DEF Bps
<1> QED
  BY <1>1, <1>2, <1>3

(* The same of Fade. *)
LEMMA FadeBounds ==
  ASSUME NEW x \in Nat, NEW k \in 0 .. Bps
  PROVE  Fade(x, k) \in 0 .. x
BY ShareBounds DEF Fade

(* left follows the recursion of DecayScore as far as n. *)
FadesTo(left, n, base, k) ==
  \A m \in 0 .. n : left[m] = IF m = 0 THEN base ELSE Fade(left[m - 1], k)
Fades(left, base, k) ==
  left = [n \in Nat |-> IF n = 0 THEN base ELSE Fade(left[n - 1], k)]

(* Two functions that follow it as far as n agree as far as n. *)
LEMMA FadesAgree ==
  ASSUME NEW base, NEW k, NEW f, NEW n \in Nat, FadesTo(f, n, base, k),
         NEW h, NEW m \in Nat, FadesTo(h, m, base, k)
  PROVE  \A i \in Nat : i <= n /\ i <= m => f[i] = h[i]
<1> DEFINE Bad == {i \in Nat : i <= n /\ i <= m /\ f[i] # h[i]}
<1>1. Bad = {}
  <2> SUFFICES ASSUME Bad # {} PROVE FALSE
    OBVIOUS
  <2>1. PICK i \in Bad : \A j \in Bad : i <= j
    BY LeastNat
  <2>2. i \in 0 .. n /\ i \in 0 .. m
    OBVIOUS
  <2>3. CASE i = 0
    BY <2>2, <2>3 DEF FadesTo
  <2>4. CASE i # 0
    <3>1. i - 1 \in Nat /\ i - 1 \notin Bad
      BY <2>1, <2>2, <2>4
    <3>2. f[i - 1] = h[i - 1]
      BY <2>2, <3>1
    <3>3. f[i] = Fade(f[i - 1], k) /\ h[i] = Fade(h[i - 1], k)
      BY <2>2, <2>4 DEF FadesTo
    <3> QED
      BY <3>2, <3>3
  <2> QED
    BY <2>3, <2>4
<1> QED
  BY <1>1

(* There is one for each number. *)
LEMMA FadesFar ==
  ASSUME NEW base, NEW k
  PROVE  \A n \in Nat : \E f : FadesTo(f, n, base, k)
<1> DEFINE Bad == {n \in Nat : ~ \E f : FadesTo(f, n, base, k)}
<1>1. Bad = {}
  <2> SUFFICES ASSUME Bad # {} PROVE FALSE
    OBVIOUS
  <2>1. PICK n \in Bad : \A j \in Bad : n <= j
    BY LeastNat
  <2>2. CASE n = 0
    <3>1. FadesTo([i \in Nat |-> base], n, base, k)
      BY <2>2 DEF FadesTo
    <3> QED
      BY <3>1
  <2>3. CASE n # 0
    <3>1. n - 1 \in Nat /\ n - 1 \notin Bad
      BY <2>1, <2>3
    <3>2. PICK f : FadesTo(f, n - 1, base, k)
      BY <3>1
    <3> DEFINE h == [i \in Nat |-> IF i = n THEN Fade(f[n - 1], k) ELSE f[i]]
    <3>3. \A i \in 0 .. (n - 1) : h[i] = f[i] /\ (i # 0 => h[i - 1] = f[i - 1])
      BY <3>1
    <3>4. h[n] = Fade(f[n - 1], k) /\ h[n - 1] = f[n - 1]
      BY <2>3, <3>1
    <3>5. FadesTo(h, n, base, k)
      <4> HIDE DEF h
      <4>1. ASSUME NEW i \in 0 .. n
            PROVE  h[i] = IF i = 0 THEN base ELSE Fade(h[i - 1], k)
        <5>1. CASE i = n
          BY <2>3, <3>4, <5>1
        <5>2. CASE i # n
          <6>1. i \in 0 .. (n - 1)
            BY <5>2
          <6> QED
            BY <3>2, <3>3, <6>1 DEF FadesTo
        <5> QED
          BY <5>1, <5>2
      <4> QED
        BY <4>1 DEF FadesTo
    <3> QED
      BY <3>5
  <2> QED
    BY <2>2, <2>3
<1> QED
  BY <1>1

(* So there is one for all of them. *)
LEMMA FadesExists ==
  ASSUME NEW base, NEW k
  PROVE  \E left : Fades(left, base, k)
<1> DEFINE upTo(n) == CHOOSE f : FadesTo(f, n, base, k)
           left == [n \in Nat |-> upTo(n)[n]]
<1>1. \A n \in Nat : FadesTo(upTo(n), n, base, k)
  BY FadesFar
<1>2. ASSUME NEW n \in Nat
      PROVE  left[n] = IF n = 0 THEN base ELSE Fade(left[n - 1], k)
  <2>1. left[n] = upTo(n)[n] /\ n \in 0 .. n
    OBVIOUS
  <2>2. CASE n = 0
    BY <1>1, <2>1, <2>2 DEF FadesTo
  <2>3. CASE n # 0
    <3>1. n - 1 \in Nat /\ left[n - 1] = upTo(n - 1)[n - 1]
      BY <2>3
    <3> HIDE DEF left, upTo
    <3>2. upTo(n - 1)[n - 1] = upTo(n)[n - 1]
      BY <1>1, <3>1, FadesAgree
    <3>3. upTo(n)[n] = Fade(upTo(n)[n - 1], k)
      BY <1>1, <2>1, <2>3 DEF FadesTo
    <3> QED
      BY <2>1, <2>3, <3>1, <3>2, <3>3
  <2> QED
    BY <2>2, <2>3
<1>3. left = [n \in Nat |-> IF n = 0 THEN base ELSE Fade(left[n - 1], k)]
  <2>1. left = [n \in Nat |-> left[n]]
    OBVIOUS
  <2> HIDE DEF left
  <2> QED
    BY <1>2, <2>1
<1> HIDE DEF left
<1> QED
  BY <1>3 DEF Fades

(* What is left is never more than what was, nor than it was earlier. *)
LEMMA FadesFalls ==
  ASSUME NEW base \in Nat, NEW k \in 0 .. Bps, NEW left, Fades(left, base, k)
  PROVE  \A n \in Nat : /\ left[n] \in Nat
                        /\ n # 0 => left[n] <= left[n - 1]
<1>1. left[0] = base /\ \A n \in Nat : n # 0 => left[n] = Fade(left[n - 1], k)
  BY DEF Fades
<1> DEFINE Bad == {n \in Nat : left[n] \notin Nat}
<1>2. Bad = {}
  <2> SUFFICES ASSUME Bad # {} PROVE FALSE
    OBVIOUS
  <2>1. PICK n \in Bad : \A j \in Bad : n <= j
    BY LeastNat
  <2>2. n # 0
    BY <1>1
  <2>3. n - 1 \in Nat /\ left[n - 1] \in Nat
    BY <2>1, <2>2
  <2>4. Fade(left[n - 1], k) \in Nat
    BY <2>3, FadeBounds
  <2> QED
    BY <1>1, <2>2, <2>4
<1>3. ASSUME NEW n \in Nat, n # 0 PROVE left[n] <= left[n - 1]
  <2>1. left[n - 1] \in Nat /\ left[n] = Fade(left[n - 1], k)
    BY <1>1, <1>2, <1>3
  <2> QED
    BY <2>1, FadeBounds
<1> QED
  BY <1>2, <1>3

(* What is left after more periods is no more. *)
LEMMA FadesMonotone ==
  ASSUME NEW base \in Nat, NEW k \in 0 .. Bps, NEW left, Fades(left, base, k),
         NEW m \in Nat
  PROVE  \A n \in Nat : m <= n => left[n] <= left[m]
<1> DEFINE Bad == {n \in Nat : m <= n /\ ~ (left[n] <= left[m])}
<1>1. \A n \in Nat : left[n] \in Nat
  BY FadesFalls
<1>2. \A n \in Nat : n # 0 => left[n] <= left[n - 1]
  BY FadesFalls
<1>3. Bad = {}
  <2> SUFFICES ASSUME Bad # {} PROVE FALSE
    OBVIOUS
  <2>1. PICK n \in Bad : \A j \in Bad : n <= j
    BY LeastNat
  <2>2. n # m
    BY <1>1, <2>1
  <2>3. n - 1 \in Nat /\ m <= n - 1 /\ n - 1 < n /\ n # 0
    BY <2>1, <2>2
  <2>4. left[n - 1] <= left[m]
    BY <2>1, <2>3
  <2>5. left[n] <= left[n - 1]
    BY <1>2, <2>3
  <2>6. left[n] \in Nat /\ left[n - 1] \in Nat /\ left[m] \in Nat
    BY <1>1, <2>3
  <2>7. ~ (left[n] <= left[m])
    BY <2>1
  <2> HIDE DEF Bad
  <2> QED
    BY <2>4, <2>5, <2>6, <2>7
<1> QED
  BY <1>3

(* The decay of the contract: none with a period of 0, or so many periods of it. *)
Left(base, k) == CHOOSE left : Fades(left, base, k)

(* The model's decay is the recursion applied to the periods. *)
LEMMA DecayScoreIs ==
  ASSUME NEW base, NEW elapsed
  PROVE  DecayScore(base, elapsed) =
           IF config.period = 0 THEN base
           ELSE Left(base, config.decay)[elapsed \div config.period]
BY DEF DecayScore, Left, Fades, Fade

(* Time that passes never makes the number of periods less. *)
LEMMA PeriodsRise ==
  ASSUME NEW p \in Nat, p # 0, NEW d \in Nat, NEW e \in Nat, d <= e
  PROVE  d \div p \in Nat /\ e \div p \in Nat /\ d \div p <= e \div p
OBVIOUS

(* A score decays to a number no greater, and to less with time; at once it is
   what it was. *)
LEMMA DecayBounds ==
  ASSUME config.decay \in 0 .. Bps, config.period \in Nat,
         NEW base \in Nat, NEW d \in Nat, NEW e \in Nat, d <= e
  PROVE  /\ DecayScore(base, e) \in 0 .. base
         /\ DecayScore(base, e) <= DecayScore(base, d)
         /\ DecayScore(base, 0) = base
<1>1. CASE config.period = 0
  BY <1>1, DecayScoreIs
<1>2. CASE config.period # 0
  <2> DEFINE left == Left(base, config.decay)
  <2>1. Fades(left, base, config.decay)
    BY FadesExists DEF Left
  <2>2. \A x \in Nat : DecayScore(base, x) = left[x \div config.period]
    BY <1>2, DecayScoreIs
  <2> HIDE DEF left
  <2>3. left[0] = base /\ \A n \in Nat : left[n] \in Nat
    BY <2>1, FadesFalls DEF Fades
  <2>4. \A m, n \in Nat : m <= n => left[n] <= left[m]
    BY <2>1, FadesMonotone
  <2>5. \A x \in Nat : x \div config.period \in Nat
    BY <1>2, PeriodsRise
  <2>6. 0 \div config.period = 0
    BY <1>2
  <2>7. DecayScore(base, 0) = base
    BY <2>2, <2>3, <2>6
  <2>8. d \div config.period <= e \div config.period
    BY <1>2, PeriodsRise
  <2>9. DecayScore(base, e) <= DecayScore(base, d)
    BY <2>2, <2>4, <2>5, <2>8
  <2>10. DecayScore(base, e) \in 0 .. base
    BY <2>2, <2>3, <2>4, <2>5
  <2> QED
    BY <2>7, <2>9, <2>10
<1> QED
  BY <1>1, <1>2

-----------------------------------------------------------------------------
(* The invariant. *)

(* Only a stake that has a token has an amount or a loss; a dispute that was not
   opened is blank, one that is pending has taken nothing, and no respondent has
   two that are pending. *)
StakeOK(u) == stake[u].token = None => stake[u].amount = 0 /\ stake[u].slashed = 0
DisputeOK(d) ==
  /\ d > opened => dispute[d] = NoDispute
  /\ dispute[d].outcome = "Pending" => dispute[d].slashed = 0 /\ dispute[d].respondent \in Users
  /\ \A e \in DisputeIds :
       /\ dispute[d].outcome = "Pending" /\ dispute[e].outcome = "Pending"
       /\ dispute[d].respondent = dispute[e].respondent
       => d = e

Backing(t) ==
  [u \in Users |-> IF stake[u].token = t THEN stake[u].amount + stake[u].slashed ELSE 0]
Losses(u) ==
  [d \in DisputeIds |-> IF dispute[d].respondent = u THEN dispute[d].slashed ELSE 0]

ScoreTypes ==
  /\ registered \in 0 .. MaxAgents /\ now \in Nat
  /\ agent \in [AgentIds -> [owner : Users \cup {None}, score : 0 .. Bps]]
  /\ scoredAt \in [AgentIds -> 0 .. now]
  /\ rated \subseteq Users \X AgentIds /\ met \subseteq SUBSET Users
  /\ config \in Configs \cup {Default} /\ admin \in Users \cup {None}
DisputeRecords ==
  [respondent : Users \cup {None}, closes : Nat, for : Nat, against : Nat,
   outcome : {"None", "Pending", "Guilty", "NotGuilty", "QuorumFailed"}, slashed : Nat]
DisputeTypes ==
  /\ opened \in 0 .. MaxDisputes
  /\ dispute \in [DisputeIds -> DisputeRecords]
  /\ voted \in [DisputeIds -> SUBSET Users]
StakeTypes ==
  /\ stake \in [Users -> [token : Tokens \cup {None}, amount : Nat, slashed : Nat]]
  /\ pool \in [Tokens -> Int] /\ wallet \in [Users -> [Tokens -> Nat]]

DisputesInv == DisputeTypes /\ \A d \in DisputeIds : DisputeOK(d)
StakesInv == StakeTypes /\ \A u \in Users : StakeOK(u)
PoolsInv == \A t \in Tokens : pool[t] = SumFunctionOnSet(Backing(t), Users)
LossesInv == \A u \in Users : stake[u].slashed = SumFunctionOnSet(Losses(u), DisputeIds)
RegistryInv == ScoreTypes /\ DisputesInv /\ StakesInv /\ PoolsInv /\ LossesInv

-----------------------------------------------------------------------------
(* What the helpers return. *)

(* The configuration in force is one that configure lets through. *)
LEMMA ConfigTypes ==
  ASSUME ScoreTypes
  PROVE  /\ config.slash \in 0 .. Bps /\ config.decay \in 0 .. Bps
         /\ config.window \in Nat /\ config.quorum \in Nat /\ config.period \in Nat
BY RegistryAssumptions DEF ScoreTypes

(* A read reports at most the stored score. *)
LEMMA DecayedBounds ==
  ASSUME ScoreTypes, NEW a \in AgentIds
  PROVE  Decayed(a) \in 0 .. agent[a].score /\ Decayed(a) \in 0 .. Bps
<1>1. agent[a].score \in 0 .. Bps /\ now - scoredAt[a] \in Nat
  BY DEF ScoreTypes
<1>2. Bps \in Nat
  BY DEF Bps
<1>3. agent[a].score \in Nat
  BY <1>1, <1>2
<1>4. DecayScore(agent[a].score, now - scoredAt[a]) \in 0 .. agent[a].score
  <2>1. ASSUME NEW base \in Nat, NEW e \in Nat
        PROVE  DecayScore(base, e) \in 0 .. base
    <3>1. e <= e
      OBVIOUS
    <3> QED
      BY <3>1, ConfigTypes, DecayBounds
  <2> QED
    BY <1>1, <1>3, <2>1
<1> QED
  BY <1>1, <1>2, <1>4 DEF Decayed

(* A set of shares that is not empty has a greatest one. *)
LEMMA MaxOfShares ==
  ASSUME NEW S \in SUBSET (0 .. Bps), S # {}
  PROVE  Max(S) \in S
<1> DEFINE T == {Bps - x : x \in S}
<1>1. T \in SUBSET Nat /\ T # {}
  <2>1. \A x \in 0 .. Bps : Bps - x \in Nat
    BY DEF Bps
  <2> QED
    BY <2>1
<1>2. PICK n \in T : \A m \in T : n <= m
  BY <1>1, LeastNat
<1>3. PICK x \in S : n = Bps - x
  OBVIOUS
<1>4. \A y \in S : x >= y
  <2>1. ASSUME NEW y \in S PROVE x >= y
    <3>1. Bps - x <= Bps - y
      BY <1>2, <1>3
    <3>2. x \in Int /\ y \in Int
      BY DEF Bps
    <3> QED
      BY <3>1, <3>2 DEF Bps
  <2> QED
    BY <2>1
<1> QED
  BY <1>4 DEF Max

(* The weight of a vote is a number. *)
LEMMA WeightIsNat ==
  ASSUME ScoreTypes, StakeTypes, NEW u \in Users
  PROVE  VotingWeight(u) \in Nat
<1> DEFINE scores == {Decayed(a) : a \in Owned(u)}
<1>1. scores \in SUBSET (0 .. Bps)
  <2>1. Owned(u) \in SUBSET AgentIds
    BY RegistryAssumptions DEF Owned, ScoreTypes, AgentIds
  <2> QED
    BY <2>1, DecayedBounds
<1>2. BestReputation(u) = IF scores \subseteq {0} THEN 5000 ELSE Max(scores)
  BY DEF BestReputation
<1> HIDE DEF scores
<1>3. BestReputation(u) \in Nat
  <2>1. CASE scores \subseteq {0}
    BY <1>2, <2>1
  <2>2. CASE ~ (scores \subseteq {0})
    <3>1. Max(scores) \in scores
      BY <1>1, <2>2, MaxOfShares
    <3>2. Max(scores) \in 0 .. Bps
      BY <1>1, <3>1
    <3>3. \A x \in 0 .. Bps : x \in Nat
      BY DEF Bps
    <3> QED
      BY <1>2, <2>2, <3>2, <3>3
  <2> QED
    BY <2>1, <2>2
<1>4. stake[u].amount \in Nat
  BY DEF StakeTypes
<1>5. \A x, y \in Nat : x * y \in Nat
  OBVIOUS
<1>6. \A x \in Nat : x \div Bps \in Nat
  BY DEF Bps
<1> QED
  BY <1>3, <1>4, <1>5, <1>6 DEF VotingWeight

(* A verdict takes no more than there is. *)
LEMMA SlashBounds ==
  ASSUME ScoreTypes, StakeTypes, NEW u \in Users
  PROVE  Slash(u) \in 0 .. stake[u].amount /\ Slash(u) \in Nat
<1>1. stake[u].amount \in Nat
  BY DEF StakeTypes
<1>2. Slash(u) \in 0 .. stake[u].amount
  BY <1>1, ConfigTypes, ShareBounds DEF Slash
<1> QED
  BY <1>1, <1>2

(* What is settled has the type of a score, at the time of now. *)
LEMMA SettledKeepsTypes ==
  ASSUME ScoreTypes, NEW score, \A a \in DOMAIN score : score[a] \in 0 .. Bps,
         Settled(score)
  PROVE  /\ agent' \in [AgentIds -> [owner : Users \cup {None}, score : 0 .. Bps]]
         /\ scoredAt' \in [AgentIds -> 0 .. now]
<1>1. ASSUME NEW a \in AgentIds, a \in DOMAIN score
      PROVE  [agent[a] EXCEPT !.score = score[a]]
               \in [owner : Users \cup {None}, score : 0 .. Bps]
  <2>1. agent[a] \in [owner : Users \cup {None}, score : 0 .. Bps] /\ score[a] \in 0 .. Bps
    BY <1>1 DEF ScoreTypes
  <2> QED
    BY <2>1
<1>2. agent' \in [AgentIds -> [owner : Users \cup {None}, score : 0 .. Bps]]
  BY <1>1 DEF Settled, ScoreTypes
<1>3. now \in 0 .. now
  BY DEF ScoreTypes
<1> QED
  BY <1>2, <1>3 DEF Settled, ScoreTypes

-----------------------------------------------------------------------------
(* What each step keeps. *)

(* Every step keeps the types of the agents: what is settled is a decayed score,
   a tenth of a vote added or a share taken off. *)
LEMMA ScoresNext ==
  ASSUME RegistryInv, [Next]_vars
  PROVE  ScoreTypes'
<1>0. ScoreTypes /\ StakeTypes
  BY DEF RegistryInv, StakesInv
<1>1. ASSUME NEW score, \A a \in DOMAIN score : score[a] \in 0 .. Bps,
             Settled(score), UNCHANGED <<registered, met, config, admin, now>>,
             rated' \subseteq Users \X AgentIds
      PROVE  ScoreTypes'
  BY <1>0, <1>1, SettledKeepsTypes DEF ScoreTypes
<1>2. ASSUME UNCHANGED <<reputationVars, met, config, admin, now>>
      PROVE  ScoreTypes'
  BY <1>0, <1>2 DEF ScoreTypes, reputationVars
<1>3. ASSUME NEW u \in Owners, RegisterAgent(u)
      PROVE  ScoreTypes'
  <2>1. u \in Users /\ registered + 1 \in AgentIds /\ 5000 \in 0 .. Bps
    <3>1. 5000 \in 0 .. Bps
      BY DEF Bps
    <3> QED
      BY <1>0, <1>3, <3>1, RegistryAssumptions DEF ScoreTypes, RegisterAgent, AgentIds
  <2>2. now \in 0 .. now /\ registered' \in 0 .. MaxAgents
    BY <1>0, <1>3, RegistryAssumptions DEF ScoreTypes, RegisterAgent
  <2> QED
    BY <1>0, <1>3, <2>1, <2>2 DEF ScoreTypes, RegisterAgent
<1>4. ASSUME NEW a \in AgentIds, SettleReputation(a)
      PROVE  ScoreTypes'
  <2>1. Decayed(a) \in 0 .. Bps
    BY <1>0, DecayedBounds
  <2> QED
    BY <1>0, <1>1, <1>4, <2>1 DEF SettleReputation, ScoreTypes
<1>5. ASSUME NEW a \in AgentIds, NEW u \in Voters, NEW s \in Scores, VoteReputation(u, a, s)
      PROVE  ScoreTypes'
  <2>1. (Decayed(a) * 9 + s * 100) \div 10 \in 0 .. Bps
    <3>1. Decayed(a) \in 0 .. Bps /\ s \in 0 .. 100
      BY <1>0, DecayedBounds, RegistryAssumptions
    <3>2. \A x \in 0 .. Bps, y \in 0 .. 100 : (x * 9 + y * 100) \div 10 \in 0 .. Bps
      BY DEF Bps
    <3> QED
      BY <3>1, <3>2
  <2>2. <<u, a>> \in Users \X AgentIds
    BY RegistryAssumptions
  <2> QED
    BY <1>0, <1>1, <1>5, <2>1, <2>2 DEF VoteReputation, ScoreTypes
<1>6. ASSUME NEW u \in Users, NEW n \in Amounts, Unstake(u, n) \/ \E t \in Tokens : Stake(u, n, t)
      PROVE  ScoreTypes'
  BY <1>2, <1>6 DEF Unstake, Stake
<1>7. ASSUME NEW u \in Voters, NEW v \in Users, RecordInteraction(u, v)
      PROVE  ScoreTypes'
  <2>1. {u, v} \in SUBSET Users
    BY RegistryAssumptions
  <2> QED
    BY <1>0, <1>7, <2>1 DEF RecordInteraction, ScoreTypes, reputationVars
<1>8. ASSUME NEW c \in Complainants, NEW r \in Users, OpenDispute(c, r)
      PROVE  ScoreTypes'
  BY <1>2, <1>8 DEF OpenDispute
<1>9. ASSUME NEW d \in DisputeIds, NEW u \in Voters, NEW b \in BOOLEAN, VoteDispute(u, d, b)
      PROVE  ScoreTypes'
  BY <1>2, <1>9 DEF VoteDispute
<1>10. ASSUME NEW d \in DisputeIds, ResolveDispute(d)
       PROVE  ScoreTypes'
  <2>1. CASE Outcome(d) = "Guilty"
    <3> DEFINE score == [a \in Owned(dispute[d].respondent) |->
                           (Decayed(a) * (Bps - config.slash)) \div Bps]
    <3>1. Settled(score) /\ UNCHANGED <<registered, rated, met, config, admin, now>>
      BY <1>10, <2>1 DEF ResolveDispute
    <3>2. ASSUME NEW a \in DOMAIN score PROVE score[a] \in 0 .. Bps
      <4>1. a \in AgentIds
        BY <1>0, RegistryAssumptions DEF Owned, ScoreTypes, AgentIds
      <4>2. Decayed(a) \in 0 .. Bps /\ Bps - config.slash \in 0 .. Bps
        <5>1. \A k \in 0 .. Bps : Bps - k \in 0 .. Bps
          BY DEF Bps
        <5> QED
          BY <1>0, <4>1, <5>1, DecayedBounds, ConfigTypes
      <4>3. \A x \in 0 .. Bps, k \in 0 .. Bps : (x * k) \div Bps \in 0 .. Bps
        <5>1. ASSUME NEW x \in 0 .. Bps, NEW k \in 0 .. Bps
              PROVE  (x * k) \div Bps \in 0 .. Bps
          <6>1. x \in Nat /\ x <= Bps
            BY DEF Bps
          <6>2. (x * k) \div Bps \in 0 .. x
            BY <6>1, ShareBounds
          <6>3. \A y \in 0 .. x : y \in 0 .. Bps
            BY <6>1 DEF Bps
          <6> QED
            BY <6>2, <6>3
        <5> QED
          BY <5>1
      <4> QED
        BY <4>2, <4>3
    <3> HIDE DEF score
    <3> QED
      BY <1>0, <1>1, <3>1, <3>2 DEF ScoreTypes
  <2>2. CASE Outcome(d) # "Guilty"
    BY <1>2, <1>10, <2>2 DEF ResolveDispute, reputationVars
  <2> QED
    BY <2>1, <2>2
<1>11. ASSUME NEW u \in Admins, NEW c \in Configs, Configure(u, c)
       PROVE  ScoreTypes'
  BY <1>0, <1>11, RegistryAssumptions DEF Configure, ScoreTypes, reputationVars
<1>12. ASSUME Tick PROVE ScoreTypes'
  <2>1. \A x \in 0 .. now : x \in 0 .. now'
    BY <1>0, <1>12 DEF Tick, ScoreTypes
  <2> QED
    BY <1>0, <1>12, <2>1 DEF Tick, ScoreTypes, reputationVars
<1>13. ASSUME UNCHANGED vars PROVE ScoreTypes'
  BY <1>2, <1>13 DEF vars
<1> QED
  BY <1>3, <1>4, <1>5, <1>6, <1>7, <1>8, <1>9, <1>10, <1>11, <1>12, <1>13 DEF Next

(* Every step keeps the disputes: one is opened where there was none, against
   somebody who has no other. *)
LEMMA DisputesNext ==
  ASSUME RegistryInv, [Next]_vars
  PROVE  DisputesInv'
<1>0. ScoreTypes /\ StakeTypes /\ DisputeTypes /\ \A d \in DisputeIds : DisputeOK(d)
  BY DEF RegistryInv, StakesInv, DisputesInv
<1>1. ASSUME UNCHANGED <<dispute, opened, voted>>
      PROVE  DisputesInv'
  BY <1>0, <1>1 DEF DisputesInv, DisputeTypes, DisputeOK
<1>2. ASSUME NEW u \in Owners, RegisterAgent(u)
      PROVE  DisputesInv'
  BY <1>1, <1>2 DEF RegisterAgent, disputeVars
<1>3. ASSUME NEW a \in AgentIds, NEW u \in Voters, NEW s \in Scores,
             VoteReputation(u, a, s)
      PROVE  DisputesInv'
  BY <1>1, <1>3 DEF VoteReputation, disputeVars
<1>4. ASSUME NEW a \in AgentIds, SettleReputation(a)
      PROVE  DisputesInv'
  BY <1>1, <1>4 DEF SettleReputation, disputeVars
<1>5. ASSUME NEW u \in Users, NEW n \in Amounts, Unstake(u, n) \/ \E t \in Tokens : Stake(u, n, t)
      PROVE  DisputesInv'
  BY <1>1, <1>5 DEF Unstake, Stake, disputeVars
<1>6. ASSUME NEW u \in Voters, NEW v \in Users, RecordInteraction(u, v)
      PROVE  DisputesInv'
  BY <1>1, <1>6 DEF RecordInteraction, disputeVars
<1>7. ASSUME NEW c \in Complainants, NEW r \in Users, OpenDispute(c, r)
      PROVE  DisputesInv'
  <2> DEFINE new == [NoDispute EXCEPT !.respondent = r, !.closes = now + config.window,
                                      !.outcome = "Pending"]
  <2>1. /\ opened + 1 \in DisputeIds /\ opened' = opened + 1
        /\ dispute' = [dispute EXCEPT ![opened + 1] = new] /\ voted' = voted
    <3>1. opened + 1 \in DisputeIds /\ opened' = opened + 1
      BY <1>0, <1>7, RegistryAssumptions DEF OpenDispute, DisputeTypes, DisputeIds
    <3> QED
      BY <1>7, <3>1 DEF OpenDispute
  <2>2. new \in DisputeRecords
    <3>1. now + config.window \in Nat
      BY <1>0, ConfigTypes DEF ScoreTypes
    <3> QED
      BY <3>1 DEF DisputeRecords, NoDispute
  <2>3. new.outcome = "Pending" /\ new.slashed = 0 /\ new.respondent = r
    BY DEF NoDispute
  <2> HIDE DEF new
  <2>4. DisputeTypes'
    BY <1>0, <2>1, <2>2, RegistryAssumptions DEF DisputeTypes, DisputeIds
  <2>5. dispute'[opened + 1] = new /\ \A d \in DisputeIds \ {opened + 1} : dispute'[d] = dispute[d]
    BY <1>0, <2>1 DEF DisputeTypes
  <2>6. \A d \in DisputeIds : dispute[d].outcome = "Pending" => dispute[d].respondent # r
    BY <1>7 DEF OpenDispute, HasOpenDispute
  <2>7. \A d \in DisputeIds : d > opened + 1 => d > opened
    BY <1>0 DEF DisputeTypes, DisputeIds
  <2>8. opened \in Nat
    BY <1>0, RegistryAssumptions DEF DisputeTypes
  <2>9. ASSUME NEW d \in DisputeIds PROVE DisputeOK(d)'
    <3>1. DisputeOK(d)
      BY <1>0
    <3>2. CASE d = opened + 1
      BY <2>1, <2>3, <2>5, <2>6, <2>8, <3>2 DEF DisputeOK
    <3>3. CASE d # opened + 1
      BY <2>1, <2>3, <2>5, <2>6, <2>7, <3>1, <3>3 DEF DisputeOK
    <3> QED
      BY <3>2, <3>3
  <2> QED
    BY <2>4, <2>9 DEF DisputesInv
<1>8. ASSUME NEW d \in DisputeIds, NEW u \in Voters, NEW b \in BOOLEAN, VoteDispute(u, d, b)
      PROVE  DisputesInv'
  <2>1. VotingWeight(u) \in Nat /\ u \in Users
    BY <1>0, WeightIsNat, RegistryAssumptions
  <2>2. DisputeTypes'
    BY <1>0, <1>8, <2>1 DEF VoteDispute, DisputeTypes, DisputeRecords
  <2>3. \A e \in DisputeIds : /\ dispute'[e].respondent = dispute[e].respondent
                              /\ dispute'[e].outcome = dispute[e].outcome
                              /\ dispute'[e].slashed = dispute[e].slashed
                              /\ e # d => dispute'[e] = dispute[e]
    BY <1>0, <1>8 DEF VoteDispute, DisputeTypes, DisputeRecords
  <2>4. d <= opened
    BY <1>0, <1>8 DEF VoteDispute, DisputeOK, NoDispute, DisputeTypes, DisputeIds
  <2>5. opened' = opened /\ \A e \in DisputeIds : e > opened => e # d
    BY <1>0, <1>8, <2>4 DEF VoteDispute, DisputeTypes, DisputeIds
  <2>6. ASSUME NEW e \in DisputeIds PROVE DisputeOK(e)'
    <3>1. DisputeOK(e)
      BY <1>0
    <3>2. e > opened' => dispute'[e] = NoDispute
      BY <2>3, <2>5, <3>1 DEF DisputeOK
    <3> QED
      BY <2>3, <3>1, <3>2 DEF DisputeOK
  <2> QED
    BY <2>2, <2>6 DEF DisputesInv
<1>9. ASSUME NEW d \in DisputeIds, ResolveDispute(d)
      PROVE  DisputesInv'
  <2>1. dispute[d].respondent \in Users
    BY <1>0, <1>9 DEF ResolveDispute, DisputeOK
  <2>2. Slash(dispute[d].respondent) \in Nat
    BY <1>0, <2>1, SlashBounds
  <2>3. Outcome(d) \in {"Guilty", "NotGuilty", "QuorumFailed"}
    BY DEF Outcome
  <2>4. DisputeTypes'
    <3> DEFINE loss == IF Outcome(d) = "Guilty" THEN Slash(dispute[d].respondent) ELSE 0
    <3>1. dispute' = [dispute EXCEPT ![d].outcome = Outcome(d), ![d].slashed = loss]
      BY <1>9 DEF ResolveDispute
    <3>2. loss \in Nat
      BY <2>2
    <3> HIDE DEF loss
    <3>3. dispute' \in [DisputeIds -> DisputeRecords]
      BY <1>0, <2>3, <3>1, <3>2 DEF DisputeTypes, DisputeRecords
    <3> QED
      BY <1>0, <1>9, <3>3 DEF ResolveDispute, DisputeTypes
  <2>5. /\ dispute'[d].outcome # "Pending"
        /\ \A e \in DisputeIds : e # d => dispute'[e] = dispute[e]
    BY <1>0, <1>9, <2>3 DEF ResolveDispute, DisputeTypes
  <2>6. d <= opened
    BY <1>0, <1>9 DEF ResolveDispute, DisputeOK, NoDispute, DisputeTypes, DisputeIds
  <2>7. opened' = opened /\ \A e \in DisputeIds : e > opened => e # d
    BY <1>0, <1>9, <2>6 DEF ResolveDispute, DisputeTypes, DisputeIds
  <2> QED
    BY <1>0, <2>4, <2>5, <2>7 DEF DisputesInv, DisputeOK
<1>10. ASSUME NEW u \in Admins, NEW c \in Configs, Configure(u, c)
       PROVE  DisputesInv'
  BY <1>1, <1>10 DEF Configure, disputeVars
<1>11. ASSUME Tick \/ UNCHANGED vars PROVE DisputesInv'
  BY <1>1, <1>11 DEF Tick, vars, disputeVars
<1> QED
  BY <1>2, <1>3, <1>4, <1>5, <1>6, <1>7, <1>8, <1>9, <1>10, <1>11 DEF Next

-----------------------------------------------------------------------------
(* Stakes and balances. *)

StakeRecords == [token : Tokens \cup {None}, amount : Nat, slashed : Nat]

(* What backs a token is a finite sum of numbers, none greater than the sum. *)
LEMMA BackingIsFinite ==
  ASSUME StakeTypes, NEW t \in Tokens
  PROVE  /\ \A u \in Users : Backing(t)[u] \in Nat
         /\ SumFunctionOnSet(Backing(t), Users) \in Nat
         /\ \A u \in Users : Backing(t)[u] <= SumFunctionOnSet(Backing(t), Users)
<1>1. \A u \in Users : Backing(t)[u] \in Nat
  BY DEF Backing, StakeTypes
<1>2. IsFiniteSet(Users)
  BY RegistryAssumptions
<1> QED
  BY <1>1, <1>2, SumIsNat, SumCovers

(* A step that changes one stake changes each sum by what it changes there. *)
LEMMA BackingMoves ==
  ASSUME StakeTypes, StakeTypes', NEW t \in Tokens, NEW u \in Users,
         \A v \in Users \ {u} : stake'[v] = stake[v]
  PROVE  SumFunctionOnSet(Backing(t), Users)' =
           SumFunctionOnSet(Backing(t), Users) + (Backing(t)'[u] - Backing(t)[u])
<1>1. \A v \in Users : Backing(t)[v] \in Nat /\ Backing(t)'[v] \in Nat
  BY DEF Backing, StakeTypes
<1>2. \A v \in Users \ {u} : Backing(t)[v] = Backing(t)'[v]
  BY DEF Backing
<1>3. IsFiniteSet(Users)
  BY RegistryAssumptions
<1>4. ASSUME NEW F, NEW H, \A v \in Users : F[v] \in Nat /\ H[v] \in Nat,
             \A v \in Users \ {u} : F[v] = H[v]
      PROVE  SumFunctionOnSet(H, Users) = SumFunctionOnSet(F, Users) + (H[u] - F[u])
  BY <1>3, <1>4, SumAtPoint
<1> QED
  BY <1>1, <1>2, <1>4

(* A stake adds to the balance of its token what it adds to the stakes in it:
   an address has one token, and before it stakes it has none. *)
LEMMA StakeKeeps ==
  ASSUME StakesInv, PoolsInv, NEW u \in Users, NEW n \in Amounts, NEW t \in Tokens,
         Stake(u, n, t)
  PROVE  StakesInv' /\ PoolsInv'
<1>0. StakeTypes /\ StakeOK(u) /\ n \in Nat /\ n > 0
  BY RegistryAssumptions DEF StakesInv
<1>1. /\ stake[u] \in StakeRecords /\ stake[u].token \in {None, t}
      /\ stake'[u].token = t /\ stake'[u].amount = stake[u].amount + n
      /\ stake'[u].slashed = stake[u].slashed
      /\ \A v \in Users \ {u} : stake'[v] = stake[v]
  BY <1>0 DEF Stake, StakeTypes, StakeRecords
<1>2. stake[u].amount \in Nat /\ stake[u].slashed \in Nat
  BY <1>1 DEF StakeRecords
<1>3. StakeTypes'
  <2>1. stake' \in [Users -> StakeRecords]
    BY <1>0, <1>2 DEF Stake, StakeTypes, StakeRecords
  <2>2. pool' \in [Tokens -> Int]
    BY <1>0 DEF Stake, StakeTypes
  <2>3. wallet' \in [Users -> [Tokens -> Nat]]
    <3>1. wallet[u][t] \in Nat /\ wallet[u][t] - n \in Nat
      BY <1>0 DEF Stake, StakeTypes
    <3> QED
      BY <1>0, <3>1 DEF Stake, StakeTypes
  <2> QED
    BY <2>1, <2>2, <2>3 DEF StakeTypes, StakeRecords
<1>4. StakesInv'
  <2>1. \A v \in Users : StakeOK(v)'
    BY <1>1, RegistryAssumptions DEF StakesInv, StakeOK
  <2> QED
    BY <1>3, <2>1 DEF StakesInv
<1>5. ASSUME NEW x \in Tokens
      PROVE  pool'[x] = SumFunctionOnSet(Backing(x), Users)'
  <2>1. /\ Backing(x)[u] = IF stake[u].token = x THEN stake[u].amount + stake[u].slashed ELSE 0
        /\ Backing(x)'[u] =
             IF stake'[u].token = x THEN stake'[u].amount + stake'[u].slashed ELSE 0
    BY DEF Backing
  <2>2. Backing(x)'[u] - Backing(x)[u] = IF x = t THEN n ELSE 0
    <3>1. x # None
      BY RegistryAssumptions
    <3>2. CASE stake[u].token = None
      BY <1>0, <1>1, <1>2, <2>1, <3>1, <3>2 DEF StakeOK
    <3>3. CASE stake[u].token = t
      BY <1>0, <1>1, <1>2, <2>1, <3>3
    <3> QED
      BY <1>1, <3>2, <3>3
  <2>3. pool'[x] = pool[x] + (IF x = t THEN n ELSE 0)
    BY <1>0 DEF Stake, StakeTypes
  <2>4. pool[x] = SumFunctionOnSet(Backing(x), Users)
    BY DEF PoolsInv
  <2>5. SumFunctionOnSet(Backing(x), Users)' =
          SumFunctionOnSet(Backing(x), Users) + (Backing(x)'[u] - Backing(x)[u])
    BY <1>0, <1>1, <1>3, BackingMoves
  <2> QED
    BY <2>2, <2>3, <2>4, <2>5
<1> QED
  BY <1>4, <1>5 DEF PoolsInv

(* What is unstaked leaves both. *)
LEMMA UnstakeKeeps ==
  ASSUME StakesInv, PoolsInv, NEW u \in Users, NEW n \in Amounts, Unstake(u, n)
  PROVE  StakesInv' /\ PoolsInv'
<1> DEFINE t == stake[u].token
<1>0. StakeTypes /\ StakeOK(u) /\ n \in Nat /\ n > 0
  BY RegistryAssumptions DEF StakesInv
<1>1. /\ stake[u] \in StakeRecords /\ stake[u].amount >= n
      /\ stake'[u].token = t /\ stake'[u].amount = stake[u].amount - n
      /\ stake'[u].slashed = stake[u].slashed
      /\ \A v \in Users \ {u} : stake'[v] = stake[v]
  BY <1>0 DEF Unstake, StakeTypes, StakeRecords
<1>2. stake[u].amount \in Nat /\ stake[u].slashed \in Nat /\ stake[u].amount - n \in Nat
  BY <1>0, <1>1 DEF StakeRecords
<1>3. t \in Tokens
  BY <1>0, <1>1, <1>2 DEF StakeOK, StakeRecords
<1>4. StakeTypes'
  <2>1. stake' \in [Users -> StakeRecords]
    BY <1>0, <1>2 DEF Unstake, StakeTypes, StakeRecords
  <2>2. pool' \in [Tokens -> Int]
    BY <1>0, <1>3 DEF Unstake, StakeTypes
  <2>3. wallet' \in [Users -> [Tokens -> Nat]]
    BY <1>0, <1>3 DEF Unstake, StakeTypes
  <2> QED
    BY <2>1, <2>2, <2>3 DEF StakeTypes, StakeRecords
<1>5. StakesInv'
  <2>1. \A v \in Users : StakeOK(v)'
    BY <1>1, <1>3, RegistryAssumptions DEF StakesInv, StakeOK
  <2> QED
    BY <1>4, <2>1 DEF StakesInv
<1>6. ASSUME NEW x \in Tokens
      PROVE  pool'[x] = SumFunctionOnSet(Backing(x), Users)'
  <2>1. /\ Backing(x)[u] = IF stake[u].token = x THEN stake[u].amount + stake[u].slashed ELSE 0
        /\ Backing(x)'[u] =
             IF stake'[u].token = x THEN stake'[u].amount + stake'[u].slashed ELSE 0
    BY DEF Backing
  <2>2. Backing(x)'[u] - Backing(x)[u] = IF x = t THEN 0 - n ELSE 0
    BY <1>0, <1>1, <1>2, <2>1
  <2>3. pool'[x] = pool[x] + (IF x = t THEN 0 - n ELSE 0)
    BY <1>0 DEF Unstake, StakeTypes
  <2>4. pool[x] = SumFunctionOnSet(Backing(x), Users)
    BY DEF PoolsInv
  <2>5. SumFunctionOnSet(Backing(x), Users)' =
          SumFunctionOnSet(Backing(x), Users) + (Backing(x)'[u] - Backing(x)[u])
    BY <1>0, <1>1, <1>4, BackingMoves
  <2> QED
    BY <2>2, <2>3, <2>4, <2>5
<1> QED
  BY <1>5, <1>6 DEF PoolsInv

(* A verdict moves a share of a stake from one side of its record to the other. *)
LEMMA VerdictKeeps ==
  ASSUME RegistryInv, NEW u \in Users, stake' = Taken(u), UNCHANGED money
  PROVE  StakesInv' /\ PoolsInv'
<1>0. StakeTypes /\ StakeOK(u) /\ Slash(u) \in Nat /\ Slash(u) <= stake[u].amount
  <2>1. ScoreTypes /\ StakesInv
    BY DEF RegistryInv
  <2>2. StakeTypes /\ StakeOK(u) /\ stake[u].amount \in Nat
    BY <2>1 DEF StakesInv, StakeTypes
  <2> QED
    BY <2>1, <2>2, SlashBounds
<1> DEFINE loss == Slash(u)
<1> HIDE DEF loss
<1>1. /\ loss \in Nat /\ loss <= stake[u].amount
      /\ stake' = [stake EXCEPT ![u].amount = @ - loss, ![u].slashed = @ + loss]
  BY <1>0 DEF Taken, loss
<1>2. /\ stake[u] \in StakeRecords
      /\ stake'[u].token = stake[u].token /\ stake'[u].amount = stake[u].amount - loss
      /\ stake'[u].slashed = stake[u].slashed + loss
      /\ \A v \in Users \ {u} : stake'[v] = stake[v]
  BY <1>0, <1>1 DEF StakeTypes, StakeRecords
<1>3. stake[u].amount \in Nat /\ stake[u].slashed \in Nat
  BY <1>2 DEF StakeRecords
<1>4. stake[u].amount - loss \in Nat /\ stake[u].slashed + loss \in Nat
  BY <1>1, <1>3
<1>5. StakeTypes'
  <2>1. stake' \in [Users -> StakeRecords]
    BY <1>0, <1>1, <1>4 DEF StakeTypes, StakeRecords
  <2> QED
    BY <1>0, <2>1 DEF StakeTypes, StakeRecords, money
<1>6. StakesInv'
  <2>1. \A v \in Users : StakeOK(v)'
    <3>1. StakeOK(u)'
      BY <1>0, <1>1, <1>2, <1>3 DEF StakeOK
    <3>2. ASSUME NEW v \in Users, v # u PROVE StakeOK(v)'
      BY <1>2, <3>2 DEF RegistryInv, StakesInv, StakeOK
    <3> QED
      BY <3>1, <3>2
  <2> QED
    BY <1>5, <2>1 DEF StakesInv
<1>7. ASSUME NEW x \in Tokens
      PROVE  pool'[x] = SumFunctionOnSet(Backing(x), Users)'
  <2>1. /\ Backing(x)[u] = IF stake[u].token = x THEN stake[u].amount + stake[u].slashed ELSE 0
        /\ Backing(x)'[u] =
             IF stake'[u].token = x THEN stake'[u].amount + stake'[u].slashed ELSE 0
    BY DEF Backing
  <2>2. Backing(x)'[u] - Backing(x)[u] = 0
    BY <1>1, <1>2, <1>3, <2>1
  <2>3. pool'[x] = SumFunctionOnSet(Backing(x), Users)
    BY DEF RegistryInv, PoolsInv, money
  <2>4. SumFunctionOnSet(Backing(x), Users)' =
          SumFunctionOnSet(Backing(x), Users) + (Backing(x)'[u] - Backing(x)[u])
    BY <1>0, <1>2, <1>5, BackingMoves
  <2>5. SumFunctionOnSet(Backing(x), Users) \in Nat
    BY <1>0, BackingIsFinite
  <2> QED
    BY <2>2, <2>3, <2>4, <2>5
<1> QED
  BY <1>6, <1>7 DEF PoolsInv

(* Every step keeps the stakes and the balances. *)
LEMMA StakesNext ==
  ASSUME RegistryInv, [Next]_vars
  PROVE  StakesInv' /\ PoolsInv'
<1>0. StakesInv /\ PoolsInv
  BY DEF RegistryInv
<1>1. ASSUME UNCHANGED <<stake, money>>
      PROVE  StakesInv' /\ PoolsInv'
  BY <1>0, <1>1 DEF StakesInv, StakeTypes, StakeOK, PoolsInv, Backing, money
<1>2. ASSUME NEW u \in Owners, RegisterAgent(u)
      PROVE  StakesInv' /\ PoolsInv'
  BY <1>1, <1>2 DEF RegisterAgent
<1>3. ASSUME NEW a \in AgentIds, SettleReputation(a)
      PROVE  StakesInv' /\ PoolsInv'
  BY <1>1, <1>3 DEF SettleReputation
<1>4. ASSUME NEW a \in AgentIds, NEW u \in Voters, NEW s \in Scores, VoteReputation(u, a, s)
      PROVE  StakesInv' /\ PoolsInv'
  BY <1>1, <1>4 DEF VoteReputation
<1>5. ASSUME NEW u \in Users, NEW n \in Amounts, Unstake(u, n)
      PROVE  StakesInv' /\ PoolsInv'
  BY <1>0, <1>5, UnstakeKeeps
<1>6. ASSUME NEW u \in Users, NEW n \in Amounts, NEW t \in Tokens, Stake(u, n, t)
      PROVE  StakesInv' /\ PoolsInv'
  BY <1>0, <1>6, StakeKeeps
<1>7. ASSUME NEW u \in Voters, NEW v \in Users, RecordInteraction(u, v)
      PROVE  StakesInv' /\ PoolsInv'
  BY <1>1, <1>7 DEF RecordInteraction
<1>8. ASSUME NEW c \in Complainants, NEW r \in Users, OpenDispute(c, r)
      PROVE  StakesInv' /\ PoolsInv'
  BY <1>1, <1>8 DEF OpenDispute
<1>9. ASSUME NEW d \in DisputeIds, NEW u \in Voters, NEW b \in BOOLEAN, VoteDispute(u, d, b)
      PROVE  StakesInv' /\ PoolsInv'
  BY <1>1, <1>9 DEF VoteDispute
<1>10. ASSUME NEW d \in DisputeIds, ResolveDispute(d)
       PROVE  StakesInv' /\ PoolsInv'
  <2>1. dispute[d].respondent \in Users
    BY <1>10 DEF ResolveDispute, RegistryInv, DisputesInv, DisputeOK
  <2>2. UNCHANGED money /\ (stake' = Taken(dispute[d].respondent) \/ stake' = stake)
    BY <1>10 DEF ResolveDispute
  <2> QED
    BY <1>1, <2>1, <2>2, VerdictKeeps
<1>11. ASSUME NEW u \in Admins, NEW c \in Configs, Configure(u, c)
       PROVE  StakesInv' /\ PoolsInv'
  BY <1>1, <1>11 DEF Configure
<1>12. ASSUME Tick \/ UNCHANGED vars PROVE StakesInv' /\ PoolsInv'
  BY <1>1, <1>12 DEF Tick, vars
<1> QED
  BY <1>2, <1>3, <1>4, <1>5, <1>6, <1>7, <1>8, <1>9, <1>10, <1>11, <1>12 DEF Next

-----------------------------------------------------------------------------
(* The losses written down. *)

(* They stay as they are when neither the stakes' records of them nor any term
   of the sum changes. *)
LEMMA LossesStable ==
  ASSUME LossesInv, \A v \in Users : stake'[v].slashed = stake[v].slashed,
         \A v \in Users : \A e \in DisputeIds : Losses(v)'[e] = Losses(v)[e]
  PROVE  LossesInv'
<1>1. ASSUME NEW v \in Users PROVE Losses(v)' = Losses(v)
  BY DEF Losses
<1> QED
  BY <1>1 DEF LossesInv

(* A verdict writes down with the dispute what it writes down with the stake. *)
LEMMA VerdictKeepsLosses ==
  ASSUME RegistryInv, DisputesInv', NEW d \in DisputeIds, ResolveDispute(d)
  PROVE  LossesInv'
<1> DEFINE r == dispute[d].respondent
           loss == IF Outcome(d) = "Guilty" THEN Slash(r) ELSE 0
<1>0. /\ StakeTypes /\ DisputeTypes /\ DisputeTypes' /\ LossesInv /\ ScoreTypes
      /\ r \in Users /\ dispute[d].slashed = 0
  BY DEF RegistryInv, StakesInv, DisputesInv, DisputeOK, ResolveDispute
<1>1. loss \in Nat
  BY <1>0, SlashBounds
<1>2. /\ dispute' = [dispute EXCEPT ![d].outcome = Outcome(d), ![d].slashed = loss]
      /\ \/ stake' = [stake EXCEPT ![r].amount = @ - loss, ![r].slashed = @ + loss]
         \/ stake' = stake /\ loss = 0
  <2>1. CASE Outcome(d) = "Guilty"
    <3>1. loss = Slash(r) /\ stake' = Taken(r)
      BY <2>1 DEF ResolveDispute
    <3> QED
      BY <3>1 DEF ResolveDispute, Taken
  <2>2. CASE Outcome(d) # "Guilty"
    BY <2>2 DEF ResolveDispute
  <2> QED
    BY <2>1, <2>2
<1> HIDE DEF loss
<1>3. /\ dispute'[d].respondent = r /\ dispute'[d].slashed = loss
      /\ \A e \in DisputeIds \ {d} : dispute'[e] = dispute[e]
  BY <1>0, <1>2 DEF DisputeTypes, DisputeRecords
<1>4. \A v \in Users : stake'[v].slashed = stake[v].slashed + (IF v = r THEN loss ELSE 0)
  BY <1>0, <1>1, <1>2 DEF StakeTypes
<1>5. ASSUME NEW v \in Users
      PROVE  stake'[v].slashed = SumFunctionOnSet(Losses(v), DisputeIds)'
  <2>1. Losses(v)[d] = 0 /\ Losses(v)'[d] = IF v = r THEN loss ELSE 0
    BY <1>0, <1>3 DEF Losses
  <2>2. \A e \in DisputeIds : Losses(v)[e] \in Nat /\ Losses(v)'[e] \in Nat
    BY <1>0 DEF Losses, DisputeTypes, DisputeRecords
  <2>3. \A e \in DisputeIds \ {d} : Losses(v)[e] = Losses(v)'[e]
    BY <1>3 DEF Losses
  <2>4. IsFiniteSet(DisputeIds)
    BY FS_Interval, RegistryAssumptions DEF DisputeIds
  <2>5. ASSUME NEW F, NEW H, \A e \in DisputeIds : F[e] \in Nat /\ H[e] \in Nat,
               \A e \in DisputeIds \ {d} : F[e] = H[e]
        PROVE  SumFunctionOnSet(H, DisputeIds) = SumFunctionOnSet(F, DisputeIds) + (H[d] - F[d])
    BY <2>4, <2>5, SumAtPoint
  <2>6. SumFunctionOnSet(Losses(v)', DisputeIds) =
          SumFunctionOnSet(Losses(v), DisputeIds) + (Losses(v)'[d] - Losses(v)[d])
    BY <2>2, <2>3, <2>5
  <2>7. stake[v].slashed = SumFunctionOnSet(Losses(v), DisputeIds) /\ stake[v].slashed \in Nat
    BY <1>0 DEF LossesInv, StakeTypes
  <2>8. (IF v = r THEN loss ELSE 0) \in Nat
    BY <1>1
  <2> QED
    BY <1>4, <2>1, <2>6, <2>7, <2>8
<1> QED
  BY <1>5 DEF LossesInv

(* Every step keeps the losses. *)
LEMMA LossesNext ==
  ASSUME RegistryInv, [Next]_vars
  PROVE  LossesInv'
<1>0. /\ LossesInv /\ StakeTypes /\ DisputeTypes /\ \A d \in DisputeIds : DisputeOK(d)
      /\ DisputesInv'
  BY DisputesNext DEF RegistryInv, StakesInv, DisputesInv
<1>1. ASSUME UNCHANGED <<stake, dispute>>
      PROVE  LossesInv'
  BY <1>0, <1>1 DEF LossesInv, Losses
<1>2. ASSUME NEW u \in Owners, RegisterAgent(u)
      PROVE  LossesInv'
  BY <1>1, <1>2 DEF RegisterAgent, disputeVars
<1>3. ASSUME NEW a \in AgentIds, SettleReputation(a)
      PROVE  LossesInv'
  BY <1>1, <1>3 DEF SettleReputation, disputeVars
<1>4. ASSUME NEW a \in AgentIds, NEW u \in Voters, NEW s \in Scores, VoteReputation(u, a, s)
      PROVE  LossesInv'
  BY <1>1, <1>4 DEF VoteReputation, disputeVars
<1>5. ASSUME NEW u \in Users, NEW n \in Amounts, Unstake(u, n) \/ \E t \in Tokens : Stake(u, n, t)
      PROVE  LossesInv'
  <2>1. dispute' = dispute /\ \A v \in Users : stake'[v].slashed = stake[v].slashed
    <3>1. CASE Unstake(u, n)
      BY <1>0, <3>1 DEF Unstake, disputeVars, StakeTypes
    <3>2. ASSUME NEW t \in Tokens, Stake(u, n, t)
          PROVE  dispute' = dispute /\ \A v \in Users : stake'[v].slashed = stake[v].slashed
      BY <1>0, <3>2 DEF Stake, disputeVars, StakeTypes
    <3> QED
      BY <1>5, <3>1, <3>2
  <2> QED
    BY <1>0, <2>1, LossesStable DEF Losses
<1>6. ASSUME NEW u \in Voters, NEW v \in Users, RecordInteraction(u, v)
      PROVE  LossesInv'
  BY <1>1, <1>6 DEF RecordInteraction, disputeVars
<1>7. ASSUME NEW c \in Complainants, NEW r \in Users, OpenDispute(c, r)
      PROVE  LossesInv'
  <2>1. opened \in Nat /\ opened + 1 \in DisputeIds /\ stake' = stake
    BY <1>0, <1>7, RegistryAssumptions DEF OpenDispute, DisputeTypes, DisputeIds
  <2>2. dispute[opened + 1].slashed = 0
    BY <1>0, <2>1 DEF DisputeOK, NoDispute
  <2>3. /\ dispute'[opened + 1].slashed = 0
        /\ \A e \in DisputeIds \ {opened + 1} : dispute'[e] = dispute[e]
    BY <1>0, <1>7, <2>1 DEF OpenDispute, NoDispute, DisputeTypes
  <2>4. \A v \in Users : \A e \in DisputeIds : Losses(v)'[e] = Losses(v)[e]
    BY <2>2, <2>3 DEF Losses
  <2> QED
    BY <1>0, <2>1, <2>4, LossesStable
<1>8. ASSUME NEW d \in DisputeIds, NEW u \in Voters, NEW b \in BOOLEAN, VoteDispute(u, d, b)
      PROVE  LossesInv'
  <2>1. \A e \in DisputeIds : /\ dispute'[e].respondent = dispute[e].respondent
                              /\ dispute'[e].slashed = dispute[e].slashed
    BY <1>0, <1>8 DEF VoteDispute, DisputeTypes, DisputeRecords
  <2>2. \A v \in Users : \A e \in DisputeIds : Losses(v)'[e] = Losses(v)[e]
    BY <2>1 DEF Losses
  <2> QED
    BY <1>0, <1>8, <2>2, LossesStable DEF VoteDispute
<1>9. ASSUME NEW d \in DisputeIds, ResolveDispute(d)
      PROVE  LossesInv'
  BY <1>0, <1>9, VerdictKeepsLosses
<1>10. ASSUME NEW u \in Admins, NEW c \in Configs, Configure(u, c)
       PROVE  LossesInv'
  BY <1>1, <1>10 DEF Configure, disputeVars
<1>11. ASSUME Tick \/ UNCHANGED vars PROVE LossesInv'
  BY <1>1, <1>11 DEF Tick, vars, disputeVars
<1> QED
  BY <1>2, <1>3, <1>4, <1>5, <1>6, <1>7, <1>8, <1>9, <1>10, <1>11 DEF Next

-----------------------------------------------------------------------------
(* The invariant always holds. *)

(* At the start nothing is staked and no dispute is open. *)
LEMMA RegistryInvInit == Init => RegistryInv
<1> SUFFICES ASSUME Init PROVE RegistryInv
  OBVIOUS
<1>1. ScoreTypes
  <2>1. NoAgent \in [owner : Users \cup {None}, score : 0 .. Bps]
    BY DEF NoAgent, Bps
  <2> QED
    BY <2>1, RegistryAssumptions DEF Init, ScoreTypes
<1>2. DisputesInv
  <2>1. NoDispute \in DisputeRecords
    BY DEF NoDispute, DisputeRecords
  <2> QED
    BY <2>1, RegistryAssumptions
       DEF Init, DisputesInv, DisputeTypes, DisputeOK, NoDispute
<1>3. StakesInv
  BY RegistryAssumptions DEF Init, StakesInv, StakeTypes, StakeOK, NoStake
<1>4. PoolsInv
  <2>1. ASSUME NEW t \in Tokens PROVE SumFunctionOnSet(Backing(t), Users) = 0
    <3>1. IsFiniteSet(Users) /\ \A u \in Users : Backing(t)[u] = 0
      BY RegistryAssumptions DEF Init, Backing, NoStake
    <3> QED
      BY <3>1, SumOfZeros
  <2> QED
    BY <2>1 DEF Init, PoolsInv
<1>5. LossesInv
  <2>1. ASSUME NEW u \in Users PROVE SumFunctionOnSet(Losses(u), DisputeIds) = 0
    <3>1. IsFiniteSet(DisputeIds)
      BY FS_Interval, RegistryAssumptions DEF DisputeIds
    <3>2. \A d \in DisputeIds : Losses(u)[d] = 0
      BY DEF Init, Losses, NoDispute
    <3> QED
      BY <3>1, <3>2, SumOfZeros
  <2> QED
    BY <2>1 DEF Init, LossesInv, NoStake
<1> QED
  BY <1>1, <1>2, <1>3, <1>4, <1>5 DEF RegistryInv

(* Each step keeps its five parts, and so it always holds. *)
LEMMA RegistryInvAlways == Spec => []RegistryInv
<1>1. RegistryInv /\ [Next]_vars => RegistryInv'
  BY ScoresNext, DisputesNext, StakesNext, LossesNext DEF RegistryInv
<1> QED
  BY <1>1, RegistryInvInit, PTL DEF Spec

(* Every record keeps its type: no score leaves 0 .. 10000, no stake, balance or
   wallet goes below 0. *)
THEOREM RegistryTypeCorrect == Spec => []RegistryTypeOK
<1>1. RegistryInv => RegistryTypeOK
  <2> SUFFICES ASSUME RegistryInv PROVE RegistryTypeOK
    OBVIOUS
  <2>1. ScoreTypes /\ StakeTypes /\ DisputeTypes /\ PoolsInv
    BY DEF RegistryInv, StakesInv, DisputesInv
  <2>2. pool \in [Tokens -> Nat]
    <3>1. \A t \in Tokens : pool[t] \in Nat
      BY <2>1, BackingIsFinite DEF PoolsInv
    <3> QED
      BY <2>1, <3>1 DEF StakeTypes
  <2> QED
    BY <2>1, <2>2 DEF RegistryTypeOK, ScoreTypes, StakeTypes, DisputeTypes, DisputeRecords
<1> QED
  BY <1>1, RegistryInvAlways, PTL

(* The balance of a token is the stakes in it and what the verdicts took from
   them; a stake's losses are those of the verdicts. *)
THEOREM StakesAlwaysBacked == Spec => []StakesBacked
<1>1. RegistryInv => StakesBacked
  BY DEF RegistryInv, PoolsInv, LossesInv, Backing, Losses, StakesBacked
<1> QED
  BY <1>1, RegistryInvAlways, PTL

(* While a dispute against it is open a stake falls only by the share that the
   verdict of that dispute takes. *)
THEOREM DisputedStakeAlwaysStays == Spec => DisputedStakeStays
<1> DEFINE Stays(d) ==
      LET r == dispute[d].respondent
      IN dispute[d].outcome = "Pending" =>
           \/ stake'[r].amount >= stake[r].amount
           \/ /\ dispute'[d].outcome = "Guilty"
              /\ stake'[r].amount = stake[r].amount - Slash(r)
<1>1. ASSUME RegistryInv, Next, NEW d \in DisputeIds
      PROVE  Stays(d)
  <2> DEFINE r == dispute[d].respondent
  <2> SUFFICES ASSUME dispute[d].outcome = "Pending"
               PROVE  \/ stake'[r].amount >= stake[r].amount
                      \/ /\ dispute'[d].outcome = "Guilty"
                         /\ stake'[r].amount = stake[r].amount - Slash(r)
    OBVIOUS
  <2>0. /\ StakeTypes /\ DisputeTypes /\ r \in Users /\ DisputeOK(d)
        /\ stake[r].amount \in Nat
    <3>1. StakeTypes /\ DisputeTypes /\ DisputeOK(d)
      BY <1>1 DEF RegistryInv, StakesInv, DisputesInv
    <3>2. r \in Users
      BY <3>1 DEF DisputeOK
    <3> QED
      BY <3>1, <3>2 DEF StakeTypes
  <2>1. ASSUME stake'[r] = stake[r] PROVE stake'[r].amount >= stake[r].amount
    BY <2>0, <2>1
  <2>2. ASSUME NEW u \in Users, NEW n \in Amounts, Unstake(u, n)
        PROVE  stake'[r] = stake[r]
    <3>1. u # r
      BY <1>1, <2>2 DEF Unstake, HasOpenDispute
    <3> QED
      BY <2>0, <2>2, <3>1 DEF Unstake, StakeTypes
  <2>3. ASSUME NEW u \in Users, NEW n \in Amounts, NEW t \in Tokens, Stake(u, n, t)
        PROVE  stake'[r].amount >= stake[r].amount
    <3>1. n \in Nat
      BY RegistryAssumptions
    <3>2. stake'[r].amount = stake[r].amount + (IF r = u THEN n ELSE 0)
      BY <2>0, <2>3 DEF Stake, StakeTypes
    <3> QED
      BY <2>0, <3>1, <3>2
  <2>4. ASSUME NEW e \in DisputeIds, ResolveDispute(e)
        PROVE  \/ stake'[r] = stake[r]
               \/ /\ dispute'[d].outcome = "Guilty"
                  /\ stake'[r].amount = stake[r].amount - Slash(r)
    <3>1. CASE e = d
      <4>1. CASE Outcome(d) = "Guilty"
        BY <2>0, <2>4, <3>1, <4>1
           DEF ResolveDispute, Taken, StakeTypes, DisputeTypes, DisputeRecords
      <4>2. CASE Outcome(d) # "Guilty"
        BY <2>4, <3>1, <4>2 DEF ResolveDispute
      <4> QED
        BY <4>1, <4>2
    <3>2. CASE e # d
      <4>1. dispute[e].respondent # r
        BY <2>0, <2>4, <3>2 DEF ResolveDispute, DisputeOK
      <4>2. CASE Outcome(e) = "Guilty"
        BY <2>0, <2>4, <4>1, <4>2 DEF ResolveDispute, Taken, StakeTypes
      <4>3. CASE Outcome(e) # "Guilty"
        BY <2>4, <4>3 DEF ResolveDispute
      <4> QED
        BY <4>2, <4>3
    <3> QED
      BY <3>1, <3>2
  <2>5. CASE UNCHANGED stake
    BY <2>1, <2>5
  <2>6. ASSUME NEW u \in Owners, RegisterAgent(u)
        PROVE  UNCHANGED stake
    BY <2>6 DEF RegisterAgent
  <2>7. ASSUME NEW a \in AgentIds,
               SettleReputation(a) \/ \E u \in Voters, s \in Scores : VoteReputation(u, a, s)
        PROVE  UNCHANGED stake
    BY <2>7 DEF SettleReputation, VoteReputation
  <2>8. ASSUME NEW u \in Voters, NEW v \in Users, RecordInteraction(u, v)
        PROVE  UNCHANGED stake
    BY <2>8 DEF RecordInteraction
  <2>9. ASSUME NEW c \in Complainants, NEW v \in Users, OpenDispute(c, v)
        PROVE  UNCHANGED stake
    BY <2>9 DEF OpenDispute
  <2>10. ASSUME NEW e \in DisputeIds, NEW u \in Voters, NEW b \in BOOLEAN, VoteDispute(u, e, b)
         PROVE  UNCHANGED stake
    BY <2>10 DEF VoteDispute
  <2>11. ASSUME NEW u \in Admins, NEW c \in Configs, Configure(u, c)
         PROVE  UNCHANGED stake
    BY <2>11 DEF Configure
  <2>12. ASSUME Tick PROVE UNCHANGED stake
    BY <2>12 DEF Tick
  <2> QED
    BY <1>1, <2>1, <2>2, <2>3, <2>4, <2>5, <2>6, <2>7, <2>8, <2>9, <2>10, <2>11, <2>12
       DEF Next
<1>2. RegistryInv /\ [Next]_vars => [\A d \in DisputeIds : Stays(d)]_vars
  BY <1>1
<1> QED
  BY <1>2, RegistryInvAlways, PTL DEF Spec, DisputedStakeStays

(* A decayed score rises only by a vote or a change of the configuration. *)
THEOREM ScoresAlwaysFall == Spec => ScoresOnlyFall
<1> DEFINE Falls(a) ==
      rated' = rated /\ config' = config => Decayed(a)' <= Decayed(a)
<1>1. ASSUME RegistryInv, Next, NEW a \in 1 .. registered
      PROVE  Falls(a)
  <2> SUFFICES ASSUME rated' = rated, config' = config
               PROVE  Decayed(a)' <= Decayed(a)
    OBVIOUS
  <2>0. ScoreTypes /\ a \in AgentIds /\ a # registered + 1
    <3>1. ScoreTypes
      BY <1>1 DEF RegistryInv
    <3>2. registered \in 0 .. MaxAgents /\ MaxAgents \in Nat
      BY <3>1, RegistryAssumptions DEF ScoreTypes
    <3>3. a \in AgentIds
      BY <1>1, <3>2 DEF AgentIds
    <3>4. a # registered + 1
      BY <1>1, <3>2
    <3> QED
      BY <3>1, <3>3, <3>4
  <2>1. /\ agent[a].score \in Nat /\ now - scoredAt[a] \in Nat /\ now \in Nat
        /\ Decayed(a) \in Nat /\ Decayed(a) \in 0 .. Bps /\ scoredAt[a] \in Nat
    <3>1. agent[a].score \in 0 .. Bps /\ now - scoredAt[a] \in Nat /\ now \in Nat
          /\ scoredAt[a] \in Nat
      BY <2>0 DEF ScoreTypes
    <3>2. Decayed(a) \in 0 .. Bps
      BY <2>0, DecayedBounds
    <3>3. \A x \in 0 .. Bps : x \in Nat
      BY DEF Bps
    <3> QED
      BY <3>1, <3>2, <3>3
  <2>2. Decayed(a)' = DecayScore(agent'[a].score, now' - scoredAt'[a])
    BY DEF Decayed, DecayScore
  <2>3. ASSUME NEW base \in Nat, NEW d \in Nat, NEW e \in Nat, d <= e
        PROVE  DecayScore(base, e) <= DecayScore(base, d) /\ DecayScore(base, 0) = base
    BY <2>0, <2>3, ConfigTypes, DecayBounds
  <2>4. ASSUME agent'[a].score = agent[a].score, scoredAt'[a] = scoredAt[a], now' = now
        PROVE  Decayed(a)' <= Decayed(a)
    <3>1. Decayed(a)' = Decayed(a)
      BY <2>2, <2>4 DEF Decayed
    <3> QED
      BY <2>1, <3>1
  <2>5. ASSUME agent'[a].score \in Nat, agent'[a].score <= Decayed(a),
               scoredAt'[a] = now, now' = now
        PROVE  Decayed(a)' <= Decayed(a)
    <3>1. now' - scoredAt'[a] = 0
      BY <2>1, <2>5
    <3>2. 0 \in Nat /\ 0 <= 0
      OBVIOUS
    <3>3. DecayScore(agent'[a].score, 0) = agent'[a].score
      BY <2>3, <2>5, <3>2
    <3> QED
      BY <2>2, <2>5, <3>1, <3>3
  <2>6. ASSUME NEW score, Settled(score), now' = now,
               a \in DOMAIN score => score[a] \in Nat /\ score[a] <= Decayed(a)
        PROVE  Decayed(a)' <= Decayed(a)
    <3>1. CASE a \in DOMAIN score
      <4>1. agent'[a].score = score[a] /\ scoredAt'[a] = now
        BY <2>0, <2>6, <3>1 DEF Settled, ScoreTypes
      <4> QED
        BY <2>5, <2>6, <3>1, <4>1
    <3>2. CASE a \notin DOMAIN score
      BY <2>0, <2>4, <2>6, <3>2 DEF Settled
    <3> QED
      BY <3>1, <3>2
  <2>7. ASSUME NEW u \in Owners, RegisterAgent(u)
        PROVE  Decayed(a)' <= Decayed(a)
    BY <2>0, <2>4, <2>7 DEF RegisterAgent, ScoreTypes
  <2>8. ASSUME NEW b \in AgentIds, SettleReputation(b)
        PROVE  Decayed(a)' <= Decayed(a)
    <3> DEFINE score == [x \in {b} |-> Decayed(x)]
    <3>1. a \in DOMAIN score => score[a] \in Nat /\ score[a] <= Decayed(a)
      BY <2>1
    <3>2. Settled(score) /\ now' = now
      BY <2>8 DEF SettleReputation
    <3> HIDE DEF score
    <3> QED
      BY <2>6, <3>1, <3>2
  <2>9. ASSUME NEW b \in AgentIds, NEW u \in Voters, NEW s \in Scores, VoteReputation(u, b, s)
        PROVE  FALSE
    BY <2>9 DEF VoteReputation
  <2>10. ASSUME NEW d \in DisputeIds, ResolveDispute(d)
         PROVE  Decayed(a)' <= Decayed(a)
    <3>1. CASE Outcome(d) = "Guilty"
      <4> DEFINE score == [x \in Owned(dispute[d].respondent) |->
                             (Decayed(x) * (Bps - config.slash)) \div Bps]
      <4>1. Settled(score) /\ now' = now
        BY <2>10, <3>1 DEF ResolveDispute
      <4>2. a \in DOMAIN score => score[a] \in Nat /\ score[a] <= Decayed(a)
        <5>1. Bps - config.slash \in 0 .. Bps
          <6>1. \A k \in 0 .. Bps : Bps - k \in 0 .. Bps
            BY DEF Bps
          <6> QED
            BY <2>0, <6>1, ConfigTypes
        <5>2. (Decayed(a) * (Bps - config.slash)) \div Bps \in 0 .. Decayed(a)
          BY <2>1, <5>1, ShareBounds
        <5>3. \A x \in 0 .. Decayed(a) : x \in Nat /\ x <= Decayed(a)
          BY <2>1
        <5> QED
          BY <5>2, <5>3
      <4> HIDE DEF score
      <4> QED
        BY <2>6, <4>1, <4>2
    <3>2. CASE Outcome(d) # "Guilty"
      BY <2>4, <2>10, <3>2 DEF ResolveDispute
    <3> QED
      BY <3>1, <3>2
  <2>11. ASSUME Tick PROVE Decayed(a)' <= Decayed(a)
    <3>1. agent' = agent /\ scoredAt' = scoredAt /\ now' = now + 1
      BY <2>11 DEF Tick, reputationVars
    <3>2. now' - scoredAt'[a] \in Nat /\ now - scoredAt[a] <= now' - scoredAt'[a]
      BY <2>1, <3>1
    <3>3. DecayScore(agent[a].score, now' - scoredAt'[a])
            <= DecayScore(agent[a].score, now - scoredAt[a])
      BY <2>1, <2>3, <3>2
    <3> QED
      BY <2>2, <3>1, <3>3 DEF Decayed
  <2>12. CASE UNCHANGED <<reputationVars, now>>
    BY <2>4, <2>12 DEF reputationVars
  <2>13. ASSUME NEW u \in Users, NEW n \in Amounts, Unstake(u, n) \/ \E t \in Tokens : Stake(u, n, t)
         PROVE  UNCHANGED <<reputationVars, now>>
    BY <2>13 DEF Unstake, Stake
  <2>14. ASSUME NEW u \in Voters, NEW v \in Users, RecordInteraction(u, v)
         PROVE  UNCHANGED <<reputationVars, now>>
    BY <2>14 DEF RecordInteraction
  <2>15. ASSUME NEW c \in Complainants, NEW r \in Users, OpenDispute(c, r)
         PROVE  UNCHANGED <<reputationVars, now>>
    BY <2>15 DEF OpenDispute
  <2>16. ASSUME NEW d \in DisputeIds, NEW u \in Voters, NEW b \in BOOLEAN, VoteDispute(u, d, b)
         PROVE  UNCHANGED <<reputationVars, now>>
    BY <2>16 DEF VoteDispute
  <2>17. ASSUME NEW u \in Admins, NEW c \in Configs, Configure(u, c)
         PROVE  UNCHANGED <<reputationVars, now>>
    BY <2>17 DEF Configure
  <2> QED
    BY <1>1, <2>7, <2>8, <2>9, <2>10, <2>11, <2>12, <2>13, <2>14, <2>15, <2>16, <2>17 DEF Next
<1>2. RegistryInv /\ [Next]_vars => [\A a \in 1 .. registered : Falls(a)]_vars
  BY <1>1
<1> QED
  BY <1>2, RegistryInvAlways, PTL DEF Spec, ScoresOnlyFall
=============================================================================
