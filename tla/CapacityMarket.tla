---------------------------- MODULE CapacityMarket ----------------------------
(***************************************************************************)
(* The arithmetic of congestion prices: the base fee, as the backend       *)
(* estimates it (backend/src/market/BaseFeeController.js) and as the       *)
(* marketplace contract fixes it for a window (update_base_fee in          *)
(* contract/contracts/marketplace/src/lib.rs); the capacity window that    *)
(* admits calls (CapacityWindow.js); and the order of service              *)
(* (PriorityQueue.js).                                                     *)
(*                                                                         *)
(* Utilisations and changes are in basis points.  The figures are those of *)
(* DEFAULT_CONFIG, which every user of the code takes.                     *)
(***************************************************************************)
EXTENDS Integers, FiniteSets

Least(x, y) == IF x < y THEN x ELSE y
Greatest(x, y) == IF x < y THEN y ELSE x

-----------------------------------------------------------------------------
(* The base fee. *)

Target == 5000
Smoothing == 8
MaxChange == 1250
MinFee == 100
MaxFee == 1000000000

(* The most a fee may move in one window. *)
MaxDelta(fee) == (fee * MaxChange) \div 10000

Capped(fee, delta) == IF delta > MaxDelta(fee) /\ MaxDelta(fee) > 0 THEN MaxDelta(fee) ELSE delta

(* The utilisation, never outside 0 .. 10000, makes the fee rise by one at least
   and fall by nothing at most. *)
Rise(fee, util) ==
  LET delta == (fee * (util - Target)) \div (Target * Smoothing)
  IN Capped(fee, IF delta = 0 THEN 1 ELSE delta)
Fall(fee, util) == Capped(fee, (fee * (Target - util)) \div (Target * Smoothing))

Clamp(fee) == IF fee < MinFee THEN MinFee ELSE Least(fee, MaxFee)

(* calculateNextBaseFee *)
NextBaseFee(fee, utilisation) ==
  LET util == Greatest(0, Least(10000, utilisation))
  IN IF util = Target THEN Clamp(fee)
     ELSE IF util > Target THEN Clamp(fee + Rise(fee, util))
     ELSE Clamp(IF fee > Fall(fee, util) THEN fee - Fall(fee, util) ELSE MinFee)

(* What update_base_fee stores for a window; it has no upper bound. *)
NextContractFee(fee, utilisation) ==
  LET util == Least(utilisation, 10000)
  IN IF util = Target THEN fee
     ELSE IF util > Target THEN fee + Rise(fee, util)
     ELSE IF fee > Fall(fee, util) THEN Greatest(fee - Fall(fee, util), MinFee) ELSE MinFee

-----------------------------------------------------------------------------
(* A capacity window: its number, what it has admitted, and what it starts with
   on account of the one before.  max and target are its configuration. *)

(* advance: an overload is carried into the next window, a tenth of it, and no
   further.  A clock that goes back changes nothing. *)
Advanced(w, id) ==
  LET overload == Greatest(0, w.consumed + w.carry - w.target)
  IN IF id > w.id
     THEN [id |-> id, consumed |-> 0, max |-> w.max, target |-> w.target,
           carry |-> IF id = w.id + 1 THEN overload \div 10 ELSE 0]
     ELSE w

Admits(w, units) == w.consumed + w.carry + units <= w.max

(* consume *)
Consumed(w, units, id) ==
  LET v == Advanced(w, id)
  IN IF Admits(v, units) THEN [v EXCEPT !.consumed = @ + units] ELSE v

-----------------------------------------------------------------------------
(* The order of service. *)

MaxAge == 5
Bonus == 100
Boost == 1000000000

(* getEffectiveTip *)
EffectiveTip(call, window) ==
  LET age == Greatest(0, window - call.since)
  IN call.tip + age * Bonus + (IF age >= MaxAge THEN Boost ELSE 0)

(* The comparison drain() sorts by; at is a call's place in the order of arrival. *)
Precedes(a, b, window) ==
  \/ EffectiveTip(a, window) > EffectiveTip(b, window)
  \/ EffectiveTip(a, window) = EffectiveTip(b, window) /\ a.at < b.at

Drained(queue, limit, window) ==
  {c \in queue : Cardinality({d \in queue : Precedes(d, c, window)}) < limit}
=============================================================================
