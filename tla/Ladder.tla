------------------------------- MODULE Ladder -------------------------------
(***************************************************************************)
(* The arithmetic of a Strategy V2 plan (execution.py and the plan         *)
(* validators of domain.py): the stop, the three entry legs sized against  *)
(* the frozen risk budget, the three fixed exits, and what the refresh at  *)
(* the submission quote and the rebase on the actual fill make of them.    *)
(*                                                                         *)
(* Decimals are exact rationals here, written <<n, d>> with d > 0; what    *)
(* the exchange quantises is an integer: a price counts fractions of a     *)
(* tick (Tick of them), a quantity counts quantity steps, money is their   *)
(* product.  A plan is a record; a refusal (ExecutionPlanningError, or the *)
(* plan validator's ValueError) is the record Refusal(why).                *)
(***************************************************************************)
EXTENDS Integers, Sequences

CONSTANTS
    Tick,        \* price units in one tick
    MinQty,      \* the instrument's smallest order, in quantity steps
    MinNotional, \* the instrument's smallest order value; 0 is none
    LevFilter,   \* the instrument's leverage filter [min, max, step]
    Policy,      \* the StrategyV2Policy: percentages, depths, R multiples
    None         \* a field the code leaves as None

Refusal(why) == [refused |-> why]
Refused(plan) == "refused" \in DOMAIN plan

Whole == 100
Dir(side) == IF side = "LONG" THEN 1 ELSE -1
Dist(a, b) == IF a < b THEN b - a ELSE a - b
Least(a, b) == IF a < b THEN a ELSE b
SumOver(S, f) ==
    LET sum[T \in SUBSET S] ==
            IF T = {} THEN 0
            ELSE LET x == CHOOSE x \in T : TRUE IN f[x] + sum[T \ {x}]
    IN  sum[S]

\* the nearest tick, halves away from zero
RoundPrice(r) == Tick * ((2 * r[1] + r[2] * Tick) \div (2 * r[2] * Tick))
\* Mutant: quantities to the nearest step.
RoundNearest(r) == (2 * r[1] + r[2]) \div (2 * r[2])
\* the quantity below
RoundDown(r) == r[1] \div r[2]

\* a below b: a is further on the losing side of b
Below(side, a, b) == Dir(side) * a < Dir(side) * b

ValidPolicy ==
    /\ Policy.risk[1] + Policy.risk[2] + Policy.risk[3] = Whole
    /\ \A i \in 1..3 : Policy.risk[i] > 0 /\ Policy.exits[i] > 0
    /\ 0 < Policy.depth[1] /\ Policy.depth[1] < Policy.depth[2]
    /\ Policy.depth[2] < Whole
    /\ Policy.r[1] < Policy.r[2] /\ Policy.r[2] < Policy.r[3] /\ Policy.r[1] > 0
    /\ Policy.exits[1] + Policy.exits[2] + Policy.exits[3] + Policy.runner = Whole
    /\ Policy.runner > 0

ASSUME LadderConstants ==
    /\ Tick \in Nat \ {0} /\ MinQty \in Nat /\ MinNotional \in Nat
    /\ None \notin Int /\ None # "budget"
    /\ Policy \in [risk : [1..3 -> Nat], depth : [1..2 -> Nat], r : [1..3 -> Nat],
                  exits : [1..3 -> Nat], runner : Nat, fallback : Nat]
    /\ LevFilter \in [min : Nat, max : Nat, step : Nat]
    /\ LevFilter.min >= 1 /\ LevFilter.max >= LevFilter.min /\ LevFilter.step > 0
    /\ ValidPolicy

(***************************************************************************)
(* Intents: what the trader's post asked for, with None for what it left   *)
(* out.                                                                    *)
(***************************************************************************)
ValidEntry(e) ==
    CASE e.type = "MARKET" -> e.price = None /\ e.low = None /\ e.high = None
      [] e.type = "LIMIT"  -> e.price # None /\ e.low = None /\ e.high = None
      [] e.type = "RANGE"  -> /\ e.price = None /\ e.low # None /\ e.high # None
                              /\ e.low < e.high

\* the trader's stop and target lie on the right sides of the entry
ValidIntent(in) ==
    LET lo == IF in.entry.type = "LIMIT" THEN in.entry.price ELSE in.entry.low
        hi == IF in.entry.type = "LIMIT" THEN in.entry.price ELSE in.entry.high
        near == IF in.side = "LONG" THEN hi ELSE lo
        far == IF in.side = "LONG" THEN lo ELSE hi
    IN  IF in.entry.type = "MARKET"
        THEN in.stop # None /\ in.target # None => Below(in.side, in.stop, in.target)
        ELSE /\ in.stop # None => Below(in.side, in.stop, far)
             /\ in.target # None => Below(in.side, near, in.target)

\* a trader's stop goes to the nearest tick, the policy's away from the entry
StopLoss(in, market) ==
    LET anchor == CASE in.entry.type = "MARKET" -> market
                    [] in.entry.type = "LIMIT"  -> in.entry.price
                    [] OTHER -> IF in.side = "LONG" THEN in.entry.low ELSE in.entry.high
        raw == anchor * (Whole - Dir(in.side) * Policy.fallback)
    IN  IF in.stop # None THEN RoundPrice(<<in.stop, 1>>)
        ELSE IF in.side = "LONG" THEN Tick * (raw \div (Whole * Tick))
        ELSE Tick * ((raw + Whole * Tick - 1) \div (Whole * Tick))

RangePrices(in) ==
    LET low == RoundPrice(<<in.entry.low, 1>>)
        high == RoundPrice(<<in.entry.high, 1>>)
        middle == RoundPrice(<<in.entry.low + in.entry.high, 2>>)
    IN  IF in.side = "LONG" THEN <<high, middle, low>> ELSE <<low, middle, high>>

\* E2 and E3 at their depths between E1 and the stop
LadderPrices(side, first, stop) ==
    LET at(depth) == RoundPrice(<<Whole * first - Dir(side) * depth * Dist(first, stop), Whole>>)
    IN  <<first, at(Policy.depth[1]), at(Policy.depth[2])>>

EntryPrices(in, market, stop) ==
    CASE in.entry.type = "RANGE"  -> RangePrices(in)
      [] in.entry.type = "LIMIT"  -> LadderPrices(in.side, RoundPrice(<<in.entry.price, 1>>), stop)
      [] in.entry.type = "MARKET" -> LadderPrices(in.side, market, stop)

\* every level on the right side of the stop, each nearer to it than the last
EntryGeometry(side, p, stop) ==
    /\ \A i \in 1..3 : Below(side, stop, p[i])
    /\ Below(side, p[2], p[1]) /\ Below(side, p[3], p[2])

\* a resting entry the market has already passed is not chased
NotPassedThrough(in, p, market) ==
    in.entry.type = "MARKET" \/ ~Below(in.side, market, p[1])

(***************************************************************************)
(* Legs.  A leg is [type, qty, ref]; its quantity is what its share of the *)
(* budget buys at its distance to the stop, rounded down.                  *)
(***************************************************************************)
LegQuantity(share, ref, stop) == RoundDown(<<share[1], share[2] * Dist(ref, stop)>>)

MeetsMinima(qty, price) ==
    qty > 0 /\ qty >= MinQty /\ qty * price >= MinNotional

Loss(legs, stop) ==
    legs[1].qty * Dist(legs[1].ref, stop) + legs[2].qty * Dist(legs[2].ref, stop)
        + legs[3].qty * Dist(legs[3].ref, stop)

TotalQty(legs) == legs[1].qty + legs[2].qty + legs[3].qty

WeightedEntry(legs) ==
    <<legs[1].qty * legs[1].ref + legs[2].qty * legs[2].ref + legs[3].qty * legs[3].ref,
      TotalQty(legs)>>

PlannedLegs(in, prices, stop, budget) ==
    [i \in 1..3 |->
        [type |-> IF i = 1 /\ in.entry.type = "MARKET" THEN "MARKET" ELSE "LIMIT",
         qty  |-> LegQuantity(<<budget * Policy.risk[i], Whole>>, prices[i], stop),
         ref  |-> prices[i]]]

(***************************************************************************)
(* Targets.  R is the distance of the weighted entry to the stop; a target *)
(* is [price, r, pct].  A trader's target nearer than the third policy     *)
(* exit becomes the third exit, with the second midway; one nearer than    *)
(* the first exit is refused.                                              *)
(***************************************************************************)
RiskDistance(we, stop) == <<Dist(we[1], stop * we[2]), we[2]>>

TraderR(side, we, stop, trader) ==
    <<Dir(side) * (trader * we[2] - we[1]), RiskDistance(we, stop)[1]>>

AtMost(r, bound) == r[1] * Whole <= bound * r[2]
AtLeast(r, bound) == r[1] * Whole >= bound * r[2]

PolicyRules == [i \in 1..3 |-> <<Policy.r[i], Whole>>]

ExitRules(side, we, stop, trader) ==
    LET tr == TraderR(side, we, stop, trader)
    IN  IF trader = None \/ AtLeast(tr, Policy.r[3]) THEN PolicyRules
        ELSE <<<<Policy.r[1], Whole>>,
               <<Policy.r[1] * tr[2] + tr[1] * Whole, 2 * Whole * tr[2]>>,
               tr>>

TargetPrice(side, we, stop, r) ==
    RoundPrice(<<we[1] * r[2] + Dir(side) * RiskDistance(we, stop)[1] * r[1], we[2] * r[2]>>)

Targets(side, we, stop, trader) ==
    LET rules == ExitRules(side, we, stop, trader)
    IN  [i \in 1..3 |-> [price |-> TargetPrice(side, we, stop, rules[i]),
                         r |-> rules[i], pct |-> Policy.exits[i]]]

\* positive, in order, and all beyond the weighted entry
TargetGeometry(side, we, targets) ==
    /\ \A i \in 1..3 : targets[i].price > 0
    /\ Below(side, targets[1].price, targets[2].price)
    /\ Below(side, targets[2].price, targets[3].price)
    /\ \A i \in 1..3 : Below(side, we[1], targets[i].price * we[2])

\* the exits E1 alone can carry: some fixed exit, and a runner left over
ExitCapacity(side, leg, stop, targets) ==
    LET qty(i) == RoundDown(<<leg.qty * targets[i].pct, Whole>>)
        price(i) == TargetPrice(side, <<leg.ref, 1>>, stop, targets[i].r)
        placeable(i) == IF MeetsMinima(qty(i), price(i)) THEN qty(i) ELSE 0
        placed == placeable(1) + placeable(2) + placeable(3)
    IN  /\ placed > 0
        /\ leg.qty - placed > 0 /\ leg.qty - placed >= MinQty

TargetTooClose(side, we, stop, trader) ==
    trader # None /\ AtMost(TraderR(side, we, stop, trader), Policy.r[1])

ExitsStand(side, legs, stop, targets) ==
    /\ TargetGeometry(side, WeightedEntry(legs), targets)
    /\ ExitCapacity(side, legs[1], stop, targets)

\* the leverage at or below the request on the filter's grid; 0 if there is none
Select(requested, max) ==
    IF requested < LevFilter.min \/ max < LevFilter.min THEN 0
    ELSE LevFilter.min
         + LevFilter.step * ((Least(requested, max) - LevFilter.min) \div LevFilter.step)

PlanLeverage(in) == Select(IF in.leverage = None THEN 10 ELSE in.leverage, LevFilter.max)

(***************************************************************************)
(* plan: the first plan of an intent, against one market read.  A SHORT's  *)
(* first level that rounds to zero is no PlannedOrder: a ValueError, which *)
(* decides nothing about the intent (Refusal(None)).                       *)
(***************************************************************************)
PlanFor(in, market, budget) ==
    LET stop == StopLoss(in, market)
        prices == EntryPrices(in, market, stop)
        legs == PlannedLegs(in, prices, stop, budget)
        we == WeightedEntry(legs)
        trader == IF in.target = None THEN None ELSE RoundPrice(<<in.target, 1>>)
        targets == Targets(in.side, we, stop, trader)
    IN  IF stop <= 0 THEN Refusal("stop")
        ELSE IF ~EntryGeometry(in.side, prices, stop) THEN Refusal("geometry")
        ELSE IF ~NotPassedThrough(in, prices, market) THEN Refusal("passed")
        ELSE IF MeetsMinima(legs[1].qty, legs[1].ref) /\ legs[1].ref <= 0 THEN Refusal(None)
        ELSE IF \E i \in 1..3 : ~MeetsMinima(legs[i].qty, legs[i].ref) THEN Refusal("minimum")
        ELSE IF Loss(legs, stop) > budget THEN Refusal("budget")
        ELSE IF TargetTooClose(in.side, we, stop, trader) THEN Refusal("target")
        ELSE IF ~ExitsStand(in.side, legs, stop, targets) THEN Refusal("exits")
        ELSE IF PlanLeverage(in) = 0 THEN Refusal("leverage")
        ELSE [side |-> in.side, legs |-> legs, stop |-> stop, targets |-> targets,
              leverage |-> PlanLeverage(in), trader |-> in.target, budget |-> budget, loss |-> Loss(legs, stop)]

(***************************************************************************)
(* rebase_market_plan: the stop and the budget stay; E1 is what filled;    *)
(* E2 and E3 share, in proportion, what the fill left of the budget, and   *)
(* never more than their own percentages.                                  *)
(***************************************************************************)
\* E2's or E3's share of the budget after E1 risked `primary'
ScaleInShare(budget, primary, i) ==
    LET rest == Policy.risk[2] + Policy.risk[3]
        left == budget - primary
    IN  IF Whole * left >= budget * rest
        THEN <<budget * Policy.risk[i], Whole>>
        ELSE <<left * Policy.risk[i], rest>>

RebasedLegs(plan, price, qty) ==
    LET prices == LadderPrices(plan.side, price, plan.stop)
        primary == qty * Dist(price, plan.stop)
    IN  [i \in 1..3 |->
            IF i = 1 THEN [type |-> "MARKET", qty |-> qty, ref |-> price]
            ELSE [type |-> "LIMIT", ref |-> prices[i],
                  qty |-> LegQuantity(ScaleInShare(plan.budget, primary, i), prices[i], plan.stop)]]

Rebase(plan, price, qty) ==
    LET prices == LadderPrices(plan.side, price, plan.stop)
        legs == RebasedLegs(plan, price, qty)
        we == WeightedEntry(legs)
        trader == IF plan.trader = None THEN None ELSE RoundPrice(<<plan.trader, 1>>)
        targets == Targets(plan.side, we, plan.stop, trader)
    IN  IF plan.legs[1].type # "MARKET" \/ price <= 0 \/ qty <= 0 THEN Refusal("input")
        ELSE IF ~EntryGeometry(plan.side, prices, plan.stop) THEN Refusal("geometry")
        ELSE IF qty * Dist(price, plan.stop) >= plan.budget THEN Refusal("consumed")
        ELSE IF \E i \in 2..3 : ~MeetsMinima(legs[i].qty, legs[i].ref) THEN Refusal("minimum")
        ELSE IF Loss(legs, plan.stop) > plan.budget THEN Refusal("budget")
        ELSE IF TargetTooClose(plan.side, we, plan.stop, trader) THEN Refusal("target")
        ELSE IF ~ExitsStand(plan.side, legs, plan.stop, targets) THEN Refusal("exits")
        ELSE [plan EXCEPT !.legs = legs, !.targets = targets, !.loss = Loss(legs, plan.stop)]

(***************************************************************************)
(* refresh_market_plan: at the submission quote E1 keeps its quantity or   *)
(* takes the smaller one its share of the budget buys there, and the whole *)
(* ladder must still stand as if E1 filled at the quote.                   *)
(***************************************************************************)
RefreshedQuantity(plan, price) ==
    Least(plan.legs[1].qty,
          LegQuantity(<<plan.budget * Policy.risk[1], Whole>>, price, plan.stop))

Refresh(plan, price) ==
    LET qty == RefreshedQuantity(plan, price)
    IN  IF ~Below(plan.side, plan.stop, price) THEN Refusal("geometry")
        ELSE IF ~MeetsMinima(qty, price) THEN Refusal("minimum")
        ELSE Rebase(plan, price, qty)

(***************************************************************************)
(* validate_risk_budget and _validate_v2_ladder: what a stored plan must   *)
(* satisfy each time it is loaded.                                         *)
(***************************************************************************)
ValidPlan(plan) ==
    /\ plan.loss <= plan.budget
    /\ Len(plan.legs) = 3 /\ Len(plan.targets) = 3
    /\ plan.targets[1].pct + plan.targets[2].pct + plan.targets[3].pct + Policy.runner = Whole
    /\ \A i \in 1..3 : plan.legs[i].qty > 0 /\ plan.legs[i].ref > 0 /\ plan.targets[i].price > 0
=============================================================================
