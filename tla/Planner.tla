------------------------------- MODULE Planner -------------------------------
(***************************************************************************)
(* A plan's life: the planning pass sizes a batch of intents against one   *)
(* reading of the account (signals/planning.py, portfolio_risk.py), and    *)
(* later, one at a time under the coordinator's lock, each plan is checked *)
(* against the portfolio cap, given its leverage and its physical requests *)
(* (bybit/leverage.py, bybit/entry_limits.py), refreshed at the submission *)
(* quote, filled, and rebased on the fill before its scale-ins rest        *)
(* (execution_coordinator.py, bybit/executor.py).  Every read of the       *)
(* market sees some quote: prices move between any two steps.              *)
(***************************************************************************)
EXTENDS Ladder, FiniteSets

CONSTANTS
    Intents,     \* the intents, each on a symbol of its own
    Contents,    \* what one may ask for: [side, entry, stop, target, leverage, auto]
    Batches,     \* the sequences of intents one planning pass may get
    Quotes,      \* the prices a market read may return
    Budget,      \* capital * risk_per_trade_pct
    LongRisk,    \* demo_long_risk_multiplier as <<n, d>>
    Gate,        \* demo_long_momentum_gate
    Skips,       \* demo_long_participation_skip_fraction > 0
    Cap,         \* demo_portfolio_stop_risk_cap_usdt
    MarketMax, LimitMax, \* the largest market and limit request
    MaxSlices,   \* partial stops the exchange takes per symbol (20)
    Tiers        \* risk tiers by rising limit: seq of [limit, max]

BothSides == {"LONG", "SHORT"}
Given == (Nat \ {0}) \cup {None}
Entries == [type : {"MARKET", "LIMIT", "RANGE"}, price : Given, low : Given, high : Given]
Asked == [side : BothSides, entry : Entries, stop : Given, target : Given, leverage : Given,
          auto : BOOLEAN]

ASSUME PlannerConstants ==
    /\ IsFiniteSet(Intents) /\ None \notin Intents
    /\ Contents \subseteq Asked
    /\ \A b \in Batches : b \in Seq(Intents)
                          /\ \A m, n \in 1..Len(b) : b[m] = b[n] => m = n
    /\ Quotes \subseteq Nat \ {0}
    /\ {Budget, Cap, MaxSlices} \subseteq Nat
    /\ LongRisk \in Nat \X (Nat \ {0})
    /\ {MarketMax, LimitMax} \subseteq Nat \ {0}
    /\ Tiers \in Seq([limit : Nat, max : Nat])

VARIABLES
    intent,      \* intent -> what it asks for, once extracted
    todo,        \* intents the running planning pass has still to plan
    existing,    \* open stop risk read when that pass began
    reserved,    \* risk that pass has planned so far
    phase,       \* intent -> where its plan is
    plan,        \* intent -> the persisted plan, or a Refusal
    slices,      \* intent -> leg -> its physical entry requests
    live,        \* intent -> [qty, cost, resting]: position and resting legs
    lock         \* the intent whose execution holds the mutation lock

vars == <<intent, todo, existing, reserved, phase, plan, slices, live, lock>>

In(i) == intent[i]
Flat == [qty |-> 0, cost |-> 0, resting |-> {}]

(***************************************************************************)
(* Risk on the account (portfolio_risk.py).                                *)
(***************************************************************************)
PositionRisk(i) ==
    LET away == Dir(plan[i].side) * (live[i].cost - plan[i].stop * live[i].qty)
    IN  IF away > 0 THEN away ELSE 0

LegRisk(i, k) == plan[i].legs[k].qty * Dist(plan[i].legs[k].ref, plan[i].stop)

RestingRisk(i) ==
    (IF 1 \in live[i].resting THEN LegRisk(i, 1) ELSE 0)
        + (IF 2 \in live[i].resting THEN LegRisk(i, 2) ELSE 0)
        + (IF 3 \in live[i].resting THEN LegRisk(i, 3) ELSE 0)

StopRisk(i) == IF live[i] = Flat THEN 0 ELSE PositionRisk(i) + RestingRisk(i)

\* Mutant: resting entries carry no risk.
PositionsOnly == SumOver(Intents, [i \in Intents |-> IF live[i] = Flat THEN 0
                                                  ELSE PositionRisk(i)])

OpenRisk == SumOver(Intents, [i \in Intents |-> StopRisk(i)])

\* _policy_for_intent_side and policy_with_remaining_portfolio_risk
SideBudget(side) == IF side = "LONG" THEN (Budget * LongRisk[1]) \div LongRisk[2] ELSE Budget
BudgetFor(side, remaining) == Least(SideBudget(side), remaining)

(***************************************************************************)
(* The participation arm of an AUTO LONG: the momentum stratum decides     *)
(* when the gate is on and has one, the hash bucket of the intent if not.  *)
(***************************************************************************)
Strata == IF Gate THEN {"positive", "nonpositive", None} ELSE {None}

Arm(in, stratum, bucketSkips) ==
    IF in.side # "LONG" \/ ~in.auto \/ ~(Gate \/ Skips) THEN None
    ELSE IF stratum # None THEN (IF stratum = "positive" THEN "take" ELSE "skip")
    ELSE IF Skips /\ bucketSkips THEN "skip" ELSE "take"

(***************************************************************************)
(* Leverage (tier_leverage), from the higher of reference and mark.        *)
(***************************************************************************)
Notional(p, mark) ==
    LET worth(k) == p.legs[k].qty * (IF mark > p.legs[k].ref THEN mark ELSE p.legs[k].ref)
    IN  worth(1) + worth(2) + worth(3)

\* the tier the account is in and the tier the whole ladder would need
TierLeverage(p, current, mark) ==
    LET fits == {t \in 1..Len(Tiers) : Notional(p, mark) <= Tiers[t].limit}
        projected == CHOOSE t \in fits : \A u \in fits : t <= u
    IN  IF fits = {} THEN 0
        ELSE Select(p.leverage,
                    Least(LevFilter.max, Least(Tiers[current].max, Tiers[projected].max)))

(***************************************************************************)
(* Physical requests: a leg above the exchange's ceiling is split evenly;  *)
(* slices whose fill is known stay as they are.                            *)
(***************************************************************************)
Confirmed(s) == s.filled # None
NoSlices == [k \in 1..3 |-> <<>>]

Split(p, k) ==
    LET max == IF p.legs[k].type = "MARKET" THEN MarketMax ELSE LimitMax
        total == p.legs[k].qty
        count == (total + max - 1) \div max
    IN  [n \in 1..count |->
            [index |-> IF count = 1 THEN 0 ELSE n, filled |-> None,
             qty |-> total \div count + (IF n <= total % count THEN 1 ELSE 0)]]

\* the fills of a leg's requests are all known or none is
Requests(p, old, k) ==
    IF \E n \in DOMAIN old[k] : Confirmed(old[k][n]) THEN old[k] ELSE Split(p, k)

Allocate(p, old) == [k \in 1..3 |-> Requests(p, old, k)]

Allocatable(p, old) ==
    LET ss == Allocate(p, old)
    IN  /\ Len(ss[1]) + Len(ss[2]) + Len(ss[3]) <= MaxSlices
        /\ \A k \in 1..3 : \A n \in 1..Len(ss[k]) :
              Confirmed(ss[k][n]) \/ MeetsMinima(ss[k][n].qty, p.legs[k].ref)

(***************************************************************************)
(* Planning.                                                               *)
(***************************************************************************)
Init ==
    /\ intent \in [Intents -> {c \in Contents : ValidEntry(c.entry) /\ ValidIntent(c)}]
    /\ todo = <<>> /\ existing = 0 /\ reserved = 0
    /\ phase = [i \in Intents |-> "new"]
    /\ plan = [i \in Intents |-> Refusal(None)]
    /\ slices = [i \in Intents |-> NoSlices]
    /\ live = [i \in Intents |-> Flat]
    /\ lock = None

StartBatch(b) ==
    /\ todo = <<>>
    /\ \A n \in 1..Len(b) : phase[b[n]] = "new"
    /\ todo' = b
    /\ existing' = OpenRisk
    /\ reserved' = 0
    /\ UNCHANGED <<intent, phase, plan, slices, live, lock>>

Remaining == Cap - existing - reserved

\* plan_open_intents for the next intent of the pass
PlanOne(quote, stratum, bucketSkips) ==
    /\ todo # <<>>
    /\ LET i == Head(todo)
           p == IF Remaining <= 0 THEN Refusal("cap")
                ELSE PlanFor(In(i), quote, BudgetFor(In(i).side, Remaining))
           arm == Arm(In(i), stratum, bucketSkips)
       IN  /\ p # Refusal(None)  \* that is an error, PlanLater
           /\ plan' = [plan EXCEPT ![i] = p]
           /\ phase' = [phase EXCEPT ![i] = IF Refused(p) THEN "rejected"
                                           ELSE IF arm = "skip" THEN "skipped" ELSE "planned"]
           /\ reserved' = IF Refused(p) \/ arm = "skip" THEN reserved ELSE reserved + p.loss
    /\ todo' = Tail(todo)
    /\ UNCHANGED <<intent, existing, slices, live, lock>>

\* the market read or the plan failed: the intent stays a candidate for a later pass
PlanLater ==
    /\ todo # <<>>
    /\ todo' = Tail(todo)
    /\ UNCHANGED <<intent, existing, reserved, phase, plan, slices, live, lock>>

(***************************************************************************)
(* Execution under the lock.                                               *)
(***************************************************************************)
Goto(i, ph) ==
    /\ phase' = [phase EXCEPT ![i] = ph]
    /\ lock' = IF ph \in {"failed", "stranded", "executed"} THEN None ELSE i

Abandon(i, ph, why) ==
    /\ Goto(i, ph)
    /\ IF ph = "failed" THEN plan' = [plan EXCEPT ![i] = Refusal(why)] ELSE UNCHANGED plan

\* _assert_open_preflight: today's open risk plus this plan against the cap
Preflight(i) ==
    /\ lock = None /\ phase[i] = "planned"
    /\ IF OpenRisk + plan[i].loss <= Cap
       THEN Goto(i, "checked") /\ UNCHANGED plan
       ELSE Abandon(i, "failed", "cap")
    /\ UNCHANGED <<intent, todo, existing, reserved, slices, live>>

\* prepare_entry_plan: leverage for the tiers read now, and the requests
Prepare(i, current, mark) ==
    /\ lock = i /\ phase[i] = "checked"
    /\ LET lev == TierLeverage(plan[i], current, mark)
       IN  IF lev > 0 /\ Allocatable(plan[i], NoSlices)
           THEN /\ Goto(i, "prepared")
                /\ plan' = [plan EXCEPT ![i].leverage = lev]
                /\ slices' = [slices EXCEPT ![i] = Allocate(plan[i], NoSlices)]
           ELSE Abandon(i, "failed", "tier") /\ UNCHANGED slices
    /\ UNCHANGED <<intent, todo, existing, reserved, live>>

IsMarket(i) == plan[i].legs[1].type = "MARKET"

\* prepare_market_primary: E1 at the submission quote, persisted before it
PreparePrimary(i, quote) ==
    /\ lock = i /\ phase[i] = "prepared" /\ IsMarket(i)
    /\ LET p == Refresh(plan[i], quote)
       IN  IF ~Refused(p) /\ Allocatable(p, NoSlices)
           THEN /\ Goto(i, "ready")
                /\ plan' = [plan EXCEPT ![i] = p]
                /\ slices' = [slices EXCEPT ![i] = Allocate(p, NoSlices)]
           ELSE /\ Abandon(i, "failed", IF Refused(p) THEN p.refused ELSE "slices")
                /\ UNCHANGED slices
    /\ UNCHANGED <<intent, todo, existing, reserved, live>>

\* _set_leverage_sync: the tiers read again must still select this leverage
LeverageStands(i, current, mark) == TierLeverage(plan[i], current, mark) = plan[i].leverage

SubmitRefused(i, current, mark) ==
    /\ lock = i /\ \/ phase[i] = "ready"
                   \/ phase[i] = "prepared" /\ ~IsMarket(i)
    /\ ~LeverageStands(i, current, mark)
    /\ Abandon(i, "failed", "leverage")
    /\ UNCHANGED <<intent, todo, existing, reserved, slices, live>>

\* an IOC request fills in full, in part or not at all
SliceFills(s) == {f \in {0, s.qty - 1, s.qty} : f >= 0}

SumTo(f, n) ==
    LET sum[k \in 0..n] == IF k = 0 THEN 0 ELSE sum[k - 1] + f[k]
    IN  sum[n]

\* _submit_primary_slices_sync: E1's requests one after another
SubmitPrimary(i, current, mark, price) ==
    LET primary == slices[i][1]
        n == Len(primary)
    IN  /\ lock = i /\ phase[i] = "ready"
        /\ LeverageStands(i, current, mark)
        /\ \E f \in [1..n -> UNION {SliceFills(primary[k]) : k \in 1..n}] :
              /\ \A k \in 1..n : f[k] \in SliceFills(primary[k])
              /\ live' = [live EXCEPT ![i].qty = SumTo(f, n), ![i].cost = SumTo(f, n) * price]
              /\ slices' = [slices EXCEPT ![i][1] =
                    [k \in 1..n |-> [primary[k] EXCEPT !.filled = f[k]]]]
              /\ Goto(i, IF SumTo(f, n) = 0 THEN "stranded" ELSE "filled")
        /\ UNCHANGED <<intent, todo, existing, reserved, plan>>

\* Mutant: the quote stands for the fill.
RebasedAtQuote(i) == Rebase(plan[i], plan[i].legs[1].ref, live[i].qty)
\* rebase_market_plan and _prepare_physical_remaining on the average fill
RebasedFill(i) == Rebase(plan[i], live[i].cost \div live[i].qty, live[i].qty)

RebaseFill(i) ==
    LET p == RebasedFill(i)
    IN  /\ lock = i /\ phase[i] = "filled"
        /\ IF ~Refused(p) /\ Allocatable(p, slices[i])
           THEN /\ Goto(i, "rebased")
                /\ plan' = [plan EXCEPT ![i] = p]
                /\ slices' = [slices EXCEPT ![i] = Allocate(p, slices[i])]
           ELSE Abandon(i, "stranded", None) /\ UNCHANGED slices
        /\ UNCHANGED <<intent, todo, existing, reserved, live>>

SubmitRemaining(i) ==
    /\ lock = i /\ phase[i] = "rebased"
    /\ live' = [live EXCEPT ![i].resting = {2, 3}]
    /\ Goto(i, "executed")
    /\ UNCHANGED <<intent, todo, existing, reserved, plan, slices>>

\* _execute_sync: a LIMIT or RANGE ladder the market has not passed
ExecuteBatch(i, current, quote) ==
    /\ lock = i /\ phase[i] = "prepared" /\ ~IsMarket(i)
    /\ LeverageStands(i, current, quote)
    /\ IF Below(plan[i].side, quote, plan[i].legs[1].ref)
       THEN Abandon(i, "failed", "passed") /\ UNCHANGED live
       ELSE /\ Goto(i, "executed")
            /\ live' = [live EXCEPT ![i].resting = {1, 2, 3}]
            /\ UNCHANGED plan
    /\ UNCHANGED <<intent, todo, existing, reserved, slices>>

\* the exchange: a resting leg fills at its price; a position is closed
LegFills(i, k) ==
    /\ k \in live[i].resting
    /\ live' = [live EXCEPT ![i] =
          [qty |-> @.qty + plan[i].legs[k].qty,
           cost |-> @.cost + plan[i].legs[k].qty * plan[i].legs[k].ref,
           resting |-> @.resting \ {k}]]
    /\ UNCHANGED <<intent, todo, existing, reserved, phase, plan, slices, lock>>

PositionCloses(i) ==
    /\ phase[i] \in {"executed", "stranded"} /\ live[i] # Flat
    /\ live' = [live EXCEPT ![i] = Flat]
    /\ UNCHANGED <<intent, todo, existing, reserved, phase, plan, slices, lock>>

Next ==
    \/ \E b \in Batches : StartBatch(b)
    \/ \E q \in Quotes, s \in Strata, skips \in BOOLEAN : PlanOne(q, s, skips)
    \/ PlanLater
    \/ \E i \in Intents :
          \/ Preflight(i)
          \/ \E t \in 1..Len(Tiers), q \in Quotes :
                \/ Prepare(i, t, q)
                \/ SubmitRefused(i, t, q)
                \/ ExecuteBatch(i, t, q)
                \/ \E price \in Quotes : SubmitPrimary(i, t, q, price)
          \/ \E q \in Quotes : PreparePrimary(i, q)
          \/ RebaseFill(i)
          \/ SubmitRemaining(i)
          \/ \E k \in 1..3 : LegFills(i, k)
          \/ PositionCloses(i)

Spec == Init /\ [][Next]_vars

(***************************************************************************)
(* Properties.                                                             *)
(***************************************************************************)
Has(i) == ~Refused(plan[i])

\* Type invariant of the account and the plans.
TypeOK ==
    /\ existing \in Nat /\ reserved \in Nat
    /\ phase \in [Intents -> {"new", "rejected", "skipped", "planned", "checked", "prepared",
                             "ready", "filled", "rebased", "executed", "stranded", "failed"}]
    /\ lock \in Intents \cup {None}
    /\ \A i \in Intents : Has(i) => ValidPlan(plan[i])
    /\ \A i \in Intents : live[i].resting \subseteq 1..3 /\ live[i].qty \in Nat

\* While any entry leg of a plan rests, what the account would lose on that
\* plan at its stop - the actual fill included, wherever the market filled
\* it - is inside the budget the plan froze (rebase_market_plan).
LiveRiskWithinBudget ==
    \A i \in Intents : live[i].resting # {} => StopRisk(i) <= plan[i].budget

\* The final comparison with the budget (in _risk_checked_orders and in
\* rebase_market_plan) never refuses a plan: rounding the legs down already
\* keeps the ladder inside it, so no fill is left without its scale-ins
\* because of rounding.
RoundingStaysInsideBudget ==
    \A i \in Intents :
        /\ Refused(plan[i]) => plan[i].refused # "budget"
        /\ phase[i] = "filled" => RebasedFill(i) # Refusal("budget")

\* A plan never asks for more than the trader's own target, before or after
\* the fill moved its weighted entry (trader_take_profit outlives a rebase
\* that fell back to the policy's exits).
TargetsRespectTrader ==
    \A i \in Intents :
        Has(i) /\ plan[i].trader # None =>
            ~Below(plan[i].side, RoundPrice(<<In(i).target, 1>>), plan[i].targets[3].price)

\* A primary that fills exactly as refreshed is accepted and changes nothing:
\* the rebase on the fill recomputes the plan that was persisted before it.
QuoteFillAccepted ==
    \A i \in Intents :
        phase[i] = "ready" =>
            Rebase(plan[i], plan[i].legs[1].ref, plan[i].legs[1].qty) = plan[i]

\* _validate_entry_slices: the physical requests carry exactly the quantity of
\* their leg, a filled E1 by its fills, numbered from 1 (0 for a single one).
SlicesCarryPlan ==
    \A i \in Intents :
        phase[i] \in {"prepared", "ready", "rebased", "executed"} =>
            \A k \in 1..3 :
                LET ss == slices[i][k]
                    carried == [n \in 1..Len(ss) |-> IF Confirmed(ss[n]) THEN ss[n].filled
                                                     ELSE ss[n].qty]
                IN  /\ Len(ss) > 0 /\ SumTo(carried, Len(ss)) = plan[i].legs[k].qty
                    /\ \A n \in 1..Len(ss) : ss[n].index = IF Len(ss) = 1 THEN 0 ELSE n

\* The leverage a plan is submitted with is at or below the trader's request
\* and on the instrument's grid, whatever tiers were read in between.
LeverageNeverRaised ==
    \A i \in Intents :
        Has(i) => /\ plan[i].leverage <= (IF In(i).leverage = None THEN 10 ELSE In(i).leverage)
                  /\ (plan[i].leverage - LevFilter.min) % LevFilter.step = 0

\* Open stop risk of resting ladders never exceeds the portfolio cap: what
\* preflight admitted stays admitted, however stale the planning pass's reading
\* was and whatever executed or filled since (_assert_open_preflight).  MARKET
\* plans are admitted by their planned loss and rebased up to their budget.
CapHolds == (\A i \in Intents : live[i] # Flat => phase[i] = "executed" /\ ~IsMarket(i))
                => OpenRisk <= Cap

\* A plan stays consistent from the planning pass to its last resting leg: with
\* itself when it is computed again, with the requests that carry it, with what
\* the trader asked for, and with its budget after rounding (execution.py,
\* bybit/leverage.py, bybit/entry_limits.py).
PlanIsConsistent ==
    /\ TypeOK
    /\ RoundingStaysInsideBudget /\ QuoteFillAccepted
    /\ SlicesCarryPlan
    /\ TargetsRespectTrader /\ LeverageNeverRaised
=============================================================================
