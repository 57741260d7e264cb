------------------------------- MODULE Exits --------------------------------
(***************************************************************************)
(* The arithmetic of the exit installer and the trailing stop manager: how *)
(* many lots each fixed exit takes of what is left of a position, at which *)
(* prices, and where the protected stop and the trail go.  Units are those *)
(* of Ladder; an average price is a rational <<n, d>>.                     *)
(***************************************************************************)
EXTENDS Ladder, FiniteSetsExt

CONSTANTS
    Lock,      \* minimum_locked_profit_r, a rational
    TrailR,    \* trailing_distance_r, a rational
    ActivateR, \* trailing_activation_r, a rational
    Fee        \* what break-even lies beyond the average price, 0 if not told

ASSUME ExitConstants ==
    /\ \A r \in {Lock, TrailR, ActivateR} : r \in Nat \X (Nat \ {0})
    /\ Fee \in Nat

Nearer(side, a, b) == IF Below(side, a, b) THEN a ELSE b
LessR(a, b) == a[1] * b[2] < b[1] * a[2]
FloorTick(p) == Tick * (p \div Tick)
CeilTick(p) == Tick * ((p + Tick - 1) \div Tick)

SharesOf(S) == SumOver(S, [i \in S |-> Policy.exits[i]])
\* Mutant: the shares of the whole position.
AllWeights(done) == Whole
\* the shares of the exits that have not filled, and of the runner
RemainingWeight(done) ==
    Policy.runner + SharesOf(1..3 \ done)

(***************************************************************************)
(* Where the exits go.  A trader's target caps them: the last goes to the  *)
(* cap with the second midway, or all shrink in proportion when the cap is *)
(* nearer than the first.                                                  *)
(***************************************************************************)
TargetRs(plan, avg) ==
    LET c == TraderR(plan.side, avg, plan.stop, plan.cap)
    IN  IF plan.cap = None THEN plan.rs
        ELSE IF ~LessR(c, plan.rs[3]) THEN plan.rs
        ELSE IF LessR(plan.rs[1], c)
             THEN <<plan.rs[1],
                    <<plan.rs[1][1] * c[2] + c[1] * plan.rs[1][2], 2 * plan.rs[1][2] * c[2]>>, c>>
        ELSE [i \in 1..3 |-> <<plan.rs[i][1] * c[1] * plan.rs[3][2],
                               plan.rs[i][2] * c[2] * plan.rs[3][1]>>]

CapBehind(plan, avg) ==
    plan.cap # None /\ TraderR(plan.side, avg, plan.stop, plan.cap)[1] <= 0

\* Mutant: the target, with no look at the cap.
UncappedPrice(plan, avg, r) == TargetPrice(plan.side, avg, plan.stop, r)
\* the nearest tick to the target, but never past the last tick within the cap
ExitPrice(plan, avg, r) ==
    LET price == TargetPrice(plan.side, avg, plan.stop, r)
        capTick == IF plan.side = "LONG" THEN FloorTick(plan.cap) ELSE CeilTick(plan.cap)
    IN  IF plan.cap = None THEN price ELSE Nearer(plan.side, price, capTick)

(***************************************************************************)
(* _planned_exits: from exit number to <<quantity, price>>.  A share below *)
(* the exchange minima stays in the runner; a price that is not beyond the *)
(* entry, or one already taken, is refused.                                *)
(***************************************************************************)
PlannedExits(plan, size, avg, done) ==
    LET rs == TargetRs(plan, avg)
        qty(i) == RoundDown(<<size * Policy.exits[i], RemainingWeight(done)>>)
        price(i) == ExitPrice(plan, avg, rs[i])
        wanted == {i \in 1..3 \ done : qty(i) > 0 /\ qty(i) >= MinQty}
        placed == {i \in wanted : qty(i) * price(i) >= MinNotional}
    IN  IF CapBehind(plan, avg) THEN Refusal("cap")
        ELSE IF \E i \in wanted : ~Below(plan.side, avg[1], price(i) * avg[2])
             THEN Refusal("profit")
        ELSE IF \E i \in wanted : \E j \in placed : j < i /\ price(j) = price(i)
             THEN Refusal("distinct")
        ELSE [exits |-> [i \in placed |-> <<qty(i), price(i)>>]]

(***************************************************************************)
(* Protection.                                                             *)
(***************************************************************************)
\* Mutant: the tick below.
LockedDown(side, raw) == Tick * (raw[1] \div (raw[2] * Tick))
LockedTick(side, raw) ==
    IF side = "LONG" THEN Tick * ((raw[1] + raw[2] * Tick - 1) \div (raw[2] * Tick))
    ELSE Tick * (raw[1] \div (raw[2] * Tick))

\* the stop in profit: break-even and the locked share of R, never behind the
\* planned or the previous stop, rounded away from the entry, and only where
\* the market has not passed it
ProtectedStop(plan, avg, previous, mark) ==
    LET d == RiskDistance(avg, plan.stop)
        raw == <<(avg[1] + Dir(plan.side) * Fee * avg[2]) * Lock[2]
                    + Dir(plan.side) * d[1] * Lock[1], avg[2] * Lock[2]>>
        locked == LockedTick(plan.side, raw)
        further(a, b) == IF Below(plan.side, a, b) THEN b ELSE a
        stop == further(further(locked, plan.stop), IF previous = None THEN plan.stop ELSE previous)
    IN  IF stop <= 0 \/ ~Below(plan.side, stop, mark) THEN Refusal("passed")
        ELSE [stop |-> stop]

TrailingDistance(plan, avg) ==
    LET d == RiskDistance(avg, plan.stop)
    IN  RoundPrice(<<d[1] * TrailR[1], d[2] * TrailR[2]>>)

\* live_r has reached the trailing activation
InProfit(plan, avg, mark) ==
    Dir(plan.side) * (mark * avg[2] - avg[1]) * ActivateR[2]
        >= RiskDistance(avg, plan.stop)[1] * ActivateR[1]

-----------------------------------------------------------------------------
(***************************************************************************)
(* What they promise, for a case [plan, size, avg, done, prev, mark].      *)
(***************************************************************************)
PlannedLegsOf(c) == PlannedExits(c.plan, c.size, c.avg, c.done).exits
Sized(c) == ~Refused(PlannedExits(c.plan, c.size, c.avg, c.done))

\* Exits are in profit, one beyond the other, none past the trader's target, and
\* the first and the last no further out than the plan's own multiples of R by
\* more than half a tick: what _resolve_target_rs, the two roundings and the cap
\* leave of a plan.  The second has no such bound: midway to a target at 1.9 R
\* it is at 1.2 R, with the default multiples 0.5, 1 and 2.
PricesInOrder(c) ==
    Sized(c) =>
      LET x == PlannedLegsOf(c) IN
      \A i \in DOMAIN x :
        /\ Below(c.plan.side, c.avg[1], x[i][2] * c.avg[2])
        /\ c.plan.cap # None => ~Below(c.plan.side, c.plan.cap, x[i][2])
        /\ \A j \in DOMAIN x : j < i => Below(c.plan.side, x[j][2], x[i][2])
        /\ i # 2 => 2 * c.avg[2] * c.plan.rs[i][2] * Dir(c.plan.side) * x[i][2]
             <= Dir(c.plan.side) * 2 * c.avg[1] * c.plan.rs[i][2]
                + 2 * RiskDistance(c.avg, c.plan.stop)[1] * c.plan.rs[i][1]
                + Tick * c.avg[2] * c.plan.rs[i][2]

\* What is left of the position is cut like the original: every exit takes the
\* largest whole number of lots within its share, so that at least the runner's
\* share stays (_planned_exit on the weight _planned_exits computes).
SharesOfTheRest(c) ==
    Sized(c) =>
      LET x == PlannedLegsOf(c)
          weight == Whole - SharesOf(c.done)
          placed == SumOver(DOMAIN x, [i \in DOMAIN x |-> x[i][1]])
      IN  /\ \A i \in DOMAIN x : /\ x[i][1] * weight <= c.size * Policy.exits[i]
                                 /\ (x[i][1] + 1) * weight > c.size * Policy.exits[i]
          /\ (c.size - placed) * weight >= c.size * Policy.runner

\* A protected stop locks at least the promised share of R beyond break-even,
\* does not give back the previous stop, and is not already passed
\* (TrailingStopManager.protected_stop).
StopLocksProfit(c) ==
    LET p == ProtectedStop(c.plan, c.avg, c.prev, c.mark)
        d == Dir(c.plan.side)
    IN  ~Refused(p) =>
          /\ d * p.stop * c.avg[2] * Lock[2]
               >= d * c.avg[1] * Lock[2] + Fee * c.avg[2] * Lock[2]
                  + RiskDistance(c.avg, c.plan.stop)[1] * Lock[1]
          /\ c.prev # None => ~Below(c.plan.side, p.stop, c.prev)
          /\ Below(c.plan.side, p.stop, c.mark)
=============================================================================
