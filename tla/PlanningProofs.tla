--------------------------- MODULE PlanningProofs ---------------------------
(***************************************************************************)
(* From a post to a plan that rests.  For any policy, instrument, account  *)
(* and quotes: a plan stays consistent and inside its budget through its   *)
(* life, and the resting ladders inside the portfolio cap (modules Ladder  *)
(* and Planner).  What a post may make the service do without a person:    *)
(* the actions it takes are written in the caption (module Evidence, for   *)
(* any captions and proposals), and which of its OPENs are AUTO (module    *)
(* Routing, for any posts, OPENs, symbols and aliases).                    *)
(***************************************************************************)
EXTENDS MCPlanner, LadderProofs, SequenceTheorems

(***************************************************************************)
(* Ladders: rounding, the exits, the budget (module Ladder).               *)
(***************************************************************************)

\* Legs and exits as the planner writes them.
Leg == [type : {"MARKET", "LIMIT"}, qty : Nat, ref : Int]
Target == [price : Int, r : Int \X Int, pct : Nat]

\* A ladder that stands: positive legs, each on the good side of a positive stop.
Sound(side, legs, stop) ==
    /\ side \in BothSides /\ stop \in Nat \ {0}
    /\ legs \in [1..3 -> Leg]
    /\ \A k \in 1..3 : legs[k].qty > 0 /\ legs[k].ref > 0 /\ Below(side, stop, legs[k].ref)

\* The price grid.
Ticks == {Tick * k : k \in Int}

\* The weighted entry lies on the good side of the stop.
LEMMA WeightedBeyondStop ==
  ASSUME NEW side, NEW legs, NEW stop, Sound(side, legs, stop)
  PROVE  LET we == WeightedEntry(legs)
         IN  /\ we = <<we[1], we[2]>> /\ we[1] \in Int /\ we[2] \in Nat \ {0}
             /\ RiskDistance(we, stop) = <<RiskDistance(we, stop)[1], we[2]>>
             /\ RiskDistance(we, stop)[1] \in Nat \ {0}
             /\ RiskDistance(we, stop)[1] = Dir(side) * (we[1] - stop * we[2])
<1> DEFINE q(k) == legs[k].qty
           p(k) == legs[k].ref
           W == q(1) * p(1) + q(2) * p(2) + q(3) * p(3)
           Q == q(1) + q(2) + q(3)
<1>1. \A k \in 1..3 : /\ q(k) \in Nat \ {0} /\ p(k) \in Nat \ {0}
                      /\ IF side = "LONG" THEN p(k) > stop ELSE p(k) < stop
  BY DEF Sound, Leg, Below, Dir, BothSides
<1>2. side \in {"LONG", "SHORT"} /\ stop \in Nat
  BY DEF Sound, BothSides
<1>3. WeightedEntry(legs) = <<W, Q>>
  BY DEF WeightedEntry, TotalQty
<1> HIDE DEF q, p
<1>4. /\ q(1) * p(1) \in Int /\ q(2) * p(2) \in Int /\ q(3) * p(3) \in Int
      /\ stop * q(1) \in Int /\ stop * q(2) \in Int /\ stop * q(3) \in Int
      /\ stop * Q = stop * q(1) + stop * q(2) + stop * q(3)
  BY <1>1, <1>2
<1>5. \A k \in 1..3 : IF side = "LONG" THEN q(k) * p(k) > stop * q(k) ELSE q(k) * p(k) < stop * q(k)
  BY <1>1, <1>2
<1>6. IF side = "LONG" THEN W > stop * Q ELSE W < stop * Q
  BY <1>4, <1>5
<1>7. W \in Int /\ Q \in Nat \ {0} /\ stop * Q \in Int
  <2>1. q(1) \in Nat \ {0} /\ q(2) \in Nat \ {0} /\ q(3) \in Nat \ {0}
    BY <1>1
  <2> QED
    BY <1>2, <1>4, <2>1
<1> HIDE DEF W, Q
<1>8. RiskDistance(<<W, Q>>, stop) = <<Dist(W, stop * Q), Q>>
  BY DEF RiskDistance
<1>9. Dist(W, stop * Q) \in Nat \ {0} /\ Dist(W, stop * Q) = Dir(side) * (W - stop * Q)
  BY <1>2, <1>6, <1>7 DEF Dist, Dir
<1> QED
  BY <1>3, <1>7, <1>8, <1>9

\* No exit asks for more than the trader's target.
LEMMA TargetsAreSound ==
  ASSUME NEW side, NEW legs, NEW stop, Sound(side, legs, stop),
         NEW trader \in Ticks \cup {None}
  PROVE  LET targets == Targets(side, WeightedEntry(legs), stop, trader)
         IN  /\ targets \in [1..3 -> Target]
             /\ \A k \in 1..3 : targets[k].pct = Policy.exits[k]
             /\ trader # None => ~Below(side, trader, targets[3].price)
<1> DEFINE we == WeightedEntry(legs)
           W == we[1]
           Q == we[2]
           D == RiskDistance(we, stop)[1]
           tr == TraderR(side, we, stop, trader)
           rules == ExitRules(side, we, stop, trader)
           targets == Targets(side, we, stop, trader)
<1>1. /\ W \in Int /\ Q \in Nat \ {0} /\ D \in Nat \ {0}
      /\ we = <<W, Q>> /\ RiskDistance(we, stop) = <<D, Q>>
  BY WeightedBeyondStop
<1>2. side \in {"LONG", "SHORT"}
  BY DEF Sound, BothSides
<1>3. \A k \in 1..3 : targets[k] = [price |-> TargetPrice(side, we, stop, rules[k]),
                                   r |-> rules[k], pct |-> Policy.exits[k]]
  BY DEF Targets
<1>4. targets = [k \in 1..3 |-> targets[k]]
  BY DEF Targets
<1> HIDE DEF we, targets
<1>5. ASSUME trader # None
      PROVE  trader \in Int /\ tr = <<Dir(side) * (trader * Q - W), D>> /\ tr[1] \in Int
  BY <1>1, <1>2, <1>5, PolicyFacts DEF TraderR, Ticks, Dir
<1>6. \A k \in 1..3 : /\ rules[k] = <<rules[k][1], rules[k][2]>>
                       /\ rules[k][1] \in Int /\ rules[k][2] \in Nat \ {0}
  <2>1. CASE rules = PolicyRules
    BY <2>1, PolicyFacts DEF PolicyRules, Whole
  <2>2. CASE rules # PolicyRules
    <3>1. /\ trader # None
          /\ rules = <<<<Policy.r[1], Whole>>,
                       <<Policy.r[1] * tr[2] + tr[1] * Whole, 2 * Whole * tr[2]>>, tr>>
      BY <2>2 DEF ExitRules
    <3> HIDE DEF rules, tr
    <3>2. tr = <<tr[1], D>> /\ tr[1] \in Int /\ tr[2] = D
      BY <1>5, <3>1
    <3>3. Policy.r[1] * tr[2] + tr[1] * Whole \in Int /\ 2 * Whole * tr[2] \in Nat \ {0}
      BY <1>1, <3>2, PolicyFacts DEF Whole
    <3> QED
      BY <1>1, <3>1, <3>2, <3>3, PolicyFacts DEF Whole
  <2> QED
    BY <2>1, <2>2
<1> HIDE DEF rules
<1>7. ASSUME NEW r, r = <<r[1], r[2]>>, r[1] \in Int, r[2] \in Nat \ {0}
      PROVE  /\ TargetPrice(side, we, stop, r)
                  = RoundPrice(<<W * r[2] + Dir(side) * D * r[1], Q * r[2]>>)
             /\ W * r[2] + Dir(side) * D * r[1] \in Int /\ Q * r[2] \in Nat \ {0}
  BY <1>1, <1>2, <1>7 DEF TargetPrice, Dir
<1>8. \A k \in 1..3 : TargetPrice(side, we, stop, rules[k]) \in Int
  <2> TAKE k \in 1..3
  <2> DEFINE n == W * rules[k][2] + Dir(side) * D * rules[k][1]
             d == Q * rules[k][2]
  <2>1. n \in Int /\ d \in Nat \ {0} /\ TargetPrice(side, we, stop, rules[k]) = RoundPrice(<<n, d>>)
    BY <1>6, <1>7
  <2> HIDE DEF n, d
  <2>2. \E j \in Int : RoundPrice(<<n, d>>) = Tick * j
    BY <2>1, Rounded
  <2> QED
    BY <2>1, <2>2, PolicyFacts
<1>9. targets \in [1..3 -> Target]
  <2>1. \A k \in 1..3 : rules[k] \in Int \X Int
    BY <1>6
  <2>2. \A k \in 1..3 : targets[k] \in Target
    BY <1>3, <1>8, <2>1, PolicyFacts DEF Target
  <2> QED
    BY <1>4, <2>2
<1>10. ASSUME trader # None PROVE ~Below(side, trader, targets[3].price)
  <2>1. PICK t \in Int : trader = Tick * t
    BY <1>10 DEF Ticks
  <2>2. targets[3].price = TargetPrice(side, we, stop, rules[3])
    BY <1>3
  <2>3. Dir(side) \in {1, -1} /\ Dir(side) * Dir(side) = 1
    BY <1>2 DEF Dir
  <2>4. CASE AtLeast(tr, Policy.r[3])
    <3> DEFINE r == Policy.r[3]
               n == W * Whole + Dir(side) * D * r
               d == Q * Whole
    <3>1. rules = PolicyRules
      BY <2>4 DEF ExitRules, rules
    <3>2. rules[3] = <<r, Whole>> /\ r \in Nat \ {0} /\ Whole = 100
      BY <3>1, PolicyFacts DEF PolicyRules, Whole
    <3>3. n \in Int /\ d \in Nat \ {0} /\ targets[3].price = RoundPrice(<<n, d>>)
      BY <1>7, <2>2, <3>2
    <3>4. Tick * t * 1 = trader /\ trader \in Int
      BY <2>1, PolicyFacts
    <3>5. RoundPrice(<<trader, 1>>) = trader
      BY <2>1, <3>4, RoundExact, 1 \in Nat \ {0}
    <3>6. Dir(side) * (trader * Q - W) * Whole >= r * D
      BY <1>5, <1>10, <2>4 DEF AtLeast
    <3> DEFINE x == trader * d
    <3>7. x \in Int /\ IF side = "LONG" THEN n <= x ELSE x <= n
      BY <1>1, <1>2, <3>2, <3>4, <3>6 DEF Dir
    <3> HIDE DEF n, d
    <3>8. CASE side = "LONG"
      <4>1. n * 1 <= trader * d
        BY <3>3, <3>7, <3>8
      <4>2. targets[3].price <= trader
        BY <3>3, <3>4, <3>5, <4>1, RoundMonotone
      <4> QED
        BY <3>4, <3>8, <4>2, <1>9 DEF Below, Dir, Target
    <3>9. CASE side # "LONG"
      <4>1. trader * d <= n * 1
        BY <3>3, <3>7, <3>9
      <4>2. trader <= targets[3].price
        BY <3>3, <3>4, <3>5, <4>1, RoundMonotone
      <4> QED
        BY <3>4, <3>9, <4>2, <1>9 DEF Below, Dir, Target
    <3> QED
      BY <3>8, <3>9
  <2>5. CASE ~AtLeast(tr, Policy.r[3])
    <3>1. rules[3] = tr
      BY <1>10, <2>5 DEF ExitRules, rules
    <3>2. /\ tr[1] = Dir(side) * (trader * Q - W) /\ tr[2] = D
          /\ trader \in Int /\ tr[1] \in Int /\ tr = <<tr[1], tr[2]>>
      BY <1>5, <1>10
    <3>3. targets[3].price = RoundPrice(<<W * D + Dir(side) * D * tr[1], Q * D>>)
      BY <1>1, <1>7, <2>2, <3>1, <3>2
    <3>4. W * D + Dir(side) * D * tr[1] = trader * (Q * D)
      BY <1>1, <1>2, <3>2 DEF Dir
    <3>5. Q * D \in Nat \ {0}
      BY <1>1
    <3>6. targets[3].price = trader
      BY <2>1, <3>2, <3>3, <3>4, <3>5, RoundExact
    <3> QED
      BY <2>3, <3>2, <3>6 DEF Below
  <2> QED
    BY <2>4, <2>5
<1> QED
  BY <1>3, <1>9, <1>10 DEF targets, we

\* A leg risks at most its share, whatever its distance to the stop.
LEMMA LegFits ==
  ASSUME NEW a \in Nat, NEW b \in Nat \ {0}, NEW ref \in Int, NEW stop \in Int, ref # stop
  PROVE  /\ LegQuantity(<<a, b>>, ref, stop) \in Nat
         /\ Dist(ref, stop) \in Nat \ {0}
         /\ b * (LegQuantity(<<a, b>>, ref, stop) * Dist(ref, stop)) <= a
<1> DEFINE D == Dist(ref, stop)
           c == b * D
           q == a \div c
<1>1. D \in Nat \ {0}
  BY DEF Dist
<1>2. LegQuantity(<<a, b>>, ref, stop) = q
  BY DEF LegQuantity, RoundDown
<1> HIDE DEF D
<1>3. c \in Nat \ {0}
  BY <1>1
<1>4. q \in Nat /\ c * q <= a
  <2> HIDE DEF c
  <2> QED
    BY <1>3
<1> HIDE DEF q
<1>5. c * q = b * (q * D)
  BY <1>1, <1>4
<1> QED
  BY <1>1, <1>2, <1>4, <1>5 DEF D

\* The loss of a ladder at its stop is a natural number.
LEMMA LossOf ==
  ASSUME NEW legs \in [1..3 -> Leg], NEW stop \in Int
  PROVE  /\ \A k \in 1..3 : legs[k].qty \in Nat /\ legs[k].ref \in Int
                           /\ legs[k].qty * Dist(legs[k].ref, stop) \in Nat
         /\ Loss(legs, stop) \in Nat
<1>1. \A k \in 1..3 : legs[k].qty \in Nat /\ legs[k].ref \in Int
                      /\ Dist(legs[k].ref, stop) \in Nat
  BY DEF Leg, Dist
<1>2. \A k \in 1..3 : legs[k].qty * Dist(legs[k].ref, stop) \in Nat
  BY <1>1
<1> QED
  BY <1>1, <1>2 DEF Loss

\* The legs of a first plan risk their percentages of the budget, rounded down.
LEMMA PlannedFits ==
  ASSUME NEW in \in Asked, NEW prices \in [1..3 -> Int], NEW stop \in Int, NEW budget \in Nat,
         \A k \in 1..3 : prices[k] # stop
  PROVE  LET legs == PlannedLegs(in, prices, stop, budget)
         IN  /\ legs \in [1..3 -> Leg]
             /\ \A k \in 1..3 : legs[k].ref = prices[k]
             /\ Loss(legs, stop) <= budget
<1> DEFINE legs == PlannedLegs(in, prices, stop, budget)
           x(k) == legs[k].qty * Dist(legs[k].ref, stop)
<1>1. legs = [k \in 1..3 |-> legs[k]]
  BY DEF PlannedLegs
<1>2. ASSUME NEW k \in 1..3
      PROVE  /\ legs[k] \in Leg /\ legs[k].ref = prices[k]
             /\ Whole * x(k) <= budget * Policy.risk[k]
  <2> DEFINE a == budget * Policy.risk[k]
  <2>1. Policy.risk[k] \in Nat /\ Whole \in Nat \ {0} /\ prices[k] \in Int /\ prices[k] # stop
    BY PolicyFacts DEF Whole
  <2>2. a \in Nat
    BY <2>1
  <2>3. /\ legs[k].qty = LegQuantity(<<a, Whole>>, prices[k], stop)
        /\ legs[k].ref = prices[k]
        /\ legs[k] = [type |-> legs[k].type, qty |-> legs[k].qty, ref |-> legs[k].ref]
        /\ legs[k].type \in {"MARKET", "LIMIT"}
    BY DEF PlannedLegs
  <2> HIDE DEF a, legs
  <2>4. legs[k].qty \in Nat /\ Whole * (legs[k].qty * Dist(prices[k], stop)) <= a
    BY <2>1, <2>2, <2>3, LegFits
  <2> QED
    BY <2>1, <2>3, <2>4 DEF a, Leg
<1>3. legs \in [1..3 -> Leg]
  BY <1>1, <1>2
<1>4. Loss(legs, stop) = x(1) + x(2) + x(3) /\ x(1) \in Nat /\ x(2) \in Nat /\ x(3) \in Nat
  BY <1>3, LossOf DEF Loss
<1> HIDE DEF x
<1>5. Whole * (x(1) + x(2) + x(3)) <= budget * (Policy.risk[1] + Policy.risk[2] + Policy.risk[3])
  <2>1. /\ Policy.risk[1] \in Nat /\ Policy.risk[2] \in Nat /\ Policy.risk[3] \in Nat
        /\ Whole * x(1) <= budget * Policy.risk[1]
        /\ Whole * x(2) <= budget * Policy.risk[2]
        /\ Whole * x(3) <= budget * Policy.risk[3]
    BY <1>2, PolicyFacts
  <2> QED
    BY <1>4, <2>1 DEF Whole
<1>6. Whole * (x(1) + x(2) + x(3)) <= budget * Whole
  BY <1>5, PolicyFacts
<1> QED
  BY <1>2, <1>3, <1>4, <1>6 DEF Whole

\* Scale-ins share what the fill left of the budget.
LEMMA RebasedFits ==
  ASSUME NEW p, p.budget \in Nat, p.stop \in Int, NEW price \in Int, NEW qty \in Nat,
         LadderPrices(p.side, price, p.stop) \in [1..3 -> Int],
         \A k \in 1..3 : LadderPrices(p.side, price, p.stop)[k] # p.stop,
         qty * Dist(price, p.stop) < p.budget
  PROVE  LET legs == RebasedLegs(p, price, qty)
         IN  /\ legs \in [1..3 -> Leg]
             /\ \A k \in 1..3 : legs[k].ref = LadderPrices(p.side, price, p.stop)[k]
             /\ legs[1] = [type |-> "MARKET", qty |-> qty, ref |-> price]
             /\ Loss(legs, p.stop) <= p.budget
<1> DEFINE prices == LadderPrices(p.side, price, p.stop)
           legs == RebasedLegs(p, price, qty)
           primary == qty * Dist(price, p.stop)
           left == p.budget - primary
           rest == Policy.risk[2] + Policy.risk[3]
           x(k) == legs[k].qty * Dist(legs[k].ref, p.stop)
           scaled == Whole * left < p.budget * rest
<1>1. legs = [k \in 1..3 |-> legs[k]] /\ legs[1] = [type |-> "MARKET", qty |-> qty, ref |-> price]
  BY DEF RebasedLegs
<1>2. prices[1] = price
  BY DEF LadderPrices
<1>3. primary \in Nat /\ left \in Nat /\ rest \in Nat \ {0} /\ Whole = 100
  <2>1. Dist(price, p.stop) \in Nat /\ Policy.risk[2] \in Nat \ {0} /\ Policy.risk[3] \in Nat \ {0}
    BY PolicyFacts DEF Dist
  <2>2. primary \in Nat
    BY <2>1
  <2> QED
    BY <2>1, <2>2 DEF Whole
<1>4. ASSUME NEW k \in 2..3
      PROVE  /\ legs[k] \in Leg /\ legs[k].ref = prices[k]
             /\ IF scaled THEN rest * x(k) <= left * Policy.risk[k]
                          ELSE Whole * x(k) <= p.budget * Policy.risk[k]
  <2> DEFINE a == IF scaled THEN left * Policy.risk[k] ELSE p.budget * Policy.risk[k]
             b == IF scaled THEN rest ELSE Whole
  <2>1. ScaleInShare(p.budget, primary, k) = <<a, b>>
    <3>1. Whole * left \in Int /\ p.budget * rest \in Int
      BY <1>3
    <3> QED
      BY <3>1 DEF ScaleInShare
  <2>2. a \in Nat /\ b \in Nat \ {0} /\ prices[k] \in Int /\ prices[k] # p.stop
    BY <1>3, PolicyFacts
  <2>3. legs[k] = [type |-> "LIMIT", ref |-> prices[k], qty |-> LegQuantity(<<a, b>>, prices[k], p.stop)]
    BY <2>1 DEF RebasedLegs
  <2> HIDE DEF a, b, legs, prices
  <2>4. legs[k].qty \in Nat /\ b * x(k) <= a
    BY <2>2, <2>3, LegFits
  <2> QED
    BY <2>2, <2>3, <2>4 DEF a, b, Leg
<1>5. legs \in [1..3 -> Leg]
  <2>1. legs[1] \in Leg
    BY <1>1 DEF Leg
  <2> QED
    BY <1>1, <1>4, <2>1
<1>6. /\ Loss(legs, p.stop) = x(1) + x(2) + x(3)
      /\ x(1) = primary /\ x(2) \in Nat /\ x(3) \in Nat
  <2>1. x(1) = primary
    BY <1>1
  <2> HIDE DEF legs
  <2>2. Loss(legs, p.stop) = x(1) + x(2) + x(3)
    BY DEF Loss
  <2>3. \A k \in 1..3 : x(k) \in Nat
    BY <1>5, LossOf
  <2> QED
    BY <2>1, <2>2, <2>3
<1>7. x(2) + x(3) <= left
  <2>1. Policy.risk[2] \in Nat /\ Policy.risk[3] \in Nat
    BY PolicyFacts
  <2>2. CASE scaled
    <3>1. rest * x(2) <= left * Policy.risk[2] /\ rest * x(3) <= left * Policy.risk[3]
      BY <1>4, <2>2
    <3> HIDE DEF x, left
    <3>2. rest * (x(2) + x(3)) <= rest * left
      BY <1>3, <1>6, <2>1, <3>1
    <3>3. x(2) + x(3) \in Int
      BY <1>6
    <3> HIDE DEF rest
    <3> QED
      BY <1>3, <3>2, <3>3
  <2>3. CASE ~scaled
    <3>1. Whole * x(2) <= p.budget * Policy.risk[2] /\ Whole * x(3) <= p.budget * Policy.risk[3]
      BY <1>4, <2>3
    <3>2. Whole * left >= p.budget * rest
      <4>1. Whole * left \in Int /\ p.budget * rest \in Int
        BY <1>3
      <4> QED
        BY <2>3, <4>1
    <3>3. p.budget * rest = p.budget * Policy.risk[2] + p.budget * Policy.risk[3]
      BY <2>1
    <3> HIDE DEF x, left
    <3> QED
      BY <1>3, <1>6, <2>1, <3>1, <3>2, <3>3
  <2> QED
    BY <2>2, <2>3
<1> HIDE DEF x
<1> QED
  BY <1>1, <1>2, <1>3, <1>4, <1>5, <1>6, <1>7

\* A rounded price is on the grid.
LEMMA RoundTyped ==
  ASSUME NEW n \in Int, NEW d \in Nat \ {0}
  PROVE  RoundPrice(<<n, d>>) \in Int /\ RoundPrice(<<n, d>>) \in Ticks
<1>1. \E k \in Int : RoundPrice(<<n, d>>) = Tick * k
  BY Rounded
<1>2. \A k \in Int : Tick * k \in Int
  BY PolicyFacts
<1> QED
  BY <1>1, <1>2 DEF Ticks

\* A ladder has three prices, and starts at its first.
LEMMA LadderTyped ==
  ASSUME NEW side \in BothSides, NEW first \in Int, NEW stop \in Int
  PROVE  /\ LadderPrices(side, first, stop) \in [1..3 -> Int]
         /\ LadderPrices(side, first, stop)[1] = first
<1> DEFINE n(k) == Whole * first - Dir(side) * Policy.depth[k] * Dist(first, stop)
<1>1. \A k \in 1..2 : n(k) \in Int
  <2> TAKE k \in 1..2
  <2>1. Policy.depth[k] \in Int /\ Dist(first, stop) \in Int /\ Dir(side) \in Int
    BY PolicyFacts DEF Dist, Dir
  <2> QED
    BY <2>1 DEF Whole
<1>2. LadderPrices(side, first, stop)
        = <<first, RoundPrice(<<n(1), Whole>>), RoundPrice(<<n(2), Whole>>)>>
  BY DEF LadderPrices
<1> HIDE DEF n
<1>3. RoundPrice(<<n(1), Whole>>) \in Int /\ RoundPrice(<<n(2), Whole>>) \in Int
  BY <1>1, RoundTyped, Whole \in Nat \ {0} DEF Whole
<1> QED
  BY <1>2, <1>3

\* The stop and the entries of a valid intent are prices.
LEMMA PricesTyped ==
  ASSUME NEW in \in Asked, ValidEntry(in.entry), NEW market \in Int
  PROVE  /\ StopLoss(in, market) \in Int
         /\ EntryPrices(in, market, StopLoss(in, market)) \in [1..3 -> Int]
<1> DEFINE stop == StopLoss(in, market)
<1>1. /\ in.side \in BothSides /\ in.entry \in Entries /\ in.stop \in Given
      /\ in.entry.type \in {"MARKET", "LIMIT", "RANGE"}
      /\ in.entry.price \in Given /\ in.entry.low \in Given /\ in.entry.high \in Given
  BY DEF Asked, Entries
<1>2. /\ in.entry.type = "LIMIT" => in.entry.price \in Int
      /\ in.entry.type = "RANGE" => in.entry.low \in Int /\ in.entry.high \in Int
  <2>1. /\ in.entry.type = "LIMIT" => in.entry.price # None
        /\ in.entry.type = "RANGE" => in.entry.low # None /\ in.entry.high # None
    BY DEF ValidEntry
  <2> QED
    BY <1>1, <2>1 DEF Given
<1>3. stop \in Int
  <2>1. CASE in.stop # None
    <3>1. in.stop \in Int /\ stop = RoundPrice(<<in.stop, 1>>)
      BY <1>1, <2>1 DEF StopLoss, Given
    <3> QED
      BY <3>1, RoundTyped, 1 \in Nat \ {0}
  <2>2. CASE in.stop = None
    <3> DEFINE anchor == CASE in.entry.type = "MARKET" -> market
                           [] in.entry.type = "LIMIT"  -> in.entry.price
                           [] OTHER -> IF in.side = "LONG" THEN in.entry.low ELSE in.entry.high
               raw == anchor * (Whole - Dir(in.side) * Policy.fallback)
               w == Whole * Tick
    <3>1. anchor \in Int
      BY <1>1, <1>2
    <3>2. Whole - Dir(in.side) * Policy.fallback \in Int
      BY PolicyFacts DEF Whole, Dir
    <3> HIDE DEF anchor
    <3>3. raw \in Int
      BY <3>1, <3>2
    <3>4. w \in Nat \ {0} /\ Tick \in Nat \ {0}
      BY PolicyFacts DEF Whole
    <3>5. stop = IF in.side = "LONG" THEN Tick * (raw \div w) ELSE Tick * ((raw + w - 1) \div w)
      BY <2>2 DEF StopLoss, anchor
    <3> HIDE DEF raw, w, stop
    <3>6. raw \div w \in Int /\ (raw + w - 1) \div w \in Int
      BY <3>3, <3>4
    <3> QED
      BY <3>4, <3>5, <3>6
  <2> QED
    BY <2>1, <2>2
<1> HIDE DEF stop
<1>4. EntryPrices(in, market, stop) \in [1..3 -> Int]
  <2>1. CASE in.entry.type = "RANGE"
    <3>1. in.entry.low + in.entry.high \in Int
      BY <1>2, <2>1
    <3>2. /\ RoundPrice(<<in.entry.low, 1>>) \in Int /\ RoundPrice(<<in.entry.high, 1>>) \in Int
          /\ RoundPrice(<<in.entry.low + in.entry.high, 2>>) \in Int
      BY <1>2, <2>1, <3>1, RoundTyped, 1 \in Nat \ {0}, 2 \in Nat \ {0}
    <3>3. EntryPrices(in, market, stop) = RangePrices(in)
      BY <2>1 DEF EntryPrices
    <3> QED
      BY <3>2, <3>3 DEF RangePrices
  <2>2. CASE in.entry.type = "LIMIT"
    <3>1. RoundPrice(<<in.entry.price, 1>>) \in Int
      BY <1>2, <2>2, RoundTyped, 1 \in Nat \ {0}
    <3>2. EntryPrices(in, market, stop)
            = LadderPrices(in.side, RoundPrice(<<in.entry.price, 1>>), stop)
      BY <2>2 DEF EntryPrices
    <3> QED
      BY <1>1, <1>3, <3>1, <3>2, LadderTyped
  <2>3. CASE in.entry.type = "MARKET"
    <3>1. EntryPrices(in, market, stop) = LadderPrices(in.side, market, stop)
      BY <2>3 DEF EntryPrices
    <3> QED
      BY <1>1, <1>3, <3>1, LadderTyped
  <2> QED
    BY <1>1, <2>1, <2>2, <2>3
<1> QED
  BY <1>3, <1>4 DEF stop

\* A leverage on the instrument's grid, at or below the one asked for.
OnGrid(l, asked) == l \in Nat /\ l <= asked /\ (l - LevFilter.min) % LevFilter.step = 0

\* A multiple leaves no remainder.
LEMMA ModOfMultiple ==
  ASSUME NEW s \in Nat \ {0}, NEW q \in Nat
  PROVE  (s * q) % s = 0
<1> DEFINE x == s * q
           e == x \div s
<1>1. x \in Nat
  OBVIOUS
<1>2. x = s * q
  OBVIOUS
<1> HIDE DEF x
<1>3. e \in Nat /\ x % s \in 0..(s - 1) /\ x = s * e + (x % s)
  BY <1>1
<1> HIDE DEF e
<1>4. s * (q - e) = x % s /\ q - e \in Int
  BY <1>2, <1>3
<1>5. q - e = 0
  <2>1. CASE q - e >= 1
    <3>1. s * (q - e) >= s
      BY <1>4, <2>1
    <3> QED
      BY <1>3, <1>4, <3>1
  <2>2. CASE q - e <= -1
    <3>1. s * (q - e) <= -s
      BY <1>4, <2>2
    <3> QED
      BY <1>3, <1>4, <3>1
  <2> QED
    BY <1>4, <2>1, <2>2
<1>6. x % s = 0
  BY <1>4, <1>5
<1> QED
  BY <1>6 DEF x

\* Select never raises a request and stays on the grid.
LEMMA SelectOnGrid ==
  ASSUME NEW asked \in Nat, NEW max \in Nat
  PROVE  /\ Select(asked, max) \in Nat
         /\ Select(asked, max) # 0 => OnGrid(Select(asked, max), asked)
<1> DEFINE m == LevFilter.min
           s == LevFilter.step
           d == Least(asked, max) - m
           q == d \div s
<1>1. m \in Nat \ {0} /\ s \in Nat \ {0}
  BY LadderConstants
<1>2. CASE asked < m \/ max < m
  BY <1>2 DEF Select
<1>3. CASE ~(asked < m \/ max < m)
  <2>1. Select(asked, max) = m + s * q
    BY <1>3 DEF Select
  <2>2. d \in Nat /\ d + m <= asked
    BY <1>1, <1>3 DEF Least
  <2> HIDE DEF d, m, s
  <2>3. q \in Nat /\ s * q <= d
    BY <1>1, <2>2
  <2>4. s * q \in Nat
    BY <1>1, <2>3
  <2>5. (s * q) % s = 0
    BY <1>1, <2>3, ModOfMultiple
  <2> HIDE DEF q
  <2>6. (m + s * q) - m = s * q
    BY <1>1, <2>4
  <2> QED
    BY <1>1, <2>1, <2>2, <2>3, <2>4, <2>5, <2>6 DEF OnGrid, m, s
<1> QED
  BY <1>2, <1>3

(***************************************************************************)
(* Plans that stand, and what the first plan, the rebase and the refresh   *)
(* make of them.                                                           *)
(***************************************************************************)

\* A persisted plan, and the leverage an intent asks for (10 when it does not).
Plan == [side : BothSides, legs : [1..3 -> Leg], stop : Nat \ {0}, targets : [1..3 -> Target],
         leverage : Nat, trader : Given, budget : Nat, loss : Nat]
Leverage(in) == IF in.leverage = None THEN 10 ELSE in.leverage

\* A plan that stands.
SoundPlan(p) ==
    /\ p \in Plan
    /\ Sound(p.side, p.legs, p.stop)
    /\ p.loss = Loss(p.legs, p.stop) /\ p.loss <= p.budget
    /\ \A k \in 1..3 : p.targets[k].price > 0 /\ p.targets[k].pct = Policy.exits[k]
    /\ p.trader # None => ~Below(p.side, RoundPrice(<<p.trader, 1>>), p.targets[3].price)

\* ... and that serves an intent.
Serves(p, in) == p.trader = in.target /\ OnGrid(p.leverage, Leverage(in))

\* Why a plan is refused: never because of its own rounding.
Reasons == {"stop", "geometry", "passed", "minimum", "target", "exits", "leverage", "input",
            "consumed", "cap", "tier", "slices", None}
Refusals == {Refusal(why) : why \in Reasons}

\* A refusal is no plan, and none is about the budget.
LEMMA RefusalIsNoPlan ==
  /\ \A p \in Refusals : Refused(p) /\ p.refused # "budget" /\ p # Refusal("budget")
  /\ \A p \in Plan : ~Refused(p) /\ p # Refusal("budget")
<1>1. None # "budget"
  BY LadderConstants
<1>2. \A why \in Reasons : why # "budget"
  BY <1>1 DEF Reasons
<1>3. ASSUME NEW why \in Reasons
      PROVE  /\ Refused(Refusal(why)) /\ Refusal(why).refused # "budget"
             /\ Refusal(why) # Refusal("budget")
  <2>1. Refusal(why).refused = why /\ Refusal("budget").refused = "budget"
    BY DEF Refusal
  <2>2. Refused(Refusal(why))
    BY DEF Refusal, Refused
  <2> QED
    BY <1>2, <2>1, <2>2
<1>4. \A p \in Plan : ~Refused(p)
  BY DEF Plan, Refused
<1>5. Refused(Refusal("budget"))
  BY DEF Refusal, Refused
<1> QED
  BY <1>3, <1>4, <1>5 DEF Refusals

\* A ladder whose prices pass the geometry check and whose E1 has a price has one everywhere.
LEMMA GeometryIsSound ==
  ASSUME NEW side \in BothSides, NEW legs \in [1..3 -> Leg], NEW stop \in Nat \ {0},
         NEW prices \in [1..3 -> Int], \A k \in 1..3 : legs[k].ref = prices[k],
         EntryGeometry(side, prices, stop), legs[1].ref > 0, \A k \in 1..3 : legs[k].qty > 0
  PROVE  Sound(side, legs, stop)
<1>1. \A k \in 1..3 : legs[k].ref > 0
  BY DEF EntryGeometry, Below, Dir, BothSides
<1> QED
  BY <1>1 DEF EntryGeometry, Sound

\* The first plan of an intent stands and serves it, or is refused for a reason
\* other than its budget.
LEMMA PlanForSound ==
  ASSUME NEW in \in Asked, ValidEntry(in.entry), NEW market \in Int, NEW budget \in Nat
  PROVE  LET p == PlanFor(in, market, budget)
         IN  p \in Refusals \/ (SoundPlan(p) /\ Serves(p, in))
<1> DEFINE stop == StopLoss(in, market)
           prices == EntryPrices(in, market, stop)
           legs == PlannedLegs(in, prices, stop, budget)
           we == WeightedEntry(legs)
           trader == IF in.target = None THEN None ELSE RoundPrice(<<in.target, 1>>)
           targets == Targets(in.side, we, stop, trader)
           p == PlanFor(in, market, budget)
           made == [side |-> in.side, legs |-> legs, stop |-> stop, targets |-> targets,
                    leverage |-> PlanLeverage(in), trader |-> in.target, budget |-> budget,
                    loss |-> Loss(legs, stop)]
<1>1. stop \in Int /\ prices \in [1..3 -> Int]
  BY PricesTyped
<1>2. in.side \in BothSides /\ in.target \in Given /\ in.leverage \in Given
  BY DEF Asked
<1>3. \/ p = Refusal("budget") /\ Loss(legs, stop) > budget
      \/ p \in Refusals
      \/ p = made
  <2>1. \A why \in Reasons : Refusal(why) \in Refusals
    BY DEF Refusals
  <2> QED
    BY <2>1 DEF PlanFor, Reasons
<1>4. p \notin Refusals => /\ stop > 0 /\ EntryGeometry(in.side, prices, stop)
  <2>1. Refusal("stop") \in Refusals /\ Refusal("geometry") \in Refusals
    BY DEF Refusals, Reasons
  <2> QED
    BY <1>1, <2>1 DEF PlanFor
<1> HIDE DEF stop, prices
<1>5. p \notin Refusals => \A k \in 1..3 : prices[k] # stop
  BY <1>1, <1>2, <1>4 DEF EntryGeometry, Below, Dir, BothSides
<1>6. p \notin Refusals => /\ legs \in [1..3 -> Leg] /\ \A k \in 1..3 : legs[k].ref = prices[k]
                           /\ Loss(legs, stop) <= budget
  BY <1>1, <1>5, PlannedFits
<1> HIDE DEF legs
<1>7. p \notin Refusals => Loss(legs, stop) \in Nat
  BY <1>1, <1>6, LossOf
<1>8. SUFFICES ASSUME p = made, p \notin Refusals PROVE SoundPlan(p) /\ Serves(p, in)
  BY <1>3, <1>6, <1>7
<1>9. /\ ~(MeetsMinima(legs[1].qty, legs[1].ref) /\ legs[1].ref <= 0)
      /\ ~(\E k \in 1..3 : ~MeetsMinima(legs[k].qty, legs[k].ref))
      /\ ExitsStand(in.side, legs, stop, targets)
      /\ PlanLeverage(in) # 0
  <2>1. /\ Refusal(None) \in Refusals /\ Refusal("minimum") \in Refusals
        /\ Refusal("exits") \in Refusals /\ Refusal("leverage") \in Refusals
        /\ Refusal("stop") \in Refusals /\ Refusal("geometry") \in Refusals
        /\ Refusal("passed") \in Refusals /\ Refusal("target") \in Refusals
    BY DEF Refusals, Reasons
  <2>2. ~(Loss(legs, stop) > budget)
    BY <1>6, <1>7, <1>8
  <2> QED
    BY <1>8, <2>1, <2>2 DEF PlanFor, stop, prices, legs
<1>10. Sound(in.side, legs, stop)
  <2>1. \A k \in 1..3 : legs[k].qty > 0
    BY <1>9 DEF MeetsMinima
  <2>2. legs[1].ref > 0
    BY <1>1, <1>6, <1>8, <1>9
  <2> QED
    BY <1>1, <1>2, <1>4, <1>6, <1>8, <2>1, <2>2, GeometryIsSound
<1>11. trader \in Ticks \cup {None}
  BY <1>2, RoundTyped, 1 \in Nat \ {0} DEF Given
<1>12. (in.target # None) => trader # None
  BY <1>2, RoundTyped, PolicyFacts, 1 \in Nat \ {0} DEF Given
<1>13. /\ targets \in [1..3 -> Target] /\ \A k \in 1..3 : targets[k].pct = Policy.exits[k]
       /\ trader # None => ~Below(in.side, trader, targets[3].price)
  BY <1>10, <1>11, TargetsAreSound
<1>14. \A k \in 1..3 : targets[k].price > 0
  BY <1>9 DEF ExitsStand, TargetGeometry
<1>15. OnGrid(PlanLeverage(in), Leverage(in))
  <2>1. Leverage(in) \in Nat /\ LevFilter.max \in Nat
    BY <1>2, LadderConstants DEF Leverage, Given
  <2>2. PlanLeverage(in) = Select(Leverage(in), LevFilter.max)
    BY DEF PlanLeverage, Leverage
  <2> QED
    BY <1>9, <2>1, <2>2, SelectOnGrid
<1> HIDE DEF p, targets
<1>16. made \in Plan
  BY <1>1, <1>2, <1>4, <1>6, <1>7, <1>8, <1>13, <1>15 DEF Plan, OnGrid
<1>17. /\ made.side = in.side /\ made.legs = legs /\ made.stop = stop /\ made.targets = targets
       /\ made.leverage = PlanLeverage(in) /\ made.trader = in.target /\ made.budget = budget
       /\ made.loss = Loss(legs, stop)
  OBVIOUS
<1> HIDE DEF made
<1>18. Serves(made, in)
  BY <1>15, <1>17 DEF Serves
<1>19. in.target # None => ~Below(in.side, RoundPrice(<<in.target, 1>>), targets[3].price)
  BY <1>12, <1>13
<1>20. SoundPlan(made)
  BY <1>6, <1>8, <1>10, <1>13, <1>14, <1>16, <1>17, <1>19 DEF SoundPlan
<1> QED
  BY <1>8, <1>18, <1>20 DEF p

\* A rebase keeps what the plan froze, and its own result rebases to itself.
LEMMA RebaseSound ==
  ASSUME NEW p, SoundPlan(p), NEW price \in Int, NEW qty \in Nat
  PROVE  LET q == Rebase(p, price, qty)
         IN  \/ q \in Refusals
             \/ /\ SoundPlan(q)
                /\ q.side = p.side /\ q.stop = p.stop /\ q.budget = p.budget
                /\ q.trader = p.trader /\ q.leverage = p.leverage
                /\ q.legs[1] = [type |-> "MARKET", qty |-> qty, ref |-> price]
                /\ Rebase(q, price, qty) = q
<1> DEFINE prices == LadderPrices(p.side, price, p.stop)
           legs == RebasedLegs(p, price, qty)
           we == WeightedEntry(legs)
           trader == IF p.trader = None THEN None ELSE RoundPrice(<<p.trader, 1>>)
           targets == Targets(p.side, we, p.stop, trader)
           q == Rebase(p, price, qty)
           made == [p EXCEPT !.legs = legs, !.targets = targets, !.loss = Loss(legs, p.stop)]
<1>1. /\ p \in Plan /\ p.side \in BothSides /\ p.stop \in Nat \ {0} /\ p.budget \in Nat
      /\ p.trader \in Given /\ p.stop \in Int
  BY DEF SoundPlan, Plan
<1>2. prices \in [1..3 -> Int] /\ prices[1] = price
  BY <1>1, LadderTyped
<1>3. Dist(price, p.stop) \in Nat
  BY <1>1 DEF Dist
<1>4. qty * Dist(price, p.stop) \in Nat
  BY <1>3
<1>5. \A why \in Reasons : Refusal(why) \in Refusals
  BY DEF Refusals
<1>6. \/ p.legs[1].type = "MARKET" /\ price > 0 /\ qty > 0 /\ EntryGeometry(p.side, prices, p.stop)
         /\ qty * Dist(price, p.stop) < p.budget
      \/ q \in Refusals
  <2>1. /\ Refusal("input") \in Refusals /\ Refusal("geometry") \in Refusals
        /\ Refusal("consumed") \in Refusals
    BY <1>5 DEF Reasons
  <2> QED
    BY <1>1, <1>4, <2>1 DEF Rebase
<1>7. SUFFICES ASSUME q \notin Refusals
               PROVE  /\ SoundPlan(q)
                      /\ q.side = p.side /\ q.stop = p.stop /\ q.budget = p.budget
                      /\ q.trader = p.trader /\ q.leverage = p.leverage
                      /\ q.legs[1] = [type |-> "MARKET", qty |-> qty, ref |-> price]
                      /\ Rebase(q, price, qty) = q
  OBVIOUS
<1>8. \A k \in 1..3 : prices[k] # p.stop
  BY <1>1, <1>2, <1>6, <1>7 DEF EntryGeometry, Below, Dir, BothSides
<1>9. /\ legs \in [1..3 -> Leg] /\ \A k \in 1..3 : legs[k].ref = prices[k]
      /\ legs[1] = [type |-> "MARKET", qty |-> qty, ref |-> price]
      /\ Loss(legs, p.stop) <= p.budget
  BY <1>1, <1>2, <1>6, <1>7, <1>8, RebasedFits
<1>10. Loss(legs, p.stop) \in Nat
  BY <1>1, <1>9, LossOf
<1>11. ~(Loss(legs, p.stop) > p.budget)
  BY <1>1, <1>9, <1>10
<1>12. /\ q = made
       /\ ~(\E k \in 2..3 : ~MeetsMinima(legs[k].qty, legs[k].ref))
       /\ ~TargetTooClose(p.side, we, p.stop, trader)
       /\ ExitsStand(p.side, legs, p.stop, targets)
  <2>1. /\ Refusal("minimum") \in Refusals /\ Refusal("target") \in Refusals
        /\ Refusal("exits") \in Refusals /\ Refusal("input") \in Refusals
        /\ Refusal("geometry") \in Refusals /\ Refusal("consumed") \in Refusals
    BY <1>5 DEF Reasons
  <2> HIDE DEF legs, targets, trader, prices
  <2>2. q = IF p.legs[1].type # "MARKET" \/ price <= 0 \/ qty <= 0 THEN Refusal("input")
        ELSE IF ~EntryGeometry(p.side, prices, p.stop) THEN Refusal("geometry")
        ELSE IF qty * Dist(price, p.stop) >= p.budget THEN Refusal("consumed")
        ELSE IF \E i \in 2..3 : ~MeetsMinima(legs[i].qty, legs[i].ref) THEN Refusal("minimum")
        ELSE IF Loss(legs, p.stop) > p.budget THEN Refusal("budget")
        ELSE IF TargetTooClose(p.side, we, p.stop, trader) THEN Refusal("target")
        ELSE IF ~ExitsStand(p.side, legs, p.stop, targets) THEN Refusal("exits")
        ELSE made
    BY DEF Rebase, legs, targets, trader, prices
  <2> HIDE DEF q, made, we
  <2> QED
    BY <1>7, <1>11, <2>1, <2>2
<1> HIDE DEF q, legs
<1>13. Sound(p.side, legs, p.stop)
  <2>1. legs[1].qty > 0 /\ legs[1].ref > 0
    BY <1>6, <1>7, <1>9
  <2>2. \A k \in 2..3 : legs[k].qty > 0
    BY <1>12 DEF MeetsMinima
  <2>3. \A k \in 1..3 : legs[k].qty > 0
    BY <2>1, <2>2
  <2> QED
    BY <1>1, <1>2, <1>6, <1>7, <1>9, <2>1, <2>3, GeometryIsSound
<1>14. trader \in Ticks \cup {None} /\ (p.trader # None => trader # None)
  BY <1>1, RoundTyped, PolicyFacts, 1 \in Nat \ {0} DEF Given
<1>15. /\ targets \in [1..3 -> Target] /\ \A k \in 1..3 : targets[k].pct = Policy.exits[k]
       /\ trader # None => ~Below(p.side, trader, targets[3].price)
  BY <1>13, <1>14, TargetsAreSound
<1>16. \A k \in 1..3 : targets[k].price > 0
  BY <1>12 DEF ExitsStand, TargetGeometry
<1>17. p.trader # None => ~Below(p.side, RoundPrice(<<p.trader, 1>>), targets[3].price)
  BY <1>14, <1>15
<1> DEFINE loss == Loss(legs, p.stop)
<1> HIDE DEF targets, loss
<1>18. /\ q \in Plan
       /\ q.side = p.side /\ q.stop = p.stop /\ q.budget = p.budget
       /\ q.trader = p.trader /\ q.leverage = p.leverage
       /\ q.legs = legs /\ q.targets = targets /\ q.loss = loss
  <2>1. loss \in Nat /\ q = [p EXCEPT !.legs = legs, !.targets = targets, !.loss = loss]
    BY <1>10, <1>12 DEF loss
  <2> QED
    BY <1>1, <1>9, <1>15, <2>1 DEF Plan
<1>19. SoundPlan(q)
  BY <1>9, <1>13, <1>15, <1>16, <1>17, <1>18 DEF SoundPlan, loss
<1>20. Rebase(q, price, qty) = q
  <2>1. LadderPrices(q.side, price, q.stop) = prices /\ RebasedLegs(q, price, qty) = legs
    BY <1>18 DEF RebasedLegs, legs
  <2>2. q.legs[1].type = "MARKET"
    BY <1>9, <1>18
  <2>3. q = [q EXCEPT !.legs = legs, !.targets = targets, !.loss = loss]
    BY <1>18 DEF Plan
  <2>4. Targets(q.side, we, q.stop, trader) = targets /\ Loss(legs, q.stop) = loss
    BY <1>18 DEF targets, loss
  <2>5. (IF q.trader = None THEN None ELSE RoundPrice(<<q.trader, 1>>)) = trader
    BY <1>18
  <2> HIDE DEF trader, prices
  <2>6. Rebase(q, price, qty)
        = IF q.legs[1].type # "MARKET" \/ price <= 0 \/ qty <= 0 THEN Refusal("input")
          ELSE IF ~EntryGeometry(q.side, prices, q.stop) THEN Refusal("geometry")
          ELSE IF qty * Dist(price, q.stop) >= q.budget THEN Refusal("consumed")
          ELSE IF \E i \in 2..3 : ~MeetsMinima(legs[i].qty, legs[i].ref) THEN Refusal("minimum")
          ELSE IF Loss(legs, q.stop) > q.budget THEN Refusal("budget")
          ELSE IF TargetTooClose(q.side, we, q.stop, trader) THEN Refusal("target")
          ELSE IF ~ExitsStand(q.side, legs, q.stop, targets) THEN Refusal("exits")
          ELSE [q EXCEPT !.legs = legs, !.targets = targets, !.loss = loss]
    BY <2>1, <2>4, <2>5 DEF Rebase
  <2> HIDE DEF we
  <2>7. ~(qty * Dist(price, q.stop) >= q.budget) /\ ~(price <= 0) /\ ~(qty <= 0)
        /\ EntryGeometry(q.side, prices, q.stop)
    BY <1>1, <1>4, <1>6, <1>7, <1>18 DEF prices
  <2> QED
    BY <1>11, <1>12, <1>18, <2>2, <2>3, <2>4, <2>6, <2>7
<1> QED
  BY <1>9, <1>18, <1>19, <1>20

\* ... and so for the refresh at the submission quote.
LEMMA RefreshSound ==
  ASSUME NEW p, SoundPlan(p), NEW price \in Int
  PROVE  LET q == Refresh(p, price)
         IN  \/ q \in Refusals
             \/ /\ SoundPlan(q)
                /\ q.side = p.side /\ q.stop = p.stop /\ q.budget = p.budget
                /\ q.trader = p.trader /\ q.leverage = p.leverage
                /\ q.legs[1].type = "MARKET"
                /\ Rebase(q, q.legs[1].ref, q.legs[1].qty) = q
<1> DEFINE qty == RefreshedQuantity(p, price)
           q == Refresh(p, price)
<1>1. /\ p.side \in BothSides /\ p.stop \in Nat \ {0} /\ p.budget \in Nat
      /\ p.legs \in [1..3 -> Leg]
  BY DEF SoundPlan, Plan
<1>2. Refusal("geometry") \in Refusals /\ Refusal("minimum") \in Refusals
  BY DEF Refusals, Reasons
<1>3. CASE Below(p.side, p.stop, price) /\ q \notin Refusals
  <2>1. p.stop # price /\ p.budget * Policy.risk[1] \in Nat /\ Whole \in Nat \ {0}
    BY <1>1, <1>3, PolicyFacts DEF Below, Dir, Whole
  <2>2. LegQuantity(<<p.budget * Policy.risk[1], Whole>>, price, p.stop) \in Nat
    BY <1>1, <2>1, LegFits
  <2>3. qty \in Nat
    BY <1>1, <2>2 DEF RefreshedQuantity, Least, Leg
  <2>4. q = Rebase(p, price, qty)
    BY <1>2, <1>3 DEF Refresh
  <2> HIDE DEF q, qty
  <2>5. SoundPlan(q) /\ q.side = p.side /\ q.stop = p.stop /\ q.budget = p.budget
        /\ q.trader = p.trader /\ q.leverage = p.leverage
        /\ q.legs[1] = [type |-> "MARKET", qty |-> qty, ref |-> price]
        /\ Rebase(q, price, qty) = q
    BY <1>3, <2>3, <2>4, RebaseSound
  <2> QED
    BY <2>5 DEF q
<1> QED
  BY <1>2, <1>3 DEF Refresh

(***************************************************************************)
(* The requests of a leg.                                                  *)
(***************************************************************************)

\* The sum of a sequence of numbers is what any running total ends at.
LEMMA SumToIs ==
  ASSUME NEW n \in Nat, NEW f, NEW g \in [0..n -> Int], g[0] = 0,
         \A k \in 1..n : g[k] = g[k - 1] + f[k]
  PROVE  SumTo(f, n) = g[n]
<1> DEFINE sum == CHOOSE s : s = [k \in 0..n |-> IF k = 0 THEN 0 ELSE s[k - 1] + f[k]]
<1>1. SumTo(f, n) = sum[n]
  BY DEF SumTo
<1>2. g = [k \in 0..n |-> IF k = 0 THEN 0 ELSE g[k - 1] + f[k]]
  <2>1. g = [k \in 0..n |-> g[k]]
    OBVIOUS
  <2>2. \A k \in 0..n : g[k] = IF k = 0 THEN 0 ELSE g[k - 1] + f[k]
    OBVIOUS
  <2> QED
    BY <2>1, <2>2, Zenon
<1>3. sum = [k \in 0..n |-> IF k = 0 THEN 0 ELSE sum[k - 1] + f[k]]
  BY <1>2, Zenon
<1> HIDE DEF sum
<1>4. \A k \in 0..n : sum[k] = IF k = 0 THEN 0 ELSE sum[k - 1] + f[k]
  BY <1>3
<1> DEFINE Bad == {k \in 0..n : sum[k] # g[k]}
<1>5. Bad = {}
  <2>1. SUFFICES ASSUME Bad # {} PROVE FALSE
    OBVIOUS
  <2>2. PICK k \in Bad : \A j \in Bad : k <= j
    <3>1. Bad \in SUBSET Nat
      OBVIOUS
    <3> HIDE DEF Bad
    <3> QED
      BY <2>1, <3>1, LeastNat
  <2>3. k \in 0..n /\ sum[k] # g[k]
    OBVIOUS
  <2>4. k # 0
    BY <1>4, <2>3
  <2>5. k - 1 \in 0..n /\ k - 1 \notin Bad
    BY <2>2, <2>3, <2>4
  <2>6. sum[k - 1] = g[k - 1]
    BY <2>5
  <2> QED
    BY <1>4, <2>3, <2>4, <2>6
<1> QED
  BY <1>1, <1>5

\* Running totals exist.
LEMMA SumToNat ==
  ASSUME NEW n \in Nat, NEW f \in [1..n -> Nat]
  PROVE  SumTo(f, n) \in Nat
<1> DEFINE Total(m, g) == /\ g \in [0..m -> Nat] /\ g[0] = 0
                          /\ \A k \in 1..m : g[k] = g[k - 1] + f[k]
           Summed(m) == \E g : Total(m, g)
           Bad == {m \in 0..n : ~Summed(m)}
<1>1. Bad = {}
  <2>1. SUFFICES ASSUME Bad # {} PROVE FALSE
    OBVIOUS
  <2>2. PICK m \in Bad : \A j \in Bad : m <= j
    <3>1. Bad \in SUBSET Nat
      OBVIOUS
    <3> HIDE DEF Bad
    <3> QED
      BY <2>1, <3>1, LeastNat
  <2>3. m \in 0..n /\ ~Summed(m)
    <3> HIDE DEF Summed
    <3> QED
      OBVIOUS
  <2>4. m # 0
    <3>1. Total(0, [k \in 0..0 |-> 0])
      OBVIOUS
    <3> QED
      BY <2>3, <3>1
  <2>5. m - 1 \in 0..n /\ Summed(m - 1)
    <3> HIDE DEF Summed
    <3> QED
      BY <2>2, <2>3, <2>4
  <2>6. PICK g : Total(m - 1, g)
    BY <2>5
  <2> DEFINE h == [k \in 0..m |-> IF k = m THEN g[m - 1] + f[m] ELSE g[k]]
  <2>7. h \in [0..m -> Nat] /\ h[0] = 0
    BY <2>3, <2>4, <2>6
  <2>8. \A k \in 1..m : h[k] = h[k - 1] + f[k]
    BY <2>3, <2>4, <2>6
  <2> QED
    BY <2>3, <2>7, <2>8
<1>2. PICK g : Total(n, g)
  <2>1. Summed(n)
    <3> HIDE DEF Summed
    <3> QED
      BY <1>1
  <2> QED
    BY <2>1
<1>3. g \in [0..n -> Int] /\ g[n] \in Nat
  BY <1>2
<1> QED
  BY <1>2, <1>3, SumToIs

\* A function over 1..n is a sequence of length n.
LEMMA SeqOfFunction ==
  ASSUME NEW S, NEW n \in Nat, NEW s \in [1..n -> S]
  PROVE  s \in Seq(S) /\ Len(s) = n
<1>1. s \in Seq(S)
  BY SeqDef
<1>2. 1..Len(s) = 1..n /\ Len(s) \in Nat
  BY <1>1, LenProperties
<1> QED
  BY <1>1, <1>2

\* A leg's requests carry its quantity.
Slice == [index : Nat, filled : Nat \cup {None}, qty : Nat]
Numbered(s) == \A n \in 1..Len(s) : s[n].index = IF Len(s) = 1 THEN 0 ELSE n
Carried(s) == [n \in 1..Len(s) |-> IF Confirmed(s[n]) THEN s[n].filled ELSE s[n].qty]

\* A split leg's requests carry its quantity, numbered from one, none of them sent.
LEMMA SplitCarries ==
  ASSUME NEW p, NEW k \in 1..3, p.legs \in [1..3 -> Leg], p.legs[k].qty > 0
  PROVE  LET s == Split(p, k)
         IN  /\ s \in Seq(Slice) /\ Len(s) > 0
             /\ \A n \in 1..Len(s) : ~Confirmed(s[n])
             /\ Numbered(s)
             /\ SumTo(Carried(s), Len(s)) = p.legs[k].qty
<1> DEFINE max == IF p.legs[k].type = "MARKET" THEN MarketMax ELSE LimitMax
           total == p.legs[k].qty
           count == (total + max - 1) \div max
           each == total \div count
           over == total % count
           s == Split(p, k)
           g == [n \in 0..count |-> n * each + (IF n <= over THEN n ELSE over)]
<1>1. max \in Nat \ {0} /\ total \in Nat \ {0}
  <2>1. max \in {MarketMax, LimitMax}
    OBVIOUS
  <2>2. max \in Nat \ {0}
    <3> HIDE DEF max
    <3> QED
      BY <2>1, PlannerConstants
  <2>3. p.legs[k] \in Leg
    OBVIOUS
  <2>4. total \in Nat
    BY <2>3 DEF Leg
  <2> QED
    BY <2>2, <2>4
<1>2. s = [n \in 1..count |->
            [index |-> IF count = 1 THEN 0 ELSE n, filled |-> None,
             qty |-> each + (IF n <= over THEN 1 ELSE 0)]]
  BY DEF Split
<1> HIDE DEF max, total, s
<1>3. count \in Nat \ {0}
  BY <1>1
<1> HIDE DEF count
<1>4. each \in Nat /\ over \in 0..(count - 1) /\ total = count * each + over
  BY <1>1, <1>3
<1> HIDE DEF each, over
<1>5. s \in Seq(Slice) /\ Len(s) = count
  <2>1. \A n \in 1..count : [index |-> IF count = 1 THEN 0 ELSE n, filled |-> None,
                             qty |-> each + (IF n <= over THEN 1 ELSE 0)] \in Slice
    BY <1>3, <1>4 DEF Slice
  <2>2. s \in [1..count -> Slice]
    BY <1>2, <2>1
  <2> QED
    BY <1>3, <2>2, SeqOfFunction
<1>6. \A n \in 1..count : s[n].filled = None /\ s[n].index = (IF count = 1 THEN 0 ELSE n)
                          /\ s[n].qty = each + (IF n <= over THEN 1 ELSE 0)
  BY <1>2
<1>7. /\ \A n \in 1..Len(s) : ~Confirmed(s[n])
      /\ Numbered(s)
  BY <1>5, <1>6 DEF Confirmed, Numbered
<1> DEFINE f == Carried(s)
<1>8. \A n \in 1..count : f[n] = each + (IF n <= over THEN 1 ELSE 0)
  BY <1>5, <1>6, <1>7 DEF Carried
<1>9. g \in [0..count -> Int] /\ g[0] = 0
  BY <1>3, <1>4
<1> HIDE DEF f
<1>10. \A n \in 1..count : g[n] = g[n - 1] + f[n]
  <2> TAKE n \in 1..count
  <2>1. n * each = (n - 1) * each + each /\ n * each \in Int /\ (n - 1) * each \in Int
    BY <1>3, <1>4
  <2>2. g[n] = n * each + (IF n <= over THEN n ELSE over)
    OBVIOUS
  <2>3. g[n - 1] = (n - 1) * each + (IF n - 1 <= over THEN n - 1 ELSE over)
    BY <1>3
  <2> HIDE DEF g
  <2> QED
    BY <1>3, <1>4, <1>8, <2>1, <2>2, <2>3
<1>11. g[count] = total
  BY <1>3, <1>4
<1> HIDE DEF g
<1>12. SumTo(f, count) = total
  BY <1>3, <1>9, <1>10, <1>11, SumToIs
<1> QED
  BY <1>3, <1>5, <1>7, <1>12 DEF f, total, s

(***************************************************************************)
(* A plan's life (module Planner).  The invariant says of every intent     *)
(* what its phase promises of its plan, its requests and its position.     *)
(***************************************************************************)

\* The phases of a plan, those that have one, and those under the lock.
Phases == {"new", "rejected", "skipped", "planned", "checked", "prepared", "ready", "filled",
           "rebased", "executed", "stranded", "failed"}
Planned == Phases \ {"new", "rejected", "failed"}
Held == {"checked", "prepared", "ready", "filled", "rebased"}
Position == [qty : Nat, cost : Int, resting : SUBSET (1..3)]

\* The risk of a plan's position and of its resting legs.
Away(p, l) == Dir(p.side) * (l.cost - p.stop * l.qty)
AtRisk(p, k) == p.legs[k].qty * Dist(p.legs[k].ref, p.stop)
Waiting(p, l) ==
    (IF 1 \in l.resting THEN AtRisk(p, 1) ELSE 0) + (IF 2 \in l.resting THEN AtRisk(p, 2) ELSE 0)
        + (IF 3 \in l.resting THEN AtRisk(p, 3) ELSE 0)
Risk(p, l) == IF l = Flat THEN 0 ELSE (IF Away(p, l) > 0 THEN Away(p, l) ELSE 0) + Waiting(p, l)

\* No request of leg k is confirmed; the requests of leg k carry a quantity.
Unsent(ss, k) == \A n \in 1..Len(ss[k]) : ~Confirmed(ss[k][n])
Carries(ss, k, qty) ==
    Len(ss[k]) > 0 /\ Numbered(ss[k]) /\ SumTo(Carried(ss[k]), Len(ss[k])) = qty

\* One intent's life: what it asks for, its phase, plan, requests and position.
Life(in, ph, p, ss, l) ==
    /\ p \in Refusals \/ (SoundPlan(p) /\ Serves(p, in))
    /\ ph \in Planned => p \notin Refusals
    /\ ph \in {"ready", "filled", "rebased"} => p.legs[1].type = "MARKET"
    /\ ph = "ready" => Rebase(p, p.legs[1].ref, p.legs[1].qty) = p
    /\ ph \in {"prepared", "ready", "rebased", "executed"} =>
          \A k \in 1..3 : Carries(ss, k, p.legs[k].qty)
    /\ ph = "ready" => \A k \in 1..3 : Unsent(ss, k)
    /\ ph = "filled" => /\ Carries(ss, 1, l.qty)
                        /\ \A n \in 1..Len(ss[1]) : Confirmed(ss[1][n])
                        /\ Unsent(ss, 2) /\ Unsent(ss, 3)
    /\ ph \notin {"filled", "rebased", "executed", "stranded"} => l = Flat
    /\ ph # "executed" => l.resting = {}
    /\ ph \in {"filled", "rebased"} =>
          l.qty > 0 /\ \E price \in Quotes :
              /\ l.cost = l.qty * price
              /\ ph = "rebased" => p.legs[1] = [type |-> "MARKET", qty |-> l.qty, ref |-> price]
    /\ ph = "executed" /\ l # Flat => Away(p, l) >= 0 /\ Away(p, l) + Waiting(p, l) = p.loss

\* The types of the variables.
Typed ==
    /\ intent \in [Intents -> Asked] /\ \A i \in Intents : ValidEntry(In(i).entry)
    /\ todo \in Seq(Intents) /\ existing \in Nat /\ reserved \in Nat
    /\ phase \in [Intents -> Phases]
    /\ plan \in [Intents -> Refusals \cup Plan]
    /\ slices \in [Intents -> [1..3 -> Seq(Slice)]]
    /\ live \in [Intents -> Position]
    /\ lock \in Intents \cup {None}

\* The running pass plans each intent once, and only new ones.
Queue == /\ \A m, n \in 1..Len(todo) : todo[m] = todo[n] => m = n
         /\ \A n \in 1..Len(todo) : phase[todo[n]] = "new"

\* Every intent lives as its phase says, and the lock is where its phase is.
Lives == \A i \in Intents : /\ Life(In(i), phase[i], plan[i], slices[i], live[i])
                            /\ (phase[i] \in Held <=> lock = i)

\* The inductive invariant of a plan's life.
PlanInv == Typed /\ Queue /\ Lives

\* What a plan that stands says of its legs and its loss.
LEMMA PlanFacts ==
  ASSUME NEW p, SoundPlan(p)
  PROVE  /\ p \in Plan /\ p \notin Refusals /\ ~Refused(p)
         /\ p.side \in BothSides /\ p.stop \in Nat \ {0} /\ p.budget \in Nat /\ p.loss \in Nat
         /\ p.legs \in [1..3 -> Leg]
         /\ \A k \in 1..3 : /\ p.legs[k].qty \in Nat \ {0} /\ p.legs[k].ref \in Nat \ {0}
                            /\ AtRisk(p, k) \in Nat
                            /\ AtRisk(p, k) = Dir(p.side) * (p.legs[k].ref * p.legs[k].qty
                                                             - p.stop * p.legs[k].qty)
         /\ p.loss = AtRisk(p, 1) + AtRisk(p, 2) + AtRisk(p, 3) /\ p.loss <= p.budget
<1>1. /\ p \in Plan /\ p.side \in BothSides /\ p.stop \in Nat \ {0} /\ p.budget \in Nat
      /\ p.loss \in Nat /\ p.legs \in [1..3 -> Leg]
  BY DEF SoundPlan, Plan
<1>2. p \notin Refusals /\ ~Refused(p)
  BY <1>1, RefusalIsNoPlan
<1>3. ASSUME NEW k \in 1..3
      PROVE  /\ p.legs[k].qty \in Nat \ {0} /\ p.legs[k].ref \in Nat \ {0}
             /\ AtRisk(p, k) \in Nat
             /\ AtRisk(p, k) = Dir(p.side) * (p.legs[k].ref * p.legs[k].qty
                                             - p.stop * p.legs[k].qty)
  <2> DEFINE q == p.legs[k].qty
             r == p.legs[k].ref
             s == p.stop
  <2>1. q \in Nat \ {0} /\ r \in Nat \ {0} /\ Below(p.side, s, r) /\ s \in Nat \ {0}
    BY <1>1, <1>3 DEF SoundPlan, Sound, Leg
  <2>2. AtRisk(p, k) = q * Dist(r, s)
    BY DEF AtRisk
  <2> HIDE DEF q, r, s
  <2>3. CASE p.side = "LONG"
    <3>1. Dist(r, s) = r - s /\ r - s \in Nat /\ Dir(p.side) = 1
      BY <2>1, <2>3 DEF Below, Dir, Dist
    <3>2. q * (r - s) = r * q - s * q
      BY <2>1
    <3>3. q * (r - s) \in Nat
      BY <2>1, <3>1
    <3> QED
      BY <2>1, <2>2, <3>1, <3>2, <3>3 DEF q, r, s
  <2>4. CASE p.side = "SHORT"
    <3>1. Dist(r, s) = s - r /\ s - r \in Nat /\ Dir(p.side) = -1
      BY <2>1, <2>4 DEF Below, Dir, Dist
    <3>2. q * (s - r) = (-1) * (r * q - s * q)
      BY <2>1
    <3>3. q * (s - r) \in Nat
      BY <2>1, <3>1
    <3> QED
      BY <2>1, <2>2, <3>1, <3>2, <3>3 DEF q, r, s
  <2> QED
    BY <1>1, <2>3, <2>4 DEF BothSides
<1>4. p.loss = AtRisk(p, 1) + AtRisk(p, 2) + AtRisk(p, 3) /\ p.loss <= p.budget
  BY DEF SoundPlan, Loss, AtRisk
<1> QED
  BY <1>1, <1>2, <1>3, <1>4

\* The risk of a position under a plan that stands is a natural number.
LEMMA RiskFacts ==
  ASSUME NEW p, SoundPlan(p), NEW l \in Position
  PROVE  Away(p, l) \in Int /\ Waiting(p, l) \in Nat /\ Risk(p, l) \in Nat
<1>1. p.side \in BothSides /\ p.stop \in Nat /\ \A k \in 1..3 : AtRisk(p, k) \in Nat
  BY PlanFacts
<1>2. l.qty \in Nat /\ l.cost \in Int /\ Dir(p.side) \in Int
  BY DEF Position, Dir
<1>3. p.stop * l.qty \in Int
  BY <1>1, <1>2
<1>4. Away(p, l) \in Int
  BY <1>2, <1>3 DEF Away, Dir
<1>5. Waiting(p, l) \in Nat
  BY <1>1 DEF Waiting
<1> QED
  BY <1>4, <1>5 DEF Risk

\* Once executed, and as long as anything is left, the risk is the planned loss.
LEMMA LifeRisk ==
  ASSUME NEW in, NEW ph, NEW p, NEW ss, NEW l \in Position, Life(in, ph, p, ss, l)
  PROVE  /\ Risk(p, l) \in Nat /\ (l = Flat => Risk(p, l) = 0)
         /\ ph = "executed" /\ l # Flat => Risk(p, l) = p.loss
<1>1. CASE l = Flat
  BY <1>1 DEF Risk
<1>2. CASE l # Flat
  <2>1. ph \in Planned
    BY <1>2 DEF Life, Planned, Phases
  <2>2. SoundPlan(p)
    BY <2>1 DEF Life
  <2>3. Away(p, l) \in Int /\ Waiting(p, l) \in Nat /\ Risk(p, l) \in Nat /\ p.loss \in Nat
    BY <2>2, RiskFacts, PlanFacts
  <2>4. ph = "executed" => Away(p, l) >= 0 /\ Away(p, l) + Waiting(p, l) = p.loss
    BY <1>2 DEF Life
  <2> QED
    BY <1>2, <2>3, <2>4 DEF Risk
<1> QED
  BY <1>1, <1>2

\* The risk portfolio_risk.py reads is that of plan and position.
LEMMA StopRiskIs == \A i \in Intents : StopRisk(i) = Risk(plan[i], live[i])
  BY DEF StopRisk, Risk, PositionRisk, RestingRisk, LegRisk, Away, Waiting, AtRisk

\* The open risk is a natural number.
LEMMA OpenRiskNat ==
  ASSUME Typed, Lives
  PROVE  /\ \A i \in Intents : StopRisk(i) \in Nat
         /\ OpenRisk \in Nat
<1>1. \A i \in Intents : StopRisk(i) = Risk(plan[i], live[i])
  BY StopRiskIs
<1>2. \A i \in Intents : Risk(plan[i], live[i]) \in Nat
  BY LifeRisk DEF Typed, Lives
<1>3. [i \in Intents |-> StopRisk(i)] \in [Intents -> Nat]
  BY <1>1, <1>2
<1> QED
  BY <1>1, <1>2, <1>3, SumNat, PlannerConstants DEF OpenRisk

\* One intent moves: the others live on.
LEMMA OneLife ==
  ASSUME Lives, intent' = intent, NEW i \in Intents,
         \A j \in Intents \ {i} : /\ phase'[j] = phase[j] /\ plan'[j] = plan[j]
                                  /\ slices'[j] = slices[j] /\ live'[j] = live[j]
                                  /\ (lock' = j <=> lock = j),
         Life(In(i), phase'[i], plan'[i], slices'[i], live'[i]),
         phase'[i] \in Held <=> lock' = i
  PROVE  Lives'
<1>1. SUFFICES ASSUME NEW j \in Intents
               PROVE  /\ Life(In(j), phase[j], plan[j], slices[j], live[j])'
                      /\ (phase'[j] \in Held <=> lock' = j)
  BY DEF Lives
<1>2. In(j)' = In(j)
  BY DEF In
<1>3. CASE j = i
  BY <1>2, <1>3
<1>4. CASE j # i
  BY <1>2, <1>4 DEF Lives
<1> QED
  BY <1>3, <1>4

\* Steps that change no intent.
LEMMA SameLives ==
  ASSUME Lives, UNCHANGED <<intent, phase, plan, slices, live, lock>>
  PROVE  Lives'
  BY DEF Lives, In

\* The invariant holds before the first planning pass.
LEMMA InitInv == Init => PlanInv
<1> SUFFICES ASSUME Init PROVE PlanInv
  OBVIOUS
<1>1. Refusal(None) \in Refusals /\ None \in Reasons
  BY DEF Refusals, Reasons
<1>2. NoSlices \in [1..3 -> Seq(Slice)]
  BY DEF NoSlices
<1>3. Flat \in Position
  BY DEF Flat, Position
<1>4. Typed
  <2>1. intent \in [Intents -> Asked] /\ \A i \in Intents : ValidEntry(In(i).entry)
    BY PlannerConstants DEF Init, In
  <2>2. phase \in [Intents -> Phases]
    BY DEF Init, Phases
  <2> QED
    BY <1>1, <1>2, <1>3, <2>1, <2>2 DEF Init, Typed
<1>5. Queue
  BY DEF Init, Queue
<1>6. Lives
  <2> SUFFICES ASSUME NEW i \in Intents
               PROVE  /\ Life(In(i), phase[i], plan[i], slices[i], live[i])
                      /\ (phase[i] \in Held <=> lock = i)
    BY DEF Lives
  <2>1. phase[i] = "new" /\ plan[i] = Refusal(None) /\ live[i] = Flat /\ lock = None
    BY DEF Init
  <2>2. live[i].resting = {}
    BY <2>1 DEF Flat
  <2> QED
    BY <1>1, <2>1, <2>2, PlannerConstants DEF Life, Planned, Held
<1> QED
  BY <1>4, <1>5, <1>6 DEF PlanInv

\* A planning pass begins.
LEMMA StartBatchInv ==
  ASSUME PlanInv, NEW b \in Batches, StartBatch(b)
  PROVE  PlanInv'
<1>1. Typed'
  BY OpenRiskNat, PlannerConstants DEF StartBatch, PlanInv, Typed, In
<1>2. Queue'
  BY PlannerConstants DEF StartBatch, Queue
<1>3. Lives'
  BY SameLives DEF StartBatch, PlanInv
<1> QED
  BY <1>1, <1>2, <1>3 DEF PlanInv

\* The queue loses its head.
LEMMA Dequeued ==
  ASSUME Typed, Queue, todo # <<>>, todo' = Tail(todo)
  PROVE  /\ Head(todo) \in Intents /\ phase[Head(todo)] = "new" /\ todo' \in Seq(Intents)
         /\ \A m, n \in 1..Len(todo') : todo'[m] = todo'[n] => m = n
         /\ \A n \in 1..Len(todo') : todo'[n] # Head(todo) /\ phase[todo'[n]] = "new"
<1>1. todo \in Seq(Intents) /\ Len(todo) \in Nat /\ Len(todo) > 0
  BY DEF Typed
<1>2. /\ Head(todo) = todo[1] /\ Len(todo') = Len(todo) - 1
      /\ \A n \in 1..Len(todo') : todo'[n] = todo[n + 1]
      /\ todo' \in Seq(Intents) /\ Head(todo) \in Intents
  BY <1>1
<1>3. \A n \in 1..Len(todo') : n + 1 \in 1..Len(todo)
  BY <1>1, <1>2
<1>4. phase[Head(todo)] = "new"
  BY <1>1, <1>2 DEF Queue
<1>5. \A n \in 1..Len(todo') : todo'[n] # Head(todo) /\ phase[todo'[n]] = "new"
  <2> TAKE n \in 1..Len(todo')
  <2>1. n + 1 # 1 /\ n + 1 \in 1..Len(todo) /\ 1 \in 1..Len(todo)
    BY <1>1, <1>3
  <2> QED
    BY <1>2, <2>1 DEF Queue
<1>6. \A m, n \in 1..Len(todo') : todo'[m] = todo'[n] => m = n
  <2> SUFFICES ASSUME NEW m \in 1..Len(todo'), NEW n \in 1..Len(todo')
               PROVE  todo'[m] = todo'[n] => m = n
    BY Zenon
  <2>1. m + 1 \in 1..Len(todo) /\ n + 1 \in 1..Len(todo)
    BY <1>3
  <2>2. todo'[m] = todo'[n] => m + 1 = n + 1
    BY <1>2, <2>1 DEF Queue
  <2> QED
    BY <2>2
<1> QED
  BY <1>2, <1>4, <1>5, <1>6

\* A market read fails.
LEMMA PlanLaterInv ==
  ASSUME PlanInv, PlanLater
  PROVE  PlanInv'
<1>1. Typed /\ Queue /\ Lives
  BY DEF PlanInv
<1>2. todo' \in Seq(Intents) /\ Queue'
  BY <1>1, Dequeued DEF PlanLater, Queue
<1>3. Typed'
  BY <1>1, <1>2 DEF PlanLater, Typed, In
<1>4. Lives'
  BY <1>1, SameLives DEF PlanLater
<1> QED
  BY <1>2, <1>3, <1>4 DEF PlanInv

\* The budget of a plan is a natural number while anything remains.
LEMMA BudgetNat ==
  ASSUME NEW side, NEW remaining \in Nat
  PROVE  BudgetFor(side, remaining) \in Nat
<1> DEFINE n == Budget * LongRisk[1]
           d == LongRisk[2]
<1>1. Budget \in Nat /\ LongRisk[1] \in Nat /\ d \in Nat \ {0}
  BY PlannerConstants
<1>2. n \in Nat
  BY <1>1
<1> HIDE DEF n, d
<1>3. n \div d \in Nat
  BY <1>1, <1>2
<1>4. SideBudget(side) \in Nat
  BY <1>1, <1>3 DEF SideBudget, n, d
<1> QED
  BY <1>4 DEF BudgetFor, Least

\* An intent is planned, rejected or skipped.
LEMMA PlanOneInv ==
  ASSUME PlanInv, NEW q \in Quotes, NEW stratum, NEW skips, PlanOne(q, stratum, skips)
  PROVE  PlanInv'
<1> DEFINE i == Head(todo)
           p == IF Remaining <= 0 THEN Refusal("cap")
                ELSE PlanFor(In(i), q, BudgetFor(In(i).side, Remaining))
           arm == Arm(In(i), stratum, skips)
           ph == IF Refused(p) THEN "rejected" ELSE IF arm = "skip" THEN "skipped" ELSE "planned"
<1>1. Typed /\ Queue /\ Lives
  BY DEF PlanInv
<1>2. /\ todo # <<>> /\ todo' = Tail(todo) /\ plan' = [plan EXCEPT ![i] = p]
      /\ phase' = [phase EXCEPT ![i] = ph]
      /\ reserved' = IF Refused(p) \/ arm = "skip" THEN reserved ELSE reserved + p.loss
      /\ UNCHANGED <<intent, existing, slices, live, lock>>
  BY DEF PlanOne
<1>3. /\ i \in Intents /\ phase[i] = "new" /\ todo' \in Seq(Intents)
      /\ \A m, n \in 1..Len(todo') : todo'[m] = todo'[n] => m = n
      /\ \A n \in 1..Len(todo') : todo'[n] # i /\ phase[todo'[n]] = "new"
  BY <1>1, <1>2, Dequeued
<1>4. In(i) \in Asked /\ ValidEntry(In(i).entry) /\ q \in Int /\ Remaining \in Int
  <2>1. existing \in Nat /\ reserved \in Nat /\ Cap \in Nat
    BY <1>1, PlannerConstants DEF Typed
  <2>2. In(i) \in Asked /\ ValidEntry(In(i).entry)
    <3> HIDE DEF i
    <3> QED
      BY <1>1, <1>3 DEF Typed, In
  <2>3. q \in Int
    BY PlannerConstants
  <2> QED
    BY <2>1, <2>2, <2>3 DEF Remaining
<1>5. p \in Refusals \/ (SoundPlan(p) /\ Serves(p, In(i)))
  <2>1. CASE Remaining <= 0
    BY <2>1 DEF Refusals, Reasons
  <2>2. CASE ~(Remaining <= 0)
    <3>1. BudgetFor(In(i).side, Remaining) \in Nat
      BY <1>4, <2>2, BudgetNat
    <3> QED
      BY <1>4, <2>2, <3>1, PlanForSound
  <2> QED
    BY <2>1, <2>2
<1> HIDE DEF p, i, arm
<1>6. /\ Refused(p) <=> p \in Refusals
      /\ ~Refused(p) => p \in Plan /\ p.loss \in Nat
  BY <1>5, RefusalIsNoPlan, PlanFacts
<1>7. ph \in {"rejected", "skipped", "planned"} /\ (ph # "rejected" => p \notin Refusals)
  BY <1>6
<1> HIDE DEF ph
<1>8. /\ phase'[i] = ph /\ plan'[i] = p
      /\ \A j \in Intents \ {i} : phase'[j] = phase[j] /\ plan'[j] = plan[j]
  BY <1>1, <1>2, <1>3 DEF Typed
<1>9. Typed'
  <2>1. reserved' \in Nat
    BY <1>1, <1>2, <1>6 DEF Typed
  <2>2. plan' \in [Intents -> Refusals \cup Plan]
    BY <1>1, <1>2, <1>5, <1>6 DEF Typed
  <2>3. phase' \in [Intents -> Phases]
    BY <1>1, <1>2, <1>7 DEF Typed, Phases
  <2> QED
    BY <1>1, <1>2, <1>3, <2>1, <2>2, <2>3 DEF Typed, In
<1>10. Queue'
  <2>1. \A n \in 1..Len(todo') : todo'[n] \in Intents
    BY <1>3
  <2> QED
    BY <1>3, <1>8, <2>1 DEF Queue
<1>11. Lives'
  <2>1. live[i] = Flat /\ lock # i
    BY <1>1, <1>3 DEF Lives, Life, Held
  <2>2. Life(In(i), ph, p, slices[i], live[i])
    BY <1>5, <1>7, <2>1 DEF Life, Planned, Phases, Flat
  <2> QED
    BY <1>1, <1>2, <1>3, <1>7, <1>8, <2>1, <2>2, OneLife DEF Held
<1> QED
  BY <1>9, <1>10, <1>11 DEF PlanInv

\* One intent moves on to phase ph, with plan p, requests ss and position l.
LEMMA Moves ==
  ASSUME PlanInv, NEW i \in Intents, phase[i] # "new",
         NEW ph \in Phases, NEW p, NEW ss \in [1..3 -> Seq(Slice)], NEW l \in Position,
         phase' = [phase EXCEPT ![i] = ph], plan' = [plan EXCEPT ![i] = p],
         slices' = [slices EXCEPT ![i] = ss], live' = [live EXCEPT ![i] = l],
         UNCHANGED <<intent, todo, existing, reserved>>,
         \A j \in Intents \ {i} : lock' = j <=> lock = j,
         ph \in Held <=> lock' = i, lock' \in Intents \cup {None},
         Life(In(i), ph, p, ss, l)
  PROVE  PlanInv'
<1>1. Typed /\ Queue /\ Lives
  BY DEF PlanInv
<1>2. p \in Refusals \cup Plan
  BY DEF Life, SoundPlan
<1>3. Typed'
  BY <1>1, <1>2 DEF Typed, In
<1>4. /\ phase'[i] = ph /\ plan'[i] = p /\ slices'[i] = ss /\ live'[i] = l
      /\ \A j \in Intents \ {i} : /\ phase'[j] = phase[j] /\ plan'[j] = plan[j]
                                  /\ slices'[j] = slices[j] /\ live'[j] = live[j]
  BY <1>1 DEF Typed
<1>5. Queue'
  <2>1. \A n \in 1..Len(todo) : todo[n] \in Intents \ {i}
    <3> TAKE n \in 1..Len(todo)
    <3>1. todo[n] \in Intents
      BY <1>1 DEF Typed
    <3>2. phase[todo[n]] = "new"
      BY <1>1 DEF Queue
    <3> QED
      BY <3>1, <3>2
  <2> QED
    BY <1>1, <1>4, <2>1 DEF Queue
<1>6. Lives'
  BY <1>1, <1>4, OneLife
<1> QED
  BY <1>3, <1>5, <1>6 DEF PlanInv

\* What the invariant says of one intent.
LEMMA Facts ==
  ASSUME PlanInv, NEW i \in Intents
  PROVE  /\ In(i) \in Asked /\ phase[i] \in Phases /\ slices[i] \in [1..3 -> Seq(Slice)]
         /\ live[i] \in Position /\ (phase[i] \in Held <=> lock = i)
         /\ Life(In(i), phase[i], plan[i], slices[i], live[i])
         /\ plan = [plan EXCEPT ![i] = plan[i]] /\ slices = [slices EXCEPT ![i] = slices[i]]
         /\ live = [live EXCEPT ![i] = live[i]] /\ phase = [phase EXCEPT ![i] = phase[i]]
         /\ None \notin Intents /\ lock \in Intents \cup {None}
         /\ phase[i] \in Planned => SoundPlan(plan[i]) /\ Serves(plan[i], In(i))
<1>1. Typed /\ Lives
  BY DEF PlanInv
<1>2. /\ In(i) \in Asked /\ phase[i] \in Phases /\ slices[i] \in [1..3 -> Seq(Slice)]
      /\ live[i] \in Position /\ lock \in Intents \cup {None}
      /\ plan = [plan EXCEPT ![i] = plan[i]] /\ slices = [slices EXCEPT ![i] = slices[i]]
      /\ live = [live EXCEPT ![i] = live[i]] /\ phase = [phase EXCEPT ![i] = phase[i]]
  BY <1>1 DEF Typed, In
<1>3. Life(In(i), phase[i], plan[i], slices[i], live[i]) /\ (phase[i] \in Held <=> lock = i)
  BY <1>1 DEF Lives
<1> QED
  BY <1>2, <1>3, PlannerConstants DEF Life

\* An execution that fails before anything is sent leaves a refusal.
LEMMA Fails ==
  ASSUME PlanInv, NEW i \in Intents,
         phase[i] \in {"planned", "checked", "prepared", "ready"}, lock \in {None, i},
         NEW why \in Reasons, Abandon(i, "failed", why),
         UNCHANGED <<intent, todo, existing, reserved, slices, live>>
  PROVE  PlanInv'
<1>1. /\ phase' = [phase EXCEPT ![i] = "failed"] /\ lock' = None
      /\ plan' = [plan EXCEPT ![i] = Refusal(why)]
  BY DEF Abandon, Goto
<1>2. Life(In(i), "failed", Refusal(why), slices[i], live[i])
  <2>1. live[i] = Flat
    BY Facts DEF Life
  <2>2. Refusal(why) \in Refusals
    BY DEF Refusals
  <2> QED
    BY <2>1, <2>2 DEF Life, Planned, Flat
<1>3. "failed" \in Phases /\ "failed" \notin Held /\ None \notin Intents
  BY PlannerConstants DEF Phases, Held
<1>4. /\ slices' = [slices EXCEPT ![i] = slices[i]] /\ live' = [live EXCEPT ![i] = live[i]]
      /\ slices[i] \in [1..3 -> Seq(Slice)] /\ live[i] \in Position
  BY Facts
<1>5. lock' \in Intents \cup {None} /\ \A j \in Intents \ {i} : lock' = j <=> lock = j
  BY <1>1, <1>3
<1>6. phase[i] # "new" /\ lock' # i
  BY <1>1, <1>3
<1> QED
  BY <1>1, <1>2, <1>3, <1>4, <1>5, <1>6, Moves

\* Preflight admits a plan or fails it.
LEMMA PreflightInv ==
  ASSUME PlanInv, NEW i \in Intents, Preflight(i)
  PROVE  PlanInv'
<1>1. CASE OpenRisk + plan[i].loss <= Cap
  <2>1. /\ lock = None /\ phase[i] = "planned" /\ phase' = [phase EXCEPT ![i] = "checked"]
        /\ lock' = i /\ UNCHANGED <<intent, todo, existing, reserved, slices, live, plan>>
    BY <1>1 DEF Preflight, Goto
  <2>2. Life(In(i), "checked", plan[i], slices[i], live[i])
    BY <2>1, Facts DEF Life, Planned, Phases
  <2>3. "checked" \in Phases /\ "checked" \in Held
    BY DEF Phases, Held
  <2>4. /\ slices' = [slices EXCEPT ![i] = slices[i]] /\ live' = [live EXCEPT ![i] = live[i]]
        /\ plan' = [plan EXCEPT ![i] = plan[i]]
        /\ slices[i] \in [1..3 -> Seq(Slice)] /\ live[i] \in Position /\ None \notin Intents
    BY <2>1, Facts
  <2>5. lock' \in Intents \cup {None} /\ \A j \in Intents \ {i} : lock' = j <=> lock = j
    BY <2>1, <2>4
  <2> QED
    BY <2>1, <2>2, <2>3, <2>4, <2>5, Moves
<1>2. CASE ~(OpenRisk + plan[i].loss <= Cap)
  <2>1. "cap" \in Reasons
    BY DEF Reasons
  <2> QED
    BY <1>2, <2>1, Fails DEF Preflight
<1> QED
  BY <1>1, <1>2

\* The leverage the tiers select.
LEMMA TierOnGrid ==
  ASSUME NEW p, SoundPlan(p), NEW t \in 1..Len(Tiers), NEW mark \in Int
  PROVE  /\ TierLeverage(p, t, mark) \in Nat
         /\ TierLeverage(p, t, mark) # 0 => OnGrid(TierLeverage(p, t, mark), p.leverage)
<1> DEFINE fits == {u \in 1..Len(Tiers) : Notional(p, mark) <= Tiers[u].limit}
           projected == CHOOSE u \in fits : \A v \in fits : u <= v
           max == Least(LevFilter.max, Least(Tiers[t].max, Tiers[projected].max))
<1>1. Tiers \in Seq([limit : Nat, max : Nat]) /\ LevFilter.max \in Nat /\ p.leverage \in Nat
  BY PlannerConstants, LadderConstants DEF SoundPlan, Plan
<1>2. CASE fits = {}
  BY <1>2 DEF TierLeverage
<1>3. CASE fits # {}
  <2>1. fits \in SUBSET Nat
    OBVIOUS
  <2>2. \E u \in fits : \A v \in fits : u <= v
    <3> HIDE DEF fits
    <3> QED
      BY <1>3, <2>1, LeastNat
  <2>3. projected \in fits
    BY <2>2
  <2>4. projected \in 1..Len(Tiers)
    BY <2>3
  <2>5. TierLeverage(p, t, mark) = Select(p.leverage, max)
    BY <1>3 DEF TierLeverage
  <2> HIDE DEF projected
  <2>6. max \in Nat
    <3>1. Tiers[t] \in [limit : Nat, max : Nat] /\ Tiers[projected] \in [limit : Nat, max : Nat]
      BY <1>1, <2>4, ElementOfSeq
    <3>2. Tiers[t].max \in Nat /\ Tiers[projected].max \in Nat
      BY <3>1
    <3> QED
      BY <1>1, <3>2 DEF Least
  <2> HIDE DEF max
  <2> QED
    BY <1>1, <2>5, <2>6, SelectOnGrid
<1> QED
  BY <1>2, <1>3

\* A lower leverage on the grid keeps a plan sound.
LEMMA LeverageSound ==
  ASSUME NEW p, SoundPlan(p), NEW in \in Asked, Serves(p, in), NEW lev, OnGrid(lev, p.leverage)
  PROVE  LET q == [p EXCEPT !.leverage = lev]
         IN  SoundPlan(q) /\ Serves(q, in) /\ q.legs = p.legs /\ q.loss = p.loss
<1> DEFINE q == [p EXCEPT !.leverage = lev]
<1>1. p \in Plan /\ p.leverage \in Nat /\ lev \in Nat
  BY DEF SoundPlan, Plan, OnGrid
<1>2. /\ q \in Plan /\ q.side = p.side /\ q.legs = p.legs /\ q.stop = p.stop
      /\ q.targets = p.targets /\ q.leverage = lev /\ q.trader = p.trader
      /\ q.budget = p.budget /\ q.loss = p.loss
  BY <1>1 DEF Plan
<1> HIDE DEF q
<1>3. SoundPlan(q)
  BY <1>2 DEF SoundPlan
<1>4. Leverage(in) \in Int
  BY DEF Leverage, Asked, Given
<1>5. Serves(q, in)
  BY <1>1, <1>2, <1>4 DEF Serves, OnGrid
<1> QED
  BY <1>2, <1>3, <1>5 DEF q

\* Requests whose fill is not known are made anew and carry the plan.
LEMMA AllocateCarries ==
  ASSUME NEW p, SoundPlan(p), NEW old \in [1..3 -> Seq(Slice)]
  PROVE  LET ss == Allocate(p, old)
         IN  /\ ss \in [1..3 -> Seq(Slice)]
             /\ \A k \in 1..3 : Unsent(old, k) => Carries(ss, k, p.legs[k].qty) /\ Unsent(ss, k)
             /\ \A k \in 1..3 : ~Unsent(old, k) => ss[k] = old[k]
<1> DEFINE ss == Allocate(p, old)
<1>1. \A k \in 1..3 : DOMAIN old[k] = 1..Len(old[k])
  OBVIOUS
<1>2. \A k \in 1..3 : ss[k] = IF Unsent(old, k) THEN Split(p, k) ELSE old[k]
  BY <1>1 DEF Allocate, Requests, Unsent
<1>3. p.legs \in [1..3 -> Leg] /\ \A k \in 1..3 : p.legs[k].qty > 0
  BY PlanFacts
<1>4. \A k \in 1..3 : LET s == Split(p, k)
                      IN  /\ s \in Seq(Slice) /\ Len(s) > 0
                          /\ \A n \in 1..Len(s) : ~Confirmed(s[n])
                          /\ Numbered(s)
                          /\ SumTo(Carried(s), Len(s)) = p.legs[k].qty
  BY <1>3, SplitCarries
<1>5. ss \in [1..3 -> Seq(Slice)]
  <2>1. ss = [k \in 1..3 |-> ss[k]]
    BY DEF Allocate
  <2>2. \A k \in 1..3 : ss[k] \in Seq(Slice)
    BY <1>2, <1>4
  <2> HIDE DEF ss
  <2> QED
    BY <2>1, <2>2
<1> HIDE DEF ss
<1>6. ASSUME NEW k \in 1..3, Unsent(old, k) PROVE Carries(ss, k, p.legs[k].qty) /\ Unsent(ss, k)
  <2>1. ss[k] = Split(p, k)
    BY <1>2, <1>6
  <2> QED
    BY <1>4, <2>1 DEF Carries, Unsent
<1> QED
  BY <1>2, <1>5, <1>6 DEF ss

\* At first no request is out.
LEMMA NoneSent == NoSlices \in [1..3 -> Seq(Slice)] /\ \A k \in 1..3 : Unsent(NoSlices, k)
  BY DEF NoSlices, Unsent

\* The leverage and the requests are prepared.
LEMMA PrepareInv ==
  ASSUME PlanInv, NEW i \in Intents, NEW t \in 1..Len(Tiers), NEW mark \in Quotes,
         Prepare(i, t, mark)
  PROVE  PlanInv'
<1> DEFINE lev == TierLeverage(plan[i], t, mark)
           p == [plan[i] EXCEPT !.leverage = lev]
           ss == Allocate(plan[i], NoSlices)
<1>1. lock = i /\ phase[i] = "checked" /\ UNCHANGED <<intent, todo, existing, reserved, live>>
  BY DEF Prepare
<1>2. SoundPlan(plan[i]) /\ Serves(plan[i], In(i)) /\ live[i] = Flat /\ In(i) \in Asked
  BY <1>1, Facts DEF Planned, Phases, Life
<1>3. CASE lev > 0 /\ Allocatable(plan[i], NoSlices)
  <2>1. /\ phase' = [phase EXCEPT ![i] = "prepared"] /\ lock' = i
        /\ plan' = [plan EXCEPT ![i].leverage = lev] /\ slices' = [slices EXCEPT ![i] = ss]
    BY <1>3 DEF Prepare, Goto
  <2>2. plan' = [plan EXCEPT ![i] = p]
    BY <2>1
  <2>3. mark \in Int
    BY PlannerConstants
  <2>4. SoundPlan(p) /\ Serves(p, In(i)) /\ p.legs = plan[i].legs
    <3>1. OnGrid(lev, plan[i].leverage)
      <4>1. lev \in Nat /\ (lev # 0 => OnGrid(lev, plan[i].leverage))
        BY <1>2, <2>3, TierOnGrid
      <4> QED
        BY <1>3, <4>1
    <3> QED
      BY <1>2, <3>1, LeverageSound
  <2>5. ss \in [1..3 -> Seq(Slice)] /\ \A k \in 1..3 : Carries(ss, k, plan[i].legs[k].qty)
    BY <1>2, NoneSent, AllocateCarries
  <2> HIDE DEF p, ss
  <2>6. Life(In(i), "prepared", p, ss, live[i])
    BY <1>2, <2>4, <2>5, PlanFacts DEF Life, Flat
  <2>7. "prepared" \in Phases /\ "prepared" \in Held
    BY DEF Phases, Held
  <2> QED
    <3>1. live' = [live EXCEPT ![i] = live[i]] /\ live[i] \in Position
      BY <1>1, Facts
    <3> QED
      BY <1>1, <2>1, <2>2, <2>5, <2>6, <2>7, <3>1, Moves
<1>4. CASE ~(lev > 0 /\ Allocatable(plan[i], NoSlices))
  <2>1. "tier" \in Reasons
    BY DEF Reasons
  <2>2. Abandon(i, "failed", "tier") /\ UNCHANGED slices
    BY <1>4 DEF Prepare
  <2> QED
    BY <1>1, <2>1, <2>2, Fails
<1> QED
  BY <1>3, <1>4

\* E1 is refreshed at the submission quote.
LEMMA PreparePrimaryInv ==
  ASSUME PlanInv, NEW i \in Intents, NEW q \in Quotes, PreparePrimary(i, q)
  PROVE  PlanInv'
<1> DEFINE p == Refresh(plan[i], q)
           ss == Allocate(p, NoSlices)
<1>1. lock = i /\ phase[i] = "prepared" /\ UNCHANGED <<intent, todo, existing, reserved, live>>
  BY DEF PreparePrimary
<1>2. SoundPlan(plan[i]) /\ Serves(plan[i], In(i)) /\ live[i] = Flat /\ q \in Int
  <2>1. q \in Int
    BY PlannerConstants
  <2> QED
    BY <1>1, <2>1, Facts DEF Planned, Phases, Life
<1>3. \/ p \in Refusals
      \/ /\ SoundPlan(p) /\ p.legs[1].type = "MARKET"
         /\ p.trader = plan[i].trader /\ p.leverage = plan[i].leverage
         /\ Rebase(p, p.legs[1].ref, p.legs[1].qty) = p
  BY <1>2, RefreshSound
<1>4. p \in Refusals => Refused(p) /\ p.refused \in Reasons
  <2> SUFFICES ASSUME p \in Refusals PROVE Refused(p) /\ p.refused \in Reasons
    OBVIOUS
  <2>1. PICK why \in Reasons : p = Refusal(why)
    BY DEF Refusals
  <2> HIDE DEF p
  <2> QED
    BY <2>1 DEF Refusal, Refused
<1>5. CASE ~Refused(p) /\ Allocatable(p, NoSlices)
  <2>1. /\ phase' = [phase EXCEPT ![i] = "ready"] /\ lock' = i
        /\ plan' = [plan EXCEPT ![i] = p] /\ slices' = [slices EXCEPT ![i] = ss]
    BY <1>5 DEF PreparePrimary, Goto
  <2> HIDE DEF p
  <2>2. SoundPlan(p) /\ Serves(p, In(i))
    BY <1>2, <1>3, <1>4, <1>5 DEF Serves
  <2>3. /\ ss \in [1..3 -> Seq(Slice)] /\ \A k \in 1..3 : Carries(ss, k, p.legs[k].qty)
        /\ \A k \in 1..3 : Unsent(ss, k)
    BY <2>2, NoneSent, AllocateCarries
  <2> HIDE DEF ss
  <2>4. Life(In(i), "ready", p, ss, live[i])
    BY <1>2, <1>3, <1>4, <1>5, <2>2, <2>3, PlanFacts DEF Life, Flat
  <2>5. "ready" \in Phases /\ "ready" \in Held
    BY DEF Phases, Held
  <2> QED
    BY <1>1, <2>1, <2>3, <2>4, <2>5, Facts, Moves
<1>6. CASE ~(~Refused(p) /\ Allocatable(p, NoSlices))
  <2> DEFINE why == IF Refused(p) THEN p.refused ELSE "slices"
  <2>1. Abandon(i, "failed", why) /\ UNCHANGED slices
    BY <1>6 DEF PreparePrimary
  <2>2. why \in Reasons
    <3>1. "slices" \in Reasons
      BY DEF Reasons
    <3>2. Refused(p) => p \in Refusals
      BY <1>3, PlanFacts
    <3> QED
      BY <1>4, <3>1, <3>2
  <2> HIDE DEF why
  <2> QED
    BY <1>1, <2>1, <2>2, Fails
<1> QED
  BY <1>5, <1>6

\* The tiers read again refuse the leverage.
LEMMA SubmitRefusedInv ==
  ASSUME PlanInv, NEW i \in Intents, NEW t, NEW mark, SubmitRefused(i, t, mark)
  PROVE  PlanInv'
<1>1. "leverage" \in Reasons
  BY DEF Reasons
<1> QED
  BY <1>1, Fails DEF SubmitRefused

\* The average of fills at one price is that price.
LEMMA DivOfMultiple ==
  ASSUME NEW q \in Nat \ {0}, NEW x \in Nat, NEW c \in Nat, c = q * x
  PROVE  c \div q = x
<1> DEFINE e == c \div q
<1>1. e \in Nat /\ q * e <= c /\ c < q * (e + 1)
  BY Z3
<1> HIDE DEF e
<1>2. e <= x
  BY <1>1
<1>3. x < e + 1
  BY <1>1
<1> QED
  BY <1>1, <1>2, <1>3 DEF e

\* The requests of E1 with their fills.
LEMMA FillsCarry ==
  ASSUME NEW s \in Seq(Slice), Numbered(s), Len(s) > 0, NEW f \in [1..Len(s) -> Nat]
  PROVE  LET r == [k \in 1..Len(s) |-> [s[k] EXCEPT !.filled = f[k]]]
         IN  /\ r \in Seq(Slice) /\ Len(r) = Len(s) /\ Numbered(r)
             /\ \A n \in 1..Len(r) : Confirmed(r[n])
             /\ Carried(r) = f
<1> DEFINE r == [k \in 1..Len(s) |-> [s[k] EXCEPT !.filled = f[k]]]
<1>1. \A k \in 1..Len(s) : s[k] \in Slice /\ f[k] \in Nat
  BY ElementOfSeq
<1>2. \A k \in 1..Len(s) : /\ r[k] \in Slice /\ r[k].filled = f[k] /\ r[k].index = s[k].index
  BY <1>1 DEF Slice
<1>3. r \in [1..Len(s) -> Slice] /\ Len(s) \in Nat
  BY <1>2
<1> HIDE DEF r
<1>4. r \in Seq(Slice) /\ Len(r) = Len(s)
  BY <1>3, SeqOfFunction
<1>5. \A n \in 1..Len(r) : Confirmed(r[n])
  <2>1. \A n \in 1..Len(r) : r[n].filled \in Int
    BY <1>1, <1>2, <1>4
  <2>2. None \notin Int
    BY PolicyFacts
  <2> QED
    BY <2>1, <2>2 DEF Confirmed
<1>6. Carried(r) = [n \in 1..Len(s) |-> f[n]]
  BY <1>2, <1>4, <1>5 DEF Carried
<1>7. Carried(r) = f
  BY <1>6
<1>8. Numbered(r)
  BY <1>2, <1>4 DEF Numbered
<1> QED
  BY <1>4, <1>5, <1>7, <1>8 DEF r

\* E1 fills, in full, in part or not at all.
LEMMA SubmitPrimaryInv ==
  ASSUME PlanInv, NEW i \in Intents, NEW t, NEW mark, NEW price \in Quotes,
         SubmitPrimary(i, t, mark, price)
  PROVE  PlanInv'
<1> DEFINE s == slices[i][1]
           n == Len(s)
<1>1. PICK f \in [1..n -> UNION {SliceFills(s[k]) : k \in 1..n}] :
         /\ lock = i /\ phase[i] = "ready"
         /\ \A k \in 1..n : f[k] \in SliceFills(s[k])
         /\ live' = [live EXCEPT ![i].qty = SumTo(f, n), ![i].cost = SumTo(f, n) * price]
         /\ slices' = [slices EXCEPT ![i][1] = [k \in 1..n |-> [s[k] EXCEPT !.filled = f[k]]]]
         /\ phase' = [phase EXCEPT ![i] = IF SumTo(f, n) = 0 THEN "stranded" ELSE "filled"]
         /\ lock' = IF SumTo(f, n) = 0 THEN None ELSE i
         /\ UNCHANGED <<intent, todo, existing, reserved, plan>>
  BY DEF SubmitPrimary, Goto
<1>2. /\ slices[i] \in [1..3 -> Seq(Slice)] /\ live[i] \in Position /\ None \notin Intents
      /\ Life(In(i), "ready", plan[i], slices[i], live[i])
      /\ plan' = [plan EXCEPT ![i] = plan[i]]
  BY <1>1, Facts
<1>3. /\ s \in Seq(Slice) /\ Numbered(s) /\ n > 0 /\ n \in Nat /\ live[i] = Flat
      /\ Unsent(slices[i], 2) /\ Unsent(slices[i], 3) /\ plan[i].legs[1].type = "MARKET"
      /\ plan[i] \notin Refusals /\ SoundPlan(plan[i]) /\ Serves(plan[i], In(i))
  BY <1>2 DEF Life, Carries, Planned, Phases
<1>4. f \in [1..n -> Nat]
  <2>1. \A k \in 1..n : s[k].qty \in Nat
    <3> HIDE DEF s
    <3>1. \A k \in 1..n : s[k] \in Slice
      BY <1>3, ElementOfSeq
    <3> QED
      BY <3>1 DEF Slice
  <2>2. ASSUME NEW k \in 1..n PROVE f[k] \in Nat
    <3>1. f[k] \in SliceFills(s[k])
      BY <1>1
    <3>2. s[k].qty \in Nat
      BY <2>1
    <3> QED
      BY <3>1, <3>2 DEF SliceFills
  <2> QED
    BY <2>2
<1> DEFINE qty == SumTo(f, n)
           r == [k \in 1..n |-> [s[k] EXCEPT !.filled = f[k]]]
           ss == [slices[i] EXCEPT ![1] = r]
           l == [live[i] EXCEPT !.qty = qty, !.cost = qty * price]
           ph == IF qty = 0 THEN "stranded" ELSE "filled"
<1>5. qty \in Nat
  BY <1>3, <1>4, SumToNat
<1>6. /\ r \in Seq(Slice) /\ Len(r) = n /\ Numbered(r)
      /\ (\A k \in 1..Len(r) : Confirmed(r[k])) /\ Carried(r) = f
  BY <1>3, <1>4, FillsCarry
<1>7. /\ slices' = [slices EXCEPT ![i] = ss] /\ live' = [live EXCEPT ![i] = l]
      /\ phase' = [phase EXCEPT ![i] = ph]
  <2> HIDE DEF s, n, qty
  <2> QED
    BY <1>1 DEF qty
<1> HIDE DEF r, s, n
<1>8. price \in Nat /\ qty * price \in Nat
  <2> HIDE DEF qty
  <2>1. price \in Nat
    BY PlannerConstants
  <2> QED
    BY <1>5, <2>1
<1> HIDE DEF qty
<1>9. /\ l \in Position /\ l.qty = qty /\ l.cost = qty * price /\ l.resting = {}
      /\ (qty = 0 => l = Flat)
  <2>1. qty = 0 => qty * price = 0
    BY <1>8
  <2> DEFINE c == qty * price
  <2>2. l = [live[i] EXCEPT !.qty = qty, !.cost = c]
    OBVIOUS
  <2>3. live[i] = [qty |-> 0, cost |-> 0, resting |-> {}]
    BY <1>3 DEF Flat
  <2>4. c \in Int /\ (qty = 0 => c = 0)
    BY <1>8, <2>1
  <2> HIDE DEF c, l
  <2>5. l.qty = qty /\ l.cost = c /\ l.resting = live[i].resting /\ l \in Position
    BY <1>2, <1>5, <2>2, <2>4 DEF Position
  <2>6. l.resting = {}
    BY <2>3, <2>5
  <2>7. qty = 0 => l = Flat
    BY <2>4, <2>5, <2>6 DEF Flat, Position
  <2> QED
    BY <2>5, <2>6, <2>7 DEF c
<1>10. ss \in [1..3 -> Seq(Slice)] /\ ss[1] = r /\ ss[2] = slices[i][2] /\ ss[3] = slices[i][3]
  BY <1>2, <1>6
<1> HIDE DEF l, ss
<1>11. qty # 0 => Carries(ss, 1, qty)
  BY <1>3, <1>6, <1>10 DEF Carries, qty
<1>12. Life(In(i), ph, plan[i], ss, l)
  <2>1. CASE qty = 0
    BY <1>3, <1>9, <2>1 DEF Life
  <2>2. CASE qty # 0
    <3>1. Unsent(ss, 2) /\ Unsent(ss, 3) /\ \A k \in 1..Len(ss[1]) : Confirmed(ss[1][k])
      BY <1>3, <1>6, <1>10 DEF Unsent
    <3>2. l.qty > 0 /\ \E x \in Quotes : l.cost = l.qty * x
      BY <1>5, <1>9, <2>2
    <3> QED
      BY <1>3, <1>9, <1>11, <2>2, <3>1, <3>2 DEF Life
  <2> QED
    BY <2>1, <2>2
<1>13. /\ ph \in Phases /\ lock' \in Intents \cup {None} /\ (ph \in Held <=> lock' = i)
       /\ (\A j \in Intents \ {i} : lock' = j <=> lock = j) /\ phase[i] # "new"
  BY <1>1, <1>2 DEF Phases, Held, qty
<1> HIDE DEF ph
<1>14. UNCHANGED <<intent, todo, existing, reserved>>
  BY <1>1
<1> QED
  BY <1>2, <1>7, <1>9, <1>10, <1>12, <1>13, <1>14, Moves

\* The plan is rebased on the fill, or the fill is stranded.
LEMMA RebaseFillInv ==
  ASSUME PlanInv, NEW i \in Intents, RebaseFill(i)
  PROVE  PlanInv'
<1> DEFINE p == RebasedFill(i)
           l == live[i]
           ss == Allocate(p, slices[i])
<1>1. lock = i /\ phase[i] = "filled" /\ UNCHANGED <<intent, todo, existing, reserved, live>>
  BY DEF RebaseFill
<1>2. /\ slices[i] \in [1..3 -> Seq(Slice)] /\ l \in Position /\ None \notin Intents
      /\ Life(In(i), "filled", plan[i], slices[i], l) /\ In(i) \in Asked
      /\ plan = [plan EXCEPT ![i] = plan[i]] /\ slices = [slices EXCEPT ![i] = slices[i]]
      /\ live' = [live EXCEPT ![i] = l]
  BY <1>1, Facts
<1>3. /\ SoundPlan(plan[i]) /\ Serves(plan[i], In(i)) /\ l.qty > 0 /\ l.resting = {}
      /\ Carries(slices[i], 1, l.qty) /\ Unsent(slices[i], 2) /\ Unsent(slices[i], 3)
      /\ (\A n \in 1..Len(slices[i][1]) : Confirmed(slices[i][1][n]))
  BY <1>2 DEF Life, Planned, Phases
<1>4. PICK price \in Quotes : l.cost = l.qty * price
  BY <1>2 DEF Life
<1>5. price \in Nat \ {0} /\ l.qty \in Nat \ {0} /\ l.cost \in Nat
  <2>1. price \in Nat \ {0} /\ l.qty \in Nat \ {0}
    BY <1>2, <1>3, PlannerConstants DEF Position
  <2> HIDE DEF l
  <2> QED
    BY <1>4, <2>1
<1>6. p = Rebase(plan[i], price, l.qty)
  <2>1. l.cost \div l.qty = price
    <3> HIDE DEF l
    <3> QED
      BY <1>4, <1>5, DivOfMultiple
  <2> QED
    BY <2>1 DEF RebasedFill
<1> HIDE DEF p
<1>7. \/ p \in Refusals
      \/ /\ SoundPlan(p) /\ Serves(p, In(i))
         /\ p.legs[1] = [type |-> "MARKET", qty |-> l.qty, ref |-> price]
  BY <1>3, <1>5, <1>6, RebaseSound DEF Serves
<1>8. CASE ~Refused(p) /\ Allocatable(p, slices[i])
  <2>1. /\ phase' = [phase EXCEPT ![i] = "rebased"] /\ lock' = i
        /\ plan' = [plan EXCEPT ![i] = p] /\ slices' = [slices EXCEPT ![i] = ss]
    BY <1>8 DEF RebaseFill, Goto, p
  <2>2. /\ SoundPlan(p) /\ Serves(p, In(i))
        /\ p.legs[1] = [type |-> "MARKET", qty |-> l.qty, ref |-> price]
    BY <1>7, <1>8, RefusalIsNoPlan
  <2>3. ~Unsent(slices[i], 1)
    BY <1>3 DEF Unsent, Carries
  <2>4. /\ ss \in [1..3 -> Seq(Slice)] /\ ss[1] = slices[i][1]
        /\ Carries(ss, 2, p.legs[2].qty) /\ Carries(ss, 3, p.legs[3].qty)
    BY <1>2, <1>3, <2>2, <2>3, AllocateCarries
  <2> HIDE DEF ss
  <2>5. Carries(ss, 1, p.legs[1].qty)
    BY <1>3, <2>2, <2>4 DEF Carries
  <2>6. \A k \in 1..3 : Carries(ss, k, p.legs[k].qty)
    BY <2>4, <2>5
  <2>7. Life(In(i), "rebased", p, ss, l)
    <3>1. p \notin Refusals /\ p.legs[1].type = "MARKET"
      BY <2>2, PlanFacts
    <3>2. \E x \in Quotes : /\ l.cost = l.qty * x
                            /\ p.legs[1] = [type |-> "MARKET", qty |-> l.qty, ref |-> x]
      BY <1>4, <2>2
    <3> HIDE DEF l
    <3> QED
      BY <1>3, <2>2, <2>6, <3>1, <3>2 DEF Life
  <2>8. "rebased" \in Phases /\ "rebased" \in Held
    BY DEF Phases, Held
  <2>9. lock' \in Intents \cup {None} /\ \A j \in Intents \ {i} : lock' = j <=> lock = j
    BY <1>1, <2>1
  <2> QED
    BY <1>1, <1>2, <2>1, <2>4, <2>7, <2>8, <2>9, Moves
<1>9. CASE ~(~Refused(p) /\ Allocatable(p, slices[i]))
  <2>1. /\ phase' = [phase EXCEPT ![i] = "stranded"] /\ lock' = None
        /\ plan' = [plan EXCEPT ![i] = plan[i]] /\ slices' = [slices EXCEPT ![i] = slices[i]]
    BY <1>2, <1>9 DEF RebaseFill, Abandon, Goto, p
  <2>2. Life(In(i), "stranded", plan[i], slices[i], l)
    BY <1>3, PlanFacts DEF Life
  <2>3. "stranded" \in Phases /\ "stranded" \notin Held
    BY DEF Phases, Held
  <2>4. /\ lock' \in Intents \cup {None} /\ \A j \in Intents \ {i} : lock' = j <=> lock = j
    BY <1>1, <1>2, <2>1
  <2>5. lock' # i /\ phase[i] # "new"
    BY <1>1, <1>2, <2>1
  <2> QED
    BY <1>1, <1>2, <2>1, <2>2, <2>3, <2>4, <2>5, Moves
<1> QED
  BY <1>8, <1>9

\* The scale-ins rest, and the risk is the rebased loss.
LEMMA SubmitRemainingInv ==
  ASSUME PlanInv, NEW i \in Intents, SubmitRemaining(i)
  PROVE  PlanInv'
<1> DEFINE p == plan[i]
           l == [live[i] EXCEPT !.resting = {2, 3}]
<1>1. /\ lock = i /\ phase[i] = "rebased" /\ phase' = [phase EXCEPT ![i] = "executed"]
      /\ lock' = None /\ live' = [live EXCEPT ![i] = l]
      /\ UNCHANGED <<intent, todo, existing, reserved, plan, slices>>
  BY DEF SubmitRemaining, Goto
<1>2. /\ slices[i] \in [1..3 -> Seq(Slice)] /\ live[i] \in Position /\ None \notin Intents
      /\ Life(In(i), "rebased", p, slices[i], live[i])
      /\ plan' = [plan EXCEPT ![i] = p] /\ slices' = [slices EXCEPT ![i] = slices[i]]
  BY <1>1, Facts
<1>3. /\ SoundPlan(p) /\ Serves(p, In(i)) /\ live[i].qty > 0
      /\ \A k \in 1..3 : Carries(slices[i], k, p.legs[k].qty)
  BY <1>2 DEF Life, Planned, Phases
<1>4. PICK price \in Quotes :
         /\ live[i].cost = live[i].qty * price
         /\ p.legs[1] = [type |-> "MARKET", qty |-> live[i].qty, ref |-> price]
  BY <1>2 DEF Life
<1> HIDE DEF p
<1>5. /\ l \in Position /\ l.qty = live[i].qty /\ l.cost = live[i].cost /\ l.resting = {2, 3}
  <2>1. {2, 3} \in SUBSET (1..3)
    OBVIOUS
  <2> QED
    BY <1>2, <2>1 DEF Position
<1> HIDE DEF l
<1>6. Away(p, l) = AtRisk(p, 1)
  <2>1. AtRisk(p, 1) = Dir(p.side) * (price * l.qty - p.stop * l.qty)
    BY <1>3, <1>4, <1>5, PlanFacts
  <2>2. price \in Nat /\ l.qty \in Nat /\ p.stop \in Nat
    BY <1>3, <1>5, PlanFacts, PlannerConstants DEF Position
  <2>3. l.cost = price * l.qty
    BY <1>4, <1>5, <2>2
  <2> QED
    BY <2>1, <2>3 DEF Away
<1>7. Away(p, l) >= 0 /\ Away(p, l) + Waiting(p, l) = p.loss
  <2>1. \A k \in 1..3 : AtRisk(p, k) \in Nat
    BY <1>3, PlanFacts
  <2>2. Waiting(p, l) = AtRisk(p, 2) + AtRisk(p, 3)
    BY <1>5, <2>1 DEF Waiting
  <2> QED
    BY <1>3, <1>6, <2>1, <2>2, PlanFacts
<1>8. Life(In(i), "executed", p, slices[i], l)
  BY <1>3, <1>7, PlanFacts DEF Life
<1>9. /\ "executed" \in Phases /\ ("executed" \in Held <=> lock' = i) /\ phase[i] # "new"
      /\ lock' \in Intents \cup {None} /\ \A j \in Intents \ {i} : lock' = j <=> lock = j
  BY <1>1, <1>2 DEF Phases, Held
<1>10. UNCHANGED <<intent, todo, existing, reserved>> /\ phase' = [phase EXCEPT ![i] = "executed"]
       /\ live' = [live EXCEPT ![i] = l]
  BY <1>1
<1> QED
  BY <1>2, <1>5, <1>8, <1>9, <1>10, Moves DEF p

\* A resting ladder is sent, and the risk is its planned loss.
LEMMA ExecuteBatchInv ==
  ASSUME PlanInv, NEW i \in Intents, NEW t, NEW q, ExecuteBatch(i, t, q)
  PROVE  PlanInv'
<1>1. /\ lock = i /\ phase[i] = "prepared"
      /\ UNCHANGED <<intent, todo, existing, reserved, slices>>
  BY DEF ExecuteBatch
<1>2. CASE Below(plan[i].side, q, plan[i].legs[1].ref)
  <2>1. "passed" \in Reasons
    BY DEF Reasons
  <2> QED
    BY <1>1, <1>2, <2>1, Fails DEF ExecuteBatch
<1>3. CASE ~Below(plan[i].side, q, plan[i].legs[1].ref)
  <2> DEFINE p == plan[i]
             l == [live[i] EXCEPT !.resting = {1, 2, 3}]
  <2>1. /\ phase' = [phase EXCEPT ![i] = "executed"] /\ lock' = None
        /\ live' = [live EXCEPT ![i] = l] /\ UNCHANGED plan
    BY <1>3 DEF ExecuteBatch, Goto
  <2>2. /\ slices[i] \in [1..3 -> Seq(Slice)] /\ live[i] \in Position /\ None \notin Intents
        /\ Life(In(i), "prepared", p, slices[i], live[i])
        /\ plan' = [plan EXCEPT ![i] = p] /\ slices' = [slices EXCEPT ![i] = slices[i]]
    BY <1>1, <2>1, Facts
  <2>3. /\ SoundPlan(p) /\ Serves(p, In(i)) /\ live[i] = Flat
        /\ \A k \in 1..3 : Carries(slices[i], k, p.legs[k].qty)
    BY <2>2 DEF Life, Planned, Phases
  <2> HIDE DEF p
  <2>4. /\ l \in Position /\ l.qty = 0 /\ l.cost = 0 /\ l.resting = {1, 2, 3}
    BY <2>2, <2>3 DEF Position, Flat
  <2> HIDE DEF l
  <2>5. Away(p, l) >= 0 /\ Away(p, l) + Waiting(p, l) = p.loss
    <3>1. \A k \in 1..3 : AtRisk(p, k) \in Nat
      BY <2>3, PlanFacts
    <3>2. Waiting(p, l) = AtRisk(p, 1) + AtRisk(p, 2) + AtRisk(p, 3)
      BY <2>4 DEF Waiting
    <3>3. p.stop \in Nat
      BY <2>3, PlanFacts
    <3>4. Away(p, l) = 0
      BY <2>4, <3>3 DEF Away, Dir
    <3> QED
      BY <2>3, <3>1, <3>2, <3>4, PlanFacts
  <2>6. Life(In(i), "executed", p, slices[i], l)
    BY <2>3, <2>5, PlanFacts DEF Life
  <2>7. /\ "executed" \in Phases /\ ("executed" \in Held <=> lock' = i) /\ phase[i] # "new"
        /\ lock' \in Intents \cup {None} /\ \A j \in Intents \ {i} : lock' = j <=> lock = j
    BY <1>1, <2>1, <2>2 DEF Phases, Held
  <2>8. UNCHANGED <<intent, todo, existing, reserved>>
    BY <1>1
  <2> QED
    BY <2>1, <2>2, <2>4, <2>6, <2>7, <2>8, Moves DEF p
<1> QED
  BY <1>2, <1>3

\* A fill moves a leg's risk from the order to the position.
LEMMA LegFillsInv ==
  ASSUME PlanInv, NEW i \in Intents, NEW k \in 1..3, LegFills(i, k)
  PROVE  PlanInv'
<1> DEFINE p == plan[i]
           m == live[i]
           l == [qty |-> m.qty + p.legs[k].qty, cost |-> m.cost + p.legs[k].qty * p.legs[k].ref,
                 resting |-> m.resting \ {k}]
<1>1. /\ k \in m.resting /\ live' = [live EXCEPT ![i] = l]
      /\ UNCHANGED <<intent, todo, existing, reserved, phase, plan, slices, lock>>
  BY DEF LegFills
<1>2. /\ slices[i] \in [1..3 -> Seq(Slice)] /\ m \in Position
      /\ Life(In(i), phase[i], p, slices[i], m) /\ phase[i] \in Phases
      /\ plan' = [plan EXCEPT ![i] = p] /\ slices' = [slices EXCEPT ![i] = slices[i]]
      /\ phase' = [phase EXCEPT ![i] = phase[i]] /\ (phase[i] \in Held <=> lock = i)
      /\ lock \in Intents \cup {None}
  BY <1>1, Facts
<1>3. phase[i] = "executed" /\ m # Flat
  BY <1>1, <1>2 DEF Life, Flat
<1>4. /\ SoundPlan(p) /\ Serves(p, In(i)) /\ Away(p, m) >= 0
      /\ Away(p, m) + Waiting(p, m) = p.loss
      /\ \A j \in 1..3 : Carries(slices[i], j, p.legs[j].qty)
  BY <1>2, <1>3 DEF Life, Planned, Phases
<1> HIDE DEF p, m
<1> DEFINE q == p.legs[k].qty
           r == p.legs[k].ref
<1>5. /\ q \in Nat \ {0} /\ r \in Nat \ {0} /\ p.stop \in Nat /\ p.side \in BothSides
      /\ AtRisk(p, k) = Dir(p.side) * (r * q - p.stop * q)
      /\ \A j \in 1..3 : AtRisk(p, j) \in Nat
  BY <1>4, PlanFacts
<1> HIDE DEF q, r
<1>6. l.qty = m.qty + q /\ l.cost = m.cost + q * r /\ l.resting = m.resting \ {k}
  BY DEF q, r
<1>7. m.qty \in Nat /\ m.cost \in Int /\ m.resting \in SUBSET (1..3)
  BY <1>2 DEF Position
<1>8. l \in Position
  <2>1. q * r \in Int
    BY <1>5
  <2>2. m.qty + q \in Nat /\ m.cost + q * r \in Int /\ m.resting \ {k} \in SUBSET (1..3)
    BY <1>5, <1>7, <2>1
  <2> QED
    BY <2>2 DEF Position, q, r
<1> HIDE DEF l
<1>9. Away(p, l) = Away(p, m) + AtRisk(p, k)
  <2>1. p.stop * (m.qty + q) = p.stop * m.qty + p.stop * q /\ q * r = r * q
    BY <1>5, <1>7
  <2>2. p.stop * m.qty \in Int /\ p.stop * q \in Int /\ r * q \in Int
    BY <1>5, <1>7
  <2> QED
    BY <1>5, <1>6, <1>7, <2>1, <2>2 DEF Away, Dir
<1>10. Waiting(p, m) = Waiting(p, l) + AtRisk(p, k)
  <2>1. CASE k = 1
    BY <1>1, <1>5, <1>6, <2>1 DEF Waiting, m
  <2>2. CASE k = 2
    BY <1>1, <1>5, <1>6, <2>2 DEF Waiting, m
  <2>3. CASE k = 3
    BY <1>1, <1>5, <1>6, <2>3 DEF Waiting, m
  <2> QED
    BY <2>1, <2>2, <2>3
<1>11. Away(p, l) >= 0 /\ Away(p, l) + Waiting(p, l) = p.loss
  <2>1. Away(p, m) \in Int /\ Waiting(p, m) \in Int /\ Waiting(p, l) \in Int
    BY <1>2, <1>4, <1>8, RiskFacts
  <2> QED
    BY <1>4, <1>5, <1>9, <1>10, <2>1
<1>12. Life(In(i), phase[i], p, slices[i], l)
  BY <1>3, <1>4, <1>11, PlanFacts DEF Life
<1>13. /\ \A j \in Intents \ {i} : lock' = j <=> lock = j
       /\ (phase[i] \in Held <=> lock' = i) /\ lock' \in Intents \cup {None}
       /\ phase[i] # "new" /\ UNCHANGED <<intent, todo, existing, reserved>>
       /\ live' = [live EXCEPT ![i] = l]
  BY <1>1, <1>2, <1>3
<1> QED
  BY <1>2, <1>8, <1>12, <1>13, Moves

\* A position is closed.
LEMMA PositionClosesInv ==
  ASSUME PlanInv, NEW i \in Intents, PositionCloses(i)
  PROVE  PlanInv'
<1>1. /\ phase[i] \in {"executed", "stranded"} /\ live' = [live EXCEPT ![i] = Flat]
      /\ UNCHANGED <<intent, todo, existing, reserved, phase, plan, slices, lock>>
  BY DEF PositionCloses
<1>2. /\ slices[i] \in [1..3 -> Seq(Slice)]
      /\ Life(In(i), phase[i], plan[i], slices[i], live[i]) /\ phase[i] \in Phases
      /\ plan' = [plan EXCEPT ![i] = plan[i]] /\ slices' = [slices EXCEPT ![i] = slices[i]]
      /\ phase' = [phase EXCEPT ![i] = phase[i]] /\ (phase[i] \in Held <=> lock = i)
      /\ lock \in Intents \cup {None}
  BY <1>1, Facts
<1>3. Life(In(i), phase[i], plan[i], slices[i], Flat)
  BY <1>1, <1>2 DEF Life, Flat
<1>4. Flat \in Position
  BY DEF Flat, Position
<1>5. /\ \A j \in Intents \ {i} : lock' = j <=> lock = j
      /\ (phase[i] \in Held <=> lock' = i) /\ lock' \in Intents \cup {None}
      /\ phase[i] # "new"
  BY <1>1, <1>2
<1> QED
  BY <1>1, <1>2, <1>3, <1>4, <1>5, Moves

\* Every step keeps the invariant.
LEMMA NextInv == PlanInv /\ [Next]_vars => PlanInv'
<1> SUFFICES ASSUME PlanInv, [Next]_vars PROVE PlanInv'
  OBVIOUS
<1>1. CASE \E b \in Batches : StartBatch(b)
  BY <1>1, StartBatchInv
<1>2. CASE \E q \in Quotes, s \in Strata, skips \in BOOLEAN : PlanOne(q, s, skips)
  BY <1>2, PlanOneInv
<1>3. CASE PlanLater
  BY <1>3, PlanLaterInv
<1>4. ASSUME NEW i \in Intents,
             \/ Preflight(i)
             \/ \E q \in Quotes : PreparePrimary(i, q)
             \/ RebaseFill(i)
             \/ SubmitRemaining(i)
             \/ \E k \in 1..3 : LegFills(i, k)
             \/ PositionCloses(i)
      PROVE  PlanInv'
  BY <1>4, PreflightInv, PreparePrimaryInv, RebaseFillInv, SubmitRemainingInv, LegFillsInv,
     PositionClosesInv
<1>5. ASSUME NEW i \in Intents, NEW t \in 1..Len(Tiers), NEW q \in Quotes,
             \/ Prepare(i, t, q)
             \/ SubmitRefused(i, t, q)
             \/ ExecuteBatch(i, t, q)
             \/ \E price \in Quotes : SubmitPrimary(i, t, q, price)
      PROVE  PlanInv'
  BY <1>5, PrepareInv, SubmitRefusedInv, ExecuteBatchInv, SubmitPrimaryInv
<1>6. CASE UNCHANGED vars
  BY <1>6 DEF vars, PlanInv, Typed, Queue, Lives, In
<1> QED
  BY <1>1, <1>2, <1>3, <1>4, <1>5, <1>6 DEF Next

\* The invariant always holds.
LEMMA PlansKept == Spec => []PlanInv
<1>1. Init => PlanInv
  BY InitInv
<1>2. PlanInv /\ [Next]_vars => PlanInv'
  BY NextInv
<1> QED
  BY <1>1, <1>2, PTL DEF Spec

\* While any entry leg of a plan rests, the account risks at most the plan's frozen
\* budget at its stop, wherever the market filled E1 (rebase_market_plan): for any
\* policy, ticks, minima, quotes, tiers and intents.
THEOREM LiveRisk == Spec => []LiveRiskWithinBudget
<1>1. PlanInv => LiveRiskWithinBudget
  <2> SUFFICES ASSUME PlanInv, NEW i \in Intents, live[i].resting # {}
               PROVE  StopRisk(i) <= plan[i].budget
    BY DEF LiveRiskWithinBudget
  <2>1. live[i] \in Position /\ Life(In(i), phase[i], plan[i], slices[i], live[i])
    BY Facts
  <2>2. phase[i] = "executed" /\ live[i] # Flat
    BY <2>1 DEF Life, Flat
  <2>3. Risk(plan[i], live[i]) = plan[i].loss
    BY <2>1, <2>2, LifeRisk
  <2>4. SoundPlan(plan[i])
    BY <2>2, Facts DEF Planned, Phases
  <2> QED
    BY <2>3, <2>4, StopRiskIs, PlanFacts
<1> QED
  BY <1>1, PlansKept, PTL

\* A plan stays consistent from the planning pass to its last resting leg: the
\* rebase on a fill at the quote changes nothing, rounding never exceeds the
\* budget, the requests carry the legs, and neither the trader's target nor the
\* leverage is exceeded (execution.py, bybit/leverage.py, bybit/entry_limits.py).
THEOREM Consistent == Spec => []PlanIsConsistent
<1>1. PlanInv => PlanIsConsistent
  <2> SUFFICES ASSUME PlanInv PROVE PlanIsConsistent
    OBVIOUS
  <2>1. Typed
    BY DEF PlanInv
  <2>2. \A i \in Intents : /\ (plan[i] \in Refusals \/ SoundPlan(plan[i]))
                           /\ (Has(i) => SoundPlan(plan[i]) /\ Serves(plan[i], In(i)))
                           /\ (Refused(plan[i]) => plan[i].refused # "budget")
    <3> TAKE i \in Intents
    <3>1. plan[i] \in Refusals \/ (SoundPlan(plan[i]) /\ Serves(plan[i], In(i)))
      BY Facts DEF Life
    <3> QED
      BY <3>1, RefusalIsNoPlan, PlanFacts DEF Has
  <2>3. TypeOK
    <3>1. \A i \in Intents : Has(i) => ValidPlan(plan[i])
      <4> SUFFICES ASSUME NEW i \in Intents, Has(i) PROVE ValidPlan(plan[i])
        OBVIOUS
      <4> DEFINE p == plan[i]
      <4>1. SoundPlan(p)
        BY <2>2
      <4> HIDE DEF p
      <4>2. p.legs \in [1..3 -> Leg] /\ p.targets \in [1..3 -> Target]
        BY <4>1 DEF SoundPlan, Plan
      <4>3. Len(p.legs) = 3 /\ Len(p.targets) = 3
        BY <4>2, SeqOfFunction, 3 \in Nat
      <4>4. p.targets[1].pct + p.targets[2].pct + p.targets[3].pct + Policy.runner = Whole
        BY <4>1, PolicyFacts DEF SoundPlan
      <4>5. \A k \in 1..3 : p.legs[k].qty > 0 /\ p.legs[k].ref > 0 /\ p.targets[k].price > 0
        BY <4>1 DEF SoundPlan, Sound
      <4>6. p.loss <= p.budget
        BY <4>1 DEF SoundPlan
      <4> QED
        BY <4>3, <4>4, <4>5, <4>6 DEF ValidPlan, p
    <3> QED
      BY <2>1, <3>1 DEF TypeOK, Typed, Phases, Position
  <2>4. RoundingStaysInsideBudget
    <3> SUFFICES ASSUME NEW i \in Intents, phase[i] = "filled"
                 PROVE  RebasedFill(i) # Refusal("budget")
      BY <2>2 DEF RoundingStaysInsideBudget
    <3>1. SoundPlan(plan[i]) /\ live[i] \in Position
      BY Facts DEF Planned, Phases
    <3>2. PICK price \in Quotes : live[i].cost = live[i].qty * price /\ live[i].qty > 0
      BY Facts DEF Life
    <3> DEFINE q == live[i].qty
               c == live[i].cost
    <3>3. price \in Nat \ {0} /\ q \in Nat \ {0} /\ c = q * price
      BY <3>1, <3>2, PlannerConstants DEF Position
    <3> HIDE DEF q, c
    <3>4. c \in Nat
      BY <3>3
    <3>5. c \div q = price
      BY <3>3, <3>4, DivOfMultiple
    <3> DEFINE p == RebasedFill(i)
    <3>6. p = Rebase(plan[i], price, q)
      BY <3>5 DEF RebasedFill, c, q
    <3> HIDE DEF p
    <3>7. p \in Refusals \/ SoundPlan(p)
      <4>1. price \in Int /\ q \in Nat
        BY <3>3
      <4> QED
        BY <3>1, <3>6, <4>1, RebaseSound
    <3> QED
      BY <3>7, RefusalIsNoPlan, PlanFacts DEF p
  <2>5. QuoteFillAccepted
    BY Facts DEF QuoteFillAccepted, Life
  <2>6. SlicesCarryPlan
    <3> SUFFICES ASSUME NEW i \in Intents,
                        phase[i] \in {"prepared", "ready", "rebased", "executed"},
                        NEW k \in 1..3
                 PROVE  LET ss == slices[i][k]
                            carried == [n \in 1..Len(ss) |-> IF Confirmed(ss[n]) THEN ss[n].filled
                                                             ELSE ss[n].qty]
                        IN  /\ Len(ss) > 0 /\ SumTo(carried, Len(ss)) = plan[i].legs[k].qty
                            /\ \A n \in 1..Len(ss) : ss[n].index = IF Len(ss) = 1 THEN 0 ELSE n
      BY DEF SlicesCarryPlan
    <3>1. Carries(slices[i], k, plan[i].legs[k].qty)
      BY Facts DEF Life
    <3> QED
      BY <3>1 DEF Carries, Carried, Numbered
  <2>7. TargetsRespectTrader
    BY <2>2 DEF TargetsRespectTrader, SoundPlan, Serves
  <2>8. LeverageNeverRaised
    BY <2>2 DEF LeverageNeverRaised, Serves, OnGrid, Leverage
  <2> QED
    BY <2>3, <2>4, <2>5, <2>6, <2>7, <2>8 DEF PlanIsConsistent
<1> QED
  BY <1>1, PlansKept, PTL

(***************************************************************************)
(* The portfolio cap.  A share is what one intent takes of the cap: its    *)
(* stop risk once its resting ladder is out.                               *)
(***************************************************************************)

\* What an intent takes of the cap.
Share(ph, p, l) == IF ph = "executed" /\ p.legs[1].type # "MARKET" THEN Risk(p, l) ELSE 0
Shares == [i \in Intents |-> Share(phase[i], plan[i], live[i])]

\* A share is at most the risk, and is the planned loss if it is anything.
LEMMA ShareNat ==
  ASSUME NEW in, NEW ph, NEW p, NEW ss, NEW l \in Position, Life(in, ph, p, ss, l)
  PROVE  /\ Share(ph, p, l) \in Nat /\ Share(ph, p, l) <= Risk(p, l) /\ Risk(p, l) \in Nat
         /\ (Share(ph, p, l) # 0 => ph = "executed" /\ l # Flat /\ Share(ph, p, l) = p.loss)
<1>1. /\ Risk(p, l) \in Nat /\ (l = Flat => Risk(p, l) = 0)
      /\ (ph = "executed" /\ l # Flat => Risk(p, l) = p.loss)
  BY LifeRisk
<1> QED
  BY <1>1 DEF Share

\* The shares sum to at most the open risk.
LEMMA SharesNat ==
  ASSUME Typed, Lives
  PROVE  /\ Shares \in [Intents -> Nat] /\ SumOver(Intents, Shares) \in Nat
         /\ SumOver(Intents, Shares) <= OpenRisk /\ OpenRisk \in Nat
<1>1. \A i \in Intents : /\ Shares[i] \in Nat /\ Shares[i] <= Risk(plan[i], live[i])
                         /\ Risk(plan[i], live[i]) \in Nat
  <2> TAKE i \in Intents
  <2>1. live[i] \in Position /\ Life(In(i), phase[i], plan[i], slices[i], live[i])
    BY DEF Typed, Lives
  <2> QED
    BY <2>1, ShareNat DEF Shares
<1>2. Shares \in [Intents -> Nat]
  BY <1>1 DEF Shares
<1> DEFINE risks == [i \in Intents |-> StopRisk(i)]
<1>3. risks \in [Intents -> Nat] /\ \A i \in Intents : Shares[i] <= risks[i]
  BY <1>1, StopRiskIs
<1> HIDE DEF risks
<1>4. IsFiniteSet(Intents)
  BY PlannerConstants
<1>5. Shares \in [Intents -> Int] /\ risks \in [Intents -> Int]
  BY <1>2, <1>3
<1>6. SumOver(Intents, Shares) <= SumOver(Intents, risks)
  BY <1>3, <1>4, <1>5, SumMonotone
<1> QED
  BY <1>2, <1>3, <1>4, <1>6, SumNat DEF risks, OpenRisk

\* What preflight has admitted: the resting ladders, and the one about to rest.
Pends(i) == lock = i /\ phase[i] \in {"checked", "prepared"} /\ ~IsMarket(i)
WithinCap ==
    /\ SumOver(Intents, Shares) <= Cap
    /\ \A i \in Intents : Pends(i) => SumOver(Intents, Shares) + plan[i].loss <= Cap

\* Steps that move no share.
LEMMA SharesKept ==
  ASSUME Shares' = Shares, WithinCap,
         \A i \in Intents : Pends(i)' => Pends(i) /\ plan'[i].loss = plan[i].loss
  PROVE  WithinCap'
  BY DEF WithinCap

\* A step of intent i: the shares of the others stay.
LEMMA SharesMove ==
  ASSUME PlanInv, PlanInv', NEW i \in Intents,
         \A j \in Intents \ {i} : phase'[j] = phase[j] /\ plan'[j] = plan[j] /\ live'[j] = live[j]
  PROVE  /\ SumOver(Intents, Shares)' = SumOver(Intents, Shares) - Shares[i] + Shares'[i]
         /\ SumOver(Intents, Shares) \in Nat /\ Shares[i] \in Nat /\ Shares'[i] \in Nat
<1>1. Shares \in [Intents -> Nat] /\ SumOver(Intents, Shares) \in Nat
  BY SharesNat DEF PlanInv
<1>2. Shares' \in [Intents -> Nat]
  <2>1. \A j \in Intents : Shares'[j] \in Nat
    <3> TAKE j \in Intents
    <3>1. live'[j] \in Position /\ Life(In(j)', phase'[j], plan'[j], slices'[j], live'[j])
      BY DEF PlanInv, Typed, Lives
    <3> QED
      BY <3>1, ShareNat DEF Shares
  <2> QED
    BY <2>1 DEF Shares
<1>3. \A j \in Intents : j # i => Shares'[j] = Shares[j]
  BY DEF Shares
<1>4. Shares \in [Intents -> Int] /\ Shares' \in [Intents -> Int] /\ IsFiniteSet(Intents)
  BY <1>1, <1>2, PlannerConstants
<1>5. SumOver(Intents, Shares') = SumOver(Intents, Shares) - Shares[i] + Shares'[i]
  BY <1>3, <1>4, SumPoint
<1>6. SumOver(Intents, Shares)' = SumOver(Intents, Shares')
  BY DEF SumOver
<1> QED
  BY <1>1, <1>2, <1>5, <1>6

\* A step of i leaves the other intents alone.
Apart(i) == \A j \in Intents \ {i} : phase'[j] = phase[j] /\ plan'[j] = plan[j] /\ live'[j] = live[j]

\* A step of i that does not raise its share, and makes nothing pending.
LEMMA CapMove ==
  ASSUME PlanInv, PlanInv', WithinCap, NEW i \in Intents, Apart(i), Shares'[i] <= Shares[i],
         \A j \in Intents : Pends(j)' => Pends(j) /\ plan'[j].loss = plan[j].loss
  PROVE  WithinCap'
<1> DEFINE before == SumOver(Intents, Shares)
           after == SumOver(Intents, Shares)'
<1>1. after = before - Shares[i] + Shares'[i] /\ before \in Nat /\ Shares[i] \in Nat /\ Shares'[i] \in Nat
  BY SharesMove DEF Apart
<1>2. Cap \in Nat /\ \A j \in Intents : Pends(j) => plan[j].loss \in Nat
  <2>1. ASSUME NEW j \in Intents, Pends(j) PROVE plan[j].loss \in Nat
    <3>1. SoundPlan(plan[j])
      BY <2>1, Facts DEF Pends, Planned, Phases
    <3> QED
      BY <3>1, PlanFacts
  <2> QED
    BY <2>1, PlannerConstants
<1> HIDE DEF before, after
<1>3. after <= before /\ after \in Int
  BY <1>1
<1>4. before <= Cap /\ \A j \in Intents : Pends(j) => before + plan[j].loss <= Cap
  BY DEF WithinCap, before
<1>5. after <= Cap
  BY <1>1, <1>2, <1>3, <1>4
<1>6. ASSUME NEW j \in Intents, Pends(j)' PROVE after + plan'[j].loss <= Cap
  <2>1. before + plan[j].loss <= Cap /\ plan'[j].loss = plan[j].loss /\ plan[j].loss \in Nat
    BY <1>2, <1>4, <1>6
  <2> QED
    BY <1>1, <1>2, <1>3, <2>1
<1> QED
  BY <1>5, <1>6 DEF WithinCap, after

\* Steps that leave i outside the executed ones, and nothing pending.
LEMMA CapIdle ==
  ASSUME PlanInv, PlanInv', WithinCap, NEW i \in Intents, Apart(i), phase[i] # "executed",
         phase'[i] # "executed",
         \A j \in Intents : Pends(j)' => Pends(j) /\ plan'[j].loss = plan[j].loss
  PROVE  WithinCap'
<1>1. Shares[i] = 0 /\ Shares'[i] = 0
  BY DEF Shares, Share
<1> QED
  BY <1>1, CapMove

\* A step under i's lock that does not leave i waiting to be sent.
LEMMA CapLocked ==
  ASSUME PlanInv, PlanInv', WithinCap, NEW i \in Intents, Apart(i), phase[i] # "executed",
         NEW ph, phase' = [phase EXCEPT ![i] = ph], lock' \in {None, i},
         ph \notin {"executed", "checked", "prepared"}
  PROVE  WithinCap'
<1>1. phase'[i] = ph /\ None \notin Intents
  BY PlannerConstants DEF PlanInv, Typed
<1>2. \A j \in Intents : ~Pends(j)'
  BY <1>1 DEF Pends
<1> QED
  BY <1>1, <1>2, CapIdle

\* Planning takes nothing of the cap.
LEMMA CapPlanOne ==
  ASSUME PlanInv, PlanInv', WithinCap, NEW q, NEW stratum, NEW skips, PlanOne(q, stratum, skips)
  PROVE  WithinCap'
<1> DEFINE i == Head(todo)
<1>1. /\ i \in Intents /\ phase[i] = "new"
  BY Dequeued DEF PlanOne, PlanInv
<1>2. /\ Apart(i) /\ phase'[i] \in {"rejected", "skipped", "planned"} /\ lock' = lock
  <2>1. \E p : plan' = [plan EXCEPT ![i] = p]
    BY DEF PlanOne
  <2>2. \E ph \in {"rejected", "skipped", "planned"} : phase' = [phase EXCEPT ![i] = ph]
    BY DEF PlanOne
  <2>3. live' = live /\ lock' = lock
    BY DEF PlanOne
  <2> QED
    BY <1>1, <2>1, <2>2, <2>3 DEF Apart, PlanInv, Typed
<1> HIDE DEF i
<1>3. \A j \in Intents : Pends(j)' => Pends(j) /\ plan'[j].loss = plan[j].loss
  BY <1>2 DEF Pends, Apart, IsMarket
<1> QED
  BY <1>1, <1>2, <1>3, CapIdle

\* Steps that change no intent keep the cap.
LEMMA CapSame ==
  ASSUME PlanInv, WithinCap, UNCHANGED <<phase, plan, live, lock>>
  PROVE  WithinCap'
<1>1. Shares' = Shares
  BY DEF Shares
<1>2. \A i \in Intents : Pends(i)' => Pends(i) /\ plan'[i].loss = plan[i].loss
  BY DEF Pends, IsMarket
<1> QED
  BY <1>1, <1>2, SharesKept

\* What preflight admits fits the cap with everything that rests.
LEMMA CapPreflight ==
  ASSUME PlanInv, PlanInv', WithinCap, NEW i \in Intents, Preflight(i)
  PROVE  WithinCap'
<1>1. CASE OpenRisk + plan[i].loss <= Cap
  <2>1. /\ phase[i] = "planned" /\ phase' = [phase EXCEPT ![i] = "checked"] /\ lock' = i
        /\ plan' = plan /\ live' = live
    BY <1>1 DEF Preflight, Goto
  <2>2. Apart(i) /\ phase'[i] = "checked"
    BY <2>1 DEF Apart, PlanInv, Typed
  <2> DEFINE before == SumOver(Intents, Shares)
             after == SumOver(Intents, Shares)'
  <2>3. after = before
    <3>1. Shares[i] = 0 /\ Shares'[i] = 0
      BY <2>1, <2>2 DEF Shares, Share
    <3>2. after = before - Shares[i] + Shares'[i] /\ before \in Nat
      BY <2>2, SharesMove DEF Apart
    <3> HIDE DEF before, after
    <3> QED
      BY <3>1, <3>2
  <2>4. before <= OpenRisk /\ OpenRisk \in Nat /\ before \in Nat
    BY SharesNat DEF PlanInv
  <2>5. plan[i].loss \in Nat /\ Cap \in Nat
    BY <2>1, Facts, PlanFacts, PlannerConstants DEF Planned, Phases
  <2> HIDE DEF before, after
  <2>6. after <= Cap /\ after + plan'[i].loss <= Cap
    BY <1>1, <2>1, <2>3, <2>4, <2>5
  <2>7. \A j \in Intents : Pends(j)' => j = i
    BY <2>1 DEF Pends
  <2> QED
    BY <2>6, <2>7 DEF WithinCap, after
<1>2. CASE ~(OpenRisk + plan[i].loss <= Cap)
  <2>1. /\ phase[i] = "planned" /\ phase' = [phase EXCEPT ![i] = "failed"] /\ lock' = None
        /\ plan' = [plan EXCEPT ![i] = Refusal("cap")] /\ live' = live
    BY <1>2 DEF Preflight, Abandon, Goto
  <2>2. Apart(i)
    BY <2>1 DEF Apart, PlanInv, Typed
  <2> QED
    BY <2>1, <2>2, CapLocked
<1> QED
  BY <1>1, <1>2

\* A failing execution takes nothing.
LEMMA CapFails ==
  ASSUME PlanInv, PlanInv', WithinCap, NEW i \in Intents, phase[i] # "executed",
         NEW why, Abandon(i, "failed", why), UNCHANGED live
  PROVE  WithinCap'
<1>1. /\ phase' = [phase EXCEPT ![i] = "failed"] /\ lock' = None
      /\ plan' = [plan EXCEPT ![i] = Refusal(why)]
  BY DEF Abandon, Goto
<1>2. Apart(i)
  BY <1>1 DEF Apart, PlanInv, Typed
<1> QED
  BY <1>1, <1>2, CapLocked

\* The leverage does not change the loss.
LEMMA CapPrepare ==
  ASSUME PlanInv, PlanInv', WithinCap, NEW i \in Intents, NEW t, NEW mark, Prepare(i, t, mark)
  PROVE  WithinCap'
<1> DEFINE lev == TierLeverage(plan[i], t, mark)
<1>1. lock = i /\ phase[i] = "checked" /\ live' = live
  BY DEF Prepare
<1>2. CASE lev > 0 /\ Allocatable(plan[i], NoSlices)
  <2>1. /\ phase' = [phase EXCEPT ![i] = "prepared"] /\ lock' = i
        /\ plan' = [plan EXCEPT ![i].leverage = lev]
    BY <1>2 DEF Prepare, Goto
  <2>2. plan[i] \in Plan
    BY <1>1, Facts, PlanFacts DEF Planned, Phases
  <2>3. plan'[i].legs = plan[i].legs /\ plan'[i].loss = plan[i].loss
    <3>1. plan'[i] = [plan[i] EXCEPT !.leverage = lev]
      BY <2>1 DEF PlanInv, Typed
    <3> QED
      BY <2>2, <3>1 DEF Plan
  <2>4. Apart(i) /\ phase'[i] = "prepared"
    BY <1>1, <2>1 DEF Apart, PlanInv, Typed
  <2>5. \A j \in Intents : Pends(j)' => j = i
    BY <2>1 DEF Pends
  <2>6. Pends(i)' => Pends(i)
    BY <1>1, <2>3 DEF Pends, IsMarket
  <2> QED
    BY <1>1, <2>3, <2>4, <2>5, <2>6, CapIdle
<1>3. CASE ~(lev > 0 /\ Allocatable(plan[i], NoSlices))
  <2>1. Abandon(i, "failed", "tier")
    BY <1>3 DEF Prepare
  <2> QED
    BY <1>1, <2>1, CapFails
<1> QED
  BY <1>2, <1>3

\* A MARKET plan takes nothing of this cap.
LEMMA CapPreparePrimary ==
  ASSUME PlanInv, PlanInv', WithinCap, NEW i \in Intents, NEW q, PreparePrimary(i, q)
  PROVE  WithinCap'
<1> DEFINE p == Refresh(plan[i], q)
<1>1. phase[i] = "prepared" /\ live' = live
  BY DEF PreparePrimary
<1>2. CASE ~Refused(p) /\ Allocatable(p, NoSlices)
  <2>1. /\ phase' = [phase EXCEPT ![i] = "ready"] /\ lock' = i /\ plan' = [plan EXCEPT ![i] = p]
    BY <1>2 DEF PreparePrimary, Goto
  <2> HIDE DEF p
  <2>2. Apart(i)
    BY <1>1, <2>1 DEF Apart, PlanInv, Typed
  <2> QED
    BY <1>1, <2>1, <2>2, CapLocked
<1>3. CASE ~(~Refused(p) /\ Allocatable(p, NoSlices))
  <2>1. \E why : Abandon(i, "failed", why)
    BY <1>3 DEF PreparePrimary
  <2> QED
    BY <1>1, <2>1, CapFails
<1> QED
  BY <1>2, <1>3

\* A MARKET fill takes nothing of this cap.
LEMMA CapSubmitPrimary ==
  ASSUME PlanInv, PlanInv', WithinCap, NEW i \in Intents, NEW t, NEW mark, NEW price,
         SubmitPrimary(i, t, mark, price)
  PROVE  WithinCap'
<1>1. PICK ph \in {"stranded", "filled"} :
         /\ phase[i] = "ready" /\ phase' = [phase EXCEPT ![i] = ph] /\ lock' \in {None, i}
         /\ plan' = plan /\ \E l : live' = [live EXCEPT ![i] = l]
  BY DEF SubmitPrimary, Goto
<1>2. Apart(i)
  BY <1>1 DEF Apart, PlanInv, Typed
<1> QED
  BY <1>1, <1>2, CapLocked

\* A rebase takes nothing of this cap.
LEMMA CapRebaseFill ==
  ASSUME PlanInv, PlanInv', WithinCap, NEW i \in Intents, RebaseFill(i)
  PROVE  WithinCap'
<1>1. PICK ph \in {"stranded", "rebased"} :
         /\ phase[i] = "filled" /\ phase' = [phase EXCEPT ![i] = ph] /\ lock' \in {None, i}
         /\ live' = live /\ \E p : plan' = [plan EXCEPT ![i] = p] \/ plan' = plan
  BY DEF RebaseFill, Goto, Abandon
<1>2. Apart(i)
  BY <1>1 DEF Apart, PlanInv, Typed
<1> QED
  BY <1>1, <1>2, CapLocked

\* A MARKET ladder takes nothing of this cap.
LEMMA CapSubmitRemaining ==
  ASSUME PlanInv, PlanInv', WithinCap, NEW i \in Intents, SubmitRemaining(i)
  PROVE  WithinCap'
<1>1. /\ phase[i] = "rebased" /\ phase' = [phase EXCEPT ![i] = "executed"] /\ lock' = None
      /\ plan' = plan /\ \E l : live' = [live EXCEPT ![i] = l]
  BY DEF SubmitRemaining, Goto
<1>2. Apart(i)
  BY <1>1 DEF Apart, PlanInv, Typed
<1>3. plan[i].legs[1].type = "MARKET"
  BY <1>1, Facts DEF Life
<1>4. Shares[i] = 0 /\ Shares'[i] = 0
  BY <1>1, <1>3 DEF Shares, Share
<1>5. \A j \in Intents : ~Pends(j)'
  BY <1>1, PlannerConstants DEF Pends
<1> QED
  BY <1>2, <1>4, <1>5, CapMove

\* The ladder that comes to rest was admitted with its planned loss.
LEMMA CapExecuteBatch ==
  ASSUME PlanInv, PlanInv', WithinCap, NEW i \in Intents, NEW t, NEW q, ExecuteBatch(i, t, q)
  PROVE  WithinCap'
<1>1. lock = i /\ phase[i] = "prepared" /\ ~IsMarket(i)
  BY DEF ExecuteBatch
<1>2. CASE Below(plan[i].side, q, plan[i].legs[1].ref)
  BY <1>1, <1>2, CapFails DEF ExecuteBatch
<1>3. CASE ~Below(plan[i].side, q, plan[i].legs[1].ref)
  <2>1. /\ phase' = [phase EXCEPT ![i] = "executed"] /\ lock' = None
        /\ plan' = plan /\ \E l : live' = [live EXCEPT ![i] = l]
    BY <1>3 DEF ExecuteBatch, Goto
  <2>2. Apart(i)
    BY <2>1 DEF Apart, PlanInv, Typed
  <2> DEFINE before == SumOver(Intents, Shares)
             after == SumOver(Intents, Shares)'
  <2>3. before + plan[i].loss <= Cap
    BY <1>1 DEF WithinCap, Pends
  <2>4. /\ after = before - Shares[i] + Shares'[i] /\ before \in Nat
        /\ Shares[i] \in Nat /\ Shares'[i] \in Nat
    BY <2>2, SharesMove DEF Apart
  <2>5. Shares[i] = 0
    BY <1>1 DEF Shares, Share
  <2>6. Shares'[i] <= plan[i].loss /\ plan[i].loss \in Nat
    <3>1. live'[i] \in Position /\ Life(In(i)', phase'[i], plan'[i], slices'[i], live'[i])
      BY DEF PlanInv, Typed, Lives
    <3>2. Shares'[i] = Share(phase'[i], plan'[i], live'[i])
      BY DEF Shares
    <3>3. Shares'[i] # 0 => Shares'[i] = plan[i].loss
      BY <2>1, <3>1, <3>2, ShareNat
    <3>4. plan[i].loss \in Nat
      BY <1>1, Facts, PlanFacts DEF Planned, Phases
    <3> QED
      BY <3>3, <3>4
  <2>7. \A j \in Intents : ~Pends(j)'
    BY <2>1, PlannerConstants DEF Pends
  <2>8. after <= Cap
    <3> HIDE DEF before, after
    <3>1. Cap \in Nat
      BY PlannerConstants
    <3> QED
      BY <2>3, <2>4, <2>5, <2>6, <3>1
  <2> QED
    BY <2>7, <2>8 DEF WithinCap
<1> QED
  BY <1>2, <1>3

\* A fill moves risk from the resting leg to the position.
LEMMA CapLegFills ==
  ASSUME PlanInv, PlanInv', WithinCap, NEW i \in Intents, NEW k \in 1..3, LegFills(i, k)
  PROVE  WithinCap'
<1>1. /\ k \in live[i].resting /\ UNCHANGED <<phase, plan, lock>>
      /\ \E l : live' = [live EXCEPT ![i] = l]
  BY DEF LegFills
<1>2. Apart(i)
  BY <1>1 DEF Apart, PlanInv, Typed
<1>3. /\ live[i] \in Position /\ Life(In(i), phase[i], plan[i], slices[i], live[i])
  BY Facts
<1>4. phase[i] = "executed" /\ live[i] # Flat
  BY <1>1, <1>3 DEF Life, Flat
<1>5. Risk(plan[i], live[i]) = plan[i].loss /\ plan[i].loss \in Nat
  BY <1>3, <1>4, LifeRisk
<1>6. live'[i] \in Position /\ Life(In(i)', phase'[i], plan'[i], slices'[i], live'[i])
  BY DEF PlanInv, Typed, Lives
<1>7. Risk(plan'[i], live'[i]) \in Nat /\ Risk(plan'[i], live'[i]) <= plan'[i].loss
  BY <1>1, <1>4, <1>5, <1>6, LifeRisk
<1>8. Shares'[i] <= Shares[i]
  BY <1>1, <1>4, <1>5, <1>7 DEF Shares, Share
<1>9. \A j \in Intents : Pends(j)' => Pends(j) /\ plan'[j].loss = plan[j].loss
  BY <1>1 DEF Pends, IsMarket
<1> QED
  BY <1>2, <1>8, <1>9, CapMove

\* A closed position gives its share back.
LEMMA CapPositionCloses ==
  ASSUME PlanInv, PlanInv', WithinCap, NEW i \in Intents, PositionCloses(i)
  PROVE  WithinCap'
<1>1. UNCHANGED <<phase, plan, lock>> /\ live' = [live EXCEPT ![i] = Flat]
  BY DEF PositionCloses
<1>2. Apart(i) /\ live'[i] = Flat
  BY <1>1 DEF Apart, PlanInv, Typed
<1>3. Shares'[i] = 0 /\ Shares[i] \in Nat
  <2>1. Shares[i] \in Nat
    BY <1>2, SharesMove DEF Apart
  <2> QED
    BY <1>2, <2>1 DEF Shares, Share, Risk
<1>4. \A j \in Intents : Pends(j)' => Pends(j) /\ plan'[j].loss = plan[j].loss
  BY <1>1 DEF Pends, IsMarket
<1> QED
  BY <1>2, <1>3, <1>4, CapMove

\* At first nothing is admitted.
LEMMA CapInit == Init => WithinCap
<1> SUFFICES ASSUME Init PROVE WithinCap
  OBVIOUS
<1>1. \A i \in Intents : Shares[i] = 0
  BY DEF Init, Shares, Share
<1>2. Shares \in [Intents -> Int]
  BY <1>1 DEF Shares
<1>3. SumOver(Intents, Shares) = 0 /\ Cap \in Nat
  BY <1>1, <1>2, SumZero, PlannerConstants
<1>4. \A i \in Intents : ~Pends(i)
  BY PlannerConstants DEF Init, Pends
<1> QED
  BY <1>3, <1>4 DEF WithinCap

\* Every step keeps what was admitted inside the cap.
LEMMA CapNext == PlanInv /\ PlanInv' /\ WithinCap /\ [Next]_vars => WithinCap'
<1> SUFFICES ASSUME PlanInv, PlanInv', WithinCap, [Next]_vars PROVE WithinCap'
  OBVIOUS
<1>1. CASE \E b \in Batches : StartBatch(b)
  BY <1>1, CapSame DEF StartBatch
<1>2. CASE \E q \in Quotes, s \in Strata, skips \in BOOLEAN : PlanOne(q, s, skips)
  BY <1>2, CapPlanOne
<1>3. CASE PlanLater
  BY <1>3, CapSame DEF PlanLater
<1>4. ASSUME NEW i \in Intents,
             \/ Preflight(i)
             \/ \E q \in Quotes : PreparePrimary(i, q)
             \/ RebaseFill(i)
             \/ SubmitRemaining(i)
             \/ \E k \in 1..3 : LegFills(i, k)
             \/ PositionCloses(i)
      PROVE  WithinCap'
  BY <1>4, CapPreflight, CapPreparePrimary, CapRebaseFill, CapSubmitRemaining, CapLegFills,
     CapPositionCloses
<1>5. ASSUME NEW i \in Intents, NEW t \in 1..Len(Tiers), NEW q \in Quotes,
             \/ Prepare(i, t, q)
             \/ SubmitRefused(i, t, q)
             \/ ExecuteBatch(i, t, q)
             \/ \E price \in Quotes : SubmitPrimary(i, t, q, price)
      PROVE  WithinCap'
  <2>1. CASE SubmitRefused(i, t, q)
    BY <2>1, CapFails DEF SubmitRefused
  <2> QED
    BY <1>5, <2>1, CapPrepare, CapExecuteBatch, CapSubmitPrimary
<1>6. CASE UNCHANGED vars
  BY <1>6, CapSame DEF vars
<1> QED
  BY <1>1, <1>2, <1>3, <1>4, <1>5, <1>6 DEF Next

\* Resting ladders never risk more than the portfolio cap, however stale the planning
\* pass's reading was and whatever executed or filled since (_assert_open_preflight).
THEOREM CapKept == Spec => []CapHolds
<1>1. PlanInv /\ WithinCap => CapHolds
  <2> SUFFICES ASSUME PlanInv, WithinCap,
                      \A i \in Intents : live[i] # Flat => phase[i] = "executed" /\ ~IsMarket(i)
               PROVE  OpenRisk <= Cap
    BY DEF CapHolds
  <2>1. \A i \in Intents : StopRisk(i) = Shares[i]
    <3> TAKE i \in Intents
    <3>1. StopRisk(i) = Risk(plan[i], live[i])
      BY StopRiskIs
    <3>2. CASE live[i] = Flat
      BY <3>1, <3>2 DEF Shares, Share, Risk
    <3>3. CASE live[i] # Flat
      BY <3>1, <3>3 DEF Shares, Share, IsMarket
    <3> QED
      BY <3>2, <3>3
  <2>2. Shares = [i \in Intents |-> StopRisk(i)]
    BY <2>1 DEF Shares
  <2> QED
    BY <2>2 DEF WithinCap, OpenRisk
<1>2. Spec => []WithinCap
  BY CapInit, CapNext, PlansKept, PTL DEF Spec
<1> QED
  BY <1>1, <1>2, PlansKept, PTL

(***************************************************************************)
(* Evidence.                                                               *)
(***************************************************************************)

\* The first of a set of positions is one of them.
LEMMA LeastMember ==
  ASSUME NEW S \in SUBSET Nat, S # {}
  PROVE  E!Min(S) \in S
<1>1. \E x \in S : \A y \in S : x <= y
  BY LeastNat
<1> QED
  BY <1>1 DEF E!Min

\* What the model proposes quotes the caption or nothing.
EvidenceInv ==
    /\ caption \in Captions
    /\ \A r \in raws : r.excerpt \in 0..Len(caption.clauses)

\* A clause that instructs the action, as _current_post_action_evidence judges it.
Qualifies(c, kind, s) == E!LifecycleSymbolMatches(c, s) /\ E!Instructs(c, kind, s)

\* The scopes that are searched are the clauses of the caption, no matter which
\* of them the model quotes.
LEMMA ScopesAreClauses ==
  ASSUME caption \in Captions, NEW x \in 0..Len(caption.clauses)
  PROVE  LET clauses == caption.clauses
             scopes == E!ActionScopes(clauses, x)
         IN  /\ Len(clauses) \in Nat /\ Len(scopes) \in Nat
             /\ \A n \in 1..Len(scopes) : \E k \in 1..Len(clauses) : scopes[n] = clauses[k]
             /\ \A k \in 1..Len(clauses) : \E n \in 1..Len(scopes) : scopes[n] = clauses[k]
<1> DEFINE clauses == caption.clauses
           S == {clauses[n] : n \in DOMAIN clauses}
           scopes == E!ActionScopes(clauses, x)
<1>1. clauses \in Seq(S)
  BY CaptionConstants DEF E!EvidenceConstants
<1>2. Len(clauses) \in Nat /\ DOMAIN clauses = 1..Len(clauses)
  BY <1>1, LenProperties
<1>3. CASE x = 0
  <2>1. scopes = clauses
    BY <1>3 DEF E!ActionScopes
  <2> QED
    BY <1>2, <2>1
<1>4. CASE x # 0
  <2> DEFINE q == <<clauses[x]>>
  <2>1. x \in 1..Len(clauses) /\ clauses[x] \in S
    BY <1>2, <1>4
  <2>2. q \in Seq(S) /\ Len(q) = 1 /\ q[1] = clauses[x]
    BY <2>1
  <2>3. scopes = q \o clauses
    BY <1>4 DEF E!ActionScopes
  <2> HIDE DEF q, clauses, scopes, S
  <2>4. /\ Len(scopes) = 1 + Len(clauses)
        /\ \A i \in 1..(1 + Len(clauses)) : scopes[i] = IF i <= 1 THEN q[i] ELSE clauses[i - 1]
    <3>1. /\ Len(q \o clauses) = Len(q) + Len(clauses)
          /\ \A i \in 1..(Len(q) + Len(clauses)) :
               (q \o clauses)[i] = IF i <= Len(q) THEN q[i] ELSE clauses[i - Len(q)]
      BY <1>1, <2>2, ConcatProperties
    <3> QED
      BY <2>2, <2>3, <3>1
  <2>5. ASSUME NEW n \in 1..Len(scopes) PROVE \E k \in 1..Len(clauses) : scopes[n] = clauses[k]
    <3>1. CASE n = 1
      BY <1>2, <2>1, <2>2, <2>4, <3>1
    <3>2. CASE n # 1
      <4>1. n - 1 \in 1..Len(clauses) /\ scopes[n] = clauses[n - 1]
        BY <1>2, <2>4, <3>2
      <4> QED
        BY <4>1
    <3> QED
      BY <3>1, <3>2
  <2>6. ASSUME NEW k \in 1..Len(clauses) PROVE \E n \in 1..Len(scopes) : scopes[n] = clauses[k]
    <3>1. k + 1 \in 1..Len(scopes) /\ scopes[k + 1] = clauses[k]
      BY <1>2, <2>4
    <3> QED
      BY <3>1
  <2> QED
    BY <1>2, <2>4, <2>5, <2>6 DEF clauses, scopes
<1> QED
  BY <1>3, <1>4

\* Evidence of a CLOSE or REDUCE is a clause that qualifies, and there is some
\* when any clause of the caption does.
LEMMA EvidenceIsClause ==
  ASSUME EvidenceInv, NEW kind \in {"CLOSE", "REDUCE"}, NEW s,
         ~(kind = "REDUCE" /\ caption.holds), NEW x \in 0..Len(caption.clauses)
  PROVE  (E!CurrentPostActionEvidence(caption, kind, s, x) # None)
           <=> \E k \in 1..Len(caption.clauses) : Qualifies(caption.clauses[k], kind, s)
<1> DEFINE clauses == caption.clauses
           scopes == E!ActionScopes(clauses, x)
           ok == {n \in 1..Len(scopes) : Qualifies(scopes[n], kind, s)}
<1>1. E!CurrentPostActionEvidence(caption, kind, s, x)
        = IF ok = {} THEN None ELSE <<scopes[E!Min(ok)]>>
  BY DEF E!CurrentPostActionEvidence, Qualifies
<1>2. /\ Len(clauses) \in Nat /\ Len(scopes) \in Nat
      /\ \A n \in 1..Len(scopes) : \E k \in 1..Len(clauses) : scopes[n] = clauses[k]
      /\ \A k \in 1..Len(clauses) : \E n \in 1..Len(scopes) : scopes[n] = clauses[k]
  BY ScopesAreClauses DEF EvidenceInv
<1>3. \A k \in 1..Len(clauses) : <<clauses[k]>> # None
  BY CaptionConstants DEF EvidenceInv, E!EvidenceConstants
<1> HIDE DEF clauses, scopes
<1>4. ok # {} <=> \E k \in 1..Len(clauses) : Qualifies(clauses[k], kind, s)
  BY <1>2
<1>5. ok \in SUBSET Nat
  BY <1>2
<1>6. ok # {} => E!Min(ok) \in 1..Len(scopes)
  <2>1. ok # {} => E!Min(ok) \in ok
    BY <1>5, LeastMember
  <2> QED
    BY <2>1
<1>7. ok # {} => <<scopes[E!Min(ok)]>> # None
  BY <1>2, <1>3, <1>6
<1> QED
  BY <1>1, <1>4, <1>7 DEF clauses

\* A withdrawal stands in the caption.
LEMMA CancelIsWritten ==
  ASSUME EvidenceInv, NEW s, NEW x,
         E!CurrentPostActionEvidence(caption, "CANCEL_ENTRIES", s, x) # None
  PROVE  E!ReadsAs("CANCEL_ENTRIES", s)
<1> DEFINE clauses == caption.clauses
           ok == {n \in 1..Len(clauses) :
                    /\ clauses[n].cancel /\ ~clauses[n].uncancel
                    /\ \A m \in 1..Len(E!CancelScope(clauses, n)) : ~E!CancelScope(clauses, n)[m].timed
                    /\ E!CancelScope(clauses, n)[1].names # {}
                    /\ E!CancelScope(clauses, n)[1].names \subseteq E!Variants(s)}
<1>1. E!CurrentPostActionEvidence(caption, "CANCEL_ENTRIES", s, x)
        = IF ok = {} THEN None ELSE E!CancelScope(clauses, E!Min(ok))
  BY DEF E!CurrentPostActionEvidence, E!CancelEntriesEvidence
<1>2. PICK n \in 1..Len(clauses) :
         /\ clauses[n].cancel /\ ~clauses[n].uncancel
         /\ \A m \in 1..Len(E!CancelScope(clauses, n)) : ~E!CancelScope(clauses, n)[m].timed
         /\ E!CancelScope(clauses, n)[1].names # {}
         /\ E!CancelScope(clauses, n)[1].names \subseteq E!Variants(s)
  BY <1>1
<1> HIDE DEF clauses
<1>3. CASE clauses[n].names = {} /\ n > 1
  <2>1. E!CancelScope(clauses, n) = <<clauses[n - 1], clauses[n]>>
    BY <1>3 DEF E!CancelScope
  <2>2. ~clauses[n - 1].timed /\ ~clauses[n].timed
        /\ clauses[n - 1].names # {} /\ clauses[n - 1].names \subseteq E!Variants(s)
    BY <1>2, <2>1
  <2> QED
    BY <1>2, <1>3, <2>2 DEF E!ReadsAs, clauses
<1>4. CASE ~(clauses[n].names = {} /\ n > 1)
  <2>1. E!CancelScope(clauses, n) = <<clauses[n]>>
    BY <1>4 DEF E!CancelScope
  <2>2. ~clauses[n].timed /\ clauses[n].names # {} /\ clauses[n].names \subseteq E!Variants(s)
    BY <1>2, <2>1
  <2> QED
    BY <1>2, <2>2 DEF E!ReadsAs, clauses
<1> QED
  BY <1>3, <1>4

LEMMA Written == EvidenceInv => E!ActionsAreWritten
<1> SUFFICES ASSUME EvidenceInv, NEW a \in E!Normalized.actions PROVE E!ReadsAs(a.kind, a.symbol)
  BY DEF E!ActionsAreWritten
<1>1. PICK r \in raws : r.kind \in E!Executable /\ a = E!ActionOf(caption, r) /\ ~E!Dropped(a)
  BY DEF E!Normalized, E!PositionActions, E!UnambiguousPositionActions
<1> DEFINE scope == E!CurrentPostActionEvidence(caption, r.kind, r.symbol, r.excerpt)
<1>2. a.kind = r.kind /\ a.symbol = r.symbol /\ a.scope = scope /\ scope # None
  BY <1>1 DEF E!ActionOf, E!Dropped
<1>3. r.excerpt \in 0..Len(caption.clauses)
  BY DEF EvidenceInv
<1>4. CASE r.kind = "CANCEL_ENTRIES"
  BY <1>2, <1>4, CancelIsWritten
<1>5. CASE r.kind \in {"CLOSE", "REDUCE"}
  <2>1. ~(r.kind = "REDUCE" /\ caption.holds)
    BY <1>2, <1>5 DEF E!CurrentPostActionEvidence
  <2>2. PICK k \in 1..Len(caption.clauses) : Qualifies(caption.clauses[k], r.kind, r.symbol)
    BY <1>2, <1>3, <1>5, <2>1, EvidenceIsClause
  <2> DEFINE c == caption.clauses[k]
  <2>3. /\ ~c.timed /\ ~c.negated /\ c.names \subseteq E!Variants(r.symbol)
        /\ r.kind = "REDUCE" => c.reduce
        /\ r.kind = "CLOSE" => c.close \ c.inside # {}
    BY <1>5, <2>2 DEF Qualifies, E!Instructs, E!LifecycleSymbolMatches, E!Timely, E!Reduces, E!Closes
  <2> QED
    BY <1>2, <1>5, <2>3 DEF E!ReadsAs
<1> QED
  BY <1>1, <1>4, <1>5 DEF E!Executable

LEMMA Unmoved == EvidenceInv => E!ExcerptGivesNoAuthority
<1> SUFFICES ASSUME EvidenceInv, NEW r \in raws, r.kind \in E!Executable,
                    NEW n \in 0..Len(caption.clauses)
             PROVE  (E!CurrentPostActionEvidence(caption, r.kind, r.symbol, n) = None)
                      = (E!CurrentPostActionEvidence(caption, r.kind, r.symbol, r.excerpt) = None)
  BY DEF E!ExcerptGivesNoAuthority
<1>1. r.excerpt \in 0..Len(caption.clauses)
  BY DEF EvidenceInv
<1>2. CASE r.kind = "CANCEL_ENTRIES" \/ (r.kind = "REDUCE" /\ caption.holds)
  BY <1>2 DEF E!CurrentPostActionEvidence
<1>3. CASE r.kind \in {"CLOSE", "REDUCE"} /\ ~(r.kind = "REDUCE" /\ caption.holds)
  BY <1>1, <1>3, EvidenceIsClause
<1> QED
  BY <1>2, <1>3 DEF E!Executable

\* ModelGivesNoAuthority: for every caption and everything the model may propose
\* and quote, what the service acts on stands in the caption, in a clause that
\* moves one position, and a fill the post trades is not reviewed
\* (_signals_from_extraction).
THEOREM NoAuthority == E!Spec => []ModelGivesNoAuthority
<1>1. E!Init => EvidenceInv
  BY DEF E!Init, EvidenceInv
<1>2. EvidenceInv /\ [E!Next]_(E!evars) => EvidenceInv'
  BY DEF EvidenceInv, E!Next, E!Answer, E!AnswerEntry, E!evars
<1>3. EvidenceInv => ModelGivesNoAuthority
  <2> SUFFICES ASSUME EvidenceInv PROVE ModelGivesNoAuthority
    OBVIOUS
  <2>1. E!ClauseMovesOnePosition
    BY DEF E!ClauseMovesOnePosition, E!Normalized, E!PositionActions, E!UnambiguousPositionActions
  <2>2. E!ReviewNeverTraded
    BY DEF E!ReviewNeverTraded, E!Normalized, E!EntryReviewed
  <2> QED
    BY <2>1, <2>2, Written, Unmoved DEF ModelGivesNoAuthority, E!ModelGivesNoAuthority
<1> QED
  BY <1>1, <1>2, <1>3, PTL DEF E!Spec

-----------------------------------------------------------------------------
(***************************************************************************)
(* Routing.  That twins are not AUTO is not inductive: a retry sees one    *)
(* OPEN only, and would count once.  What saves it is the mode stored with *)
(* the candidate, which the post's own planning never sets to AUTO for a   *)
(* twin.                                                                   *)
(***************************************************************************)

\* Two OPENs of one post that would trade one contract on one side, and are not
\* reported under one and the same alias.
Twins(i, j) ==
    /\ i # j /\ PostOf[i] = PostOf[j] /\ SideOf[i] = SideOf[j]
    /\ R!Canonical(i) = R!Canonical(j)
    /\ ~(Reported[i] = Reported[j] /\ Reported[i] \in DOMAIN Alias)

\* The inductive invariant: neither the row nor the candidate of a twin is AUTO.
TwinInv ==
    \A i, j \in Opens : Twins(i, j) => mode[i] # "AUTO" /\ orig[i] = "MANUAL"

\* The greater of two counts.
LEMMA MaxOfTwo ==
  ASSUME NEW a \in Int, NEW b \in Int
  PROVE  R!Max({a, b}) \in Int /\ R!Max({a, b}) >= a /\ R!Max({a, b}) >= b
<1> DEFINE m == IF a >= b THEN a ELSE b
<1>1. m \in {a, b} /\ \A y \in {a, b} : m >= y
  OBVIOUS
<1>2. \E x \in {a, b} : \A y \in {a, b} : x >= y
  BY <1>1
<1> QED
  BY <1>2 DEF R!Max

\* A set with two members counts at least two.
LEMMA TwoCount ==
  ASSUME NEW S, IsFiniteSet(S), NEW i \in S, NEW j \in S, i # j
  PROVE  Cardinality(S) \in Nat /\ Cardinality(S) >= 2
<1>1. IsFiniteSet({i}) /\ Cardinality({i}) = 1
  BY FS_Singleton
<1>2. IsFiniteSet({i} \cup {j}) /\ Cardinality({i} \cup {j}) = Cardinality({i}) + 1
  BY <1>1, FS_AddElement
<1>3. {i} \cup {j} \subseteq S
  OBVIOUS
<1>4. Cardinality({i} \cup {j}) <= Cardinality(S)
  BY <1>3, FS_Subset
<1>5. Cardinality(S) \in Nat
  BY FS_CardinalityType
<1> QED
  BY <1>1, <1>2, <1>4, <1>5

\* A twin counts at least twice when its post is planned, whichever of the two
\* could be resolved (_resolve_open_contracts, _candidate_counts).
LEMMA TwinsCountTwice ==
  ASSUME R!RoutingConstants, NEW i \in Opens, NEW j \in Opens, Twins(i, j),
         NEW done \in SUBSET R!Of(PostOf[i])
  PROVE  R!CandidateCount(PostOf[i], done, i) # 1
<1> DEFINE p == PostOf[i]
           side == SideOf[i]
           same == {k \in R!Of(p) : R!Canonical(k) = R!Canonical(i) /\ SideOf[k] = side}
<1>0. IsFiniteSet(Opens)
  BY DEF R!RoutingConstants, R!IsFiniteSet, IsFiniteSet
<1>1. p \in Posts /\ R!Of(p) = {k \in Opens : PostOf[k] = p}
  BY DEF R!RoutingConstants, R!Of
<1>2. i \in same /\ j \in same /\ i # j /\ same \subseteq Opens
  BY <1>1 DEF Twins
<1>3. IsFiniteSet(same) /\ Cardinality(same) \in Nat /\ Cardinality(same) >= 2
  BY <1>0, <1>2, FS_Subset, TwoCount
\* Somebody reports the contract under the ticker i is resolved to.
<1>4. \E k \in {i, j} : Reported[k] = R!Resolved(i)
  <2>1. CASE Reported[i] \in Listed \/ Reported[i] \notin DOMAIN Alias
    BY <2>1 DEF R!Resolved, R!Canonical, R!Contract
  <2>2. CASE Reported[i] \notin Listed /\ Reported[i] \in DOMAIN Alias
    <3>1. R!Resolved(i) = R!Canonical(j) /\ R!Canonical(i) = Alias[Reported[i]]
      BY <2>2 DEF R!Resolved, R!Canonical, R!Contract, Twins
    <3>2. Reported[j] \notin DOMAIN Alias
      BY <2>2, <3>1 DEF Twins, R!Canonical, R!Contract, R!RoutingConstants
    <3> QED
      BY <3>1, <3>2 DEF R!Canonical, R!Contract
  <2> QED
    BY <2>1, <2>2
<1>5. PICK k \in {i, j} : Reported[k] = R!Resolved(i)
  BY <1>4
<1>6. k \in R!Of(p) /\ SideOf[k] = side /\ R!Contract(R!Resolved(i)) = R!Canonical(i)
  BY <1>1, <1>5 DEF Twins, R!Canonical
<1>7. R!Prospective(p, R!Contract(R!Resolved(i)), side) = Cardinality(same)
  BY <1>6 DEF R!Prospective, R!Cardinality, Cardinality
<1>8. R!ResolutionCount(p, R!Resolved(i), side)
        = R!Max({Cardinality(same), IF p \in twin THEN 2 ELSE 1})
  BY <1>5, <1>6, <1>7 DEF R!ResolutionCount
<1> DEFINE n == IF p \in twin THEN 2 ELSE 1
<1>9. n \in Int /\ Cardinality(same) \in Int
  BY <1>3
<1> HIDE DEF n, same
<1>10. /\ R!ResolutionCount(p, R!Resolved(i), side) \in Int
       /\ R!ResolutionCount(p, R!Resolved(i), side) >= 2
  <2>1. R!ResolutionCount(p, R!Resolved(i), side) = R!Max({Cardinality(same), n})
    BY <1>8 DEF n
  <2>2. /\ R!Max({Cardinality(same), n}) \in Int
        /\ R!Max({Cardinality(same), n}) >= Cardinality(same)
    BY <1>9, MaxOfTwo
  <2> QED
    BY <1>3, <2>1, <2>2
<1> DEFINE counted == {k2 \in done : R!Resolved(k2) = R!Resolved(i) /\ SideOf[k2] = SideOf[i]}
           c == Cardinality(counted) + (IF p \in twin THEN 1 ELSE 0)
<1>11. c \in Int
  <2>1. IsFiniteSet(counted)
    BY <1>0, <1>1, FS_Subset
  <2>2. Cardinality(counted) \in Nat
    BY <2>1, FS_CardinalityType
  <2> HIDE DEF counted
  <2> QED
    BY <2>2
<1>12. R!CandidateCount(p, done, i) = R!Max({c, R!ResolutionCount(p, R!Resolved(i), side)})
  BY DEF R!CandidateCount, R!Cardinality, Cardinality
<1> HIDE DEF c, p, side
<1>13. R!CandidateCount(p, done, i) \in Int /\ R!CandidateCount(p, done, i) >= 2
  BY <1>10, <1>11, <1>12, MaxOfTwo
<1> QED
  BY <1>13 DEF p

LEMMA TwinRouted ==
  ASSUME R!RoutingConstants, NEW i \in Opens, NEW j \in Opens, Twins(i, j),
         NEW done \in SUBSET R!Of(PostOf[i])
  PROVE  R!RoutedIntent(PostOf[i], done, i) = "MANUAL"
  BY TwinsCountTwice DEF R!RoutedIntent, R!Routed

LEMMA TwinNext == R!RoutingConstants /\ TwinInv /\ [R!Next]_(R!rvars) => TwinInv'
<1> SUFFICES ASSUME R!RoutingConstants, TwinInv, [R!Next]_(R!rvars),
                    NEW i \in Opens, NEW j \in Opens, Twins(i, j)
             PROVE  mode'[i] # "AUTO" /\ orig'[i] = "MANUAL"
  BY DEF TwinInv, Twins, R!Canonical, R!Contract
<1>0. mode[i] # "AUTO" /\ orig[i] = "MANUAL"
  BY DEF TwinInv
<1>1. ASSUME NEW p \in Posts, NEW done \in SUBSET R!Of(p), NEW sized \in SUBSET done,
             NEW refused \in SUBSET (R!Of(p) \ sized), NEW routed \in BOOLEAN,
             R!CommitPost(p, done, sized, refused, routed)
      PROVE  mode'[i] # "AUTO" /\ orig'[i] = "MANUAL"
  <2>1. mode'[i] = IF i \in sized THEN R!RoutedIntent(p, done, i) ELSE mode[i]
    BY <1>1 DEF R!CommitPost, R!Commit
  <2>2. orig'[i] = IF i \in (R!Of(p) \ (sized \cup refused)) \cap done /\ routed
                   THEN R!RoutedIntent(p, done, i) ELSE orig[i]
    BY <1>1 DEF R!CommitPost
  <2>3. CASE i \in done
    <3>1. p = PostOf[i]
      BY <2>3 DEF R!Of
    <3>2. R!RoutedIntent(p, done, i) = "MANUAL"
      BY <3>1, TwinRouted
    <3> QED
      BY <1>0, <2>1, <2>2, <3>2
  <2>4. CASE i \notin done
    BY <1>0, <2>1, <2>2, <2>4
  <2> QED
    BY <2>3, <2>4
<1>2. ASSUME NEW k \in Opens, NEW done \in SUBSET {k}, NEW sized \in SUBSET done,
             NEW refused \in SUBSET ({k} \ sized), R!CommitRetry(k, done, sized, refused)
      PROVE  mode'[i] # "AUTO" /\ orig'[i] = "MANUAL"
  <2>1. /\ mode'[i] = IF i \in sized THEN R!RoutedIntent(k, done, i) ELSE mode[i]
        /\ orig' = orig
    BY <1>2 DEF R!CommitRetry, R!Commit
  <2>2. i \in sized => R!RoutedIntent(k, done, i) = "MANUAL"
    BY <1>0 DEF R!RoutedIntent
  <2> QED
    BY <1>0, <2>1, <2>2
<1>3. ASSUME UNCHANGED <<mode, orig>> PROVE mode'[i] # "AUTO" /\ orig'[i] = "MANUAL"
  BY <1>0, <1>3
<1> QED
  BY <1>1, <1>2, <1>3
  DEF R!Next, R!ReadStore, R!ReadAccount, R!Extract, R!Execute, R!EntryFills, R!PositionEnds, R!OpensByHand,
      R!CloseCreated, R!CloseExecuted, R!rows, R!rvars

\* TwinsWaitForPerson: two OPENs of one post for one contract and side are never
\* AUTO, however often and in whatever order they are resolved, planned and
\* retried (_open_approval_mode, original_manual).
THEOREM TwinsWait == R!Spec => []TwinsWaitForPerson
<1>1. R!Init => TwinInv
  BY DEF R!Init, TwinInv
<1>2. TwinInv => TwinsWaitForPerson
  BY DEF TwinInv, Twins, TwinsWaitForPerson, R!TwinsWaitForPerson
<1>3. TwinInv /\ [R!Next]_(R!rvars) => TwinInv'
  BY TwinNext, RouteConstants
<1> QED
  BY <1>1, <1>2, <1>3, PTL DEF R!Spec

OwnerType == owner \in [Symbols -> SUBSET Opens]

LEMMA OwnerNext == OwnerType /\ [R!Next]_(R!rvars) => OwnerType' /\ [R!StepEntersUntouched]_(R!rvars)
<1> SUFFICES ASSUME OwnerType, [R!Next]_(R!rvars) PROVE OwnerType' /\ [R!StepEntersUntouched]_(R!rvars)
  OBVIOUS
<1>1. ASSUME NEW i \in Opens, R!Execute(i) PROVE OwnerType' /\ R!StepEntersUntouched
  <2>1. CASE R!PreflightPasses(i)
    <3>1. owner' = [owner EXCEPT ![contract[i]] = @ \cup {i}]
      BY <1>1, <2>1 DEF R!Execute
    <3>2. OwnerType'
      BY <3>1 DEF OwnerType
    <3>3. \A s \in Symbols : owner[s] # owner'[s] => s = contract[i]
      BY <3>1 DEF OwnerType
    <3> QED
      BY <2>1, <3>2, <3>3 DEF R!StepEntersUntouched, R!PreflightPasses, R!SafeOpen, R!Now
  <2>2. CASE ~R!PreflightPasses(i)
    BY <1>1, <2>2 DEF R!Execute, OwnerType, R!StepEntersUntouched
  <2> QED
    BY <2>1, <2>2
<1>2. ASSUME NEW x \in Symbols, R!PositionEnds(x) \/ R!CloseExecuted(x)
      PROVE  OwnerType' /\ R!StepEntersUntouched
  <2>1. owner' = [owner EXCEPT ![x] = {}]
    BY <1>2 DEF R!PositionEnds, R!CloseExecuted
  <2>2. OwnerType'
    BY <2>1 DEF OwnerType
  <2>3. \A s \in Symbols : owner'[s] = owner[s] \/ owner'[s] = {}
    BY <2>1 DEF OwnerType
  <2> QED
    BY <2>2, <2>3 DEF R!StepEntersUntouched
<1>3. ASSUME UNCHANGED owner PROVE OwnerType' /\ R!StepEntersUntouched
  BY <1>3 DEF OwnerType, R!StepEntersUntouched
<1> QED
  BY <1>1, <1>2, <1>3
  DEF R!Next, R!ReadStore, R!ReadAccount, R!Extract, R!CommitPost, R!CommitRetry, R!Commit, R!EntryFills,
      R!OpensByHand, R!CloseCreated, R!exchange, R!rvars

\* EntersUntouched: whatever an evaluation was routed on, an entry is placed only
\* where nobody trades (_assert_open_preflight under the account lock).
THEOREM UntouchedEntry == R!Spec => EntersUntouched
<1>1. R!Init => OwnerType
  BY DEF R!Init, OwnerType, R!Nobody
<1> QED
  BY <1>1, OwnerNext, PTL DEF R!Spec, EntersUntouched, routeVars, R!rvars
=============================================================================
