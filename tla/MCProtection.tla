---------------------------- MODULE MCProtection ----------------------------
EXTENDS Protection

\* percentages of 100; the third exit is too small for a lot and stays in the
\* runner.  The risk shares, the depths and the leverage filter are not used.
MCPolicy == [risk |-> <<60, 25, 15>>, depth |-> <<33, 66>>, r |-> <<50, 100, 200>>,
             exits |-> <<34, 33, 8>>, runner |-> 25, fallback |-> 20]
MCLevFilter == [min |-> 1, max |-> 12, step |-> 2]
MCLock == <<1, 20>>
MCTrailR == <<3, 10>>
MCActivateR == <<1, 2>>
MCRs == <<<<1, 2>>, <<1, 1>>, <<2, 1>>>>

\* two legs of three lots, eight ticks and four ticks above the stop
MCPlan == [side |-> "LONG", stop |-> 24, rs |-> MCRs, cap |-> None,
           legs |-> <<[qty |-> 3, ref |-> 40], [qty |-> 3, ref |-> 32]>>]

\* What goes wrong in one behaviour: two failures, or one and an action.
Budgets == acts = 0 \/ fails <= 1

(***************************************************************************)
(* The exit arithmetic alone, over a box of positions: c is one of them,   *)
(* or None in the behaviours of the supervisor.                            *)
(***************************************************************************)
VARIABLE c
Averages == {<<40, 1>>, <<83, 2>>, <<121, 3>>}
PlanOf(side, dist, cap) ==
    [side |-> side, rs |-> MCRs,
     stop |-> IF side = "LONG" THEN 40 - dist ELSE 40 + dist,
     cap |-> IF cap = None THEN None ELSE IF side = "LONG" THEN 40 + cap ELSE 40 - cap]
Plans == {PlanOf(p[1], p[2], p[3]) :
             p \in {"LONG", "SHORT"} \X {6, 10, 16} \X {None, 1, 5, 8, 13, 21}}
Cases == [plan : Plans, size : {1, 3, 13, 25}, avg : Averages, done : SUBSET (1..3),
          prev : {None, 38, 44}, mark : {37, 43, 48}]

MCInit == Init /\ c \in Cases \cup {None}
MCNext == c = None /\ Next /\ Budgets' /\ UNCHANGED c
MCSpec == MCInit /\ [][MCNext]_<<vars, c>>
Restored == c = None /\ Init /\ [][Next /\ UNCHANGED c]_<<vars, c>> /\ WF_vars(Supervise)

\* The exits and the protected stop of every case meet their definitions: prices
\* in order and within the cap, shares of what is left, profit locked
\* (_planned_exits, _planned_exit, protected_stop).
ExitArithmetic ==
    c # None => PricesInOrder(c) /\ SharesOfTheRest(c) /\ StopLocksProfit(c)
=============================================================================
