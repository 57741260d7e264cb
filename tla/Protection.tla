----------------------------- MODULE Protection -----------------------------
(***************************************************************************)
(* One strategy's protection: the supervisor's pass over a live position,  *)
(* with the exit installer, the fill detector and the hand-over of the     *)
(* attached stops, one exchange request per step, against an exchange that *)
(* fills, fires and forgets between any two of them, and a process that    *)
(* may fail at any of them and start again from the durable row.           *)
(*                                                                         *)
(* Supervisor and Coordinator (module System) model who owns the entries;  *)
(* here cancelling them is one step and the entry TTL is 0, off.  The      *)
(* history look-ups of one drift check or fill detection are one step: an  *)
(* order only moves from open to filled or cancelled.                      *)
(***************************************************************************)
EXTENDS Exits, FiniteSets, Functions

CONSTANTS
    Plan,     \* [side, stop, rs, cap, legs], legs a sequence of [qty, ref]
    Marks,    \* mark prices
    MaxFails, \* passes that end in an exception or a restart, lost requests
    MaxUser,  \* changes made by hand on the exchange
    UserStops, \* position stops somebody may set by hand
    MaxActs,  \* REDUCE and CANCEL_ENTRIES actions
    Torn      \* an exit may fill between the two reads of one snapshot

ASSUME ProtectionConstants ==
    /\ None \notin Int \cup (Int \X Nat) /\ Marks \subseteq Int /\ UserStops \subseteq Int
    /\ Plan.side \in {"LONG", "SHORT"} /\ Plan.stop \in Int
    /\ Plan.legs \in Seq([qty : Nat \ {0}, ref : Int]) /\ Plan.legs # <<>>

VARIABLES
    row,     \* the position_strategies row
    pos,     \* the exchange's position; size 0 is none
    entry,   \* its entry orders, by leg
    partial, \* the stops attached to filled entries, by leg
    exit,    \* its fixed exits ever placed, by <<number, revision>>
    st,      \* the pass's working copy of the row
    loaded,  \* the row as the pass read it
    pc, then, \* where the pass is; where it goes after an account read
    snap,    \* the account as last read: positions first, then orders
    acct,    \* the snapshot the installation started from
    goal,    \* what the installation, or the hand-over, is working towards
    k,       \* repeated reads
    fails, user, acts,
    fired    \* an attached stop has fired, or an entry has filled after its position was gone

pass == <<st, loaded, pc, then, snap, acct, goal, k>>
exchange == <<pos, entry, partial, exit>>
counts == <<fails, user, acts, fired>>
vars == <<row, exchange, pass, counts>>

Legs == 1..Len(Plan.legs)
Flat == [size |-> 0, avg |-> None, stop |-> None, trail |-> None]
Active == {"ENTERING", "OPEN_RISK", "PROFIT_PROTECTED"}

Filled(l) ==
    LET q == Plan.legs[l].qty p == Plan.legs[l].ref
    IN  IF pos.size = 0 THEN [Flat EXCEPT !.size = q, !.avg = <<p, 1>>]
        ELSE [pos EXCEPT !.size = @ + q,
                         !.avg = <<@[1] * pos.size + q * p * @[2], @[2] * (pos.size + q)>>]

Init ==
    /\ row = [status |-> "ENTERING", frozen |-> FALSE, rebalance |-> FALSE,
              installing |-> FALSE, rev |-> 0, done |-> {}, prot |-> None, trail |-> FALSE,
              dist |-> None, qty |-> None, avg |-> None, exits |-> None]
    /\ pos = [Flat EXCEPT !.size = Plan.legs[1].qty, !.avg = <<Plan.legs[1].ref, 1>>]
    /\ entry = [l \in Legs |-> IF l = 1 THEN "filled" ELSE "new"]
    /\ partial = [l \in Legs |-> IF l = 1 THEN "live" ELSE "none"]
    /\ exit = <<>>
    /\ st = None /\ loaded = None /\ pc = "idle" /\ then = None /\ snap = None
    /\ acct = None /\ goal = None /\ k = 0
    /\ fails = 0 /\ user = 0 /\ acts = 0 /\ fired = FALSE

(***************************************************************************)
(* Steps of a pass.                                                        *)
(***************************************************************************)
At(l) == pc = l
Goto(l) == pc' = l /\ UNCHANGED <<then, snap>>
Read(l) == pc' = "positions" /\ then' = l /\ UNCHANGED snap
Release ==
    /\ st' = None /\ loaded' = None /\ pc' = "idle" /\ then' = None
    /\ snap' = None /\ acct' = None /\ goal' = None /\ k' = 0
Save(r) == row' = r /\ Release /\ UNCHANGED <<exchange, counts>>
\* nothing left to do, or an exception: the pass ends, the row stays
EndPass == Release /\ UNCHANGED <<row, exchange, counts>>
Override(r) == Save([r EXCEPT !.status = "MANUAL_OVERRIDE"])

\* a crash, a restart, or an error reply to the request the step would make
PassFails ==
    /\ pc # "idle" /\ fails < MaxFails
    /\ fails' = fails + 1
    /\ Release
    /\ UNCHANGED <<row, exchange, user, acts, fired>>

Open(x) == {e \in DOMAIN x : x[e].status = "New"}

ReadPositions ==
    /\ At("positions")
    /\ \E mark \in Marks : snap' = [pos |-> pos, mark |-> mark]
    /\ pc' = "orders"
    /\ UNCHANGED <<row, exchange, st, loaded, then, acct, goal, k, counts>>
ReadOrders ==
    /\ At("orders")
    /\ snap' = [pos |-> snap.pos, mark |-> snap.mark,
                entries |-> {l \in Legs : entry[l] = "new"},
                partials |-> {l \in Legs : partial[l] = "live"},
                exits |-> [e \in Open(exit) |-> exit[e].exec]]
    /\ pc' = then /\ then' = None
    /\ UNCHANGED <<row, exchange, st, loaded, acct, goal, k, counts>>

StartPass ==
    /\ At("idle") /\ row.status \in Active
    /\ st' = row /\ loaded' = row
    /\ Read("decide")
    /\ UNCHANGED <<row, exchange, acct, goal, k, counts>>

Gone == snap.pos.size = 0
Links == {<<i, st.rev>> : i \in DOMAIN st.exits}

(***************************************************************************)
(* Exchange requests.  A request can be acknowledged and have no effect.   *)
(***************************************************************************)
SetProtection(stop, dist) ==
    \/ /\ pos' = [pos EXCEPT !.stop = stop, !.trail = IF dist = None THEN @ ELSE dist]
       /\ UNCHANGED <<entry, partial, exit, counts>>
    \/ /\ fails < MaxFails /\ fails' = fails + 1
       /\ UNCHANGED <<exchange, user, acts, fired>>
CancelEntries ==
    /\ entry' = [l \in Legs |-> IF entry[l] = "new" THEN "gone" ELSE entry[l]]
    /\ UNCHANGED <<pos, partial, exit>>

(***************************************************************************)
(* Drift and fills.                                                        *)
(***************************************************************************)
\* an open exit the row does not expect; older revisions are expected to be
\* there until an installation has cancelled them
UnexpectedExit ==
    \E e \in DOMAIN snap.exits :
        e \notin Links /\ ~(st.installing /\ e[2] < st.rev)
LostExit(i) ==
    LET e == <<i, st.rev>>
    IN  e \notin DOMAIN snap.exits
        /\ IF e \in DOMAIN exit THEN exit[e].status = "Cancelled" ELSE ~st.installing
Drifted ==
    /\ st.rev > 0 /\ (st.rebalance => st.installing)
    /\ \/ st.exits = None
       \/ UnexpectedExit
       \/ \E i \in DOMAIN st.exits \ st.done : LostExit(i)

Executed(i) ==
    LET e == <<i, st.rev>>
    IN  IF e \in DOMAIN snap.exits THEN snap.exits[e]
        ELSE IF e \in DOMAIN exit THEN exit[e].exec ELSE 0
Complete(i) ==
    LET e == <<i, st.rev>>
    IN  e \notin DOMAIN snap.exits /\ e \in DOMAIN exit /\ exit[e].status = "Filled"
\* the exits found filled, and whether any has filled at all
Done == IF st.rev = 0 THEN st.done
        ELSE st.done \cup {i \in 1..3 : Executed(i) > 0 /\ Complete(i)}
AnyFill == st.rev > 0 /\ (st.done # {} \/ \E i \in 1..3 : Executed(i) > 0)

ForeignTrail == ~st.trail /\ snap.pos.trail # None
\* Mutant: only growth pauses.
PauseOnGrowth ==
    /\ st.frozen /\ ~st.rebalance /\ st.qty # None
    /\ snap.pos.size > st.qty \/ snap.pos.avg # st.avg
PauseReason ==
    \/ /\ st.frozen /\ ~st.rebalance /\ st.qty # None
       /\ snap.pos.size > st.qty \/ snap.pos.avg # st.avg
    \/ /\ st.prot # None /\ snap.pos.stop # st.prot
       /\ ~(snap.pos.stop = None /\ snap.partials # {})
    \/ st.trail /\ (st.dist = None \/ snap.pos.trail # st.dist)

(***************************************************************************)
(* No position.                                                            *)
(***************************************************************************)
PositionMissing ==
    /\ At("decide") /\ Gone
    /\ IF st.qty = None THEN EndPass
       ELSE /\ CancelEntries /\ Read("flat")
            /\ UNCHANGED <<row, st, loaded, acct, goal, k, counts>>
CloseIfFlat ==
    /\ At("flat")
    /\ IF Gone /\ snap.entries = {} THEN Save([st EXCEPT !.status = "CLOSED"]) ELSE EndPass

(***************************************************************************)
(* Installing protection and exits.  The snapshot that sizes them is saved *)
(* before the first request; a pass that finds it saved resumes it.        *)
(***************************************************************************)
\* Mutant: the stop goes where the row says.
StopAsSaved(a, b) == a
Further(a, b) == IF b = None \/ Below(Plan.side, b, a) THEN a ELSE b

BeginInstall(s, from, trail, qty, avg) ==
    LET fresh == IF trail THEN TrailingDistance(Plan, avg) ELSE None
        dist == IF s.trail /\ s.dist # None THEN s.dist ELSE fresh
        planned == IF trail THEN ProtectedStop(Plan, avg, s.prot, snap.mark)
                   ELSE [stop |-> IF s.prot # None THEN s.prot ELSE Plan.stop]
        legs == IF s.installing /\ s.exits # None THEN [exits |-> s.exits]
                ELSE PlannedExits(Plan, qty, avg, s.done)
    IN  IF Refused(planned) \/ (trail /\ fresh <= 0) \/ Refused(legs) THEN EndPass
        ELSE LET stop == Further(planned.stop, snap.pos.stop)
                 exits == legs.exits IN
             /\ st' = [s EXCEPT !.exits = exits]
             /\ row' = [s EXCEPT !.exits = exits, !.installing = TRUE, !.prot = stop,
                                 !.trail = trail \/ s.trail, !.dist = dist,
                                 !.qty = qty, !.avg = avg]
             /\ goal' = [from |-> from, stop |-> stop, dist |-> dist, trail |-> trail,
                         qty |-> qty, avg |-> avg, cancelled |-> {}, placed |-> {}, ids |-> {},
                         first |-> TRUE]
             /\ acct' = snap /\ k' = 0 /\ Goto("protect")
             /\ UNCHANGED <<loaded, exchange, counts>>

ApplyProtection ==
    /\ At("protect")
    /\ \/ /\ acct.pos.stop = goal.stop /\ acct.pos.trail = goal.dist
          /\ UNCHANGED <<exchange, counts>>
       \/ /\ acct.pos.stop # goal.stop \/ acct.pos.trail # goal.dist
          /\ pos.size > 0 /\ SetProtection(goal.stop, goal.dist)
    /\ Goto("stale")
    /\ UNCHANGED <<row, st, loaded, acct, goal, k>>
ProtectionRefused ==
    /\ At("protect") /\ pos.size = 0
    /\ acct.pos.stop # goal.stop \/ acct.pos.trail # goal.dist
    /\ EndPass

\* the exits of other revisions that the starting snapshot lists
Stale == {e \in DOMAIN acct.exits : e[2] # st.rev} \ goal.cancelled
CancelStaleExit ==
    /\ At("stale")
    /\ \E e \in Stale :
         IF exit[e].status # "New" THEN EndPass
         ELSE /\ \/ /\ exit' = [exit EXCEPT ![e].status = "Cancelled"]
                    /\ UNCHANGED counts
                 \/ /\ fails < MaxFails /\ fails' = fails + 1
                    /\ UNCHANGED <<exit, user, acts, fired>>
              /\ goal' = [goal EXCEPT !.cancelled = @ \cup {e}]
              /\ UNCHANGED <<row, pos, entry, partial, st, loaded, pc, then, snap, acct, k>>
StaleExitsCancelled ==
    /\ At("stale") /\ Stale = {}
    /\ Read(IF goal.cancelled # {} \/ st.installing THEN "replaced" ELSE "confirm")
    /\ UNCHANGED <<row, exchange, st, loaded, acct, goal, k, counts>>

PositionChanged == Override(loaded)
\* Mutant: only the cancellations are confirmed.
ReplacedUnsized ==
    /\ At("replaced")
    /\ IF goal.cancelled \cap DOMAIN snap.exits # {} THEN EndPass
       ELSE Read("confirm") /\ UNCHANGED <<row, exchange, st, loaded, acct, goal, k, counts>>
Replaced ==
    /\ At("replaced")
    /\ IF goal.cancelled \cap DOMAIN snap.exits # {} THEN EndPass
       ELSE IF snap.pos.size = goal.qty /\ snap.pos.avg = goal.avg
       THEN Read("confirm") /\ UNCHANGED <<row, exchange, st, loaded, acct, goal, k, counts>>
       ELSE IF goal.cancelled = {}
       THEN Goto("match") /\ UNCHANGED <<row, exchange, st, loaded, acct, goal, k, counts>>
       ELSE PositionChanged

\* fills of this revision's exits explain the smaller position
ExecutedAll == SumOver(DOMAIN st.exits, [i \in DOMAIN st.exits |-> Executed(i)])
FillsMatch ==
    /\ At("match")
    /\ IF \/ Gone \/ snap.pos.avg # goal.avg \/ snap.pos.size >= goal.qty
          \/ \E i \in DOMAIN st.exits : LostExit(i)
       THEN PositionChanged
       ELSE IF ExecutedAll = goal.qty - snap.pos.size
       THEN Read("confirm") /\ UNCHANGED <<row, exchange, st, loaded, acct, goal, k, counts>>
       ELSE IF k = 0
       THEN /\ Read("match") /\ k' = 1
            /\ UNCHANGED <<row, exchange, st, loaded, acct, goal, counts>>
       ELSE PositionChanged

Verified(stop, dist) == snap.pos.stop = stop /\ (dist = None \/ snap.pos.trail = dist)

\* Mutant: the attached stops go without a look at the position stop.
ConfirmUnverified ==
    /\ At("confirm")
    /\ IF Gone THEN EndPass
       ELSE /\ goal' = [goal EXCEPT !.ids = snap.partials]
            /\ k' = 0 /\ Goto(IF snap.partials = {} THEN "place" ELSE "drop")
            /\ UNCHANGED <<row, exchange, st, loaded, acct, counts>>
Confirm ==
    /\ At("confirm")
    /\ IF Gone \/ ~Verified(goal.stop, goal.dist) THEN EndPass
       ELSE /\ goal' = [goal EXCEPT !.ids = snap.partials]
            /\ k' = 0
            /\ IF snap.partials = {} THEN Goto("place") ELSE Read("ensure")
            /\ UNCHANGED <<row, exchange, st, loaded, acct, counts>>

(***************************************************************************)
(* handoff_partial_stops: before the first and after every cancellation    *)
(* the position stop is read again, and set again if it is gone.           *)
(***************************************************************************)
HandedOver == IF goal.from = "handoff" THEN "handed" ELSE "place"
EnsureFullStop ==
    /\ At("ensure")
    /\ IF Gone /\ goal.first THEN EndPass
       ELSE IF Gone
       THEN Goto(HandedOver) /\ UNCHANGED <<row, exchange, st, loaded, acct, goal, k, counts>>
       ELSE IF snap.pos.stop = goal.stop
       THEN IF ~Verified(goal.stop, goal.dist) THEN EndPass
            ELSE /\ goal' = [goal EXCEPT !.first = FALSE]
                 /\ k' = 0 /\ Goto("drop")
                 /\ UNCHANGED <<row, exchange, st, loaded, acct, counts>>
       ELSE IF snap.pos.stop # None \/ k = 2 \/ pos.size = 0 THEN EndPass
       ELSE /\ SetProtection(goal.stop, goal.dist)
            /\ k' = k + 1 /\ Read("ensure")
            /\ UNCHANGED <<row, st, loaded, acct, goal>>
DropPartialStop ==
    /\ At("drop")
    /\ \E l \in goal.ids \cap snap.partials :
         IF partial[l] # "live" THEN EndPass
         ELSE /\ partial' = [partial EXCEPT ![l] = "gone"]
              /\ goal' = [goal EXCEPT !.ids = @ \ {l}]
              /\ Read("ensure")
              /\ UNCHANGED <<row, pos, entry, exit, st, loaded, acct, k, counts>>
PartialStopsDropped ==
    /\ At("drop") /\ goal.ids \cap snap.partials = {}
    /\ Goto(HandedOver)
    /\ UNCHANGED <<row, exchange, st, loaded, acct, goal, k, counts>>

(***************************************************************************)
(* The fixed exits, one at a time, under the link of their revision: one   *)
(* that is already known to the exchange is not placed again.              *)
(***************************************************************************)
Unplaced == DOMAIN st.exits \ goal.placed
\* Mutant: an exit that is no longer open is unknown.
KnownOpen(e) == e \in DOMAIN acct.exits
Known(e) == e \in DOMAIN acct.exits \/ e \in DOMAIN exit
PlaceExit ==
    /\ At("place") /\ Unplaced # {}
    /\ LET i == Min(Unplaced) e == <<i, st.rev>>
       IN  IF e \notin DOMAIN acct.exits /\ Known(e) /\ exit[e].status = "Cancelled" THEN EndPass
           ELSE IF ~Known(e) /\ pos.size = 0 THEN EndPass
           ELSE /\ exit' = IF Known(e) THEN exit
                           ELSE [x \in DOMAIN exit \cup {e} |->
                                   IF x = e THEN [qty |-> st.exits[i][1], price |-> st.exits[i][2],
                                                  exec |-> 0, status |-> "New"]
                                   ELSE exit[x]]
                /\ goal' = [goal EXCEPT !.placed = @ \cup {i}]
                /\ UNCHANGED <<row, pos, entry, partial, st, loaded, pc, then, snap, acct, k, counts>>
ExitsPlaced ==
    /\ At("place") /\ Unplaced = {}
    /\ Read("verify")
    /\ UNCHANGED <<row, exchange, st, loaded, acct, goal, k, counts>>

Confirmed(i) == <<i, st.rev>> \in DOMAIN snap.exits
                \/ (<<i, st.rev>> \in DOMAIN exit /\ exit[<<i, st.rev>>].status # "Cancelled")
\* Mutant: the last save forgets what it finished.
StillInstalling == [st EXCEPT !.prot = goal.stop, !.dist = goal.dist, !.status = "OPEN_RISK"]
InstalledRow ==
    LET trail == IF goal.from = "resume" THEN st.trail ELSE goal.trail
    IN  [st EXCEPT !.prot = goal.stop, !.dist = goal.dist, !.installing = FALSE,
                   !.trail = IF goal.from = "build" THEN @ ELSE trail,
                   !.status = IF goal.from # "build" /\ trail THEN "PROFIT_PROTECTED"
                              ELSE "OPEN_RISK"]
VerifyInstallation ==
    /\ At("verify")
    /\ IF Gone \/ ~Verified(goal.stop, goal.dist) \/ \E i \in DOMAIN st.exits : ~Confirmed(i)
       THEN EndPass ELSE Save(InstalledRow)

(***************************************************************************)
(* A live position: the checks that pause the strategy, an interrupted     *)
(* installation, an interrupted hand-over, then the work of the pass.      *)
(***************************************************************************)
Live(l) == At(l) /\ ~Gone
Pause ==
    /\ Live("decide")
    /\ ForeignTrail \/ (IF st.installing THEN Drifted ELSE PauseReason)
    /\ Override(st)
ResumeInstall ==
    /\ Live("decide") /\ ~ForeignTrail /\ st.installing /\ ~Drifted
    /\ BeginInstall(st, "resume", st.trail, st.qty, st.avg)
Sound == Live("decide") /\ ~ForeignTrail /\ ~st.installing /\ ~PauseReason
DriftPauses ==
    /\ \/ Sound /\ (snap.partials # {} => st.exits # None)
       \/ Live("handed")
    /\ Drifted
    /\ Override(st)
Handover ==
    /\ Sound /\ snap.partials # {} /\ (st.exits # None => ~Drifted)
    /\ LET stop == IF st.prot # None THEN st.prot ELSE Plan.stop IN
         IF snap.pos.stop # None /\ snap.pos.stop # stop THEN EndPass
         ELSE /\ goal' = [from |-> "handoff", stop |-> stop, first |-> TRUE,
                          dist |-> IF st.trail THEN st.dist ELSE None, ids |-> snap.partials]
              /\ k' = 0 /\ Read("ensure")
              /\ UNCHANGED <<row, exchange, st, loaded, acct, counts>>
HandedOverFlat == At("handed") /\ Gone /\ EndPass
Undisturbed == ((Sound /\ snap.partials = {}) \/ Live("handed")) /\ ~Drifted

Profitable == InProfit(Plan, snap.pos.avg, snap.mark)
Seen(s) == [s EXCEPT !.qty = snap.pos.size, !.avg = snap.pos.avg]

\* Entries still building.
FixedExitFilled ==
    /\ Undisturbed /\ ~st.frozen /\ AnyFill
    /\ st' = [st EXCEPT !.done = Done]
    /\ CancelEntries /\ Read("fixed")
    /\ UNCHANGED <<row, loaded, acct, goal, k, counts>>
AfterFixedExit ==
    /\ At("fixed")
    /\ IF Gone THEN Read("flat") /\ UNCHANGED <<row, st>>
       ELSE /\ st' = [Seen(st) EXCEPT !.frozen = TRUE]
            /\ row' = st' /\ Goto("decide")
    /\ UNCHANGED <<exchange, loaded, acct, goal, k, counts>>
Accumulate ==
    /\ Undisturbed /\ ~st.frozen /\ ~AnyFill /\ ~Profitable /\ ~st.rebalance
    /\ LET s == [Seen(st) EXCEPT !.status = "OPEN_RISK"] IN
         IF st.rev = 0 \/ (st.qty # None /\ snap.pos.size > st.qty)
         THEN BeginInstall([s EXCEPT !.rev = @ + 1], "build", FALSE, s.qty, s.avg)
         ELSE Save(s)
Freeze ==
    /\ Undisturbed /\ ~st.frozen /\ ~AnyFill /\ (Profitable \/ st.rebalance)
    /\ st' = [Seen(st) EXCEPT !.status = "OPEN_RISK"]
    /\ CancelEntries /\ k' = 0 /\ Read("freeze")
    /\ UNCHANGED <<row, loaded, acct, goal, counts>>
\* two reads without a pending entry: the second has every fill
FreezeEntries ==
    /\ At("freeze")
    /\ IF snap.entries # {} THEN EndPass
       ELSE IF k = 0
       THEN Read("freeze") /\ k' = 1 /\ UNCHANGED <<row, exchange, st, loaded, acct, goal, counts>>
       ELSE IF Gone
       THEN Read("flat") /\ UNCHANGED <<row, exchange, st, loaded, acct, goal, k, counts>>
       ELSE BeginInstall([Seen(st) EXCEPT !.frozen = TRUE, !.rebalance = FALSE, !.rev = @ + 1],
                         "freeze", Profitable, snap.pos.size, snap.pos.avg)

\* Entries frozen.
StartRebalance ==
    /\ Undisturbed /\ st.frozen /\ st.rebalance
    /\ Read("rebalance")
    /\ UNCHANGED <<row, exchange, st, loaded, acct, goal, k, counts>>
Rebalance ==
    /\ At("rebalance")
    /\ IF Gone
       THEN Read("flat") /\ UNCHANGED <<row, exchange, st, loaded, acct, goal, k, counts>>
       ELSE BeginInstall([Seen(st) EXCEPT !.rebalance = FALSE, !.rev = @ + 1],
                         "rebalance", st.trail \/ Profitable, snap.pos.size, snap.pos.avg)
ManageProfit ==
    /\ Undisturbed /\ st.frozen /\ ~st.rebalance /\ (st.trail \/ ~Profitable)
    /\ Save([Seen(st) EXCEPT !.done = Done])
ActivateTrailing ==
    /\ Undisturbed /\ st.frozen /\ ~st.rebalance /\ ~st.trail /\ Profitable
    /\ LET dist == TrailingDistance(Plan, snap.pos.avg)
           p == ProtectedStop(Plan, snap.pos.avg, st.prot, snap.mark)
       IN  /\ CancelEntries
           /\ IF dist <= 0 \/ Refused(p) THEN Release /\ UNCHANGED <<row, counts>>
              ELSE /\ goal' = [stop |-> p.stop, dist |-> dist]
                   /\ st' = [st EXCEPT !.done = Done]
                   /\ Goto("trail")
                   /\ UNCHANGED <<row, loaded, acct, k, counts>>
SetTrailing ==
    /\ At("trail")
    /\ IF pos.size = 0 THEN EndPass
       ELSE /\ SetProtection(goal.stop, goal.dist)
            /\ Read("trailed")
            /\ UNCHANGED <<row, st, loaded, acct, goal, k>>
TrailingSet ==
    /\ At("trailed")
    /\ IF Gone THEN Read("flat") /\ UNCHANGED <<row, exchange, st, loaded, acct, goal, k, counts>>
       ELSE IF ~Verified(goal.stop, goal.dist) THEN EndPass
       ELSE Save([Seen(st) EXCEPT !.trail = TRUE, !.prot = goal.stop, !.dist = goal.dist,
                                  !.status = "PROFIT_PROTECTED"])

Supervise ==
    \/ StartPass \/ ReadPositions \/ ReadOrders
    \/ PositionMissing \/ CloseIfFlat
    \/ Pause \/ ResumeInstall \/ DriftPauses \/ Handover \/ HandedOverFlat
    \/ ApplyProtection \/ ProtectionRefused \/ CancelStaleExit \/ StaleExitsCancelled
    \/ Replaced \/ FillsMatch \/ Confirm
    \/ EnsureFullStop \/ DropPartialStop \/ PartialStopsDropped
    \/ PlaceExit \/ ExitsPlaced \/ VerifyInstallation
    \/ FixedExitFilled \/ AfterFixedExit \/ Accumulate \/ Freeze \/ FreezeEntries
    \/ StartRebalance \/ Rebalance \/ ManageProfit \/ ActivateTrailing
    \/ SetTrailing \/ TrailingSet

(***************************************************************************)
(* The exchange, and the others who change it.                             *)
(***************************************************************************)
\* the position as lots leave it: the last one takes the orders along
Shrink(by) ==
    LET left == pos.size - by IN
    IF left > 0
    THEN /\ pos' = [pos EXCEPT !.size = left]
         /\ UNCHANGED partial
    ELSE /\ pos' = Flat
         /\ partial' = [l \in Legs |-> IF partial[l] = "live" THEN "gone" ELSE partial[l]]
Closed(x, by) ==
    IF pos.size > by THEN x
    ELSE [e \in DOMAIN x |-> IF x[e].status = "New" THEN [x[e] EXCEPT !.status = "Cancelled"]
                             ELSE x[e]]

EntryFills(l) ==
    /\ entry[l] = "new"
    /\ entry' = [entry EXCEPT ![l] = "filled"]
    /\ partial' = [partial EXCEPT ![l] = "live"]
    /\ pos' = Filled(l)
    /\ fired' = (fired \/ pos.size = 0)
    /\ UNCHANGED <<row, exit, pass, fails, user, acts>>
ExitFills(e) ==
    /\ exit[e].status = "New" /\ pos.size > 0 /\ (Torn \/ ~At("orders"))
    /\ exit' = Closed([exit EXCEPT ![e].exec = @ + 1,
                 ![e].status = IF exit[e].exec + 1 = exit[e].qty THEN "Filled" ELSE @], 1)
    /\ Shrink(1)
    /\ UNCHANGED <<row, entry, pass, counts>>
PartialStopFires(l) ==
    /\ partial[l] = "live" /\ pos.size > Plan.legs[l].qty
    /\ fired' = TRUE
    /\ pos' = [pos EXCEPT !.size = @ - Plan.legs[l].qty]
    /\ partial' = [partial EXCEPT ![l] = "gone"]
    /\ UNCHANGED <<row, entry, exit, pass, fails, user, acts>>
StopFires ==
    /\ pos.size > 0
    /\ pos.stop # None \/ \E l \in Legs : partial[l] = "live" /\ pos.size <= Plan.legs[l].qty
    /\ Shrink(pos.size) /\ exit' = Closed(exit, pos.size)
    /\ UNCHANGED <<row, entry, pass, counts>>
UserRemovesStop ==
    /\ user < MaxUser /\ pos.size > 0 /\ pos.stop # None
    /\ user' = user + 1
    /\ pos' = [pos EXCEPT !.stop = None, !.trail = None]
    /\ UNCHANGED <<row, entry, partial, exit, pass, fails, acts, fired>>
UserSetsStop ==
    /\ user < MaxUser /\ pos.size > 0
    /\ user' = user + 1
    /\ \E p \in UserStops \ {pos.stop} : pos' = [pos EXCEPT !.stop = p]
    /\ UNCHANGED <<row, entry, partial, exit, pass, fails, acts, fired>>
UserCancelsExit ==
    /\ user < MaxUser /\ user' = user + 1
    /\ \E e \in Open(exit) : exit' = [exit EXCEPT ![e].status = "Cancelled"]
    /\ UNCHANGED <<row, pos, entry, partial, pass, fails, acts, fired>>

\* complete_position_action of a REDUCE: exits and entries were cancelled, one
\* lot was sold
Reduce ==
    /\ At("idle") /\ acts < MaxActs /\ row.status \in Active /\ pos.size > 1
    /\ acts' = acts + 1
    /\ pos' = [pos EXCEPT !.size = @ - 1]
    /\ entry' = [l \in Legs |-> IF entry[l] = "new" THEN "gone" ELSE entry[l]]
    /\ exit' = [e \in DOMAIN exit |-> IF exit[e].status = "New"
                                      THEN [exit[e] EXCEPT !.status = "Cancelled"] ELSE exit[e]]
    /\ row' = [row EXCEPT !.frozen = TRUE, !.rebalance = TRUE]
    /\ UNCHANGED <<partial, pass, fails, user, fired>>
\* record_entry_cancellation with an error: the entries may still rest
WithdrawUncertain ==
    /\ At("idle") /\ acts < MaxActs /\ row.status \in Active
    /\ acts' = acts + 1
    /\ row' = [row EXCEPT !.frozen = TRUE, !.rebalance = TRUE]
    /\ UNCHANGED <<exchange, pass, fails, user, fired>>

Environment ==
    \/ \E l \in Legs : EntryFills(l) \/ PartialStopFires(l)
    \/ \E e \in DOMAIN exit : ExitFills(e)
    \/ StopFires \/ UserRemovesStop \/ UserSetsStop \/ UserCancelsExit
    \/ Reduce \/ WithdrawUncertain

Next == Supervise \/ PassFails \/ Environment
Spec == Init /\ [][Next]_vars
\* the supervisor's loop runs a pass every interval and awaits every request
FairSpec == Spec /\ WF_vars(Supervise)

-----------------------------------------------------------------------------
\* A position is covered by the position stop, or by attached stops for all of
\* its lots.
LotsOf(ls) == UNION {{l} \X (1..Plan.legs[l].qty) : l \in ls}
LiveStops == {l \in Legs : partial[l] = "live"}
Covered == pos.stop # None \/ Cardinality(LotsOf(LiveStops)) >= pos.size
\* Whatever fills, fails or is lost while protection is installed, handed over
\* or replaced, the supervisor never leaves a live position without a stop
\* (_confirm_protection_and_handoff, _ensure_full_stop, handoff_partial_stops).
NeverUncovered == user = 0 => Covered

\* The open fixed exits never add up to more than the position, whatever filled
\* while they were replaced or while an interrupted installation was resumed
\* (_cancel_stale_exits, _replacement_fill_matches): the runner stays.  A late
\* entry that fills after the stop has closed the position makes a new, smaller
\* one, which the exits of an installation under way were not sized for.
OpenLots == SumOver(Open(exit), [e \in Open(exit) |-> exit[e].qty - exit[e].exec])
ExitsFitPosition == user = 0 /\ ~fired => OpenLots <= pos.size

\* An exit order only makes progress: one that has filled, in part or whole, or
\* was cancelled is never submitted again under its link, after any number of
\* interrupted installations (_reconcile_or_place_exit, _find_existing_exit).
ExitsOnlyProgress ==
    [][\A e \in DOMAIN exit :
         /\ e \in DOMAIN exit' /\ exit'[e].exec >= exit[e].exec
         /\ exit[e].status # "New" => exit'[e] = exit[e]]_vars

\* No request of the supervisor moves the position stop back from where the
\* pass read it, also if somebody had tightened it by hand ("never deliberately
\* weakens established protection", _resolve_protection and protected_stop).
ReadStop == IF pc = "protect" THEN acct.pos.stop ELSE snap.pos.stop
StopNeverLoosened ==
    [][(/\ pc \in {"protect", "ensure", "trail"} /\ user' = user
        /\ pos' # pos /\ pos'.size = pos.size
        /\ pos.stop = ReadStop /\ pos.stop # None)
       => ~Below(Plan.side, pos'.stop, pos.stop)]_vars

\* A live position that lost its stop is covered again, closed or handed to a
\* human, unless a pass that resumes a trailing installation reads a mark its
\* profit stop would lie behind: it can set none (_ensure_full_stop,
\* _protection_drift, _handle_installing_exits, protected_stop).
MarkTooClose ==
    /\ pc = "decide" /\ ~Gone /\ st.installing /\ st.trail
    /\ Refused(ProtectedStop(Plan, st.avg, st.prot, snap.mark))
CoverRestored ==
    ~Covered ~> (Covered \/ row.status = "MANUAL_OVERRIDE" \/ MarkTooClose)

\* An installation that has begun is finished, or the strategy is paused or
\* closed, with the same exception (_handle_installing_exits resumes it).
InstallationEnds ==
    row.installing ~> (~row.installing \/ row.status \notin Active \/ MarkTooClose)

\* Protection settles: a lost stop is restored and a begun installation is
\* finished, or a person is called (position_supervisor.py, exit_installer.py).
ProtectionSettles == CoverRestored /\ InstallationEnds
=============================================================================
