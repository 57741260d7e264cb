----------------------------- MODULE ZoneLedger -----------------------------
(***************************************************************************)
(* The zone ledger: frozen allocations, orders bound to them once, their   *)
(* executions, and the snapshot that compares all of it with one reading   *)
(* of the account and says whether every allocation has its own stop.      *)
(* One group (symbol and side); a zone is an ENTRY parent "E" with native  *)
(* children "S" (stop) and "T" (take profit), and a reduction "U" that     *)
(* names no parent.  Every execution is one lot.                           *)
(***************************************************************************)
EXTENDS Integers, FiniteSets, FiniteSetsExt

CONSTANTS
    Zones,
    Qty,       \* planned quantity, by zone
    Has,       \* the roles of a zone's orders, by zone
    None,
    MaxHand,   \* changes made by hand on the exchange
    MaxPlans,  \* changes of a plan
    MaxLate    \* changes on the exchange after a reading

ASSUME ZoneConstants ==
    \A z \in Zones : Qty[z] \in Nat \ {0} /\ Has[z] \subseteq {"E", "S", "T", "U"} /\ "E" \in Has[z]

VARIABLES
    frozen,   \* zone_allocations: zone -> the plan it was registered with
    plan,     \* execution_plans: the current plan of each intent, a revision
    order,    \* the exchange's orders, <<zone, role>> -> [status, qty, exec, trigger]
    extra,    \* a stop, target or trail set on the whole position
    binding,  \* zone_orders: <<zone, role>> -> the quantity bound
    recorded, \* zone_executions: <<zone, role>> -> lots recorded
    account,  \* the last reading of the account, None before
    hand, late

vars == <<frozen, plan, order, extra, binding, recorded, account, hand, late>>

Roles == {"E", "S", "T", "U"}
Ids == Zones \X Roles
Native == {"S", "T"}
Absent == [status |-> "none", qty |-> 0, exec |-> 0, trigger |-> "planned"]
Rest(o) == o.qty - o.exec
Total(f, S) == MapThenSumSet(LAMBDA x : f[x], S)

\* what is left of each zone, and of the position, on the exchange
Allocated(z) == order[<<z, "E">>].exec
    - (order[<<z, "S">>].exec + order[<<z, "T">>].exec + order[<<z, "U">>].exec)
Position == Total([z \in Zones |-> Allocated(z)], Zones)

Init ==
    /\ frozen = <<>> /\ plan = [z \in Zones |-> 0]
    /\ order = [i \in Ids |-> IF i[2] = "E" THEN [Absent EXCEPT !.status = "New", !.qty = Qty[i[1]]]
                              ELSE Absent]
    /\ extra = FALSE /\ binding = <<>> /\ recorded = [i \in Ids |-> 0]
    /\ account = None /\ hand = 0 /\ late = 0

ledger == <<frozen, binding, recorded>>
exchange == <<order, extra, hand, late>>

(***************************************************************************)
(* The ledger's writers.                                                   *)
(***************************************************************************)
\* Mutant: a second registration takes the plan as it is now.
Replaced(z) == [x \in DOMAIN frozen \cup {z} |-> IF x = z THEN plan[z] ELSE frozen[x]]
Frozen(z) == [x \in DOMAIN frozen \cup {z} |-> IF x \in DOMAIN frozen THEN frozen[x] ELSE plan[z]]
\* a registration that differs from the frozen one is refused
Register(z) ==
    /\ frozen' = Frozen(z)
    /\ UNCHANGED <<plan, exchange, binding, recorded, account>>
PlanChanges(z) ==
    /\ plan[z] < MaxPlans /\ plan' = [plan EXCEPT ![z] = @ + 1]
    /\ UNCHANGED <<ledger, exchange, account>>

\* Mutant: any registered zone will do.
NoParent(i) == TRUE
\* a native child needs the confirmed entry of its own zone, no smaller
HasParent(i) ==
    i[2] \in Native => <<i[1], "E">> \in DOMAIN binding /\ order[i].qty <= binding[<<i[1], "E">>]
\* Mutant: no look at the allocations.
AnyZone(i) == TRUE
HasZone(i) == i[1] \in DOMAIN frozen
\* a second binding that differs is refused
Bind(i) ==
    /\ HasZone(i) /\ order[i].status # "none" /\ HasParent(i)
    /\ i \notin DOMAIN binding
    /\ binding' = [x \in DOMAIN binding \cup {i} |-> IF x = i THEN order[i].qty ELSE binding[x]]
    /\ UNCHANGED <<frozen, plan, exchange, recorded, account>>
Record(i) ==
    /\ i \in DOMAIN binding /\ recorded[i] < order[i].exec
    /\ recorded' = [recorded EXCEPT ![i] = @ + 1]
    /\ UNCHANGED <<frozen, plan, exchange, binding, account>>

(***************************************************************************)
(* The exchange.  A fill of the entry creates or enlarges its children; a  *)
(* reduction elsewhere does not shrink them, and an order that has ended   *)
(* never comes back under its id.                                          *)
(***************************************************************************)
Live(i) == order[i].status = "New"
Ended(i) == order[i].status \in {"Filled", "Cancelled"}
Whole == account # None /\ account.open # None
Moves ==
    IF ~Whole THEN late' = 0 ELSE late < MaxLate /\ late' = late + 1
FillLot(i) ==
    [order[i] EXCEPT !.exec = @ + 1, !.status = IF Rest(order[i]) = 1 THEN "Filled" ELSE @]
EntryFills(z) ==
    /\ Live(<<z, "E">>)
    /\ order' = [i \in Ids |->
          IF i = <<z, "E">> THEN FillLot(i)
          ELSE IF i[1] = z /\ i[2] \in Native \cap Has[z] /\ ~Ended(i)
          THEN [order[i] EXCEPT !.status = "New", !.qty = @ + 1] ELSE order[i]]
    /\ UNCHANGED <<plan, ledger, extra, account, hand>> /\ Moves
EntryCancelled(z) ==
    /\ Live(<<z, "E">>)
    /\ order' = [order EXCEPT ![<<z, "E">>].status = "Cancelled"]
    /\ UNCHANGED <<plan, ledger, extra, account, hand>> /\ Moves
Reduces(i) ==
    /\ i[2] # "E" /\ Live(i) /\ Position > 0
    /\ order' = [order EXCEPT ![i] = FillLot(i)]
    /\ UNCHANGED <<plan, ledger, extra, account, hand>> /\ Moves
PeerDeactivated(z, r) ==
    /\ r \in Native /\ Live(<<z, r>>)
    /\ order' = [order EXCEPT ![<<z, r>>].status = "Cancelled"]
    /\ UNCHANGED <<plan, ledger, extra, account, hand>> /\ Moves
PlaceReduction(z) ==
    /\ "U" \in Has[z] /\ order[<<z, "U">>].status = "none" /\ Position > 0
    /\ order' = [order EXCEPT ![<<z, "U">>] = [Absent EXCEPT !.status = "New", !.qty = 1]]
    /\ UNCHANGED <<plan, ledger, extra, account, hand>> /\ Moves
MovedByHand(z) ==
    /\ hand < MaxHand /\ hand' = hand + 1
    /\ \/ /\ Live(<<z, "S">>) /\ order' = [order EXCEPT ![<<z, "S">>].trigger = "moved"]
          /\ UNCHANGED extra
       \/ ~extra /\ extra' = TRUE /\ UNCHANGED order
    /\ UNCHANGED <<plan, ledger, account>> /\ Moves

\* the position list, then the order list; the allocations at that moment are
\* what the reading should be judged by
ReadPositions ==
    /\ account = None
    /\ account' = [size |-> Position, extra |-> extra, open |-> None]
    /\ UNCHANGED <<plan, ledger, exchange>>
ReadOrders ==
    /\ account # None /\ account.open = None
    /\ account' = [size |-> account.size, extra |-> account.extra,
                   open |-> [i \in {x \in Ids : Live(x)} |-> order[i]],
                   exec |-> [i \in Ids |-> order[i].exec],
                   held |-> [z \in Zones |-> Allocated(z)]]
    /\ UNCHANGED <<plan, ledger, exchange>>
Forget ==
    /\ Whole
    /\ account' = None /\ late' = 0
    /\ UNCHANGED <<plan, ledger, order, extra, hand>>

Next ==
    \/ \E z \in Zones : Register(z) \/ PlanChanges(z) \/ EntryFills(z) \/ EntryCancelled(z)
                        \/ PlaceReduction(z) \/ MovedByHand(z)
                        \/ \E r \in Native : PeerDeactivated(z, r)
    \/ \E i \in Ids : Bind(i) \/ Record(i) \/ Reduces(i)
    \/ ReadPositions \/ ReadOrders \/ Forget
Spec == Init /\ [][Next]_vars

(***************************************************************************)
(* zone_group_snapshot with a reading of the account.                      *)
(***************************************************************************)
Mine(z) == {r \in Roles : <<z, r>> \in DOMAIN binding}
Lots(z, r) == IF r \in Mine(z) THEN recorded[<<z, r>>] ELSE 0
Entered(z) == Lots(z, "E")
ClosedByPair(z) == Lots(z, "S") + Lots(z, "T")
Closed(z) == ClosedByPair(z) + Lots(z, "U")
ZoneIssue ==
    \E z \in DOMAIN frozen :
        \/ Closed(z) > Entered(z)
        \/ \E r \in Mine(z) : recorded[<<z, r>>] > binding[<<z, r>>]
Recorded ==
    Total([z \in Zones |-> IF z \in DOMAIN frozen THEN Entered(z) - Closed(z) ELSE 0], Zones)
MatchesBinding(i) ==
    account.open[i].qty = binding[i] /\ Rest(account.open[i]) \in 0..account.open[i].qty
QuantityIssue ==
    \/ ZoneIssue
    \/ account.size # Recorded
    \/ \E i \in DOMAIN account.open :
         \/ i \notin DOMAIN binding
         \/ ~MatchesBinding(i)
         \/ account.open[i].exec # recorded[i]

ParentRest(z) == Entered(z) - ClosedByPair(z)
\* Mutant: reductions that name no parent are somebody else's.
NeverAmbiguous(z) == FALSE
\* a reduction that names no parent leaves the parents' rest unknown
Ambiguous(z) == Lots(z, "U") > 0
Observed(z, r) == r \in Mine(z) /\ <<z, r>> \in DOMAIN account.open
StopValid(z) ==
    LET o == account.open[<<z, "S">>]
    IN  MatchesBinding(<<z, "S">>) /\ o.trigger = "planned" /\ o.exec = 0
CoveredBy(z) ==
    IF Observed(z, "S") /\ StopValid(z) THEN Rest(account.open[<<z, "S">>]) ELSE 0
\* Mutant: enough is enough.
AtLeastCovered(z) == CoveredBy(z) < ParentRest(z)
Miscovered(z) == CoveredBy(z) # ParentRest(z)
ChildIssue(z) ==
    \/ \E r \in Native : Observed(z, r) /\ ParentRest(z) = 0 /\ Rest(account.open[<<z, r>>]) > 0
    \/ Observed(z, "T") /\ Rest(account.open[<<z, "T">>]) > ParentRest(z)
    \/ Observed(z, "S") /\ ~StopValid(z)
ParentIssue(z) == Ambiguous(z) \/ ParentRest(z) < 0 \/ ChildIssue(z) \/ Miscovered(z)

Parents == {z \in DOMAIN frozen : "E" \in Mine(z)}
StopsVerified ==
    /\ ~QuantityIssue
    /\ ~account.extra
    /\ ~\E i \in DOMAIN account.open : i \in DOMAIN binding /\ i[2] = "U"
    /\ \A z \in Parents : ~ParentIssue(z)
    /\ \E z \in Parents : ParentRest(z) > 0

-----------------------------------------------------------------------------
\* Type invariant: bindings belong to registered zones, and no more is recorded
\* than was executed.
TypeOK ==
    /\ DOMAIN frozen \subseteq Zones
    /\ \A i \in DOMAIN binding : i[1] \in DOMAIN frozen /\ binding[i] \in Nat
    /\ \A i \in Ids : recorded[i] \in 0..order[i].exec /\ order[i].exec <= order[i].qty

\* native_stop_coverage_verified is sound: with every execution up to the reading
\* in the ledger, it is only said when each zone had its own stop, at the planned
\* trigger, for exactly what was left of it, however the fills fell between the
\* two requests of the reading and the ledger's transaction
\* (_native_stop_snapshot, _parent_stop_snapshot, _child_stop_coverage).
Complete == \A i \in Ids : recorded[i] >= account.exec[i]
StopFor(z) ==
    IF <<z, "S">> \in DOMAIN account.open /\ account.open[<<z, "S">>].trigger = "planned"
    THEN Rest(account.open[<<z, "S">>]) ELSE 0
VerifiedMeansCovered ==
    Whole => (Complete /\ StopsVerified => \A z \in Zones : StopFor(z) = account.held[z])

\* A native child is never attributed without its zone's confirmed entry
\* (bind_zone_order).
ChildrenHaveParents ==
    \A i \in DOMAIN binding : i[2] \in Native => <<i[1], "E">> \in DOMAIN binding

\* What the ledger says is so: its attribution has parents, and a verified
\* coverage is a real one (storage/zone.py, zone_ledger.py).
LedgerIsSound == TypeOK /\ ChildrenHaveParents /\ VerifiedMeansCovered

\* The allocation a zone was registered with is never replaced, nor is a binding
\* or a recorded execution, whatever is registered again after a rebase or a
\* restart (register_zone, bind_zone_order, record_zone_execution).
EvidenceIsKept ==
    [][/\ \A z \in DOMAIN frozen : z \in DOMAIN frozen' /\ frozen'[z] = frozen[z]
       /\ \A i \in DOMAIN binding : i \in DOMAIN binding' /\ binding'[i] = binding[i]]_vars
=============================================================================
