------------------------------ MODULE MCZones -------------------------------
(***************************************************************************)
(* The ledger and its judgement (ZoneLedger), or the query lanes that fill *)
(* it (ZoneHistory).                                                       *)
(***************************************************************************)
EXTENDS ZoneLedger, Sequences

CONSTANTS
    Symbols, Exec, Since, Recent, Window, Retention, Day, Interval, Budget, PageBudget,
    PageSize, StartTime, MaxTime, MaxFaults, Sweep
VARIABLES
    now, visible, bound, executions, query, work, page, more, passed, faults, quiet, owed
H == INSTANCE ZoneHistory WITH ledger <- executions
queryVars ==
    <<now, visible, bound, executions, query, work, page, more, passed, faults, quiet, owed>>
ASSUME QueryConstants == H!HistoryConstants
BothInit == Init /\ H!Init

(***************************************************************************)
(* Ledgers.  Either both zones trade with native children only, or zone a  *)
(* is withdrawn and zone b has a reduction, a change of plan, a change by  *)
(* hand.                                                                   *)
(***************************************************************************)
TwoZones == {"a", "b"}
OneAndTwo == [z \in TwoZones |-> IF z = "a" THEN 1 ELSE 2]
MCHas == [z \in TwoZones |-> IF z = "a" THEN {"E", "S"} ELSE {"E", "S", "T", "U"}]
Calm == hand = 0 /\ plan["a"] = 0 /\ plan["b"] = 0 /\ order[<<"b", "U">>].status = "none"
Withdrawn == "a" \notin DOMAIN frozen /\ order[<<"a", "E">>].status = "Cancelled"
             /\ order[<<"a", "E">>].exec = 0 /\ plan["a"] = 0
CalmOrWithdrawn ==
    BothInit /\ [][Next /\ (Calm' \/ Withdrawn') /\ UNCHANGED queryVars]_<<vars, queryVars>>

(***************************************************************************)
(* Histories.  Either three old executions of X, two of one order in one   *)
(* window, meet two faults; or X, with more executions than a query reads, *)
(* competes with Y.                                                        *)
(***************************************************************************)
TwoSymbols == <<"X", "Y">>
MCExec ==
    <<[symbol |-> "X", order |-> "o1", time |-> 4],
      [symbol |-> "X", order |-> "o1", time |-> 5],
      [symbol |-> "X", order |-> "o2", time |-> 8],
      [symbol |-> "X", order |-> "p1", time |-> 9],
      [symbol |-> "X", order |-> "p1", time |-> 9],
      [symbol |-> "X", order |-> "p1", time |-> 9],
      [symbol |-> "Y", order |-> "p2", time |-> 8]>>
YKnown == [s \in {"X", "Y"} |-> IF s = "Y" THEN 8 ELSE None]
Old == visible \subseteq 1..3 /\ bound \subseteq {"o1", "o2"}
Competing == /\ visible \subseteq 4..7 /\ bound \subseteq {"p1", "p2"} /\ faults = 0 /\ now < 17
             /\ visible \cap 4..6 \in {{}, 4..4, 4..5, 4..6}
OldOrCompeting ==
    BothInit /\ [][H!Next /\ (Old' \/ Competing') /\ UNCHANGED vars]_<<vars, queryVars>>

\* A window reported as consumed held nothing that is missing from the ledger
\* (finish_zone_history_query, _record_history_query).
ConsumedIsRecorded == H!ConsumedIsRecorded
\* What appears or is bound late is retained within one sweep of quiet time
\* (_window, prepare_zone_history_queries).
SweptInTime == H!SweptInTime
=============================================================================
