---------------------------- MODULE ZoneHistory -----------------------------
(***************************************************************************)
(* The recording of executions into the zone ledger: durable query lanes   *)
(* per symbol, "recent" and "archive", each a window of exchange time and  *)
(* a page cursor; passes that read a bounded number of pages; executions   *)
(* that become visible late, orders that are bound late, failed pages and  *)
(* restarts.  Time is counted in query intervals.                          *)
(***************************************************************************)
EXTENDS Integers, Sequences, FiniteSets, Functions

CONSTANTS
    Symbols,    \* a sequence, in their sort order
    Exec,       \* executions, a sequence of [symbol, order, time]
    Since,      \* symbol -> creation of its oldest allocation, None if unknown
    None,
    Recent, Window, Retention, Day, Interval, \* HISTORY_*_MS
    Budget,     \* HISTORY_QUERY_BUDGET
    PageBudget, \* HISTORY_PAGE_BUDGET
    PageSize,   \* rows of a page
    StartTime, MaxTime, MaxFaults,
    Sweep       \* ticks in which a full sweep of both lanes fits

HistoryConstants ==
    /\ {Recent, Window, Retention, Day, Interval, Budget, PageBudget, PageSize} \subseteq Nat \ {0}
    /\ Symbols \in Seq(Range(Symbols)) /\ Exec \in Seq(Range(Exec))
    /\ None \notin DOMAIN Exec /\ None # {}
    /\ \A s \in Range(Symbols) : Since[s] # None => Since[s] \in Nat
    /\ \A e \in DOMAIN Exec : Exec[e].symbol \in Range(Symbols) /\ Exec[e].time \in Nat

VARIABLES
    now,
    visible,  \* executions the exchange lists
    bound,    \* orders bound to a zone
    ledger,   \* zone_executions
    query,    \* zone_history_queries, by <<symbol, lane>>
    work,     \* queries of this pass, by their place the next to work on
    page,     \* rows of the head's page still to record, None before it is read
    more,     \* the page's next cursor, None at the end
    passed,   \* a pass was prepared at this time
    faults, quiet, \* faults so far; time of the last fault, binding or appearance
    owed     \* what a reader of the window's first page could have recorded

vars == <<now, visible, bound, ledger, query, work, page, more, passed, faults, quiet, owed>>

Lanes == {"recent", "archive"}
Keys == Range(Symbols) \X Lanes
Orders == {Exec[e].order : e \in DOMAIN Exec}
Max2(a, b) == IF a > b THEN a ELSE b
Min2(a, b) == IF a < b THEN a ELSE b

(***************************************************************************)
(* Windows.                                                                *)
(***************************************************************************)
RetentionFloor(t) == Max2(1, ((t - Retention) \div Day + 2) * Day)
\* creation of the oldest allocation, with a day of headroom
AllocationBound(s) == IF Since[s] = None THEN 1 ELSE Max2(1, Since[s] - Day)
QueryFloor(s, t) == Max2(RetentionFloor(t), AllocationBound(s))
RecentFrom(t) == Max2(1, t - Recent)

ArchiveStart(s, next, t, wrap) ==
    IF wrap \/ next < QueryFloor(s, t) \/ next >= RecentFrom(t) THEN QueryFloor(s, t) ELSE next
NextWindow(key, previousEnd, t, wrap) ==
    LET start == ArchiveStart(key[1], previousEnd + 1, t, wrap)
    IN  IF key[2] = "recent" THEN <<Max2(RecentFrom(t), AllocationBound(key[1])), t>>
        ELSE <<start, Min2(start + Window, RecentFrom(t) - 1)>>

Eligible(key) == key[2] = "archive" => QueryFloor(key[1], now) < RecentFrom(now)

Init ==
    /\ now = StartTime /\ visible = {} /\ bound = {} /\ ledger = {}
    /\ query = <<>> /\ work = {} /\ page = None /\ more = None
    /\ passed = FALSE /\ faults = 0 /\ quiet = StartTime /\ owed = <<>>

Idle == work = {}

(***************************************************************************)
(* prepare_zone_history_queries: one transaction.  Rows appear, a window   *)
(* behind the floor is moved up to it, and the queries least recently      *)
(* attempted are taken, the time of the attempt being saved with them.     *)
(***************************************************************************)
Row(w) == [start |-> w[1], end |-> w[2], cursor |-> None, seen |-> {},
           attempt |-> 0, done |-> None]
Known == {Exec[e].symbol : e \in {x \in DOMAIN Exec : Exec[x].order \in bound}}
Floored ==
    LET known == Known IN
    [key \in DOMAIN query \cup {x \in Keys : x[1] \in known /\ Eligible(x)} |->
        LET w == NextWindow(key, 0, now, FALSE) IN
        IF key \notin DOMAIN query THEN Row(w)
        ELSE IF key[1] \in known /\ Eligible(key) /\ query[key].start < QueryFloor(key[1], now)
        THEN [query[key] EXCEPT !.start = w[1], !.end = w[2], !.cursor = None, !.seen = {}]
        ELSE query[key]]

Rank(s) == CHOOSE i \in DOMAIN Symbols : Symbols[i] = s
Attempt(key) == IF key \in DOMAIN query THEN query[key].attempt ELSE 0
\* Mutant: ORDER BY symbol.
BySymbol(a, b) == Rank(a[1]) < Rank(b[1]) \/ (a[1] = b[1] /\ a[2] = "recent" /\ b[2] = "archive")
\* ORDER BY last_attempt_ms, lane DESC, symbol
Before(a, b) ==
    \/ Attempt(a) < Attempt(b)
    \/ /\ Attempt(a) = Attempt(b)
       /\ \/ a[2] = "recent" /\ b[2] = "archive"
          \/ a[2] = b[2] /\ Rank(a[1]) < Rank(b[1])
Due(keys) ==
    LET known == Known IN
    {key \in keys : key[1] \in known /\ Eligible(key) /\ Attempt(key) <= now - Interval}
Place(key, due) == Cardinality({x \in due : Before(x, key)})
\* LIMIT
Taken(due) == {key \in due : Place(key, due) < Budget}

Attempted(rows, keys) ==
    [key \in DOMAIN rows |-> IF key \in keys THEN [rows[key] EXCEPT !.attempt = now] ELSE rows[key]]

Prepare ==
    /\ Idle
    /\ LET rows == Floored
           due == Due(DOMAIN rows)
           keys == Taken(due)
       IN  /\ query' = Attempted(rows, keys)
           /\ work' = {[key |-> key, row |-> rows[key], at |-> now,
                        place |-> Place(key, due)] : key \in keys}
    /\ passed' = TRUE
    /\ UNCHANGED <<now, visible, bound, ledger, page, more, faults, quiet, owed>>

(***************************************************************************)
(* One query: a page, its executions, its end.                             *)
(***************************************************************************)
Q == CHOOSE q \in work : \A other \in work : q.place <= other.place
Earlier(a, b) ==
    Exec[a].time < Exec[b].time \/ (Exec[a].time = Exec[b].time /\ a < b)
InWindow(row, s) ==
    {e \in visible : Exec[e].symbol = s /\ Exec[e].time \in row.start..row.end}
\* the first rows of a listing, and the last of them, which the cursor names
FirstPage(rows) == {e \in rows : Cardinality({f \in rows : Earlier(f, e)}) < PageSize}
LastOf(rows) == CHOOSE e \in rows : \A f \in rows : ~Earlier(e, f)
ReadPage ==
    /\ ~Idle /\ page = None
    /\ LET q == Q
           listed == InWindow(q.row, q.key[1])
           rest == IF q.row.cursor = None THEN listed
                   ELSE {e \in listed : Earlier(q.row.cursor, e)}
           rows == FirstPage(rest)
           attributed(S) == {e \in S : Exec[e].order \in bound}
       IN  /\ page' = attributed(rows)
           /\ more' = IF rows = rest THEN None ELSE LastOf(rows)
           /\ owed' = IF q.row.cursor = None
                      THEN [key \in DOMAIN owed \cup {q.key} |->
                              IF key = q.key THEN attributed(listed) ELSE owed[key]]
                      ELSE owed
    /\ UNCHANGED <<now, visible, bound, ledger, query, work, passed, faults, quiet>>
\* record_zone_execution, in their order, one transaction each; a known execution
\* is kept
Record ==
    /\ ~Idle /\ page # None
    /\ \E e \in page :
          /\ \A f \in page : ~Earlier(f, e)
          /\ ledger' = ledger \cup {e} /\ page' = page \ {e}
    /\ UNCHANGED <<now, visible, bound, query, work, more, passed, faults, quiet, owed>>

\* the row is still the one this query was prepared from
Owned(q) ==
    LET r == query[q.key]
    IN  r.start = q.row.start /\ r.end = q.row.end /\ r.cursor = q.row.cursor /\ r.attempt = q.at
Over == work' = work \ {Q} /\ page' = None /\ more' = None

\* a short archive window is the tail: the sweep starts again
Wraps(q) == q.key[2] = "archive" /\ q.row.end - q.row.start < Window
Completed(q) ==
    LET w == NextWindow(q.key, q.row.end, now, Wraps(q))
    IN  [query[q.key] EXCEPT !.start = w[1], !.end = w[2], !.cursor = None, !.seen = {},
                             !.done = <<q.row.start, q.row.end>>]
Continued(q) == [query[q.key] EXCEPT !.cursor = more, !.seen = q.row.seen \cup {more}]
PageLimit(q) ==
    \/ more \in q.row.seen \cup {q.row.cursor}
    \/ Cardinality(q.row.seen) >= PageBudget - 1
Finish ==
    /\ ~Idle /\ page = {} /\ Owned(Q) /\ (more # None => ~PageLimit(Q))
    /\ query' = [query EXCEPT ![Q.key] = IF more = None THEN Completed(Q) ELSE Continued(Q)]
    /\ Over
    /\ UNCHANGED <<now, visible, bound, ledger, passed, faults, quiet, owed>>

\* Mutant: the failed page counts as read.
FailedPageSkipped(q) == [query[q.key] EXCEPT !.cursor = more]
\* a failed query starts its window again: cursors expire
Restarted(q) == [query[q.key] EXCEPT !.cursor = None, !.seen = {}]
FinishWithError ==
    /\ Owned(Q)
    /\ query' = [query EXCEPT ![Q.key] = Restarted(Q)]
    /\ Over
    /\ UNCHANGED <<now, visible, bound, ledger, passed, owed>>
TooManyPages ==
    /\ ~Idle /\ page = {} /\ more # None /\ PageLimit(Q)
    /\ FinishWithError
    /\ UNCHANGED <<faults, quiet>>

Fault == faults < MaxFaults /\ faults' = faults + 1 /\ quiet' = now
\* an error reply, an expired cursor, or evidence that is malformed
QueryFails == ~Idle /\ Fault /\ FinishWithError
\* the process stops, or the pass raises before or between its queries
PassLost ==
    /\ ~Idle /\ Fault
    /\ work' = {} /\ page' = None /\ more' = None
    /\ UNCHANGED <<now, visible, bound, ledger, query, passed, owed>>

(***************************************************************************)
(* Around it.                                                              *)
(***************************************************************************)
Tick ==
    /\ now < MaxTime
    /\ \/ Idle /\ passed /\ UNCHANGED <<faults, quiet>>
       \/ ~Idle /\ Fault
    /\ now' = now + 1 /\ passed' = FALSE
    /\ UNCHANGED <<visible, bound, ledger, query, work, page, more, owed>>
Appear ==
    /\ \E e \in DOMAIN Exec \ visible : Exec[e].time <= now /\ visible' = visible \cup {e}
    /\ quiet' = now
    /\ UNCHANGED <<now, bound, ledger, query, work, page, more, passed, faults, owed>>
\* bind_zone_order at enrolment, or recover_entry_bindings
Bind ==
    /\ \E o \in Orders \ bound : bound' = bound \cup {o}
    /\ quiet' = now
    /\ UNCHANGED <<now, visible, ledger, query, work, page, more, passed, faults, owed>>

Next ==
    \/ Prepare \/ ReadPage \/ Record \/ Finish \/ TooManyPages
    \/ QueryFails \/ PassLost \/ Tick \/ Appear \/ Bind
Spec == Init /\ [][Next]_vars

-----------------------------------------------------------------------------
\* A window reported as consumed held nothing that is missing from the ledger:
\* what the exchange listed for bound orders when its first page was read is
\* retained, across page failures and restarts between any two pages
\* (finish_zone_history_query, _record_history_query).
ConsumedIsRecorded ==
    [][\A key \in DOMAIN query :
         query'[key].done # query[key].done => owed[key] \subseteq ledger']_vars

\* An execution that appears late, behind the moving boundary of the recent
\* lane, or whose order is bound late is retained within one sweep of quiet
\* time: no window of the archive is starved by the clock, by the other lanes,
\* by a symbol whose windows cannot be finished, or by earlier failures (_window, prepare_zone_history_queries).
\* A symbol with more executions than the pages a query may read is refused.
Readable(s) == Cardinality({e \in visible : Exec[e].symbol = s}) <= PageSize * PageBudget
Owing == {e \in visible : /\ Exec[e].order \in bound /\ Readable(Exec[e].symbol)
                          /\ Exec[e].time >= QueryFloor(Exec[e].symbol, now)}
SweptInTime == now - quiet > Sweep => Owing \subseteq ledger
=============================================================================
