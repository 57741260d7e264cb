------------------------------ MODULE Account ------------------------------
(***************************************************************************)
(* The state every account mutation of cautious-crypto-bro shares: the     *)
(* durable SQLite rows (intents, position actions, position strategies),   *)
(* the Bybit Demo account (entry orders and the net position of each       *)
(* symbol) and the one asyncio lock that serialises the execution          *)
(* coordinator and the position supervisor, with the locals of whichever   *)
(* handler holds it.                                                       *)
(*                                                                         *)
(* Data abstraction.  A lot <<i, l>> is entry leg l of intent i: an order  *)
(* of its own, and, once filled, a piece of the symbol's net position.     *)
(* Prices and quantities are left out: "size grew or average entry         *)
(* changed" is "the position contains a lot it did not contain before".    *)
(* A leg fills completely or not at all.  Strategy i is the row whose      *)
(* strategy_id is the intent id i.                                         *)
(***************************************************************************)
EXTENDS Naturals, FiniteSets

CONSTANTS
    Intents,        \* OPEN intents
    Actions,        \* position actions (CLOSE, REDUCE, CANCEL_ENTRIES)
    Symbols,
    Legs,           \* entry legs E1, E2, ... of every plan
    Primary,        \* the leg a MARKET plan submits and confirms first
    SymbolOf,       \* [Intents -> Symbols]
    TtlIntents,     \* intents whose plan has an entry TTL (zero disables it)
    MarketIntents,  \* intents whose E1 is a MARKET order (staged execution)
    KindOf,         \* [Actions -> Kinds]
    ActSymbol,      \* [Actions -> Symbols]
    SourceOf,       \* [Actions -> SUBSET Intents]: earlier intents of the
                    \* action's channel, symbol and side
    NoJob,
    MaxPolls,       \* rounds of a bounded confirmation loop
    MaxCrashes      \* bound on process crashes

Kinds == {"CLOSE", "REDUCE", "CANCEL_ENTRIES"}
Lots == Intents \X Legs

ASSUME AccountAssumption ==
    /\ Primary \in Legs
    /\ SymbolOf \in [Intents -> Symbols]
    /\ TtlIntents \subseteq Intents
    /\ MarketIntents \subseteq Intents
    /\ KindOf \in [Actions -> Kinds]
    /\ ActSymbol \in [Actions -> Symbols]
    /\ SourceOf \in [Actions -> SUBSET Intents]
    /\ \A a \in Actions : \A i \in SourceOf[a] : SymbolOf[i] = ActSymbol[a]
    /\ Intents \cap Actions = {}
    /\ NoJob \notin Intents \cup Actions
    /\ MaxPolls \in Nat
    /\ MaxCrashes \in Nat

IntentStatus == {"PENDING", "EXECUTING", "EXECUTED", "FAILED", "SKIPPED",
                 "UNCERTAIN"}

\* Strategy statuses the supervisor acts on, and those that own a symbol.
Managed == {"ENTERING", "OPEN_RISK", "PROFIT_PROTECTED", "CLOSING"}
Active == Managed \cup {"UNCERTAIN"}
StrategyStatus == Active \cup {"none", "CLOSED", "MANUAL_OVERRIDE"}

\* "cancelling": the exchange acknowledged a cancel, which does not prove that
\* the order is gone; it can still fill.
OrderStatus == {"none", "open", "cancelling", "filled", "cancelled"}
Live == {"open", "cancelling"}

VARIABLES
    \* durable rows
    intent,         \* [Intents -> IntentStatus]
    act,            \* [Actions -> IntentStatus]
    sstatus,        \* [Intents -> StrategyStatus], "none": no row
    frozen,         \* entry_frozen
    rebalance,      \* rebalance_needed
    installing,     \* installing_exits
    trailing,       \* trailing_active
    lastSeen,       \* last_position_qty / last_avg_price; {} is NULL
    \* the exchange account and the clock
    order,          \* [Lots -> OrderStatus]
    held,           \* lots in the live net position
    expired,        \* [Intents -> BOOLEAN]: entry TTL has passed
    \* the process
    up, crashes,
    \* the handler that holds the account lock
    task,           \* "none": the lock is free
    job,            \* the intent, action or strategy it works on
    pc,             \* its next step
    cont,           \* where an account read or a cancellation returns
    seenPos,        \* positions of the symbol in its last account read
    seenOrd,        \* live entry orders of the symbol in that read
    sent,           \* cancels acknowledged in this cancellation
    polls,          \* rounds spent in a bounded loop
    cause,          \* the exception being handled
    primaryFilled,
    targets,        \* intents a CANCEL_ENTRIES withdraws
    loaded          \* the strategy row as the supervisor first read it

rows == <<frozen, rebalance, installing, trailing, lastSeen>>
durable == <<intent, act, sstatus, rows>>
exchange == <<order, held, expired>>
process == <<up, crashes>>
locals == <<task, job, pc, cont, seenPos, seenOrd, sent, polls, cause,
            primaryFilled, targets, loaded>>
vars == <<durable, exchange, process, locals>>

NoRow == [frozen |-> FALSE, rebalance |-> FALSE, installing |-> FALSE,
          trailing |-> FALSE, lastSeen |-> {}]
Row(i) == [frozen |-> frozen[i], rebalance |-> rebalance[i],
           installing |-> installing[i], trailing |-> trailing[i],
           lastSeen |-> lastSeen[i]]
Rows == [frozen : BOOLEAN, rebalance : BOOLEAN, installing : BOOLEAN,
         trailing : BOOLEAN, lastSeen : SUBSET Lots]

Tasks == {"none", "open", "action", "supervise"}
Causes == {"none", "preflight", "other"}
Labels == {"idle", "raise", "pos", "ord", "entries", "cancelEntries", "cancel",
           \* OPEN
           "owner", "open1", "open2", "open3", "prepare", "primary", "wait",
           "rebase", "batch", "rollback", "mark",
           \* position actions
           "stale", "exposure", "reread", "reduce", "confirm", "complete",
           "targets", "withdraw", "withdrawCancel", "polled", "final",
           \* supervision
           "decide", "handoff", "live", "flat", "expiredFlat", "expiredLive",
           "fixedExit", "freeze", "expiryFreeze", "rebalance", "trail",
           "install"}

\* Every variable keeps its type, whatever step of whichever handler runs.
TypeOK ==
    /\ intent \in [Intents -> IntentStatus]
    /\ act \in [Actions -> IntentStatus]
    /\ sstatus \in [Intents -> StrategyStatus]
    /\ frozen \in [Intents -> BOOLEAN]
    /\ rebalance \in [Intents -> BOOLEAN]
    /\ installing \in [Intents -> BOOLEAN]
    /\ trailing \in [Intents -> BOOLEAN]
    /\ lastSeen \in [Intents -> SUBSET Lots]
    /\ order \in [Lots -> OrderStatus]
    /\ held \in SUBSET Lots
    /\ expired \in [Intents -> BOOLEAN]
    /\ up \in BOOLEAN
    /\ crashes \in Nat
    /\ task \in Tasks
    /\ job \in Intents \cup Actions \cup {NoJob}
    /\ pc \in Labels
    /\ cont \in Labels
    /\ seenPos \in SUBSET Lots
    /\ seenOrd \in SUBSET Lots
    /\ sent \in SUBSET Lots
    /\ polls \in Nat
    /\ cause \in Causes
    /\ primaryFilled \in BOOLEAN
    /\ targets \in SUBSET Intents
    /\ loaded \in Rows

\* Nothing has been decided on an intent, nothing has traded, the lock is free.
Untraded ==
    /\ intent = [i \in Intents |-> "PENDING"]
    /\ sstatus = [i \in Intents |-> "none"]
    /\ frozen = [i \in Intents |-> FALSE]
    /\ rebalance = [i \in Intents |-> FALSE]
    /\ installing = [i \in Intents |-> FALSE]
    /\ trailing = [i \in Intents |-> FALSE]
    /\ lastSeen = [i \in Intents |-> {}]
    /\ order = [x \in Lots |-> "none"]
    /\ held = {}
    /\ expired = [i \in Intents |-> FALSE]
    /\ up = TRUE /\ crashes = 0
    /\ task = "none" /\ job = NoJob /\ pc = "idle" /\ cont = "idle"
    /\ seenPos = {} /\ seenOrd = {} /\ sent = {} /\ polls = 0
    /\ cause = "none" /\ primaryFilled = FALSE /\ targets = {}
    /\ loaded = NoRow

Init == Untraded /\ act = [a \in Actions |-> "PENDING"]

(***************************************************************************)
(* The lock and the control flow of its holder.                            *)
(***************************************************************************)
JobSymbol == IF task = "action" THEN ActSymbol[job] ELSE SymbolOf[job]

\* Take the free lock for handler t on j and continue at label l (c after it).
Acquire(t, j, l, c) ==
    /\ up /\ task = "none"
    /\ task' = t /\ job' = j /\ pc' = l /\ cont' = c
    /\ UNCHANGED <<seenPos, seenOrd, sent, polls, cause, primaryFilled, targets,
                   process>>

\* Leave the handler: the lock is free and its locals are gone.
Reset ==
    /\ task' = "none" /\ job' = NoJob /\ pc' = "idle" /\ cont' = "idle"
    /\ seenPos' = {} /\ seenOrd' = {} /\ sent' = {} /\ polls' = 0
    /\ cause' = "none" /\ primaryFilled' = FALSE /\ targets' = {}
    /\ loaded' = NoRow
Release == Reset /\ UNCHANGED process

\* The handler keeps the lock; its step has no effect on the named locals.
Holding == UNCHANGED <<task, job, process, targets, loaded>>
Goto(l) ==
    /\ pc' = l
    /\ Holding
    /\ UNCHANGED <<cont, seenPos, seenOrd, sent, polls, cause, primaryFilled>>
\* Read the account afresh, then continue at label l.
ReadThen(l, n) ==
    /\ pc' = "pos" /\ cont' = l /\ polls' = n
    /\ seenPos' = {} /\ seenOrd' = {} /\ sent' = {}
    /\ Holding
    /\ UNCHANGED <<cause, primaryFilled>>
\* Cancel the entries of S one by one, read the account, continue at label l.
CancelThen(S, l) ==
    /\ pc' = "cancel" /\ cont' = l /\ seenOrd' = S /\ sent' = {}
    /\ Holding
    /\ UNCHANGED <<seenPos, polls, cause, primaryFilled>>
\* Cancel every entry of the symbol until none is listed, then the same.
CancelEntriesThen(l) ==
    /\ pc' = "entries" /\ cont' = l /\ polls' = 0
    /\ seenPos' = {} /\ seenOrd' = {} /\ sent' = {}
    /\ Holding
    /\ UNCHANGED <<cause, primaryFilled>>
Raise(c) ==
    /\ pc' = "raise" /\ cause' = c
    /\ Holding
    /\ UNCHANGED <<cont, seenPos, seenOrd, sent, polls, primaryFilled>>

(***************************************************************************)
(* Reads and cancellations of the exchange, as handlers use them.          *)
(***************************************************************************)
Position(s) == {x \in held : SymbolOf[x[1]] = s}
LiveEntries(s) == {x \in Lots : order[x] \in Live /\ SymbolOf[x[1]] = s}
Own(i) == {x \in Lots : x[1] = i}

\* account_state, _exposure_sync and _prepare_entry_plan_sync list positions
\* first and orders in a second request: a fill or a stop can fall between.
ReadPositions ==
    /\ pc = "pos"
    /\ seenPos' = Position(JobSymbol)
    /\ pc' = "ord"
    /\ Holding
    /\ UNCHANGED <<cont, seenOrd, sent, polls, cause, primaryFilled,
                   durable, exchange>>
ReadOrders ==
    /\ pc = "ord"
    /\ seenOrd' = LiveEntries(JobSymbol)
    /\ pc' = cont
    /\ Holding
    /\ UNCHANGED <<cont, seenPos, sent, polls, cause, primaryFilled,
                   durable, exchange>>
\* Only the revalidation inside execute wraps its errors as a preflight error.
ReadRaises ==
    /\ pc \in {"pos", "ord"}
    /\ Raise(IF cont = "open3" THEN "preflight" ELSE "other")
    /\ UNCHANGED <<durable, exchange>>

\* _cancel_ccb_entry_orders_sync lists the pending entries of the symbol.
ListEntries ==
    /\ pc = "entries"
    /\ seenOrd' = LiveEntries(JobSymbol)
    /\ pc' = "cancelEntries"
    /\ Holding
    /\ UNCHANGED <<cont, seenPos, sent, polls, cause, primaryFilled,
                   durable, exchange>>
\* One cancel request.  The acknowledgement leaves the order cancelling.
CancelOne(x) ==
    /\ pc \in {"cancel", "cancelEntries"}
    /\ x \in seenOrd \ sent
    /\ order[x] \in Live
    /\ order' = [order EXCEPT ![x] = "cancelling"]
    /\ sent' = sent \cup {x}
    /\ pc' = pc
    /\ Holding
    /\ UNCHANGED <<cont, seenPos, seenOrd, polls, cause, primaryFilled,
                   durable, held, expired>>
\* The request is refused (the order filled or is gone) or its reply is lost.
CancelRaises ==
    /\ pc \in {"cancel", "cancelEntries"}
    /\ seenOrd \ sent # {}
    /\ Raise("other")
    /\ UNCHANGED <<durable, exchange>>
CancelledAll ==
    /\ pc = "cancel"
    /\ seenOrd \subseteq sent
    /\ ReadThen(cont, polls)
    /\ UNCHANGED <<durable, exchange>>
\* Mutant: take the acknowledgements for the end of the orders.
EntriesGoneOnAck ==
    /\ pc = "cancelEntries"
    /\ seenOrd \subseteq sent
    /\ ReadThen(cont, 0)
    /\ UNCHANGED <<durable, exchange>>
EntriesGone ==
    /\ pc = "cancelEntries"
    /\ seenOrd = {}
    /\ ReadThen(cont, 0)
    /\ UNCHANGED <<durable, exchange>>
\* Mutant: the loop forgets to count its rounds.
EntriesListForever ==
    /\ pc = "cancelEntries"
    /\ seenOrd # {} /\ seenOrd \subseteq sent
    /\ pc' = "entries"
    /\ Holding
    /\ UNCHANGED <<cont, seenPos, seenOrd, sent, polls, cause, primaryFilled,
                   durable, exchange>>
EntriesListAgain ==
    /\ pc = "cancelEntries"
    /\ seenOrd # {} /\ seenOrd \subseteq sent
    /\ polls < MaxPolls
    /\ pc' = "entries" /\ polls' = polls + 1
    /\ Holding
    /\ UNCHANGED <<cont, seenPos, seenOrd, sent, cause, primaryFilled,
                   durable, exchange>>
EntriesStillActive ==
    /\ pc = "cancelEntries"
    /\ seenOrd # {} /\ seenOrd \subseteq sent
    /\ polls >= MaxPolls
    /\ Raise("other")
    /\ UNCHANGED <<durable, exchange>>

ExchangeCall ==
    \/ ReadPositions \/ ReadOrders \/ ReadRaises \/ ListEntries
    \/ \E x \in Lots : CancelOne(x)
    \/ CancelRaises \/ CancelledAll
    \/ EntriesGone \/ EntriesListAgain \/ EntriesStillActive

(***************************************************************************)
(* The exchange and the clock, running beside the process.                 *)
(***************************************************************************)
FillEntry(x) ==
    /\ order[x] \in Live
    /\ order' = [order EXCEPT ![x] = "filled"]
    /\ held' = held \cup {x}
    /\ UNCHANGED <<expired, durable, process, locals>>
\* A cancel takes effect, an IOC remainder lapses, the venue drops an order.
OrderEnds(x) ==
    /\ order[x] \in Live
    /\ order' = [order EXCEPT ![x] = "cancelled"]
    /\ UNCHANGED <<held, expired, durable, process, locals>>
\* A fixed exit or an attached partial stop executes.
ExitFills(x) ==
    /\ x \in held
    /\ held' = held \ {x}
    /\ UNCHANGED <<order, expired, durable, process, locals>>
\* The position stop executes.
StopOut(s) ==
    /\ Position(s) # {}
    /\ held' = held \ Position(s)
    /\ UNCHANGED <<order, expired, durable, process, locals>>
TtlPasses(i) ==
    /\ i \in TtlIntents
    /\ sstatus[i] \in Managed /\ ~expired[i]
    /\ expired' = [expired EXCEPT ![i] = TRUE]
    /\ UNCHANGED <<order, held, durable, process, locals>>

Environment ==
    \/ \E x \in Lots : FillEntry(x) \/ OrderEnds(x) \/ ExitFills(x)
    \/ \E s \in Symbols : StopOut(s)
    \/ \E i \in Intents : TtlPasses(i)
=============================================================================
