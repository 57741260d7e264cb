------------------------------- MODULE System -------------------------------
(***************************************************************************)
(* The trading core as one process: coordinator and supervisor behind one  *)
(* account lock, the approver, the exchange, and a process that can die at *)
(* any step and restart through quarantine_interrupted_executions.         *)
(***************************************************************************)
EXTENDS Coordinator, Supervisor

\* The process dies; rows and exchange stay as they are.
Crash ==
    /\ up /\ crashes < MaxCrashes
    /\ up' = FALSE /\ crashes' = crashes + 1
    /\ Reset
    /\ UNCHANGED <<durable, exchange>>

\* quarantine_interrupted_executions: one transaction, before anything trades.
InterruptedSymbols ==
    {ActSymbol[a] : a \in {b \in Actions : act[b] = "EXECUTING"
                                           /\ KindOf[b] # "CANCEL_ENTRIES"}}
Restart ==
    /\ ~up
    /\ up' = TRUE
    /\ intent' = [i \in Intents |->
          IF intent[i] = "EXECUTING" THEN "UNCERTAIN" ELSE intent[i]]
    /\ act' = [a \in Actions |->
          IF act[a] = "EXECUTING" THEN "UNCERTAIN" ELSE act[a]]
    /\ sstatus' = Quarantined(InterruptedSymbols)
    /\ UNCHANGED <<rows, exchange, crashes, locals>>

Approver ==
    \/ \E i \in Intents : SkipIntent(i)
    \/ \E a \in Actions : SkipAction(a)

Handler == ExchangeCall \/ Open \/ Reduce \/ CancelEntries \/ Supervise
Next == Handler \/ Approver \/ Environment \/ Crash \/ Restart

Spec == Init /\ [][Next]_vars

(***************************************************************************)
(* Safety.                                                                 *)
(***************************************************************************)
Exposed(x) == order[x] \in Live \/ x \in held

\* The net position and the resting entries of a symbol never mix lots of two
\* strategies, although strategies in MANUAL_OVERRIDE keep theirs without
\* blocking the owner check and every read of the account is torn
\* (_assert_open_preflight, _prepare_entry_plan_sync, _set_leverage_sync).
OneExposedOwner ==
    \A x, y \in Lots :
        Exposed(x) /\ Exposed(y) /\ SymbolOf[x[1]] = SymbolOf[y[1]]
            => x[1] = y[1]

\* At most one strategy row of a symbol is active, so the supervisor never has
\* to guess an owner (_reconcile_symbol_locked's conflict branch).
OneActiveOwner ==
    \A i, j \in Intents :
        SymbolOf[i] = SymbolOf[j] /\ sstatus[i] \in Active
          /\ sstatus[j] \in Active => i = j

\* A strategy without a row, or CLOSED, has no entry resting on the exchange:
\* nothing can open a position for it later, whatever failed or was cancelled
\* on the way (_execution_failure_outcome, _close_if_flat, _cancel_entries).
ClosedHasNoRestingEntry ==
    \A x \in Lots : order[x] \in Live => sstatus[x[1]] \notin {"none", "CLOSED"}

\* A CLOSE leaves its strategies in CLOSING with nothing exposed, so no later
\* fill can bring the position back: the branch of _handle_closing that waits
\* for a live position is for positions opened outside the program.
ClosingIsFlat ==
    \A x \in Lots : sstatus[x[1]] = "CLOSING" => ~Exposed(x)

\* The coordinator closes a strategy only when nothing of it is exposed: for a
\* proven pre-submit failure and for a withdrawal that saw the account flat,
\* fills between its torn reads included (_execution_failure_outcome,
\* _cancel_entries).
Closes(i) == sstatus[i] # "CLOSED" /\ sstatus'[i] = "CLOSED"
CoordinatorClosesEmpty ==
    [][\A i \in Intents : task \in {"open", "action"} /\ Closes(i)
          => \A x \in Own(i) : ~Exposed(x)]_vars

\* A strategy whose position is live is not CLOSED: "A fill during cancellation
\* keeps the strategy active for reconciliation" (STRATEGY.md, on
\* _handle_missing_position and _close_if_flat).
FillKeepsStrategyActive == \A x \in held : sstatus[x[1]] # "CLOSED"

\* a withdrawal on the symbol that is running or was given up
WithdrawalOpen(i) ==
    \E a \in Actions : /\ KindOf[a] = "CANCEL_ENTRIES" /\ act[a] \in {"EXECUTING", "UNCERTAIN"}
                       /\ ActSymbol[a] = SymbolOf[i]

\* A supervised strategy that is frozen has no entry resting, not even while it
\* waits for a rebalance: nothing can grow the position its exits are sized for
\* (_freeze_entries, _reconcile_after_fixed_exit, complete_position_action).
\* A withdrawal whose outcome is not known is the exception: record_entry_cancellation
\* freezes the row without knowing whether the entries are gone.
FrozenHasNoRestingEntry ==
    \A x \in Lots :
        frozen[x[1]] /\ sstatus[x[1]] \in Managed /\ ~WithdrawalOpen(x[1])
            => order[x] \notin Live

\* A CLOSE or REDUCE is recorded as executed only when no entry of the symbol
\* is left that could rebuild the exposure, although the exchange confirms
\* cancellations late (_cancel_ccb_entry_orders_sync).
LifecycleActionEndsEntries ==
    [][\A a \in Actions :
          KindOf[a] # "CANCEL_ENTRIES" /\ act[a] # "EXECUTED"
          /\ act'[a] = "EXECUTED" => LiveEntries(ActSymbol[a]) = {}]_vars

\* No entry leg is submitted twice, whatever approvals, crashes and recoveries
\* come after its first submission (claim_for_execution).
NeverResubmitted ==
    [][\A x \in Lots : order[x] # "none" /\ order'[x] = "open"
                         => order[x] = "open"]_vars

\* A decided row stays decided: only PENDING and EXECUTING rows move
\* (_transition_pending, record_entry_cancellation, quarantine).
Decided == IntentStatus \ {"PENDING", "EXECUTING"}
DecisionsAreFinal ==
    [][/\ \A i \in Intents : intent[i] \in Decided => intent'[i] = intent[i]
       /\ \A a \in Actions : act[a] \in Decided => act'[a] = act[a]]_vars

\* A quarantined or paused strategy is never taken back into supervision, and
\* it is closed only by a source withdrawal that saw the account flat.
QuarantineHolds ==
    [][\A i \in Intents :
          sstatus[i] \in {"UNCERTAIN", "MANUAL_OVERRIDE"}
          /\ sstatus'[i] # sstatus[i]
            => /\ sstatus'[i] = "CLOSED"
               /\ task = "action" /\ KindOf[job] = "CANCEL_ENTRIES"
               /\ \A x \in Own(i) : order[x] \notin Live]_vars

\* A trailing position is never put back to fixed risk, not by a REDUCE's
\* rebalance and not by an interrupted installation (_handle_rebalance).
TrailingIsKept ==
    [][\A i \in Intents :
          sstatus[i] = "PROFIT_PROTECTED" => sstatus'[i] # "OPEN_RISK"]_vars

\* A CLOSE or REDUCE whose outcome is unknown, because it raised or because the
\* process died in the middle, leaves no strategy of its symbol under automatic
\* management (mark_position_action_uncertain, quarantine).
AmbiguityQuarantines ==
    [][\A a \in Actions :
          KindOf[a] # "CANCEL_ENTRIES" /\ act[a] # "UNCERTAIN"
          /\ act'[a] = "UNCERTAIN"
            => \A i \in Intents : SymbolOf[i] = ActSymbol[a]
                  => sstatus'[i] \notin Managed]_vars

(***************************************************************************)
(* The contract these handlers implement together.                         *)
(***************************************************************************)
\* An UNCERTAIN row still owns its symbol; a paused one belongs to a person.
CustodyOf(status) ==
    CASE status = "none" -> "none"
      [] status \in Active -> "owner"
      [] status = "MANUAL_OVERRIDE" -> "person"
      [] status = "CLOSED" -> "closed"
Contract == INSTANCE Custody WITH
    Strategies <- Intents,
    custody <- [i \in Intents |-> CustodyOf(sstatus[i])],
    used <- {x \in Lots : order[x] # "none"},
    resting <- {x \in Lots : order[x] \in Live},
    holding <- held
\* Three torn reads, late cancellations, lost replies, crashes and a shared lock
\* add up to strategies that take turns on a symbol (module Custody).
KeepsCustody == Contract!Spec

(***************************************************************************)
(* Liveness.  The handler that holds the lock keeps running: every request *)
(* it waits for times out and every wait is a bounded number of rounds.    *)
(***************************************************************************)
HolderStep == task # "none" /\ Handler
FairSpec == Spec /\ WF_vars(HolderStep)

\* No handler keeps the account lock for ever: whatever the exchange does,
\* every path of execute_intent, execute_position_action and reconcile_once
\* ends and the next handler can run.
LockIsReleased == task # "none" ~> task = "none"
=============================================================================
