---------------------------- MODULE Coordinator ----------------------------
(***************************************************************************)
(* ExecutionCoordinator: execute_intent and execute_position_action, with  *)
(* the Bybit executor calls they make.  A handler takes the account lock,  *)
(* claims its row, and is cut at every point where another actor can move: *)
(* each exchange request and each committed transaction is one action.     *)
(* pc = "raise" is an exception on its way to the handler's except block.  *)
(***************************************************************************)
EXTENDS Account

Opening(l) == task = "open" /\ pc = l
Acting(l) == task = "action" /\ pc = l

(***************************************************************************)
(* The approver.  Skip buttons and claims race: neither holds the lock     *)
(* while the other commits, both are one conditional UPDATE on PENDING.    *)
(***************************************************************************)
SkipIntent(i) ==
    /\ up
    /\ intent[i] = "PENDING"
    /\ intent' = [intent EXCEPT ![i] = "SKIPPED"]
    /\ UNCHANGED <<act, sstatus, rows, exchange, process, locals>>
SkipAction(a) ==
    /\ up
    /\ act[a] = "PENDING"
    /\ act' = [act EXCEPT ![a] = "SKIPPED"]
    /\ UNCHANGED <<intent, sstatus, rows, exchange, process, locals>>

(***************************************************************************)
(* OPEN.                                                                   *)
(***************************************************************************)
\* A duplicate approval, a retried recovery or a skipped card finds a status
\* other than PENDING and returns without effect.
ClaimIntent(i) ==
    /\ intent[i] = "PENDING"
    /\ Acquire("open", i, "owner", "idle")
    /\ intent' = [intent EXCEPT ![i] = "EXECUTING"]
    /\ UNCHANGED <<loaded, act, sstatus, rows, exchange>>

SymbolOwned(s) ==
    \E j \in Intents : SymbolOf[j] = s /\ sstatus[j] \in Active

\* _assert_open_preflight: an active strategy on the symbol refuses the entry.
CheckOwner ==
    /\ Opening("owner")
    /\ IF SymbolOwned(SymbolOf[job]) THEN Raise("preflight")
                                     ELSE ReadThen("open1", 0)
    /\ UNCHANGED <<durable, exchange>>

\* Mutant: resting entries are not exposure.
NoPositionSnapshot == seenPos = {}
FlatSnapshot == seenPos = {} /\ seenOrd = {}

\* The account read of the preflight shows neither position nor entry order.
PreflightFlat ==
    /\ Opening("open1")
    /\ FlatSnapshot
    /\ ReadThen("open2", 0)
    /\ UNCHANGED <<durable, exchange>>
\* Exposure, the portfolio risk cap or the AUTO safety check refuses it; so
\* does prepare_entry_plan, which reads the symbol once more.
PreflightRefuses ==
    /\ Opening("open1") \/ Opening("open2")
    /\ Raise("preflight")
    /\ UNCHANGED <<durable, exchange>>
\* prepare_entry_plan found the symbol flat: INSERT OR IGNORE the strategy.
CreateStrategy ==
    /\ Opening("open2")
    /\ FlatSnapshot
    /\ sstatus' = [sstatus EXCEPT
                     ![job] = IF @ = "none" THEN "ENTERING" ELSE @]
    /\ Goto("prepare")
    /\ UNCHANGED <<intent, act, rows, exchange>>
\* Zone registration, and for a MARKET plan the refresh of its primary leg.
Prepare ==
    /\ Opening("prepare")
    /\ ReadThen("open3", 0)
    /\ UNCHANGED <<durable, exchange>>
PrepareRaises(c) ==
    /\ Opening("prepare")
    /\ c = "other" \/ (c = "preflight" /\ job \in MarketIntents)
    /\ Raise(c)
    /\ UNCHANGED <<durable, exchange>>
\* _set_leverage_sync prepares again from a third read, then sets leverage.
Revalidate ==
    /\ Opening("open3")
    /\ FlatSnapshot
    /\ Goto(IF job \in MarketIntents THEN "primary" ELSE "batch")
    /\ UNCHANGED <<durable, exchange>>
RevalidateRaises ==
    /\ Opening("open3")
    /\ Raise("preflight")
    /\ UNCHANGED <<durable, exchange>>

\* order/create of the MARKET primary: accepted, accepted with a lost reply,
\* or refused.
SubmitPrimary(accepted, acked) ==
    /\ Opening("primary")
    /\ acked => accepted
    /\ order' = IF accepted THEN [order EXCEPT ![<<job, Primary>>] = "open"]
                            ELSE order
    /\ IF acked THEN Goto("wait") ELSE Raise("other")
    /\ UNCHANGED <<durable, held, expired>>
PrimaryFills ==
    /\ Opening("wait")
    /\ order[<<job, Primary>>] = "filled"
    /\ primaryFilled' = TRUE
    /\ pc' = "rebase"
    /\ Holding
    /\ UNCHANGED <<cont, seenPos, seenOrd, sent, polls, cause, durable,
                   exchange>>
\* It ended without a fill, or the bounded wait for the fill ran out.
PrimaryUnconfirmed ==
    /\ Opening("wait")
    /\ Raise("other")
    /\ UNCHANGED <<durable, exchange>>
\* Rebase on the fill, allocate and persist E2/E3.  Allocation can raise the
\* very same preflight error, now with a live position.
Rebase ==
    /\ Opening("rebase")
    /\ Goto("batch")
    /\ UNCHANGED <<durable, exchange>>
RebaseRaises(c) ==
    /\ Opening("rebase")
    /\ c \in {"preflight", "other"}
    /\ Raise(c)
    /\ UNCHANGED <<durable, exchange>>

BatchLegs == IF job \in MarketIntents THEN Legs \ {Primary} ELSE Legs
\* create-batch: any subset may be accepted, and a full acceptance may still
\* lose its acknowledgement.
SubmitBatch(accepted, acked) ==
    /\ Opening("batch")
    /\ accepted \subseteq BatchLegs
    /\ acked => accepted = BatchLegs
    /\ order' = [x \in Lots |-> IF x[1] = job /\ x[2] \in accepted
                                  THEN "open" ELSE order[x]]
    /\ Goto(IF acked THEN "mark" ELSE "rollback")
    /\ UNCHANGED <<durable, held, expired>>
\* cancel_batch_best_effort: whatever it reaches; its own failure is logged.
Rollback(reached) ==
    /\ Opening("rollback")
    /\ reached \subseteq {x \in Own(job) : x[2] \in BatchLegs /\ order[x] \in Live}
    /\ order' = [x \in Lots |-> IF x \in reached THEN "cancelling" ELSE order[x]]
    /\ Raise("other")
    /\ UNCHANGED <<durable, held, expired>>

MarkExecuted ==
    /\ Opening("mark")
    /\ intent' = [intent EXCEPT ![job] = "EXECUTED"]
    /\ Release
    /\ UNCHANGED <<act, sstatus, rows, exchange>>
MarkExecutedRaises ==
    /\ Opening("mark")
    /\ Raise("other")
    /\ UNCHANGED <<durable, exchange>>

\* Mutant: every preflight error closes the strategy.
FailureStatusByCause == IF cause = "preflight" THEN "CLOSED" ELSE "UNCERTAIN"
\* _execution_failure_outcome: CLOSED only for a proven pre-submit failure.
FailureStatus ==
    IF cause = "preflight" /\ ~primaryFilled THEN "CLOSED" ELSE "UNCERTAIN"
RecordEntryFailure ==
    /\ Opening("raise")
    /\ intent[job] = "EXECUTING"
    /\ intent' = [intent EXCEPT ![job] = "FAILED"]
    /\ sstatus' = [sstatus EXCEPT
                     ![job] = IF @ = "none" THEN @ ELSE FailureStatus]
    /\ Release
    /\ UNCHANGED <<act, rows, exchange>>
\* A store call outside the try block, or the write that records the outcome,
\* fails: the exception leaves the handler and the claimed row stays EXECUTING.
HandlerAborts ==
    /\ \/ Opening("owner") \/ Opening("raise")
       \/ Acting("stale") \/ Acting("targets") \/ Acting("raise")
    /\ Release
    /\ UNCHANGED <<durable, exchange>>

Open ==
    \/ \E i \in Intents : ClaimIntent(i)
    \/ CheckOwner \/ PreflightFlat \/ PreflightRefuses \/ CreateStrategy
    \/ Prepare \/ Revalidate \/ RevalidateRaises
    \/ \E c \in Causes : PrepareRaises(c) \/ RebaseRaises(c)
    \/ \E accepted, acked \in BOOLEAN : SubmitPrimary(accepted, acked)
    \/ PrimaryFills \/ PrimaryUnconfirmed \/ Rebase
    \/ \E accepted \in SUBSET Legs, acked \in BOOLEAN :
          SubmitBatch(accepted, acked)
    \/ \E reached \in SUBSET Lots : Rollback(reached)
    \/ MarkExecuted \/ MarkExecutedRaises
    \/ RecordEntryFailure \/ HandlerAborts

(***************************************************************************)
(* CLOSE and REDUCE.                                                       *)
(***************************************************************************)
ClaimAction(a, tooOld) ==
    /\ act[a] = "PENDING"
    /\ Acquire("action", a,
               IF tooOld THEN "stale"
               ELSE IF KindOf[a] = "CANCEL_ENTRIES" THEN "targets"
               ELSE "exposure", "idle")
    /\ act' = [act EXCEPT ![a] = "EXECUTING"]
    /\ UNCHANGED <<loaded, intent, sstatus, rows, exchange>>
StaleFails ==
    /\ Acting("stale")
    /\ act' = [act EXCEPT ![job] = "FAILED"]
    /\ Release
    /\ UNCHANGED <<intent, sstatus, rows, exchange>>

\* The validating read: the only place a typed preflight error comes from.
ValidateExposure ==
    /\ Acting("exposure")
    /\ Position(ActSymbol[job]) # {}
    /\ CancelEntriesThen("reread")
    /\ UNCHANGED <<durable, exchange>>
ValidateRaises ==
    /\ Acting("exposure")
    /\ Raise("preflight")
    /\ UNCHANGED <<durable, exchange>>
\* Entries and fixed exits are gone; the position is resolved again.
Reread ==
    /\ Acting("reread")
    /\ IF seenPos = {} THEN Raise("other") ELSE Goto("reduce")
    /\ UNCHANGED <<durable, exchange>>
RereadRaises ==
    /\ Acting("reread")
    /\ Raise("other")
    /\ UNCHANGED <<durable, exchange>>

\* A reduce-only market order for R: all of it for CLOSE; for REDUCE a part
\* computed from the position read, which rounding may refuse.
Reduction(R) ==
    /\ R \subseteq Position(ActSymbol[job]) /\ R # {}
    /\ KindOf[job] = "CLOSE" => R = Position(ActSymbol[job])
    /\ KindOf[job] = "REDUCE" => R # seenPos
SubmitReduction(R) ==
    /\ Acting("reduce")
    /\ Reduction(R)
    /\ held' = held \ R
    /\ pc' = "confirm"
    /\ seenPos' = seenPos \ R
    /\ Holding
    /\ UNCHANGED <<cont, seenOrd, sent, polls, cause, primaryFilled, durable,
                   order, expired>>
\* Accepted, but the reply was lost.
SubmitReductionUnknown(R) ==
    /\ Acting("reduce")
    /\ Reduction(R)
    /\ held' = held \ R
    /\ Raise("other")
    /\ UNCHANGED <<durable, order, expired>>
SubmitReductionRefused ==
    /\ Acting("reduce")
    /\ Raise("other")
    /\ UNCHANGED <<durable, exchange>>

\* _confirm_position_action: the order filled and the position followed.
Confirm ==
    /\ Acting("confirm")
    /\ LET now == Position(ActSymbol[job]) IN
         IF KindOf[job] = "CLOSE" THEN now = {}
                                  ELSE now # {} /\ now \subseteq seenPos
    /\ Goto("complete")
    /\ UNCHANGED <<durable, exchange>>
\* Polls ran out, a read failed, or REDUCE found the position closed.
ConfirmRaises ==
    /\ Acting("confirm")
    /\ Raise("other")
    /\ UNCHANGED <<durable, exchange>>

ClosingStrategies(s) ==
    {i \in Intents : SymbolOf[i] = s /\ sstatus[i] \in Managed}
\* complete_position_action: action row and strategies in one transaction.
CompleteClose ==
    /\ Acting("complete") /\ KindOf[job] = "CLOSE"
    /\ act' = [act EXCEPT ![job] = "EXECUTED"]
    /\ LET S == ClosingStrategies(ActSymbol[job]) IN
         /\ sstatus' = [i \in Intents |-> IF i \in S THEN "CLOSING" ELSE sstatus[i]]
         /\ frozen' = [i \in Intents |-> i \in S \/ frozen[i]]
         /\ rebalance' = [i \in Intents |-> i \notin S /\ rebalance[i]]
    /\ Release
    /\ UNCHANGED <<intent, installing, trailing, lastSeen, exchange>>
CompleteReduce ==
    /\ Acting("complete") /\ KindOf[job] = "REDUCE"
    /\ act' = [act EXCEPT ![job] = "EXECUTED"]
    /\ LET S == {i \in Intents : SymbolOf[i] = ActSymbol[job]
                                 /\ sstatus[i] \in Active} IN
         /\ frozen' = [i \in Intents |-> i \in S \/ frozen[i]]
         /\ rebalance' = [i \in Intents |-> i \in S \/ rebalance[i]]
    /\ Release
    /\ UNCHANGED <<intent, sstatus, installing, trailing, lastSeen, exchange>>
CompleteRaises ==
    /\ Acting("complete")
    /\ Raise("other")
    /\ UNCHANGED <<durable, exchange>>

\* Mutant: only strategies that already protect profit are quarantined.
QuarantinedProfit(S) ==
    [i \in Intents |-> IF SymbolOf[i] \in S /\ sstatus[i] = "PROFIT_PROTECTED"
                         THEN "UNCERTAIN" ELSE sstatus[i]]
\* Ambiguous execution: the action and the symbol's managed strategies.
Quarantined(S) ==
    [i \in Intents |-> IF SymbolOf[i] \in S /\ sstatus[i] \in Managed
                         THEN "UNCERTAIN" ELSE sstatus[i]]
ActionFails ==
    /\ Acting("raise") /\ KindOf[job] # "CANCEL_ENTRIES"
    /\ act' = [act EXCEPT
                 ![job] = IF cause = "preflight" THEN "FAILED" ELSE "UNCERTAIN"]
    /\ sstatus' = IF cause = "preflight" THEN sstatus
                                         ELSE Quarantined({ActSymbol[job]})
    /\ Release
    /\ UNCHANGED <<intent, rows, exchange>>

Reduce ==
    \/ \E a \in Actions, tooOld \in BOOLEAN : ClaimAction(a, tooOld)
    \/ StaleFails \/ ValidateExposure \/ ValidateRaises
    \/ Reread \/ RereadRaises
    \/ \E R \in SUBSET Lots : SubmitReduction(R) \/ SubmitReductionUnknown(R)
    \/ SubmitReductionRefused \/ Confirm \/ ConfirmRaises
    \/ CompleteClose \/ CompleteReduce \/ CompleteRaises \/ ActionFails

(***************************************************************************)
(* CANCEL_ENTRIES: the source withdraws its own earlier entries.           *)
(***************************************************************************)
EntryCancellationTargets(a) == {i \in SourceOf[a] : intent[i] # "SKIPPED"}
ResolveTargets ==
    /\ Acting("targets")
    /\ EntryCancellationTargets(job) # {}
    /\ targets' = EntryCancellationTargets(job)
    /\ pc' = "withdraw"
    /\ UNCHANGED <<task, job, cont, seenPos, seenOrd, sent, polls, cause,
                   primaryFilled, loaded, process, durable, exchange>>
NoTargets ==
    /\ Acting("targets")
    /\ EntryCancellationTargets(job) = {}
    /\ act' = [act EXCEPT ![job] = "FAILED"]
    /\ Release
    /\ UNCHANGED <<intent, sstatus, rows, exchange>>

WithdrawnIntents ==
    {i \in targets : intent[i] \in {"PENDING", "EXECUTING"}}
\* record_entry_cancellation, the part every call commits.
WithdrawRows(closing) ==
    /\ intent' = [i \in Intents |->
          IF i \in WithdrawnIntents THEN "SKIPPED" ELSE intent[i]]
    /\ frozen' = [i \in Intents |->
          (i \in targets /\ sstatus[i] \notin {"none", "CLOSED"}) \/ frozen[i]]
    /\ rebalance' = [i \in Intents |->
          IF i \in targets /\ sstatus[i] # "none"
            THEN ~closing /\ (sstatus[i] # "CLOSED" \/ rebalance[i])
            ELSE rebalance[i]]
    /\ sstatus' = [i \in Intents |->
          IF closing /\ i \in targets /\ sstatus[i] # "none"
            THEN "CLOSED" ELSE sstatus[i]]
    /\ UNCHANGED <<installing, trailing, lastSeen, exchange>>
Withdraw ==
    /\ Acting("withdraw")
    /\ WithdrawRows(FALSE)
    /\ ReadThen("withdrawCancel", 0)
    /\ UNCHANGED act
WithdrawRaises ==
    /\ Acting("withdraw")
    /\ Raise("other")
    /\ UNCHANGED <<durable, exchange>>

OwnedByTargets == {x \in seenOrd : x[1] \in targets}
WithdrawCancel ==
    /\ Acting("withdrawCancel")
    /\ CancelThen(OwnedByTargets, "polled")
    /\ UNCHANGED <<durable, exchange>>
\* Poll until no owned entry is listed, then read once more: the position of
\* the last read is then newer than every fill.
WithdrawPolled ==
    /\ Acting("polled")
    /\ IF OwnedByTargets = {} THEN ReadThen("final", 0)
       ELSE IF polls < MaxPolls THEN ReadThen("polled", polls + 1)
       ELSE Raise("other")
    /\ UNCHANGED <<durable, exchange>>
\* An entry absent from the previous read does not reappear, so the code's
\* second check for one cannot fail and has no action of its own.
WithdrawCompletes ==
    /\ Acting("final")
    /\ OwnedByTargets = {}
    /\ WithdrawRows(seenPos = {})
    /\ act' = [act EXCEPT ![job] = "EXECUTED"]
    /\ Release
WithdrawFails ==
    /\ Acting("raise") /\ KindOf[job] = "CANCEL_ENTRIES"
    /\ WithdrawRows(FALSE)
    /\ act' = [act EXCEPT ![job] = "UNCERTAIN"]
    /\ Release

CancelEntries ==
    \/ ResolveTargets \/ NoTargets \/ Withdraw \/ WithdrawRaises
    \/ WithdrawCancel \/ WithdrawPolled \/ WithdrawCompletes \/ WithdrawFails
=============================================================================
