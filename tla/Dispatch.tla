------------------------------ MODULE Dispatch ------------------------------
(***************************************************************************)
(* What becomes of a committed batch of intents and position actions:      *)
(* dispatch by on_message, the startup recovery of AUTO rows, the recovery *)
(* loop (transferred candidates, planning candidates, manual cards, AUTO   *)
(* notices), the approver's buttons, crashes and restarts.                 *)
(*                                                                         *)
(* The coordinator is here what its callers see of it (System has the      *)
(* rest): under one lock it claims a PENDING row of the expected mode and  *)
(* later records an outcome, or raises.  Task numbers serve as delivery    *)
(* tokens: a task holds one delivery at a time and each claim replaces the *)
(* token.                                                                  *)
(***************************************************************************)
EXTENDS Integers, FiniteSets

CONSTANTS
    Opens,        \* intents planned with the batch
    Actions,      \* position actions of the batch
    Candidates,   \* intents whose planning has to be retried
    Withdrawals,  \* the CANCEL_ENTRIES among the actions
    MaxFaults,    \* bound on failures, cancellations and crashes
    None

Records == Opens \cup Actions \cup Candidates
Intents == Opens \cup Candidates

ASSUME DispatchAssumption ==
    /\ Opens \cap Actions = {} /\ Candidates \cap (Opens \cup Actions) = {}
    /\ Withdrawals \subseteq Actions
    /\ MaxFaults \in Nat /\ None \notin Records

VARIABLES
    status, mode,  \* columns of intents and position_actions
    lapsed,        \* actions SKIPPED as expired or for contract review
    queue,         \* manual_deliveries: due, held (retry_after ahead), done
    token,         \* manual_deliveries.claim_token
    cand,          \* planning_candidates.status
    orig,          \* approval_mode in the candidate's payload
    leased,        \* candidates with retry_after ahead
    aged,          \* past INTENT_MAX_AGE_SECONDS or the candidate's deadline
    told,          \* what Telegram was sent about a record
    approved,      \* records whose Execute button was pressed
    running,       \* the record the coordinator is executing
    stage, rec, res, todo,  \* per task: step, record, result, records to go
    phase,         \* of startup and of run_delivery_recovery
    autoMode,      \* AUTO_APPROVAL_MODE
    faults

rows == <<status, mode, lapsed>>
deliveries == <<queue, token, told>>
candidates == <<cand, orig, leased>>
tasks == <<stage, rec, res, todo>>
process == <<phase, autoMode>>
vars == <<rows, deliveries, candidates, aged, approved, running, tasks, process,
          faults>>

Batch == "batch"
Loop == "loop"
Tasks == {Batch, Loop}
Terminal == {"EXECUTED", "FAILED", "UNCERTAIN", "SKIPPED"}
Status == {"none", "PENDING", "EXECUTING"} \cup Terminal
Modes == {"MANUAL", "AUTO", "SKIPPED"}
CandidateStatus == {"none", "PENDING", "TRANSFERRED", "REJECTED", "EXPIRED"}
Startup == {"reconcile", "recover", "protect"}
Recovery ==
    {"transferred", "candidates", "expiring", "planning", "manual", "auto"}
Steps == {"next", "call", "exec", "claim", "prepare", "send", "finish"}
Notices == Terminal \cup {"card", "lapsed"}
Results == Status \cup {"card", "lapsed", "recorded", "sent", "unsent"}

TypeOK ==
    /\ status \in [Records -> Status] /\ mode \in [Records -> Modes]
    /\ lapsed \subseteq Actions
    /\ queue \in [Records -> {"none", "due", "held", "done"}]
    /\ token \in [Records -> Tasks \cup {None}]
    /\ told \in [Records -> SUBSET Notices]
    /\ cand \in [Candidates -> CandidateStatus]
    /\ orig \in [Candidates -> {"MANUAL", "AUTO"}]
    /\ leased \subseteq Candidates /\ aged \subseteq Records
    /\ approved \subseteq Records /\ running \in Records \cup {None}
    /\ stage \in [Tasks -> Steps]
    /\ rec \in [Tasks -> Records \cup {None}] /\ res \in [Tasks -> Results]
    /\ todo \in [Tasks -> SUBSET Records]
    /\ phase \in Startup \cup Recovery \cup {"down"}
    /\ autoMode \in {"disabled", "open_only", "all"}
    /\ faults \in 0..MaxFaults
    /\ \A r \in Records : running = r => status[r] = "EXECUTING"
    /\ \A r \in Records : (queue[r] = "none") = (status[r] = "none" \/ mode[r] = "SKIPPED")
    /\ \A c \in Candidates : (status[c] # "none") = (cand[c] = "TRANSFERRED")

Init ==
    /\ status = [r \in Records |-> "none"] /\ mode = [r \in Records |-> "MANUAL"]
    /\ lapsed = {}
    /\ queue = [r \in Records |-> "none"] /\ token = [r \in Records |-> None]
    /\ told = [r \in Records |-> {}]
    /\ cand = [c \in Candidates |-> "none"]
    /\ orig = [c \in Candidates |-> "MANUAL"]
    /\ leased = {} /\ aged = {} /\ approved = {} /\ running = None
    /\ stage = [t \in Tasks |-> "next"] /\ rec = [t \in Tasks |-> None]
    /\ res = [t \in Tasks |-> "none"] /\ todo = [t \in Tasks |-> {}]
    /\ phase = "transferred" /\ autoMode \in {"disabled", "open_only", "all"}
    /\ faults = 0

Fault == faults < MaxFaults /\ faults' = faults + 1
NoFault == UNCHANGED faults
\* Ingestion and the approver's callbacks wait for the end of the startup.
Open == phase \in Recovery
AutoAllowed(r) == autoMode = "all" \/ (r \in Intents /\ autoMode = "open_only")

At(t, s) == stage[t] = s
\* Task t goes to a step with a record and a result.
To(t, s, r, result) ==
    /\ stage' = [stage EXCEPT ![t] = s]
    /\ rec' = [rec EXCEPT ![t] = r]
    /\ res' = [res EXCEPT ![t] = result]
Stay == UNCHANGED <<stage, rec, res>>
SetStatus(r, s) == status' = [status EXCEPT ![r] = s] /\ UNCHANGED <<mode, lapsed>>

(***************************************************************************)
(* The batch transaction, create_signal_batch_and_complete_source.         *)
(***************************************************************************)
CommitBatch ==
    /\ Open /\ \A r \in Records : status[r] = "none"
    /\ \A c \in Candidates : cand[c] = "none"
    /\ \E m \in [Opens \cup Actions -> Modes], review \in SUBSET Actions,
          auto \in SUBSET Candidates :
         /\ \A r \in Opens : m[r] # "MANUAL" => AutoAllowed(r)
         /\ \A r \in Actions : m[r] = "AUTO" => AutoAllowed(r)
         /\ \A r \in Withdrawals : m[r] # "SKIPPED"
         /\ \A r \in review : m[r] = "MANUAL" /\ r \notin Withdrawals
         /\ auto # {} => autoMode # "disabled"
         /\ mode' = [r \in Records |-> IF r \in Candidates THEN mode[r] ELSE m[r]]
         /\ status' = [r \in Records |->
                IF r \in Candidates THEN "none"
                ELSE IF r \in review \/ (r \in Opens /\ m[r] = "SKIPPED") THEN "SKIPPED"
                ELSE "PENDING"]
         /\ lapsed' = review
         /\ queue' = [r \in Records |->
                IF r \notin Candidates /\ m[r] # "SKIPPED" THEN "due" ELSE "none"]
         /\ orig' = [c \in Candidates |-> IF c \in auto THEN "AUTO" ELSE "MANUAL"]
    /\ cand' = [c \in Candidates |-> IF c \in aged THEN "EXPIRED" ELSE "PENDING"]
    /\ todo' = [todo EXCEPT ![Batch] = Opens \cup Actions]
    /\ NoFault /\ Stay
    /\ UNCHANGED <<token, told, leased, aged, approved, running, process>>

(***************************************************************************)
(* The coordinator: execute_intent and execute_position_action.            *)
(***************************************************************************)
\* _transition_pending with the expected approval mode.
ClaimableFor(r, m) == status[r] = "PENDING" /\ mode[r] = m
\* A withdrawal's first commit after its claim skips waiting entries.
Claimed(r) ==
    /\ running' = r
    /\ \E skipped \in SUBSET {i \in Intents : status[i] = "PENDING"} :
         /\ r \notin Withdrawals => skipped = {}
         /\ status' = [q \in Records |-> IF q = r THEN "EXECUTING"
                         ELSE IF q \in skipped THEN "SKIPPED" ELSE status[q]]
    /\ UNCHANGED <<mode, lapsed>>
Stale(r) == r \in Actions /\ r \in aged

CallClaims(t) ==
    /\ At(t, "call") /\ running = None
    /\ ClaimableFor(rec[t], "AUTO") /\ ~Stale(rec[t])
    /\ Claimed(rec[t])
    /\ To(t, "exec", rec[t], "none")
    /\ NoFault
    /\ UNCHANGED <<deliveries, candidates, aged, approved, todo, process>>
\* An old action is claimed only to be failed.
CallStale(t) ==
    /\ At(t, "call") /\ running = None
    /\ ClaimableFor(rec[t], "AUTO") /\ Stale(rec[t])
    /\ SetStatus(rec[t], "FAILED")
    /\ To(t, "claim", rec[t], "FAILED")
    /\ NoFault
    /\ UNCHANGED <<deliveries, candidates, aged, approved, running, todo, process>>
\* Handled before: the caller is told the recorded status; auto_outcome ignores
\* one that is not terminal.
CallRefused(t) ==
    /\ At(t, "call") /\ running = None
    /\ ~ClaimableFor(rec[t], "AUTO")
    /\ IF status[rec[t]] \in Terminal THEN To(t, "claim", rec[t], status[rec[t]])
                                      ELSE To(t, "next", None, "none")
    /\ NoFault
    /\ UNCHANGED <<rows, deliveries, candidates, aged, approved, running, todo,
                   process>>
\* The outcome is recorded and returned to whoever still waits for it.
Outcome ==
    /\ running # None /\ phase # "down"
    /\ \E s \in {"EXECUTED", "FAILED", "UNCERTAIN"} :
         /\ s = "UNCERTAIN" => running \in Actions
         /\ SetStatus(running, s)
         /\ stage' = [t \in Tasks |->
                IF At(t, "exec") /\ rec[t] = running THEN "claim" ELSE stage[t]]
         /\ res' = [t \in Tasks |->
                IF At(t, "exec") /\ rec[t] = running THEN s ELSE res[t]]
    /\ running' = None
    /\ NoFault
    /\ UNCHANGED <<deliveries, candidates, aged, approved, rec, todo, process>>

(***************************************************************************)
(* The lists a pass of run_delivery_recovery reads on entering a phase.    *)
(***************************************************************************)
Enter(p, records) == phase' = p /\ todo' = [todo EXCEPT ![Loop] = records]
PendingAuto == {r \in Records : mode[r] = "AUTO" /\ status[r] = "PENDING"}
\* Mutant: the candidate is looked up by the status it had before.
PendingUntransferred ==
    {c \in Candidates : cand[c] = "PENDING" /\ c \in PendingAuto}
PendingTransferred ==
    {c \in Candidates : cand[c] = "TRANSFERRED" /\ c \in PendingAuto}
ManualDue ==
    {r \in Records : /\ mode[r] = "MANUAL" /\ queue[r] = "due"
                     /\ status[r] = "PENDING" \/ r \in lapsed}
\* Mutant: only outcomes known for sure are announced.
CertainOutcomesDue ==
    {r \in Records :
        mode[r] = "AUTO" /\ queue[r] = "due" /\ status[r] \in {"EXECUTED", "FAILED"}}
AutoOutcomesDue ==
    {r \in Records :
        mode[r] = "AUTO" /\ queue[r] = "due" /\ status[r] \in Terminal}

(***************************************************************************)
(* What a task does when its record raises: the batch is given up, the     *)
(* recovery of transferred candidates goes on, candidate recovery ends.    *)
(***************************************************************************)
GiveUp(t) ==
    /\ To(t, "next", None, "none")
    /\ IF t = Loop
         THEN IF phase = "transferred" THEN UNCHANGED <<todo, phase>>
                                       ELSE Enter("manual", ManualDue)
         ELSE todo' = [todo EXCEPT ![t] = {}] /\ UNCHANGED phase
    /\ UNCHANGED autoMode
\* Recording the outcome failed: the row stays EXECUTING.
ExecutionRaises ==
    /\ running # None /\ Open /\ Fault
    /\ IF \E t \in Tasks : At(t, "exec") /\ rec[t] = running
         THEN \E t \in Tasks : At(t, "exec") /\ rec[t] = running /\ GiveUp(t)
         ELSE UNCHANGED <<tasks, process>>
    /\ running' = None
    /\ UNCHANGED <<rows, deliveries, candidates, aged, approved>>
\* The row could not be claimed: it stays PENDING.
CallRaises(t) ==
    /\ At(t, "call") /\ Open /\ Fault
    /\ GiveUp(t)
    /\ UNCHANGED <<rows, deliveries, candidates, aged, approved, running>>
\* The task of the post is cancelled; the shield lets an execution finish.
BatchCancelled ==
    /\ (todo[Batch] # {} \/ ~At(Batch, "next")) /\ Fault
    /\ GiveUp(Batch)
    /\ UNCHANGED <<rows, deliveries, candidates, aged, approved, running>>

(***************************************************************************)
(* Delivering a card or a notice: SignalDelivery.manual and auto_outcome.  *)
(***************************************************************************)
ClaimDelivery(t) ==
    /\ At(t, "claim") /\ queue[rec[t]] = "due"
    /\ queue' = [queue EXCEPT ![rec[t]] = "held"]
    /\ token' = [token EXCEPT ![rec[t]] = t]
    /\ To(t, IF res[t] = "card" /\ rec[t] \in Actions THEN "prepare" ELSE "send",
          rec[t], res[t])
    /\ NoFault
    /\ UNCHANGED <<rows, told, candidates, aged, approved, running, todo, process>>
DeliveryRefused(t) ==
    /\ At(t, "claim") /\ queue[rec[t]] # "due"
    /\ To(t, "next", None, "none")
    /\ NoFault
    /\ UNCHANGED <<rows, deliveries, candidates, aged, approved, running, todo,
                   process>>
\* prepare_manual_action_delivery: a card, a notice that the action lapsed, or
\* nothing for an action that was handled.
PrepareAction(t) ==
    /\ At(t, "prepare")
    /\ LET r == rec[t]
           expires == status[r] = "PENDING" /\ r \in aged
       IN  /\ status' = [status EXCEPT ![r] = IF expires THEN "SKIPPED" ELSE @]
           /\ lapsed' = IF expires THEN lapsed \cup {r} ELSE lapsed
           /\ IF expires \/ r \in lapsed THEN To(t, "send", r, "lapsed")
              ELSE IF status[r] = "PENDING" THEN To(t, "send", r, "card")
              ELSE To(t, "finish", r, "sent")
    /\ NoFault
    /\ UNCHANGED <<mode, deliveries, candidates, aged, approved, running, todo,
                   process>>
\* A retried AUTO notice reads the recorded outcome.
Message(t) == IF res[t] = "recorded" THEN status[rec[t]] ELSE res[t]
Send(t) ==
    /\ At(t, "send")
    /\ told' = [told EXCEPT ![rec[t]] = @ \cup {Message(t)}]
    /\ To(t, "finish", rec[t], "sent")
    /\ NoFault
    /\ UNCHANGED <<rows, queue, token, candidates, aged, approved, running, todo,
                   process>>
\* The store or Telegram raises, possibly after the message went out.
SendFails(t) ==
    /\ stage[t] \in {"prepare", "send"} /\ Fault
    /\ \/ At(t, "send") /\ told' = [told EXCEPT ![rec[t]] = @ \cup {Message(t)}]
       \/ UNCHANGED told
    /\ To(t, "finish", rec[t], "unsent")
    /\ UNCHANGED <<rows, queue, token, candidates, aged, approved, running, todo,
                   process>>
\* Mutant: a delivery is over whether or not it was sent.
DoneAnyway(result) == "done"
AfterDelivery(result) == IF result = "sent" THEN "done" ELSE "held"
FinishDelivery(t) ==
    /\ At(t, "finish")
    /\ IF token[rec[t]] = t
         THEN /\ queue' = [queue EXCEPT ![rec[t]] = AfterDelivery(res[t])]
              /\ token' = [token EXCEPT ![rec[t]] = None]
         ELSE UNCHANGED <<queue, token>>
    /\ To(t, "next", None, "none")
    /\ NoFault
    /\ UNCHANGED <<rows, told, candidates, aged, approved, running, todo, process>>
\* Neither claimed nor acknowledged; recover_manual gives up its list.
DeliveryRaises(t) ==
    /\ stage[t] \in {"claim", "finish"} /\ Fault
    /\ To(t, "next", None, "none")
    /\ IF t = Loop /\ phase = "manual" THEN Enter("auto", AutoOutcomesDue)
                                      ELSE UNCHANGED <<todo, phase>>
    /\ UNCHANGED <<rows, deliveries, candidates, aged, approved, running, autoMode>>

Deliver(t) ==
    \/ CallClaims(t) \/ CallStale(t) \/ CallRefused(t) \/ CallRaises(t)
    \/ ClaimDelivery(t) \/ DeliveryRefused(t) \/ PrepareAction(t)
    \/ Send(t) \/ SendFails(t) \/ FinishDelivery(t) \/ DeliveryRaises(t)

(***************************************************************************)
(* The next record of a list.                                              *)
(***************************************************************************)
Dispatching(t) == t = Batch \/ phase = "candidates"
Takes(t, r) ==
    /\ At(t, "next") /\ r \in todo[t]
    /\ todo' = [todo EXCEPT ![t] = @ \ {r}]
    /\ NoFault
IntentsFirst(t, r) == r \in Actions => todo[t] \subseteq Actions
TakesOnly == UNCHANGED <<deliveries, candidates, aged, approved, running, process>>
\* QueuedOpenExecution.dispatch and _dispatch_position_actions.
DispatchAuto(t, r) ==
    /\ Dispatching(t) /\ Takes(t, r) /\ IntentsFirst(t, r) /\ mode[r] = "AUTO"
    /\ To(t, "call", r, "none")
    /\ TakesOnly /\ UNCHANGED rows
DispatchManual(t, r) ==
    /\ Dispatching(t) /\ Takes(t, r) /\ IntentsFirst(t, r) /\ mode[r] = "MANUAL"
    /\ To(t, "claim", r, "card")
    /\ TakesOnly /\ UNCHANGED rows
DispatchSkipped(t, r) ==
    /\ Dispatching(t) /\ Takes(t, r) /\ IntentsFirst(t, r) /\ mode[r] = "SKIPPED"
    /\ SetStatus(r, IF status[r] = "PENDING" THEN "SKIPPED" ELSE status[r])
    /\ Stay /\ TakesOnly
\* recover_auto_execution.
RecoverAuto(r) ==
    /\ phase = "recover" /\ Takes(Loop, r) /\ IntentsFirst(Loop, r)
    /\ AutoAllowed(r)
    /\ To(Loop, "call", r, "none")
    /\ TakesOnly /\ UNCHANGED rows
CancelAuto(r) ==
    /\ phase = "recover" /\ Takes(Loop, r) /\ IntentsFirst(Loop, r)
    /\ ~AutoAllowed(r)
    /\ SetStatus(r, "FAILED")
    /\ Stay /\ TakesOnly
RecoverTransferred(c) ==
    /\ phase = "transferred" /\ Takes(Loop, c)
    /\ To(Loop, "call", c, "none")
    /\ TakesOnly /\ UNCHANGED rows
\* recover_manual looks at the row again.
RecoverManual(r) ==
    /\ phase = "manual" /\ Takes(Loop, r)
    /\ IF status[r] = "PENDING" \/ (r \in Actions /\ status[r] = "SKIPPED")
         THEN To(Loop, "claim", r, "card") ELSE Stay
    /\ TakesOnly /\ UNCHANGED rows
RecoverOutcome(r) ==
    /\ phase = "auto" /\ Takes(Loop, r)
    /\ To(Loop, "claim", r, "recorded")
    /\ TakesOnly /\ UNCHANGED rows

Take(t, r) == DispatchAuto(t, r) \/ DispatchManual(t, r) \/ DispatchSkipped(t, r)
TakeRecovery(r) ==
    \/ RecoverAuto(r) \/ CancelAuto(r) \/ RecoverManual(r) \/ RecoverOutcome(r)

(***************************************************************************)
(* run_delivery_recovery: the phases of a pass.                            *)
(***************************************************************************)
Passes(p) == phase = p /\ At(Loop, "next") /\ todo[Loop] = {}
PhaseOnly ==
    /\ NoFault /\ Stay
    /\ UNCHANGED <<rows, deliveries, candidates, aged, approved, running, autoMode>>
TransferredDone == Passes("transferred") /\ Enter("candidates", {}) /\ PhaseOnly
CandidatesDone ==
    /\ Passes("candidates")
    /\ \A c \in Candidates : cand[c] = "PENDING" => c \in leased
    /\ Enter("manual", ManualDue) /\ PhaseOnly
ManualDone == Passes("manual") /\ Enter("auto", AutoOutcomesDue) /\ PhaseOnly
AutoDone == Passes("auto") /\ Enter("transferred", PendingTransferred) /\ PhaseOnly

\* claim_planning_candidate, and the look at the deadline after it.
ClaimCandidate(c) ==
    /\ Passes("candidates") /\ cand[c] = "PENDING" /\ c \notin leased
    /\ leased' = leased \cup {c}
    /\ phase' = IF c \in aged THEN "expiring" ELSE "planning"
    /\ To(Loop, "next", c, "none")
    /\ NoFault
    /\ UNCHANGED <<rows, deliveries, cand, orig, aged, approved, running, todo,
                   autoMode>>
\* finish_planning_candidate: void once the lease is over.  The loop is the
\* only claimant, so the lease stands for the claim token.
FinishCandidate(c, s) ==
    /\ rec[Loop] = c
    /\ cand' = [cand EXCEPT ![c] = IF c \in leased THEN s ELSE @]
    /\ phase' = "candidates" /\ To(Loop, "next", None, "none")
    /\ NoFault
    /\ UNCHANGED <<rows, deliveries, orig, leased, aged, approved, running, todo,
                   autoMode>>
CandidateExpires(c) == phase = "expiring" /\ FinishCandidate(c, "EXPIRED")
\* Planning failed for now, or rejects the candidate for good.
CandidateFails(c) ==
    phase = "planning" /\ \E s \in {"PENDING", "REJECTED"} : FinishCandidate(c, s)
\* Mutant: a recovered candidate is routed as if it were new.
RoutedAnew(c) ==
    {"MANUAL", "SKIPPED"} \cup (IF autoMode # "disabled" THEN {"AUTO"} ELSE {})
\* The approval modes plan_open_intents may give a recovered candidate; only an
\* AUTO intent can fall into the arm that skips.
Routes(c) ==
    IF orig[c] = "AUTO" /\ autoMode # "disabled" THEN Modes ELSE {"MANUAL"}
Transferable(c) == c \in leased /\ c \notin aged
\* transfer_planning_candidate; the record is then dispatched.
CandidateTransfers(c) ==
    /\ phase = "planning" /\ rec[Loop] = c /\ Transferable(c)
    /\ \E m \in Routes(c) :
         /\ cand' = [cand EXCEPT ![c] = "TRANSFERRED"]
         /\ mode' = [mode EXCEPT ![c] = m]
         /\ status' = [status EXCEPT ![c] = IF m = "SKIPPED" THEN m ELSE "PENDING"]
         /\ queue' = [queue EXCEPT ![c] = IF m = "SKIPPED" THEN "none" ELSE "due"]
         /\ Enter("candidates", {c})
    /\ To(Loop, "next", None, "none")
    /\ NoFault
    /\ UNCHANGED <<lapsed, token, told, orig, leased, aged, approved, running,
                   autoMode>>
TransferRefused(c) ==
    /\ phase = "planning" /\ rec[Loop] = c /\ ~Transferable(c)
    /\ phase' = "candidates" /\ To(Loop, "next", None, "none")
    /\ NoFault
    /\ UNCHANGED <<rows, deliveries, candidates, aged, approved, running, todo,
                   autoMode>>

(***************************************************************************)
(* Startup: _run_application.                                              *)
(***************************************************************************)
Reconciled == phase = "reconcile" /\ Enter("recover", PendingAuto) /\ PhaseOnly
RecoverDone == Passes("recover") /\ Enter("protect", {}) /\ PhaseOnly
Protected ==
    phase = "protect" /\ Enter("transferred", PendingTransferred) /\ PhaseOnly

RecoveryStep ==
    \/ Deliver(Loop)
    \/ \E r \in Records : Take(Loop, r) \/ TakeRecovery(r)
    \/ TransferredDone \/ CandidatesDone \/ ManualDone \/ AutoDone
    \/ \E c \in Candidates :
         \/ RecoverTransferred(c) \/ ClaimCandidate(c) \/ CandidateExpires(c)
         \/ CandidateFails(c) \/ CandidateTransfers(c) \/ TransferRefused(c)
    \/ Reconciled \/ RecoverDone \/ Protected
BatchStep == Deliver(Batch) \/ \E r \in Records : Take(Batch, r)

(***************************************************************************)
(* The approver, the clock and the process.                                *)
(***************************************************************************)
Pressed(r) == Open /\ "card" \in told[r]
Skippable(r) == status[r] = "PENDING"
Execute(r) ==
    /\ Pressed(r) /\ running = None /\ ClaimableFor(r, "MANUAL")
    /\ IF Stale(r) THEN SetStatus(r, "FAILED") /\ UNCHANGED running ELSE Claimed(r)
    /\ approved' = approved \cup {r}
    /\ NoFault /\ UNCHANGED <<deliveries, candidates, aged, tasks, process>>
Skip(r) ==
    /\ Pressed(r) /\ Skippable(r)
    /\ SetStatus(r, "SKIPPED")
    /\ NoFault
    /\ UNCHANGED <<deliveries, candidates, aged, approved, running, tasks, process>>
\* A step that outlasts its own lease counts as a fault.
DeliveryDue(r) ==
    /\ queue[r] = "held" /\ queue' = [queue EXCEPT ![r] = "due"]
    /\ IF \E t \in Tasks : rec[t] = r THEN Fault ELSE NoFault
    /\ UNCHANGED <<rows, token, told, candidates, aged, approved, running, tasks,
                   process>>
CandidateDue(c) ==
    /\ c \in leased /\ leased' = leased \ {c}
    /\ IF rec[Loop] = c THEN Fault ELSE NoFault
    /\ UNCHANGED <<rows, deliveries, cand, orig, aged, approved, running, tasks,
                   process>>
\* Age is looked at only before an action or a candidate is decided.
Age(r) ==
    /\ r \in (Actions \cup Candidates) \ aged /\ status[r] \in {"none", "PENDING"}
    /\ aged' = aged \cup {r}
    /\ NoFault
    /\ UNCHANGED <<rows, deliveries, candidates, approved, running, tasks, process>>
Crash ==
    /\ phase # "down" /\ Fault
    /\ phase' = "down" /\ running' = None
    /\ stage' = [t \in Tasks |-> "next"] /\ rec' = [t \in Tasks |-> None]
    /\ res' = [t \in Tasks |-> "none"] /\ todo' = [t \in Tasks |-> {}]
    /\ UNCHANGED <<rows, deliveries, candidates, aged, approved, autoMode>>
\* quarantine_interrupted_executions; the settings may have changed.
Restart ==
    /\ phase = "down" /\ phase' = "reconcile"
    /\ autoMode' \in {"disabled", "open_only", "all"}
    /\ status' = [r \in Records |->
                     IF status[r] = "EXECUTING" THEN "UNCERTAIN" ELSE status[r]]
    /\ NoFault
    /\ UNCHANGED <<mode, lapsed, deliveries, candidates, aged, approved, running,
                   tasks>>

Next ==
    \/ CommitBatch \/ BatchStep \/ RecoveryStep
    \/ Outcome \/ ExecutionRaises \/ BatchCancelled
    \/ \E r \in Records : Execute(r) \/ Skip(r) \/ DeliveryDue(r) \/ Age(r)
    \/ \E c \in Candidates : CandidateDue(c)
    \/ Crash \/ Restart

Spec == Init /\ [][Next]_vars

(***************************************************************************)
(* Tasks go on, executions end, leases and deadlines pass, a dead process  *)
(* is restarted.  Nothing is assumed of the approver.                      *)
(***************************************************************************)
Fairness ==
    /\ WF_vars(BatchStep) /\ WF_vars(RecoveryStep) /\ WF_vars(Outcome)
    /\ WF_vars(Restart)
    /\ \A r \in Records : WF_vars(DeliveryDue(r)) /\ WF_vars(Age(r))
    /\ \A c \in Candidates : WF_vars(CandidateDue(c))
FairSpec == Spec /\ Fairness

\* A record is decided once: no dispatch, restart, recovery pass or button
\* brings it back to PENDING or changes a terminal status, so nothing is
\* executed twice ("execution claims prevent duplicate trades, and notification
\* retries never invoke execution", STRATEGY.md; _transition_pending).
DecidedForGood ==
    [][\A r \in Records :
          /\ status[r] \notin {"none", "PENDING"} => status'[r] # "PENDING"
          /\ status[r] \in Terminal => status'[r] = status[r]]_vars

\* What was routed to a human reaches the exchange only after the approver
\* pressed the button of a card that was sent, also when it was first a
\* planning candidate, or the process restarts in another mode
\* (_routed_intent: original_manual; claim with the expected approval mode).
ManualNeedsApproval ==
    \A r \in Records :
        status[r] \in {"EXECUTING", "EXECUTED", "UNCERTAIN"} =>
            \/ r \in approved
            \/ mode[r] = "AUTO" /\ (r \in Candidates => orig[r] = "AUTO")

\* A delivery is marked as done only for what was sent: the recorded outcome
\* of an AUTO record, the card of a request still waiting, the notice of a
\* lapsed action, unless its card had gone out (finish_manual_delivery, with
\* tokens that change hands).
DoneMeansTold ==
    \A r \in Records : queue[r] = "done" =>
        /\ mode[r] = "AUTO" => status[r] \in told[r]
        /\ mode[r] = "MANUAL" /\ status[r] = "PENDING" => "card" \in told[r]
        /\ r \in lapsed => told[r] \cap {"card", "lapsed"} # {}

\* Every AUTO outcome is announced, whatever failed or died on the way and
\* even if AUTO is disabled by then; every manual request gets its card, or
\* the notice that it lapsed (README: "retry durably after Telegram failure or
\* restart, even if AUTO trading is later disabled").
Announced(r) ==
    \/ mode[r] = "AUTO" /\ status[r] \in told[r]
    \/ mode[r] = "MANUAL" /\ ("card" \in told[r] \/ "lapsed" \in told[r])
Announceable(r) ==
    \/ mode[r] = "AUTO" /\ status[r] \in Terminal
    \/ mode[r] = "MANUAL" /\ (status[r] = "PENDING" \/ r \in lapsed)
EverythingIsAnnounced ==
    \A r \in Records :
        Announceable(r) ~> Announced(r) \/ (status[r] = "SKIPPED" /\ r \notin lapsed)

\* A planning candidate is transferred, rejected or expired in the end, and
\* transferred AUTO work does not stay PENDING (recover: leases and deadline;
\* _recover_transferred).
CandidatesSettle ==
    \A c \in Candidates :
        /\ cand[c] = "PENDING" ~> cand[c] # "PENDING"
        /\ mode[c] = "AUTO" /\ status[c] = "PENDING" ~> status[c] # "PENDING"
=============================================================================
