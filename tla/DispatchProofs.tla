--------------------------- MODULE DispatchProofs ---------------------------
(***************************************************************************)
(* Approvals, decisions and deliveries for any number of records and       *)
(* faults, and what is recorded of notices and of reviews.                 *)
(*                                                                         *)
(* The store never compares a row with the delivery that is under way, so  *)
(* what a finished delivery says of its row depends on what the task in    *)
(* flight knew (TaskOK), on which rows its list could hold (ListInv), and  *)
(* on rows only moving forward (Moved).  The one write that does not look  *)
(* at the status, mark_failed of a cancelled AUTO row, is safe because     *)
(* startup has the store to itself (StartupInv).  A warning is taken off   *)
(* its table only after it was sent (WarnedOf); a claim on a review is     *)
(* never held on one that is delivered (ReviewInv).                        *)
(***************************************************************************)
EXTENDS MCNotices, TLAPS

\* What a record must have been told before its delivery is done.
Told(r) ==
    /\ mode[r] = "AUTO" => status[r] \in told[r]
    /\ mode[r] = "MANUAL" /\ status[r] = "PENDING" => "card" \in told[r]
    /\ r \in lapsed => told[r] \cap {"card", "lapsed"} # {}
\* What a task is about to deliver fits the row.
ToDeliver(t) ==
    \/ /\ mode[rec[t]] = "AUTO" /\ status[rec[t]] \in Terminal
       /\ res[t] \in {status[rec[t]], "recorded"} /\ stage[t] # "prepare"
    \/ mode[rec[t]] = "MANUAL" /\ res[t] = "card"
    \/ /\ mode[rec[t]] = "MANUAL" /\ res[t] = "lapsed" /\ rec[t] \in lapsed
       /\ stage[t] = "send"
\* A task that is at work has a record of the mode its step is for.
TaskOK(t) ==
    /\ stage[t] # "next" => rec[t] \in Records /\ status[rec[t]] # "none"
    /\ stage[t] \in {"call", "exec"} => mode[rec[t]] = "AUTO"
    /\ stage[t] \in {"claim", "prepare", "send"} => ToDeliver(t)
    /\ stage[t] = "prepare" => rec[t] \in Actions
    /\ stage[t] \in {"prepare", "send", "finish"} => queue[rec[t]] # "none"
    /\ stage[t] = "finish" /\ res[t] = "sent" => Told(rec[t])
TaskInv == \A t \in Tasks : TaskOK(t)
\* A lapsed action was a manual one; AUTO candidates were AUTO from the start.
RowInv ==
    /\ \A r \in lapsed : status[r] = "SKIPPED" /\ mode[r] = "MANUAL"
    /\ \A c \in Candidates :
         status[c] # "none" /\ mode[c] = "AUTO" => orig[c] = "AUTO"
\* Each phase of a pass goes through records of its own kind.
ListInv ==
    /\ \A t \in Tasks : \A r \in todo[t] : status[r] # "none"
    /\ phase \in {"recover", "transferred", "auto"} =>
         \A r \in todo[Loop] : mode[r] = "AUTO"
    /\ phase = "manual" => \A r \in todo[Loop] : mode[r] = "MANUAL"
    /\ phase = "auto" => \A r \in todo[Loop] : status[r] \in Terminal
    /\ phase \in {"expiring", "planning"} =>
         /\ rec[Loop] \in Candidates /\ cand[rec[Loop]] = "PENDING"
         /\ stage[Loop] = "next"
\* While the process starts only the recovery of AUTO rows is at work.
StartupInv ==
    /\ phase \in Startup \cup {"down"} => todo[Batch] = {} /\ stage[Batch] = "next"
    /\ phase \in {"down", "reconcile", "protect"} => stage[Loop] = "next"
    /\ phase = "down" => running = None
    /\ phase = "recover" =>
         /\ \A r \in todo[Loop] : status[r] = "PENDING"
         /\ stage[Loop] # "next" =>
              /\ rec[Loop] \notin todo[Loop]
              /\ rec[Loop] \in Actions => todo[Loop] \subseteq Actions
DispatchInv ==
    /\ TypeOK /\ TaskInv /\ RowInv /\ ListInv /\ StartupInv
    /\ DoneMeansTold /\ ManualNeedsApproval

\* A record that exists keeps its mode and its decision; what was told stays
\* told, and only a waiting manual action lapses.
Moved ==
    \A r \in Records : status[r] # "none" =>
        /\ mode'[r] = mode[r] /\ status'[r] # "none"
        /\ status[r] # "PENDING" => status'[r] # "PENDING"
        /\ status[r] \in Terminal => status'[r] = status[r]
        /\ told[r] \subseteq told'[r]
        /\ r \in lapsed => r \in lapsed'
        /\ r \in lapsed' => r \in lapsed \/ (status[r] = "PENDING" /\ mode[r] = "MANUAL")
        /\ queue[r] # "none" => queue'[r] # "none"

\* Disjuncts of Next, by what they are about.
PhaseChange ==
    \/ TransferredDone \/ CandidatesDone \/ ManualDone \/ AutoDone
    \/ Reconciled \/ RecoverDone \/ Protected
CandidateChange(c) == ClaimCandidate(c) \/ CandidateDue(c)
RetryChange(c) ==
    \/ RecoverTransferred(c) \/ CandidateExpires(c) \/ CandidateFails(c)
    \/ CandidateTransfers(c) \/ TransferRefused(c)
WorldChange ==
    \/ CommitBatch \/ Outcome \/ ExecutionRaises \/ BatchCancelled
    \/ Crash \/ Restart
RecordChange(r) == Execute(r) \/ Skip(r) \/ DeliveryDue(r) \/ Age(r)

\* Executing and delivering one record.
LEMMA DeliverStep ==
    ASSUME DispatchInv, NEW t \in Tasks, Deliver(t) PROVE DispatchInv' /\ Moved
<1> USE DispatchAssumption DEF DispatchInv, TypeOK, TaskInv, TaskOK, RowInv,
   ListInv, StartupInv, DoneMeansTold, ManualNeedsApproval, Told, ToDeliver,
   Moved, rows, deliveries, candidates, tasks, process, Records, Intents,
   Tasks, Batch, Loop, Terminal, Status, Modes, CandidateStatus, Startup,
   Recovery, Steps, Notices, Results
<1>1. CASE CallClaims(t)
  BY <1>1 DEF CallClaims, NoFault, At, To, ClaimableFor, Claimed, Stale
<1>2. CASE CallStale(t)
  BY <1>2 DEF CallStale, NoFault, At, To, SetStatus, ClaimableFor, Stale
<1>3. CASE CallRefused(t)
  BY <1>3 DEF CallRefused, NoFault, At, To, ClaimableFor
<1>4. CASE CallRaises(t)
  BY <1>4 DEF CallRaises, Fault, Open, At, GiveUp, To, Enter, ManualDue
<1>5. CASE ClaimDelivery(t)
  BY <1>5 DEF ClaimDelivery, NoFault, At, To
<1>6. CASE DeliveryRefused(t)
  BY <1>6 DEF DeliveryRefused, NoFault, At, To
<1>7. CASE PrepareAction(t)
  BY <1>7 DEF PrepareAction, NoFault, At, To
<1>8. CASE Send(t)
  <2>1. rec[t] \in Records /\ Message(t) \in Notices
    BY <1>8 DEF Send, At, Message
  <2>2. TypeOK' /\ Moved
    BY <1>8, <2>1 DEF Send, NoFault, At, To
  <2>3. Told(rec[t])'
    <3>1. PICK r \in Records : r = rec[t]
      BY <2>1
    <3>2. /\ r = rec'[t] /\ UNCHANGED <<status, mode, lapsed>>
          /\ told'[r] = told[r] \cup {Message(t)}
      BY <1>8, <3>1 DEF Send, To
    <3>3. /\ mode[r] = "AUTO" => Message(t) = status[r]
          /\ mode[r] = "MANUAL" => Message(t) \in {"card", "lapsed"}
          /\ Message(t) = "lapsed" => r \in lapsed
      BY <1>8, <3>1 DEF Send, At, Message
    <3> QED
      BY <3>1, <3>2, <3>3
  <2>4. TaskInv'
    <3>1. /\ stage' = [stage EXCEPT ![t] = "finish"] /\ rec' = [rec EXCEPT ![t] = @]
          /\ res' = [res EXCEPT ![t] = "sent"] /\ stage[t] = "send"
          /\ UNCHANGED <<status, mode, lapsed, queue>>
          /\ \A q \in Records : told[q] \subseteq told'[q]
      BY <1>8 DEF Send, At, To
    <3>2. TaskOK(t)'
      BY <2>1, <2>3, <3>1
    <3>3. ASSUME NEW u \in Tasks, u # t PROVE TaskOK(u)'
      BY <3>1, <3>3
    <3> HIDE DEF TaskOK
    <3> QED
      BY <3>2, <3>3
  <2>5. RowInv' /\ ListInv' /\ StartupInv' /\ DoneMeansTold' /\ ManualNeedsApproval'
    BY <1>8, <2>1 DEF Send, At, To
  <2> QED
    BY <2>2, <2>4, <2>5
<1>9. CASE SendFails(t)
  BY <1>9 DEF SendFails, Fault, At, To, Message
<1>10. CASE FinishDelivery(t)
  BY <1>10 DEF FinishDelivery, NoFault, At, To, AfterDelivery
<1>11. CASE DeliveryRaises(t)
  BY <1>11 DEF DeliveryRaises, Fault, To, Enter, AutoOutcomesDue
<1> QED
  BY <1>1, <1>2, <1>3, <1>4, <1>5, <1>6, <1>7, <1>8, <1>9, <1>10, <1>11 DEF
     Deliver

\* Dispatch of a new record.
LEMMA TakeStep ==
    ASSUME DispatchInv, NEW t \in Tasks, NEW r \in Records, Take(t, r) PROVE DispatchInv' /\ Moved
<1> USE DispatchAssumption DEF DispatchInv, TypeOK, TaskInv, TaskOK, RowInv,
   ListInv, StartupInv, DoneMeansTold, ManualNeedsApproval, Told, ToDeliver,
   Moved, rows, deliveries, candidates, tasks, process, Records, Intents,
   Tasks, Batch, Loop, Terminal, Status, Modes, CandidateStatus, Startup,
   Recovery, Steps, Notices, Results
<1>1. CASE DispatchAuto(t, r)
  BY <1>1 DEF DispatchAuto, To, Dispatching, Takes, NoFault, At,
     IntentsFirst, TakesOnly
<1>2. CASE DispatchManual(t, r)
  BY <1>2 DEF DispatchManual, To, Dispatching, Takes, NoFault, At,
     IntentsFirst, TakesOnly
<1>3. CASE DispatchSkipped(t, r)
  BY <1>3 DEF DispatchSkipped, Stay, SetStatus, Dispatching, Takes, NoFault,
     At, IntentsFirst, TakesOnly
<1> QED
  BY <1>1, <1>2, <1>3 DEF Take

\* The next record of a recovery list.
LEMMA TakeRecoveryStep ==
    ASSUME DispatchInv, NEW r \in Records, TakeRecovery(r) PROVE DispatchInv' /\ Moved
<1> USE DispatchAssumption DEF DispatchInv, TypeOK, TaskInv, TaskOK, RowInv,
   ListInv, StartupInv, DoneMeansTold, ManualNeedsApproval, Told, ToDeliver,
   Moved, rows, deliveries, candidates, tasks, process, Records, Intents,
   Tasks, Batch, Loop, Terminal, Status, Modes, CandidateStatus, Startup,
   Recovery, Steps, Notices, Results
<1>1. CASE RecoverAuto(r)
  BY <1>1 DEF RecoverAuto, AutoAllowed, To, Takes, NoFault, At, IntentsFirst,
     TakesOnly
<1>2. CASE CancelAuto(r)
  BY <1>2 DEF CancelAuto, AutoAllowed, Stay, SetStatus, Takes, NoFault, At,
     IntentsFirst, TakesOnly
<1>3. CASE RecoverManual(r)
  BY <1>3 DEF RecoverManual, To, Stay, Takes, NoFault, At, TakesOnly
<1>4. CASE RecoverOutcome(r)
  BY <1>4 DEF RecoverOutcome, To, Takes, NoFault, At, TakesOnly
<1> QED
  BY <1>1, <1>2, <1>3, <1>4 DEF TakeRecovery

\* Startup and the recovery loop go on to the next phase.
LEMMA PhaseStep ==
    ASSUME DispatchInv, PhaseChange PROVE DispatchInv' /\ Moved
<1> USE DispatchAssumption DEF DispatchInv, TypeOK, TaskInv, TaskOK, RowInv,
   ListInv, StartupInv, DoneMeansTold, ManualNeedsApproval, Told, ToDeliver,
   Moved, rows, deliveries, candidates, tasks, process, Records, Intents,
   Tasks, Batch, Loop, Terminal, Status, Modes, CandidateStatus, Startup,
   Recovery, Steps, Notices, Results
<1>1. CASE TransferredDone
  BY <1>1 DEF TransferredDone, Enter, Passes, At, PhaseOnly, NoFault, Stay
<1>2. CASE CandidatesDone
  BY <1>2 DEF CandidatesDone, Enter, ManualDue, Passes, At, PhaseOnly,
     NoFault, Stay
<1>3. CASE ManualDone
  BY <1>3 DEF ManualDone, Enter, AutoOutcomesDue, Passes, At, PhaseOnly,
     NoFault, Stay
<1>4. CASE AutoDone
  BY <1>4 DEF AutoDone, Enter, PendingTransferred, PendingAuto, Passes, At,
     PhaseOnly, NoFault, Stay
<1>5. CASE Reconciled
  <2>1. TypeOK' /\ Moved
    BY <1>5 DEF Reconciled, NoFault, Enter, PendingAuto, PhaseOnly, Stay
  <2>2. TaskInv' /\ RowInv' /\ ListInv' /\ DoneMeansTold' /\ ManualNeedsApproval'
    BY <1>5 DEF Reconciled, Enter, PendingAuto, PhaseOnly, Stay
  <2>3. StartupInv'
    BY <1>5 DEF Reconciled, Enter, PendingAuto, PhaseOnly, Stay
  <2> QED
    BY <2>1, <2>2, <2>3
<1>6. CASE RecoverDone
  BY <1>6 DEF RecoverDone, Enter, Passes, At, PhaseOnly, NoFault, Stay
<1>7. CASE Protected
  BY <1>7 DEF Protected, Enter, PendingTransferred, PendingAuto, PhaseOnly,
     NoFault, Stay
<1> QED
  BY <1>1, <1>2, <1>3, <1>4, <1>5, <1>6, <1>7 DEF PhaseChange

\* The end of a planning retry.
LEMMA RetryStep ==
    ASSUME DispatchInv, NEW c \in Candidates, RetryChange(c) PROVE DispatchInv' /\ Moved
<1> USE DispatchAssumption DEF DispatchInv, TypeOK, TaskInv, TaskOK, RowInv,
   ListInv, StartupInv, DoneMeansTold, ManualNeedsApproval, Told, ToDeliver,
   Moved, rows, deliveries, candidates, tasks, process, Records, Intents,
   Tasks, Batch, Loop, Terminal, Status, Modes, CandidateStatus, Startup,
   Recovery, Steps, Notices, Results
<1>1. CASE CandidateExpires(c)
  BY <1>1 DEF CandidateExpires, FinishCandidate, NoFault, To
<1>2. CASE CandidateFails(c)
  BY <1>2 DEF CandidateFails, FinishCandidate, NoFault, To
<1>3. CASE CandidateTransfers(c)
  BY <1>3 DEF CandidateTransfers, NoFault, To, Enter, Routes, Transferable
<1>4. CASE TransferRefused(c)
  BY <1>4 DEF TransferRefused, NoFault, To, Transferable
<1>5. CASE RecoverTransferred(c)
  BY <1>5 DEF RecoverTransferred, To, Takes, NoFault, At, TakesOnly
<1> QED
  BY <1>1, <1>2, <1>3, <1>4, <1>5 DEF RetryChange

\* Claims and leases of planning candidates.
LEMMA CandidateStep ==
    ASSUME DispatchInv, NEW c \in Candidates, CandidateChange(c) PROVE DispatchInv' /\ Moved
<1> USE DispatchAssumption DEF DispatchInv, TypeOK, TaskInv, TaskOK, RowInv,
   ListInv, StartupInv, DoneMeansTold, ManualNeedsApproval, Told, ToDeliver,
   Moved, rows, deliveries, candidates, tasks, process, Records, Intents,
   Tasks, Batch, Loop, Terminal, Status, Modes, CandidateStatus, Startup,
   Recovery, Steps, Notices, Results
<1>1. CASE ClaimCandidate(c)
  BY <1>1 DEF ClaimCandidate, NoFault, To, Passes, At
<1>2. CASE CandidateDue(c)
  BY <1>2 DEF CandidateDue, Fault, NoFault
<1> QED
  BY <1>1, <1>2 DEF CandidateChange

\* The batch, outcomes and failures.
LEMMA WorldStep ==
    ASSUME DispatchInv, WorldChange PROVE DispatchInv' /\ Moved
<1> USE DispatchAssumption DEF DispatchInv, TypeOK, TaskInv, TaskOK, RowInv,
   ListInv, StartupInv, DoneMeansTold, ManualNeedsApproval, Told, ToDeliver,
   Moved, rows, deliveries, candidates, tasks, process, Records, Intents,
   Tasks, Batch, Loop, Terminal, Status, Modes, CandidateStatus, Startup,
   Recovery, Steps, Notices, Results
<1>1. CASE CommitBatch
  BY <1>1 DEF CommitBatch, NoFault, Open, AutoAllowed, Stay
<1>2. CASE Outcome
  BY <1>2 DEF Outcome, NoFault, At, SetStatus
<1>3. CASE ExecutionRaises
  BY <1>3 DEF ExecutionRaises, Fault, Open, At, GiveUp, To, Enter, ManualDue
<1>4. CASE BatchCancelled
  BY <1>4 DEF BatchCancelled, Fault, At, GiveUp, To, Enter, ManualDue
<1>5. CASE Crash
  BY <1>5 DEF Crash, Fault
<1>6. CASE Restart
  <2>1. TypeOK' /\ Moved
    BY <1>6 DEF Restart, NoFault
  <2>2. TaskInv'
    BY <1>6 DEF Restart
  <2>3. RowInv' /\ ListInv' /\ StartupInv' /\ DoneMeansTold' /\ ManualNeedsApproval'
    BY <1>6 DEF Restart
  <2> QED
    BY <2>1, <2>2, <2>3
<1> QED
  BY <1>1, <1>2, <1>3, <1>4, <1>5, <1>6 DEF WorldChange

\* The approver and the clock.
LEMMA RecordStep ==
    ASSUME DispatchInv, NEW r \in Records, RecordChange(r) PROVE DispatchInv' /\ Moved
<1> USE DispatchAssumption DEF DispatchInv, TypeOK, TaskInv, TaskOK, RowInv,
   ListInv, StartupInv, DoneMeansTold, ManualNeedsApproval, Told, ToDeliver,
   Moved, rows, deliveries, candidates, tasks, process, Records, Intents,
   Tasks, Batch, Loop, Terminal, Status, Modes, CandidateStatus, Startup,
   Recovery, Steps, Notices, Results
<1>1. CASE Execute(r)
  BY <1>1 DEF Execute, NoFault, SetStatus, ClaimableFor, Claimed, Stale,
     Pressed, Open
<1>2. CASE Skip(r)
  BY <1>2 DEF Skip, NoFault, SetStatus, Pressed, Open, Skippable
<1>3. CASE DeliveryDue(r)
  BY <1>3 DEF DeliveryDue, Fault, NoFault
<1>4. CASE Age(r)
  BY <1>4 DEF Age, NoFault
<1> QED
  BY <1>1, <1>2, <1>3, <1>4 DEF RecordChange

\* Every step keeps the invariant, and no record moves back.
LEMMA NextStep == DispatchInv /\ [Next]_vars => DispatchInv' /\ Moved
<1> SUFFICES ASSUME DispatchInv, [Next]_vars PROVE DispatchInv' /\ Moved
  OBVIOUS
<1>1. CASE BatchStep
  BY <1>1, DeliverStep, TakeStep DEF BatchStep, Tasks
<1>2. CASE RecoveryStep
  BY <1>2, DeliverStep, TakeStep, TakeRecoveryStep, PhaseStep, CandidateStep, RetryStep
     DEF RecoveryStep, Tasks, PhaseChange, CandidateChange, RetryChange
<1>3. CASE WorldChange
  BY <1>3, WorldStep
<1>4. CASE \E r \in Records : RecordChange(r)
  BY <1>4, RecordStep
<1>5. CASE \E c \in Candidates : CandidateDue(c)
  BY <1>5, CandidateStep DEF CandidateChange
<1>6. CASE UNCHANGED vars
  BY <1>6 DEF vars, rows, deliveries, candidates, tasks, process, Moved,
     DispatchInv, TypeOK, TaskInv, TaskOK, RowInv, ListInv, StartupInv, DoneMeansTold,
     ManualNeedsApproval, Told, ToDeliver, Dispatching, PendingAuto
<1> QED
  BY <1>1, <1>2, <1>3, <1>4, <1>5, <1>6 DEF Next, WorldChange, RecordChange

\* Nothing is recorded at the start.
LEMMA InitDispatch == Init => DispatchInv
  BY DispatchAssumption DEF Init, DispatchInv, TypeOK, TaskInv, TaskOK, RowInv, ListInv,
     StartupInv, DoneMeansTold, ManualNeedsApproval, Records, Intents, Tasks,
     Batch, Loop, Terminal, Status, Modes, CandidateStatus, Startup, Recovery,
     Steps, Notices, Results

\* The invariant of the whole module.
LEMMA DispatchInvariant == Spec => []DispatchInv
  BY InitDispatch, NextStep, PTL DEF Spec

\* Types, and: what runs is recorded as EXECUTING, every record that may be
\* announced has a delivery row, and a candidate has a record exactly when it
\* was transferred.
THEOREM DispatchTypes == Spec => []TypeOK
  BY DispatchInvariant, PTL DEF DispatchInv

\* Nothing routed to a human is executed without the approver's press, across
\* candidates, retries, crashes and restarts in another mode.
THEOREM ApprovalNeeded == Spec => []ManualNeedsApproval
  BY DispatchInvariant, PTL DEF DispatchInv

\* A finished delivery told the approver what it had to, whoever holds or lost
\* the token.
THEOREM DoneTold == Spec => []DoneMeansTold
  BY DispatchInvariant, PTL DEF DispatchInv

\* No step reopens a record or changes a decision.
THEOREM DecisionsStand == Spec => DecidedForGood
<1>1. DispatchInv /\ [Next]_vars =>
        [\A r \in Records :
            /\ status[r] \notin {"none", "PENDING"} => status'[r] # "PENDING"
            /\ status[r] \in Terminal => status'[r] = status[r]]_vars
  <2> SUFFICES ASSUME DispatchInv, [Next]_vars, NEW r \in Records
               PROVE  /\ status[r] \notin {"none", "PENDING"} => status'[r] # "PENDING"
                      /\ status[r] \in Terminal => status'[r] = status[r]
    OBVIOUS
  <2> QED
    BY NextStep DEF Moved, Terminal
<1> QED
  BY <1>1, DispatchInvariant, PTL DEF Spec, DecidedForGood

(***************************************************************************)
(* Notices.                                                                *)
(***************************************************************************)
\* What the progress file and this process say of the last pass, and where the
\* recovery warning is.
NoticeTypes ==
    /\ record \in Nat \cup {None} /\ success \in Nat \cup {None}
    /\ warner \in {"read", "send", "ack", "done"}
\* A warning that is to be acknowledged was sent.
WarnedOf == warner = "ack" => batch \subseteq informed
\* What holds between any two steps of the notices.
NoticeInv == NoticeTypes /\ WarnedOf /\ N!RecordsAreTrue

\* Each queue is left only by what was sent, and both ages grow together.
LEMMA NoticeStep ==
    ASSUME NoticeInv, [N!Next]_(N!vars) PROVE NoticeInv'
<1> USE DEF NoticeInv, NoticeTypes, WarnedOf, N!RecordsAreTrue, N!NothingForgotten, N!ProbeIsCurrent
<1>1. CASE N!TellerStep
  BY <1>1 DEF N!TellerStep, N!StartsNotice, N!NoNotice, N!NoticeSent, N!ReadsAlerts, N!AlertsDone,
     N!TellerWakes, N!AlertSent, N!NotifiedAfter, N!TellOnly, N!AlertsOnly, N!recovery, N!progress, N!rows
<1>2. CASE N!WarnerStep
  BY <1>2 DEF N!WarnerStep, N!ReadsTable, N!SendsWarning, N!Acknowledges, N!WarnOnly, N!progress, N!rows
<1>3. CASE N!Tick
  BY <1>3, NoticeConstants DEF N!Constants, N!Tick, N!Older, N!rows
<1>4. CASE \E b \in BOOLEAN : N!PassSucceeds(b)
  BY <1>4, NoticeConstants DEF N!Constants, N!PassSucceeds, N!Report, N!rows, N!recovery
<1>5. CASE \E r \in Reasons : N!PassFails(r)
  BY <1>5 DEF N!PassFails, N!Report, N!rows, N!recovery, N!progress
<1>6. CASE \E s \in Strategies : N!Pauses(s) \/ N!AlertNotMarked(s) \/ N!AlertFails(s)
  BY <1>6 DEF N!Pauses, N!AlertNotMarked, N!AlertFails, N!AlertsOnly, N!NotifiedAfter, N!recovery, N!progress
<1>7. CASE N!NoticeFails \/ N!ReadFails
  BY <1>7 DEF N!NoticeFails, N!ReadFails, N!TellOnly, N!AlertsOnly, N!recovery, N!progress, N!rows
<1>8. CASE N!WarningFails
  BY <1>8 DEF N!WarningFails, N!TriedAgain, N!WarnOnly, N!progress, N!rows
<1>9. CASE N!Restarted
  BY <1>9 DEF N!Restarted, N!RecordAtStart, N!rows
<1>10. CASE UNCHANGED N!vars
  BY <1>10 DEF N!vars, N!recovery, N!progress, N!rows
<1> QED
  BY <1>1, <1>2, <1>3, <1>4, <1>5, <1>6, <1>7, <1>8, <1>9, <1>10 DEF N!Next

\* For any number of strategies, executions and faults, what is marked as told was
\* told, and the progress file speaks of this process
\* (acknowledge_recovery_notices, mark_strategy_alert_delivered, check_progress).
THEOREM TrueRecords == N!Spec => []RecordsAreTrue
<1>1. N!Init => NoticeInv
  BY DEF N!Init, NoticeInv, NoticeTypes, WarnedOf, N!RecordsAreTrue, N!NothingForgotten, N!ProbeIsCurrent
<1>2. NoticeInv /\ [N!Next]_(N!vars) => NoticeInv'
  BY NoticeStep
<1>3. NoticeInv => RecordsAreTrue
  BY DEF NoticeInv, RecordsAreTrue
<1> QED
  BY <1>1, <1>2, <1>3, PTL DEF N!Spec

(***************************************************************************)
(* Reviews.                                                                *)
(***************************************************************************)
\* A claim outlives its deliverer, but not the delivery that is recorded; what
\* was sent arrived.
ReviewInv ==
    /\ doing \in [Deliverers -> {"idle", "send", "sent", "failed"}]
    /\ delivered \in BOOLEAN /\ shown \in BOOLEAN
    /\ delivered => claim = Nobody /\ shown
    /\ \A d \in Deliverers : doing[d] = "sent" => shown

\* recover_entry_reviews: a claim is taken only of what is not delivered, and a
\* late end finds its claim gone.
LEMMA ReviewStep ==
    ASSUME ReviewInv, [Q!Next]_(Q!qvars) PROVE ReviewInv' /\ [Q!StaysStep]_(Q!qvars)
<1> USE DEF ReviewInv, Q!StaysStep
<1>1. CASE Q!SaveReview \/ Q!RetryAfterPasses \/ Q!Restarted
  BY <1>1 DEF Q!SaveReview, Q!RetryAfterPasses, Q!Restarted
<1>2. ASSUME NEW d \in Deliverers, Q!Deliver(d) PROVE ReviewInv' /\ Q!StaysStep
  <2>1. CASE Q!ClaimReview(d)
    BY <2>1 DEF Q!ClaimReview, Q!Pending
  <2>2. CASE Q!SendReview(d)
    BY <2>2 DEF Q!SendReview
  <2>3. CASE Q!SendFails(d)
    <3>1. /\ shown' \in {shown, TRUE} /\ UNCHANGED <<delivered, claim>>
          /\ doing' = [doing EXCEPT ![d] = "failed"]
      BY <2>3 DEF Q!SendFails
    <3>2. shown' \in BOOLEAN /\ (shown => shown')
      BY <3>1
    <3> QED
      BY <3>1, <3>2
  <2>4. CASE Q!FinishReview(d)
    <3>1. claim = d => ~delivered
      BY ReviewConstants DEF Q!Constants
    <3>2. doing' = [doing EXCEPT ![d] = "idle"] /\ UNCHANGED shown
      BY <2>4 DEF Q!FinishReview
    <3>3. CASE claim = d
      <4>1. delivered' = (doing[d] = "sent") /\ claim' = Nobody
        BY <2>4, <3>3 DEF Q!FinishReview, Q!Finish
      <4>2. delivered' \in BOOLEAN /\ (delivered' => shown')
        BY <3>2, <4>1
      <4> QED
        BY <3>1, <3>2, <3>3, <4>1, <4>2
    <3>4. CASE claim # d
      BY <2>4, <3>2, <3>4 DEF Q!FinishReview, Q!Finish
    <3> QED
      BY <3>3, <3>4
  <2> QED
    BY <1>2, <2>1, <2>2, <2>3, <2>4 DEF Q!Deliver
<1>3. CASE UNCHANGED Q!qvars
  BY <1>3 DEF Q!qvars
<1> QED
  BY <1>1, <1>2, <1>3 DEF Q!Next

\* For any number of deliverers, a review is recorded as delivered only once it
\* was, and stays so, whoever ends late (finish_entry_review).
THEOREM DeliveriesStand == Q!Spec => [][Q!StaysStep]_reviewVars
<1>1. Q!Init => ReviewInv
  BY DEF Q!Init, ReviewInv
<1>2. ReviewInv /\ [Q!Next]_(Q!qvars) => ReviewInv' /\ [Q!StaysStep]_(Q!qvars)
  BY ReviewStep
<1> QED
  BY <1>1, <1>2, PTL DEF Q!Spec, Q!qvars, reviewVars
=============================================================================
