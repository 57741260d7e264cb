------------------------------- MODULE Notices -------------------------------
(***************************************************************************)
(* What the operator is told about supervision.  The supervisor only       *)
(* records its state with the bot, because a slow Telegram must never      *)
(* delay protection; a task of the bot sends the notices and the alerts of *)
(* paused strategies; another reports the executions a crash interrupted;  *)
(* a file outside the process says when the last pass succeeded.  Time is  *)
(* counted in the 30 seconds between two notices.                          *)
(***************************************************************************)
EXTENDS Naturals

CONSTANTS
    Reasons,        \* reasons supervision can fail for
    Strategies,     \* strategies that can be paused
    Records,        \* executions a crash can interrupt
    None,
    Pause,          \* 30 seconds between two notices, two rounds, two tries
    Repeat,         \* 900 seconds between two reminders
    MaxAge,         \* MAX_SUCCESS_AGE_SECONDS
    MaxFlips,       \* changes of the supervision state
    MaxFaults       \* failed sends, reads and writes, and restarts
\* None stands for no record.
Constants == None \notin Nat /\ MaxAge \in Nat

VARIABLES
    warning,        \* _supervision_warning
    recovered,      \* _supervision_recovery_pending
    nextNotice, nextSend,
    changed,        \* _supervision_notice_changed
    teller, text, tellSleep,       \* run_strategy_alert_delivery
    paused, notified,              \* strategies paused, and with pause_notified
    todo,           \* alerts read and not yet sent
    table,          \* interrupted_execution_notices
    warner, batch, warnSleep,      \* _deliver_recovery_warning
    record,         \* age of the success the progress file names
    success,        \* age of this process's last successful pass
    interrupted,    \* executions interrupted so far
    heard,          \* the last supervision notice that arrived
    told,           \* strategies and records the operator was told of
    flips, faults

state == <<warning, recovered, nextNotice, nextSend, changed>>
telling == <<teller, text, tellSleep, todo>>
rows == <<paused, notified>>
recovery == <<table, warner, batch, warnSleep, interrupted>>
progress == <<record, success>>
vars == <<state, telling, rows, recovery, progress, heard, told, flips, faults>>

Fault == faults < MaxFaults /\ faults' = faults + 1
NoFault == UNCHANGED faults
Larger(a, b) == IF a > b THEN a ELSE b

Init ==
    /\ warning = None /\ recovered = FALSE /\ nextNotice = 0 /\ nextSend = 0
    /\ changed = FALSE /\ teller = "loop" /\ text = None /\ tellSleep = 0 /\ todo = {}
    /\ paused = {} /\ notified = {} /\ record = None /\ success = None
    /\ interrupted \in SUBSET Records /\ table = interrupted /\ warner = "read" /\ batch = {} /\ warnSleep = 0
    /\ heard = "nothing" /\ told = {} /\ flips = 0 /\ faults = 0

(***************************************************************************)
(* PositionSupervisor.run and report_supervision_state.                    *)
(***************************************************************************)
\* Mutant: the next successful pass forgets the notice that is due.
RecoveryOnce(reason) == reason = None /\ warning # None
RecoveryAfter(reason) ==
    IF reason # None THEN FALSE ELSE recovered \/ warning # None
Report(reason) ==
    /\ warning' = reason /\ recovered' = RecoveryAfter(reason)
    /\ IF (warning = None) # (reason = None)
       THEN nextNotice' = 0 /\ changed' = TRUE
       ELSE UNCHANGED <<nextNotice, changed>>
    /\ IF reason = warning THEN UNCHANGED flips
       ELSE flips < MaxFlips /\ flips' = flips + 1
    /\ UNCHANGED <<nextSend, telling, rows, recovery, heard, told>>
\* The progress file is replaced in one step; a failure to write it is logged.
PassSucceeds(published) ==
    /\ Report(None) /\ success' = 0
    /\ IF published THEN record' = 0 /\ NoFault ELSE UNCHANGED record /\ Fault
PassFails(reason) == Report(reason) /\ NoFault /\ UNCHANGED progress
\* A pass pauses a strategy: MANUAL_OVERRIDE with a reason, not notified.
Pauses(s) ==
    /\ s \notin paused /\ paused' = paused \cup {s} /\ NoFault
    /\ UNCHANGED <<state, telling, notified, recovery, progress, heard, told, flips>>

(***************************************************************************)
(* run_strategy_alert_delivery: the supervision notice, then the alerts.   *)
(***************************************************************************)
TellOnly == UNCHANGED <<warning, rows, recovery, progress, flips>>
NoticeDue ==
    (warning # None \/ recovered) /\ Larger(nextNotice, nextSend) = 0
StartsNotice ==
    /\ teller = "loop" /\ NoticeDue
    /\ changed' = FALSE /\ nextNotice' = Pause /\ nextSend' = Pause
    /\ text' = warning /\ teller' = "sending" /\ NoFault
    /\ TellOnly /\ UNCHANGED <<recovered, tellSleep, todo, heard, told>>
NoNotice ==
    /\ teller = "loop" /\ ~NoticeDue /\ changed' = FALSE /\ teller' = "read" /\ NoFault
    /\ TellOnly /\ UNCHANGED <<recovered, nextNotice, nextSend, text, tellSleep, todo, heard, told>>
\* The state is compared with the one sent: it may have changed meanwhile.
StillTrue == warning = text
NoticeSent ==
    /\ teller = "sending" /\ teller' = "read" /\ NoFault
    /\ heard' = IF text = None THEN "recovered" ELSE text
    /\ nextNotice' = IF StillTrue /\ text # None THEN Repeat ELSE nextNotice
    /\ recovered' = IF StillTrue /\ text = None THEN FALSE ELSE recovered
    /\ TellOnly /\ UNCHANGED <<nextSend, changed, text, tellSleep, todo, told>>
NoticeFails ==
    /\ teller = "sending" /\ teller' = "read" /\ Fault
    /\ TellOnly /\ UNCHANGED <<recovered, nextNotice, nextSend, changed, text, tellSleep, todo,
                               heard, told>>
AlertsOnly == UNCHANGED <<state, text, paused, recovery, progress, heard, flips>>
ReadsAlerts ==
    /\ teller = "read" /\ todo' = paused \ notified /\ teller' = "alerts" /\ NoFault
    /\ AlertsOnly /\ UNCHANGED <<notified, tellSleep, told>>
ReadFails ==
    /\ teller = "read" /\ teller' = "wait" /\ tellSleep' = Pause /\ Fault
    /\ AlertsOnly /\ UNCHANGED <<notified, todo, told>>
\* mark_strategy_alert_delivered follows a delivery; either of them may fail.
\* Mutant: marked whatever became of the message.
NotifiedAlways(s, sent) == notified \cup {s}
NotifiedAfter(s, sent) == IF sent THEN notified \cup {s} ELSE notified
AlertSent(s) ==
    /\ teller = "alerts" /\ s \in todo /\ todo' = todo \ {s} /\ told' = told \cup {s}
    /\ notified' = NotifiedAfter(s, TRUE) /\ NoFault /\ AlertsOnly /\ UNCHANGED <<teller, tellSleep>>
AlertNotMarked(s) ==
    /\ teller = "alerts" /\ s \in todo /\ todo' = todo \ {s} /\ told' = told \cup {s} /\ Fault
    /\ AlertsOnly /\ UNCHANGED <<notified, teller, tellSleep>>
AlertFails(s) ==
    /\ teller = "alerts" /\ s \in todo /\ todo' = todo \ {s} /\ Fault
    /\ notified' = NotifiedAfter(s, FALSE) /\ AlertsOnly /\ UNCHANGED <<told, teller, tellSleep>>
AlertsDone ==
    /\ teller = "alerts" /\ todo = {} /\ teller' = "wait" /\ tellSleep' = Pause /\ NoFault
    /\ AlertsOnly /\ UNCHANGED <<notified, todo, told>>
TellerWakes ==
    /\ teller = "wait" /\ (changed \/ tellSleep = 0) /\ teller' = "loop" /\ tellSleep' = 0
    /\ NoFault /\ AlertsOnly /\ UNCHANGED <<notified, todo, told>>

(***************************************************************************)
(* _deliver_recovery_warning.                                              *)
(***************************************************************************)
WarnOnly == UNCHANGED <<state, telling, rows, progress, interrupted, heard, flips>>
ReadsTable ==
    /\ warner = "read" /\ warnSleep = 0 /\ batch' = table
    /\ warner' = (IF table = {} THEN "done" ELSE "send") /\ NoFault
    /\ WarnOnly /\ UNCHANGED <<table, warnSleep, told>>
SendsWarning ==
    /\ warner = "send" /\ warner' = "ack" /\ told' = told \cup batch /\ NoFault
    /\ WarnOnly /\ UNCHANGED <<table, batch, warnSleep>>
Acknowledges ==
    /\ warner = "ack" /\ warner' = "done" /\ table' = table \ batch /\ batch' = {} /\ NoFault
    /\ WarnOnly /\ UNCHANGED <<warnSleep, told>>
\* Any exception: the whole delivery is tried again.  Mutant: it is given up.
GivenUp == "done"
TriedAgain == "read"
WarningFails ==
    /\ warner \in {"read", "send", "ack"} /\ warnSleep = 0
    /\ warner' = TriedAgain /\ batch' = {} /\ warnSleep' = Pause /\ Fault
    /\ WarnOnly /\ UNCHANGED <<table, told>>

(***************************************************************************)
(* A restart quarantines what was executing and removes the progress file. *)
(***************************************************************************)
\* Mutant: the file of the last process stays.
RecordKept == record
RecordAtStart == None
Restarted ==
    /\ \E new \in SUBSET (Records \ interrupted) :
          /\ interrupted' = interrupted \cup new /\ table' = table \cup new
    /\ Fault /\ warning' = None /\ recovered' = FALSE /\ nextNotice' = 0 /\ nextSend' = 0
    /\ changed' = FALSE /\ teller' = "loop" /\ text' = None /\ tellSleep' = 0 /\ todo' = {}
    /\ warner' = "read" /\ batch' = {} /\ warnSleep' = 0
    /\ record' = RecordAtStart /\ success' = None /\ heard' = "nothing"
    /\ UNCHANGED <<rows, told, flips>>

Less(n) == IF n = 0 THEN 0 ELSE n - 1
Older(age) == IF age = None \/ age > MaxAge THEN age ELSE age + 1
Tick ==
    /\ ~(teller = "wait" /\ (changed \/ tellSleep = 0))
    /\ nextNotice' = Less(nextNotice) /\ nextSend' = Less(nextSend)
    /\ tellSleep' = Less(tellSleep) /\ warnSleep' = Less(warnSleep)
    /\ record' = Older(record) /\ success' = Older(success) /\ NoFault
    /\ UNCHANGED <<warning, recovered, changed, teller, text, todo, rows, table, warner, batch,
                   interrupted, heard, told, flips>>

TellerStep ==
    \/ StartsNotice \/ NoNotice \/ NoticeSent \/ ReadsAlerts \/ AlertsDone \/ TellerWakes
    \/ \E s \in Strategies : AlertSent(s)
WarnerStep == ReadsTable \/ SendsWarning \/ Acknowledges
Next ==
    \/ TellerStep \/ WarnerStep \/ Tick \/ \E b \in BOOLEAN : PassSucceeds(b)
    \/ \E r \in Reasons : PassFails(r)
    \/ \E s \in Strategies : Pauses(s) \/ AlertNotMarked(s) \/ AlertFails(s)
    \/ NoticeFails \/ ReadFails \/ WarningFails \/ Restarted

Spec == Init /\ [][Next]_vars
FairSpec == Spec /\ WF_vars(TellerStep) /\ WF_vars(WarnerStep) /\ WF_vars(Tick)

-----------------------------------------------------------------------------
\* An alert or a warning leaves its queue only once it arrived, through failed
\* sends, failed writes and restarts at any point.
NothingForgotten == notified \subseteq told /\ interrupted \subseteq table \cup told

\* A fresh progress file speaks of this process: the record of a process that
\* died says nothing about the one that runs (check_progress,
\* supervision_health_lifecycle).
ProbeIsCurrent == record # None => success # None /\ success <= record

\* What is recorded outside the process is true: of messages, that they were
\* sent; of supervision, that this process did it (storage/recovery.py,
\* mark_strategy_alert_delivered, supervision_health.py).
RecordsAreTrue == NothingForgotten /\ ProbeIsCurrent

\* The operator's last word on supervision is true in the end, although the
\* state may change while a notice is on its way (_deliver_supervision_notice).
SupervisionIsTold ==
    /\ \A r \in Reasons : <>[](warning = r) => <>[](heard = r)
    /\ <>[](warning = None) => <>[](heard \in {"nothing", "recovered"})

\* Every paused strategy and every interrupted execution is reported.
EverythingIsTold ==
    /\ \A s \in Strategies : s \in paused ~> s \in told
    /\ \A r \in Records : r \in interrupted ~> r \in told

\* The operator hears of everything that needs a person, and last of what is true
\* (run_strategy_alert_delivery, _deliver_recovery_warning).
OperatorIsTold == SupervisionIsTold /\ EverythingIsTold
=============================================================================
