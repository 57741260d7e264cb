------------------------------ MODULE MCNotices ------------------------------
(***************************************************************************)
(* What the operator hears: of an action or a candidate (Dispatch), of     *)
(* supervision, paused strategies and interrupted executions (Notices), or *)
(* of a reported fill (Reviews).                                           *)
(***************************************************************************)
EXTENDS Dispatch

CONSTANTS
    a1, c1, Reasons, Strategies, Interruptible, Pause, Repeat, MaxAge, MaxFlips,
    NoticeFaults, Deliverers, Nobody, ReviewFaults
VARIABLES
    part, warning, recovered, nextNotice, nextSend, changed, teller, text, tellSleep,
    paused, notified, unsent, table, warner, batch, warnSleep, record, success,
    interrupted, heard, informed, flips, failures,
    saved, delivered, claim, due, shown, doing, trouble
N == INSTANCE Notices WITH
    Records <- Interruptible, MaxFaults <- NoticeFaults,
    todo <- unsent, told <- informed, faults <- failures
noticeVars ==
    <<warning, recovered, nextNotice, nextSend, changed, teller, text, tellSleep,
      paused, notified, unsent, table, warner, batch, warnSleep, record, success,
      interrupted, heard, informed, flips, failures>>

ASSUME NoticeConstants == N!Constants

Q == INSTANCE Reviews WITH
    None <- Nobody, MaxFaults <- ReviewFaults, told <- shown
ASSUME ReviewConstants == Q!Constants
reviewVars == <<saved, delivered, claim, due, shown, doing, trouble>>

NoRecords == {}
OneAction == {a1}
OneCandidate == {c1}

\* A batch is either an action or a candidate: the other one was skipped or had
\* expired when it was committed.
Apart ==
    \/ \A r \in Actions : status[r] = "none"
    \/ \A c \in Candidates : cand[c] = "EXPIRED"
    \/ /\ \A r \in Actions : mode[r] = "SKIPPED"
       /\ Actions \subseteq aged

BatchNext == part = "batch" /\ Next /\ Apart' /\ UNCHANGED <<part, noticeVars, reviewVars>>
NoticeNext == part = "notices" /\ N!Next /\ UNCHANGED <<part, vars, reviewVars>>
ReviewNext == part = "reviews" /\ Q!Next /\ UNCHANGED <<part, vars, noticeVars>>
BatchFairness ==
    /\ WF_vars(part = "batch" /\ BatchStep) /\ WF_vars(part = "batch" /\ RecoveryStep)
    /\ WF_vars(part = "batch" /\ Outcome) /\ WF_vars(part = "batch" /\ Restart)
    /\ \A r \in Records : /\ WF_vars(part = "batch" /\ DeliveryDue(r))
                          /\ WF_vars(part = "batch" /\ Age(r))
    /\ \A c \in Candidates : WF_vars(part = "batch" /\ CandidateDue(c))
NoticeFairness ==
    /\ WF_noticeVars(part = "notices" /\ N!TellerStep)
    /\ WF_noticeVars(part = "notices" /\ N!WarnerStep)
    /\ WF_noticeVars(part = "notices" /\ N!Tick)
ReviewFairness ==
    /\ \A d \in Deliverers : WF_reviewVars(part = "reviews" /\ Q!Deliver(d))
    /\ WF_reviewVars(part = "reviews" /\ Q!RetryAfterPasses)
EitherInit ==
    /\ part \in {"batch", "notices", "reviews"} /\ Init /\ N!Init /\ Q!Init
    /\ part # "batch" => autoMode = "disabled"
    /\ part # "notices" => interrupted = {}
BatchOrNotices ==
    /\ EitherInit
    /\ [][BatchNext \/ NoticeNext \/ ReviewNext]_<<part, vars, noticeVars, reviewVars>>
    /\ BatchFairness /\ NoticeFairness /\ ReviewFairness

\* What is recorded about notices and supervision is true
\* (acknowledge_recovery_notices, check_progress).
RecordsAreTrue == N!RecordsAreTrue
\* Supervision, pauses and interruptions are told, the last word being true
\* (_deliver_supervision_notice, deliver_strategy_alerts, send_recovery_warning).
OperatorIsTold == N!OperatorIsTold
\* A saved review reaches the person; its delivery is recorded only when made and
\* stays recorded (recover_entry_reviews, finish_entry_review).
ReviewIsDelivered ==
    [][Q!StaysStep]_reviewVars /\ (part = "reviews" => Q!ReviewReachesPerson)
=============================================================================
