------------------------------- MODULE Reader -------------------------------
(***************************************************************************)
(* The session of the Telegram reader: the reconnecting loop of            *)
(* source_recovery.py with the task that watches the channel reads, the    *)
(* /source_login command, and the notices both send to the operator.  The  *)
(* loop, the watcher and the command share the connection under one lock   *)
(* and the displayed state under none.  Time is counted in retry periods.  *)
(***************************************************************************)
EXTENDS Naturals

CONSTANTS
    Channels,       \* source channels
    Accounts,       \* Telegram user ids a session can be authorized as
    Operator,       \* telegram_approver_user_id
    None,
    Retry,          \* retry_seconds, and the 30 seconds between two logins
    AuthRetry,      \* auth_retry_seconds
    ReadCheck,      \* read_check_seconds
    Grace,          \* degraded_grace_seconds
    AlertEvery,     \* alert_seconds
    MaxFaults,      \* failed requests, read errors, revocations and restarts
    MaxLogins       \* /source_login commands and local authorizations
\* None stands for nobody, also as the holder of the lock.
Constants == None \notin {"run", "login"}

VARIABLES
    run,            \* where SourceRecovery.run is
    failure,        \* the exception that ended the connection
    watch,          \* where _monitor_reads is
    up,             \* startup_complete
    login,          \* where login is
    tries,          \* QR codes left
    lock,           \* holder of _lock
    wake,           \* _wake
    state,          \* the state /source shows
    outage,         \* _outage
    nextAlert, nextRestored, nextLogin,   \* time left until each is allowed
    degraded,       \* time since _degraded_since
    runSleep, watchSleep,
    errors,         \* channels in _read_errors
    account,        \* the user the session file is authorized as
    pinned,         \* the identity record
    heard,          \* the last notice the bot confirmed
    faults, logins

session == <<run, failure, watch, up, lock>>
command == <<login, tries, nextLogin>>
notices == <<outage, nextAlert, nextRestored, degraded, heard>>
sleeps == <<runSleep, watchSleep>>
budget == <<faults, logins>>
vars == <<session, command, notices, sleeps, wake, state, errors, account, pinned, budget>>

States == {"STARTING", "ONLINE", "DEGRADED", "OFFLINE", "AUTH_REQUIRED", "AUTHORIZING"}
Reading == run \in {"start", "serve"}
Fault == faults < MaxFaults /\ faults' = faults + 1 /\ UNCHANGED logins
NoFault == UNCHANGED budget

Init ==
    /\ run = "lock" /\ failure = None /\ watch = "off" /\ up = FALSE
    /\ login = "idle" /\ tries = 0 /\ lock = None /\ wake = FALSE
    /\ state = "STARTING" /\ outage = FALSE
    /\ nextAlert = 0 /\ nextRestored = 0 /\ nextLogin = 0 /\ degraded = None
    /\ runSleep = 0 /\ watchSleep = 0 /\ errors = {} /\ heard = "nothing"
    /\ account \in Accounts \cup {None} /\ pinned \in {None, Operator}
    /\ faults = 0 /\ logins = 0
\* A new process: only the session file and the identity record are durable.
Fresh ==
    /\ run' = "lock" /\ failure' = None /\ watch' = "off" /\ up' = FALSE
    /\ login' = "idle" /\ tries' = 0 /\ lock' = None /\ wake' = FALSE
    /\ state' = "STARTING" /\ outage' = FALSE
    /\ nextAlert' = 0 /\ nextRestored' = 0 /\ nextLogin' = 0 /\ degraded' = None
    /\ runSleep' = 0 /\ watchSleep' = 0 /\ errors' = {} /\ heard' = "nothing"

(***************************************************************************)
(* The identity record: written once, compared ever after.                 *)
(***************************************************************************)
\* Mutant: whoever the session belongs to.
AnyUser(u) == u # None
MayPin(u) == u # None /\ pinned \in {None, u}
Pin(u) == pinned' = IF pinned = None THEN u ELSE pinned
Expected == IF pinned = None THEN Operator ELSE pinned

(***************************************************************************)
(* SourceRecovery.run.                                                     *)
(***************************************************************************)
RunLock ==
    /\ run = "lock" /\ lock = None
    /\ lock' = "run" /\ run' = "session" /\ NoFault
    /\ UNCHANGED <<failure, watch, up, command, notices, sleeps, wake, state, errors,
                   account, pinned>>

\* An exception leaves _connected: its task group cancels the watcher, and a
\* notice the watcher was sending is never confirmed.
Fail(kind) ==
    /\ failure' = kind /\ run' = "close" /\ watch' = "off" /\ up' = FALSE
    /\ UNCHANGED <<lock, command, notices, sleeps, wake, state, errors, account, pinned>>

Connects ==
    /\ run = "session" /\ MayPin(account) /\ Pin(account)
    /\ run' = "start" /\ watch' = "check" /\ NoFault
    /\ UNCHANGED <<failure, up, lock, command, notices, sleeps, wake, state, errors, account>>
Refused == run = "session" /\ ~MayPin(account) /\ Fail("auth") /\ NoFault
Unauthorized == Reading /\ account = None /\ Fail("auth") /\ NoFault
Dropped == (run = "session" \/ Reading) /\ Fail("net") /\ Fault

Started ==
    /\ run = "start" /\ account # None
    /\ state' = IF errors = {} THEN "ONLINE" ELSE "DEGRADED"
    /\ up' = TRUE /\ run' = "serve" /\ NoFault
    /\ UNCHANGED <<failure, watch, lock, command, notices, sleeps, wake, errors, account, pinned>>

\* A poll records the channels it could not read or whose posts still wait for
\* a retry, and clears those it read to the end.
PollFails(c) ==
    /\ Reading /\ c \notin errors /\ errors' = errors \cup {c} /\ Fault
    /\ UNCHANGED <<session, command, notices, sleeps, wake, state, account, pinned>>
PollClears(c) ==
    /\ Reading /\ c \in errors /\ errors' = errors \ {c} /\ NoFault
    /\ UNCHANGED <<session, command, notices, sleeps, wake, state, account, pinned>>

Warned == outage' = TRUE /\ nextAlert' = AlertEvery /\ heard' = "warned"
DelayAfter == IF state = "AUTH_REQUIRED" THEN AuthRetry ELSE Retry

DownState == IF failure = "auth" THEN "AUTH_REQUIRED" ELSE "OFFLINE"
AlertAfter(s) == IF state = s THEN nextAlert ELSE 0
\* disconnect, whatever it answers, then the handler up to its notice.
Closes ==
    /\ run = "close" /\ lock' = None /\ failure' = None
    /\ nextAlert' = AlertAfter(DownState) /\ state' = DownState /\ degraded' = None
    /\ IF nextAlert' > 0
       THEN run' = "wait" /\ runSleep' = (IF DownState = "AUTH_REQUIRED" THEN AuthRetry ELSE Retry)
       ELSE run' = "alert" /\ UNCHANGED runSleep
    /\ NoFault
    /\ UNCHANGED <<watch, up, command, outage, nextRestored, heard, watchSleep, wake, errors,
                   account, pinned>>
RunAlerts(ok) ==
    /\ run = "alert" /\ run' = "wait" /\ runSleep' = DelayAfter
    /\ IF ok THEN Warned /\ NoFault ELSE UNCHANGED <<outage, nextAlert, heard>> /\ Fault
    /\ UNCHANGED <<failure, watch, up, lock, command, nextRestored, degraded, watchSleep, wake,
                   state, errors, account, pinned>>
\* Mutant: only a login wakes the loop.
RunAsked == run = "wait" /\ wake
RunDue == run = "wait" /\ (wake \/ runSleep = 0)
RunWakes ==
    /\ RunDue /\ run' = "lock" /\ wake' = FALSE /\ runSleep' = 0 /\ NoFault
    /\ UNCHANGED <<failure, watch, up, lock, command, notices, watchSleep, state, errors,
                   account, pinned>>

(***************************************************************************)
(* _monitor_reads.                                                         *)
(***************************************************************************)
WatchTo(s) == watch' = s /\ watchSleep' = IF s = "sleep" THEN ReadCheck ELSE 0
WatchOnly == UNCHANGED <<run, failure, up, lock, command, runSleep, wake, errors, account, pinned>>

SeesErrors ==
    /\ watch = "check" /\ errors # {}
    /\ state' = "DEGRADED" /\ degraded' = IF degraded = None THEN 0 ELSE degraded
    /\ WatchTo(IF degraded' >= Grace /\ nextAlert = 0 THEN "warn" ELSE "sleep")
    /\ NoFault /\ WatchOnly /\ UNCHANGED <<outage, nextAlert, nextRestored, heard>>
SeesNothing ==
    /\ watch = "check" /\ errors = {} /\ ~up /\ WatchTo("sleep")
    /\ NoFault /\ WatchOnly /\ UNCHANGED <<state, notices>>
RestoredDue == outage /\ nextRestored = 0
SeesHealthy ==
    /\ watch = "check" /\ errors = {} /\ up
    /\ state' = IF state = "DEGRADED" THEN "ONLINE" ELSE state
    /\ degraded' = None /\ WatchTo(IF RestoredDue THEN "restore" ELSE "sleep")
    /\ NoFault /\ WatchOnly /\ UNCHANGED <<outage, nextAlert, nextRestored, heard>>
WatchAlerts(ok) ==
    /\ watch = "warn" /\ WatchTo("sleep")
    /\ IF ok THEN Warned /\ NoFault ELSE UNCHANGED <<outage, nextAlert, heard>> /\ Fault
    /\ WatchOnly /\ UNCHANGED <<state, nextRestored, degraded>>
\* Mutant: the outage is over when the notice is sent, not when it arrives.
OutageForgotten(ok) == FALSE
OutageAfter(ok) == ~ok
WatchRestores(ok) ==
    /\ watch = "restore" /\ WatchTo("sleep") /\ outage' = OutageAfter(ok)
    /\ IF ok THEN nextRestored' = 0 /\ heard' = "restored" /\ NoFault
             ELSE nextRestored' = Retry /\ UNCHANGED heard /\ Fault
    /\ WatchOnly /\ UNCHANGED <<state, nextAlert, degraded>>
WatchWakes ==
    /\ watch = "sleep" /\ watchSleep = 0 /\ WatchTo("check")
    /\ NoFault /\ WatchOnly /\ UNCHANGED <<state, notices>>

(***************************************************************************)
(* /source_login.  Every refused command only answers: the reader is       *)
(* connected, an attempt is running, or the last one is too recent.        *)
(***************************************************************************)
\* Mutant: a login does not look at the lock.
LoginUnlocked == state \notin {"ONLINE", "DEGRADED"} /\ nextLogin = 0
LoginAllowed == state \notin {"ONLINE", "DEGRADED"} /\ lock = None /\ nextLogin = 0
LoginOnly ==
    UNCHANGED <<run, failure, watch, up, notices, sleeps, errors>>
LoginStarts ==
    /\ login = "idle" /\ LoginAllowed /\ logins < MaxLogins
    /\ logins' = logins + 1 /\ UNCHANGED faults
    /\ login' = "session" /\ lock' = "login" /\ nextLogin' = Retry /\ state' = "AUTHORIZING"
    /\ LoginOnly /\ UNCHANGED <<tries, wake, account, pinned>>
\* Any exception: the state is set, then a notice is tried under the lock.
LoginRaises ==
    /\ login' = "tell" /\ state' = "AUTH_REQUIRED" /\ tries' = 0
    /\ UNCHANGED <<lock, nextLogin, wake>> /\ LoginOnly
LoginEnds ==
    /\ login' = "idle" /\ lock' = None /\ wake' = TRUE /\ tries' = 0
    /\ UNCHANGED <<nextLogin, state>> /\ LoginOnly

LoginFails ==
    /\ login \in {"session", "show", "scan"} /\ LoginRaises /\ Fault
    /\ UNCHANGED <<account, pinned>>
AlreadyAuthorized ==
    /\ login = "session" /\ MayPin(account) /\ Pin(account) /\ LoginEnds /\ NoFault
    /\ UNCHANGED account
WrongSession ==
    /\ login = "session" /\ account # None /\ ~MayPin(account) /\ LoginRaises /\ NoFault
    /\ UNCHANGED <<account, pinned>>
QrLogin ==
    /\ login = "session" /\ account = None
    /\ Pin(Expected) /\ login' = "show" /\ tries' = 3 /\ NoFault /\ LoginOnly
    /\ UNCHANGED <<lock, nextLogin, wake, state, account>>
ShowsQr ==
    /\ login = "show" /\ login' = "scan" /\ NoFault /\ LoginOnly
    /\ UNCHANGED <<tries, lock, nextLogin, wake, state, account, pinned>>
QrExpires ==
    /\ login = "scan" /\ NoFault /\ UNCHANGED <<account, pinned>>
    /\ IF tries = 1 THEN LoginRaises
       ELSE /\ login' = "show" /\ tries' = tries - 1 /\ LoginOnly
            /\ UNCHANGED <<lock, nextLogin, wake, state>>
\* The scan authorizes the session file before the account is compared; the
\* notice that follows an accepted one may fail.
Scanned(u) ==
    /\ login = "scan" /\ account' = u /\ UNCHANGED pinned
    /\ \/ u = Expected /\ LoginEnds /\ NoFault
       \/ u = Expected /\ LoginRaises /\ Fault
       \/ u # Expected /\ LoginRaises /\ NoFault
\* Telegram asks for the second factor: nothing is authorized.
AsksPassword ==
    /\ login = "scan" /\ LoginRaises /\ NoFault /\ UNCHANGED <<account, pinned>>
LoginTells == login = "tell" /\ LoginEnds /\ NoFault /\ UNCHANGED <<account, pinned>>

(***************************************************************************)
(* Telegram, the operator and time.                                        *)
(***************************************************************************)
Revoked ==
    /\ account # None /\ account' = None /\ Fault
    /\ UNCHANGED <<session, command, notices, sleeps, wake, state, errors, pinned>>
Restarted == Fault /\ Fresh /\ UNCHANGED <<account, pinned>>
\* scripts/authorize_telegram.py, which needs the application stopped, and the
\* start that follows.
AuthorizedLocally ==
    /\ logins < MaxLogins /\ logins' = logins + 1 /\ UNCHANGED faults
    /\ account' = Expected /\ Pin(Expected) /\ Fresh

Less(n) == IF n = 0 THEN 0 ELSE n - 1
\* Time passes while a request is pending, but no timer is overslept.
Tick ==
    /\ ~RunDue /\ ~(watch = "sleep" /\ watchSleep = 0)
    /\ nextAlert' = Less(nextAlert) /\ nextRestored' = Less(nextRestored)
    /\ nextLogin' = Less(nextLogin) /\ runSleep' = Less(runSleep)
    /\ watchSleep' = Less(watchSleep)
    /\ degraded' = IF degraded \in {None, Grace} THEN degraded ELSE degraded + 1
    /\ NoFault
    /\ UNCHANGED <<session, login, tries, outage, heard, wake, state, errors, account, pinned>>

RunStep ==
    \/ RunLock \/ Connects \/ Refused \/ Unauthorized \/ Started
    \/ Closes \/ RunAlerts(TRUE) \/ RunWakes
WatchStep ==
    \/ SeesErrors \/ SeesNothing \/ SeesHealthy
    \/ WatchAlerts(TRUE) \/ WatchRestores(TRUE) \/ WatchWakes
LoginStep == AlreadyAuthorized \/ WrongSession \/ QrLogin \/ ShowsQr \/ QrExpires \/ LoginTells
Next ==
    \/ RunStep \/ WatchStep \/ LoginStep \/ Tick
    \/ Dropped \/ RunAlerts(FALSE) \/ WatchAlerts(FALSE) \/ WatchRestores(FALSE)
    \/ \E c \in Channels : PollFails(c) \/ PollClears(c)
    \/ LoginStarts \/ LoginFails \/ AsksPassword \/ \E u \in Accounts : Scanned(u)
    \/ Revoked \/ Restarted \/ AuthorizedLocally

Spec == Init /\ [][Next]_vars
\* Requests end (with a timeout if need be) and timers fire; nobody has to scan,
\* and a channel that cannot be read may stay so.
FairSpec ==
    Spec /\ WF_vars(RunStep) /\ WF_vars(WatchStep) /\ WF_vars(LoginStep) /\ WF_vars(Tick)

-----------------------------------------------------------------------------
\* The identity record is never rewritten, and posts are read only as the user
\* it names, though a QR code can be scanned by anybody (pin_source_identity).
ReadsAsPinned == Reading => pinned # None /\ account \in {pinned, None}

\* What /source shows is what the reader does, though three tasks write it:
\* no connected state without a connection, none without one while connected,
\* and an authorization that ended is followed by a connection attempt.
StatusIsCurrent ==
    /\ state = "ONLINE" => run \in {"serve", "close"}
    /\ state = "DEGRADED" => run \in {"start", "serve", "close"}
    /\ run = "serve" => state \in {"ONLINE", "DEGRADED"}
    /\ state = "AUTHORIZING" => login # "idle" \/ wake \/ run # "wait"

\* The session is the one the operator pinned and in the state shown
\* (source_recovery.py).
SessionIsAsShown == ReadsAsPinned /\ StatusIsCurrent

\* The last notice is true in the end: an outage or a degradation that lasts is
\* alerted whatever was sent before it, a recovery that lasts is announced.
LastNoticeIsTrue ==
    /\ <>[](run # "serve" \/ errors # {}) => <>[](heard = "warned")
    /\ <>[](run = "serve" /\ errors = {}) => <>[](heard # "warned")

\* Once the session is and stays authorized as the pinned user, the reader
\* comes back by itself, whatever was going on.
ReaderRecovers == <>[](account # None /\ account = pinned) => <>[](run = "serve")

\* Once faults stop the reader settles, and the operator knows where (run, _alert).
ReaderSettles == LastNoticeIsTrue /\ ReaderRecovers
=============================================================================
