----------------------------- MODULE MCIngestion -----------------------------
(***************************************************************************)
(* The reader twice: what becomes of the posts of a channel (Ingestion),   *)
(* or of the session they are read through (Reader).                       *)
(***************************************************************************)
EXTENDS Ingestion

CONSTANTS
    Channels, Accounts, Operator, NoUser,
    Retry, AuthRetry, ReadCheck, Grace, AlertEvery, SessionFaults, MaxLogins
VARIABLES
    part, run, failure, watch, online, login, tries, holder, wake, state, outage,
    nextAlert, nextRestored, nextLogin, degraded, runSleep, watchSleep, errors,
    account, pinned, heard, failures, logins
R == INSTANCE Reader WITH
    None <- NoUser, MaxFaults <- SessionFaults,
    up <- online, lock <- holder, faults <- failures
ASSUME SessionConstants == R!Constants
sessionVars ==
    <<run, failure, watch, online, login, tries, holder, wake, state, outage,
      nextAlert, nextRestored, nextLogin, degraded, runSleep, watchSleep, errors,
      account, pinned, heard, failures, logins>>

\* Post 1 is older than the enrolment window; posts 2 and 3 carry text.
NothingIgnorable == {}

PostsInit == part = "posts" /\ Init /\ R!Init /\ account = NoUser /\ pinned = NoUser
SessionInit == part = "session" /\ Init /\ published = Boot /\ R!Init
PostsNext == part = "posts" /\ Next /\ UNCHANGED <<part, sessionVars>>
SessionNext == part = "session" /\ R!Next /\ UNCHANGED <<part, vars>>
PostsFairness ==
    /\ \A t \in Tasks : WF_vars(part = "posts" /\ Deliver(t))
    /\ WF_vars(part = "posts" /\ PollOnce) /\ WF_vars(part = "posts" /\ Restart)
    /\ \A p \in Posts : WF_vars(part = "posts" /\ LeaseExpires(p))
SessionFairness ==
    /\ WF_sessionVars(part = "session" /\ R!RunStep)
    /\ WF_sessionVars(part = "session" /\ R!WatchStep)
    /\ WF_sessionVars(part = "session" /\ R!LoginStep)
    /\ WF_sessionVars(part = "session" /\ R!Tick)
PostsOrSession ==
    /\ PostsInit \/ SessionInit
    /\ [][PostsNext \/ SessionNext]_<<part, vars, sessionVars>>
    /\ PostsFairness /\ SessionFairness

\* Posts are read as the pinned user, and /source shows what the reader does
\* (pin_source_identity, SourceRecovery.run, login).
SessionIsAsShown == R!SessionIsAsShown
\* An authorized reader comes back by itself, and the last notice is true in the
\* end (SourceRecovery.run, _alert, _announce_restored).
ReaderSettles == part = "session" => R!ReaderSettles
=============================================================================
