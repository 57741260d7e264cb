--------------------------- MODULE IngestionProofs ---------------------------
(***************************************************************************)
(* No post is skipped and none is decided twice, for a channel of any      *)
(* length, any number of slots and any number of faults.                   *)
(*                                                                         *)
(* Neither follows from the locks: a post below the cursor has a row       *)
(* because the replayed posts have no gap above the watermark and each     *)
(* ended well before the cursor moved; a second batch is impossible        *)
(* because only a claimed row gets one, in the step that completes it.     *)
(*                                                                         *)
(* Of the session: the loop and the login write the displayed state in     *)
(* turns because of the lock (LockInv), the watcher does so without it but *)
(* only within a connection.                                               *)
(***************************************************************************)
EXTENDS MCIngestion, TLAPS

Seen(p) == row[p] # "none" \/ p \in Ignorable
\* The poll delivers a post of the channel.
CurrentIsSet == stage[Poll] # "idle" => current \in Posts
\* What the replay has still to visit follows the watermark without a gap.
ReplayIsGapless ==
    phase = "replaying" =>
        /\ watermark # None /\ \A p \in todo : watermark < p
        /\ \A p \in todo, q \in Posts : watermark < q /\ q <= p => q \in todo
OkIsSeen == \A p \in Posts : results[p] = "ok" => Seen(p)
IngestInv ==
    /\ TypeOK /\ CurrentIsSet /\ ReplayIsGapless /\ OkIsSeen
    /\ NoPostSkipped /\ DecidedOnce

\* Nothing is recorded, delivered or skipped at the start.
LEMMA InitIngest == Init => IngestInv
  BY IngestionAssumption DEF Init, IngestInv, TypeOK, CurrentIsSet,
     ReplayIsGapless, OkIsSeen, NoPostSkipped, DecidedOnce, Seen, Status,
     InSlot, Stages, Phases, Posts, Tasks, Poll, None

\* What finishing a source does to the rows: none disappears and none that is
\* COMPLETED changes.
RowsMoveOn ==
    /\ row' \in [Posts -> Status] /\ token' \in [Posts -> Tasks \cup {None}]
    /\ stale' \in [Posts -> BOOLEAN]
    /\ \A q \in Posts :
         /\ row[q] # "none" => row'[q] # "none"
         /\ row[q] = "COMPLETED" => row'[q] = "COMPLETED"
\* _finish_source touches only the row of the current claim.
LEMMA FinishMovesOn ==
    ASSUME TypeOK, NEW t \in Tasks, NEW p \in Posts,
           NEW status \in {"FAILED", "COMPLETED"}, FinishSource(t, p, status)
    PROVE  RowsMoveOn
  BY DEF TypeOK, FinishSource, Owns, RowsMoveOn, Status

\* One step of delivering a post: rows move only from undecided states, and a
\* delivery that ends well leaves a row.
LEMMA DeliverStep ==
    ASSUME IngestInv, NEW t \in Tasks, Deliver(t) PROVE IngestInv'
<1> USE IngestionAssumption DEF IngestInv, TypeOK, CurrentIsSet,
   ReplayIsGapless, OkIsSeen, NoPostSkipped, DecidedOnce, Seen, store,
   poller, world, Status, InSlot, Stages, Phases, Posts, Tasks, Poll, None
<1>0. stage[t] # "idle" => PostOf(t) \in Posts
  BY DEF PostOf
<1>1. CASE EnterResolve(t)
  BY <1>0, <1>1 DEF EnterResolve, NoFault, At, To
<1>2. CASE Resolve(t)
  BY <1>0, <1>2 DEF Resolve, NoFault, At, To
<1>3. CASE AcquireLock(t)
  BY <1>0, <1>3 DEF AcquireLock, NoFault, At
<1>4. CASE EnterSlot(t)
  BY <1>0, <1>4 DEF EnterSlot, NoFault, At, To
<1>5. CASE NothingToDo(t)
  <2>1. \/ t # Poll
        \/ current \in Posts /\ Seen(current)
    BY <1>0, <1>5 DEF NothingToDo, At, PostOf
  <2> QED
    BY <1>5, <2>1 DEF NothingToDo, NoFault, At, End, PostOf
<1>6. CASE Download(t)
  BY <1>0, <1>6 DEF Download, NoFault, At, To
<1>7. CASE ClaimSource(t)
  <2>1. PICK p \in Posts : p = PostOf(t)
    BY <1>0, <1>7 DEF ClaimSource, At
  <2>2. /\ row[p] # "COMPLETED" /\ stage[t] = "claim"
        /\ row' = [row EXCEPT ![p] = "PROCESSING"]
        /\ token' = [token EXCEPT ![p] = t]
        /\ stale' = [stale EXCEPT ![p] = FALSE]
        /\ To(t, "work") /\ NoFault /\ UNCHANGED <<batches, cursor, world>>
    BY <1>7, <2>1 DEF ClaimSource, Claimable, At
  <2>3. TypeOK'
    BY <2>2 DEF To, NoFault
  <2>4. NoPostSkipped' /\ DecidedOnce'
    BY <2>2
  <2>5. OkIsSeen'
    BY <2>2 DEF To
  <2>6. CurrentIsSet' /\ ReplayIsGapless'
    BY <2>2 DEF To
  <2> HIDE DEF TypeOK, CurrentIsSet, ReplayIsGapless, OkIsSeen, NoPostSkipped,
          DecidedOnce
  <2> QED
    BY <2>3, <2>4, <2>5, <2>6
<1>8. CASE ClaimRefused(t)
  BY <1>0, <1>8 DEF ClaimRefused, NoFault, At, To
<1>9. CASE MarkSourceFailed(t)
  <2>1. PICK p \in Posts : p = PostOf(t)
    BY <1>0, <1>9 DEF MarkSourceFailed, At
  <2>2. /\ FinishSource(t, p, "FAILED") /\ To(t, "settle") /\ Fault
        /\ stage[t] = "work" /\ UNCHANGED <<batches, cursor, world>>
    BY <1>9, <2>1 DEF MarkSourceFailed, At
  <2>3. RowsMoveOn
    BY <2>2, FinishMovesOn
  <2>4. TypeOK'
    BY <2>2, <2>3 DEF To, Fault, RowsMoveOn
  <2>5. NoPostSkipped'
    BY <2>2, <2>3 DEF RowsMoveOn
  <2>6. DecidedOnce'
    BY <2>2, <2>3 DEF RowsMoveOn
  <2>7. OkIsSeen'
    BY <2>2, <2>3 DEF To, RowsMoveOn
  <2>8. CurrentIsSet' /\ ReplayIsGapless'
    BY <2>2 DEF To
  <2> HIDE DEF TypeOK, CurrentIsSet, ReplayIsGapless, OkIsSeen, NoPostSkipped,
          DecidedOnce
  <2> QED
    BY <2>4, <2>5, <2>6, <2>7, <2>8
<1>10. CASE MarkSourceCompleted(t)
  <2>1. PICK p \in Posts : p = PostOf(t)
    BY <1>0, <1>10 DEF MarkSourceCompleted, At
  <2>2. /\ FinishSource(t, p, "COMPLETED") /\ To(t, "settle") /\ NoFault
        /\ stage[t] = "work" /\ UNCHANGED <<batches, cursor, world>>
    BY <1>10, <2>1 DEF MarkSourceCompleted, At
  <2>3. RowsMoveOn
    BY <2>2, FinishMovesOn
  <2>4. TypeOK'
    BY <2>2, <2>3 DEF To, NoFault, RowsMoveOn
  <2>5. NoPostSkipped'
    BY <2>2, <2>3 DEF RowsMoveOn
  <2>6. DecidedOnce'
    BY <2>2, <2>3 DEF RowsMoveOn
  <2>7. OkIsSeen'
    BY <2>2, <2>3 DEF To, RowsMoveOn
  <2>8. CurrentIsSet' /\ ReplayIsGapless'
    BY <2>2 DEF To
  <2> HIDE DEF TypeOK, CurrentIsSet, ReplayIsGapless, OkIsSeen, NoPostSkipped,
          DecidedOnce
  <2> QED
    BY <2>4, <2>5, <2>6, <2>7, <2>8
<1>11. CASE ClaimLost(t)
  BY <1>0, <1>11 DEF ClaimLost, NoFault, Owns, At, To
<1>12. CASE RejectionLost(t)
  BY <1>0, <1>12 DEF RejectionLost, NoFault, Owns, At, End
<1>13. CASE PersistBatch(t)
  <2>1. PICK p \in Posts : p = PostOf(t)
    BY <1>0, <1>13 DEF PersistBatch, At
  <2>2. /\ row[p] = "PROCESSING" /\ stage[t] = "work"
        /\ row' = [row EXCEPT ![p] = "COMPLETED"]
        /\ token' = [token EXCEPT ![p] = None]
        /\ stale' = [stale EXCEPT ![p] = FALSE]
        /\ batches' = [batches EXCEPT ![p] = @ + 1]
        /\ To(t, "dispatch") /\ NoFault /\ UNCHANGED <<cursor, world>>
    BY <1>13, <2>1 DEF PersistBatch, FinishSource, Owns, At
  <2>3. batches[p] = 0
    BY <2>2
  <2>4. TypeOK'
    BY <2>2 DEF To, NoFault
  <2>5. DecidedOnce'
    BY <2>2, <2>3
  <2>6. NoPostSkipped' /\ OkIsSeen'
    BY <2>2 DEF To
  <2>7. CurrentIsSet' /\ ReplayIsGapless'
    BY <2>2 DEF To
  <2> HIDE DEF TypeOK, CurrentIsSet, ReplayIsGapless, OkIsSeen, NoPostSkipped,
          DecidedOnce
  <2> QED
    BY <2>4, <2>5, <2>6, <2>7
<1>14. CASE Dispatch(t)
  BY <1>0, <1>14 DEF Dispatch, NoFault, At, To
<1>15. CASE Settle(t)
  <2>1. PICK r \in {"ok", "failed"} :
          End(t, r) /\ (r = "ok" => Seen(PostOf(t)))
    BY <1>15 DEF Settle
  <2>2. t = Poll => PostOf(t) = current /\ current \in Posts
    BY <1>0, <1>15 DEF Settle, At, PostOf
  <2>3. NoFault /\ UNCHANGED <<store, world>>
    BY <1>15 DEF Settle
  <2> QED
    BY <2>1, <2>2, <2>3 DEF NoFault, End
<1>16. CASE Raises(t)
  BY <1>0, <1>16 DEF Raises, Fault, End
<1> QED
  BY <1>1, <1>2, <1>3, <1>4, <1>5, <1>6, <1>7, <1>8, <1>9, <1>10, <1>11,
     <1>12, <1>13, <1>14, <1>15, <1>16 DEF Deliver

\* One step of the poll: the cursor moves to the next post, whose delivery
\* ended well.
LEMMA PollStep == ASSUME IngestInv, PollOnce PROVE IngestInv'
<1> USE IngestionAssumption DEF IngestInv, TypeOK, CurrentIsSet,
   ReplayIsGapless, OkIsSeen, NoPostSkipped, DecidedOnce, Seen, store,
   poller, world, Status, InSlot, Stages, Phases, Posts, Tasks, Poll, None
<1>1. CASE Seed
  BY <1>1 DEF Seed, NoFault, Polling, PollSteps
<1>2. CASE SeedFails
  BY <1>2 DEF SeedFails, Fault, Polling, PollSteps
<1>3. CASE RetryLookup
  BY <1>3 DEF RetryLookup, NoFault, Polling, PollSteps
<1>4. CASE RetryFails
  BY <1>4 DEF RetryFails, Fault, Polling, PollSteps
<1>5. CASE RetryFetch
  BY <1>5 DEF RetryFetch, NoFault, Polling, PollSteps
<1>6. CASE RetryFetchMisses
  BY <1>6 DEF RetryFetchMisses, Fault, Polling, PollSteps, Deferrable,
     Retryable
<1>7. CASE RetriesDone
  BY <1>7 DEF RetriesDone, NoFault, Polling, PollSteps
<1>8. CASE HistoryFetch
  BY <1>8 DEF HistoryFetch, NoFault, Polling, PollSteps
<1>9. CASE HistoryFails
  BY <1>9 DEF HistoryFails, Fault, NoFault, Polling, PollSteps
<1>10. ASSUME NEW p \in Posts, RetryPost(p) PROVE IngestInv'
  BY <1>10 DEF RetryPost, NoFault, Polling, IsNext, StartDelivery
<1>11. ASSUME NEW p \in Posts, ReplayPost(p) PROVE IngestInv'
  BY <1>11 DEF ReplayPost, NoFault, Polling, IsNext, StartDelivery
<1>12. ASSUME NEW p \in Posts, SaveCursor(p) PROVE IngestInv'
  <2>1. ASSUME NEW q \in Posts, watermark < q PROVE p <= q
    <3>1. \A r \in todo : p <= r
      BY <1>12 DEF SaveCursor, IsNext
    <3>2. p \in todo /\ (q <= p => q \in todo)
      BY <1>12, <2>1 DEF SaveCursor, Polling, IsNext
    <3> QED
      BY <3>1, <3>2
  <2>2. Seen(p)
    BY <1>12 DEF SaveCursor, Delivered
  <2>3. p \in todo /\ watermark \in Boot..Last /\ watermark < p
    BY <1>12 DEF SaveCursor, Polling, IsNext
  <2>4. cursor' \in Boot..Last /\ watermark' \in Boot..Last /\ watermark' <= cursor'
    BY <1>12, <2>3 DEF SaveCursor, Polling
  <2>5. NoPostSkipped'
    <3>1. row' = row /\ cursor' \in {cursor, p} /\ watermark <= cursor
      BY <1>12 DEF SaveCursor
    <3>2. ASSUME NEW q \in Posts, Boot < q, q <= cursor' PROVE Seen(q)
      <4>1. CASE q <= cursor
        BY <3>2, <4>1
      <4>2. CASE ~(q <= cursor)
        <5>1. watermark < q
          BY <2>3, <3>1, <4>2
        <5>2. p <= q
          BY <2>1, <5>1
        <5>3. q <= p
          BY <3>1, <3>2, <4>2
        <5> QED
          BY <2>2, <5>2, <5>3
      <4> QED
        BY <4>1, <4>2
    <3> QED
      BY <3>1, <3>2
  <2>6. ReplayIsGapless'
    BY <1>12, <2>4 DEF SaveCursor, Polling, IsNext
  <2> QED
    BY <1>12, <2>4, <2>5, <2>6 DEF SaveCursor, NoFault, PollSteps
<1>13. ASSUME NEW p \in Posts, StopReplay(p) PROVE IngestInv'
  BY <1>13 DEF StopReplay, Fault, NoFault, Polling, PollSteps, IsNext
<1> QED
  BY <1>1, <1>2, <1>3, <1>4, <1>5, <1>6, <1>7, <1>8, <1>9, <1>10, <1>11,
     <1>12, <1>13 DEF PollOnce

\* The channel, the clock, lost connections, crashes and restarts.
LEMMA WorldStep ==
    ASSUME IngestInv,
           \/ \E live \in BOOLEAN : Publish(live)
           \/ \E p \in Posts : LeaseExpires(p)
           \/ \E T \in SUBSET Tasks : Disconnect(T)
           \/ Crash \/ Restart
    PROVE  IngestInv'
<1> USE IngestionAssumption DEF IngestInv, TypeOK, CurrentIsSet,
    ReplayIsGapless, OkIsSeen, NoPostSkipped, DecidedOnce, Seen, store, poller,
    world, Status, InSlot, Stages, Phases, Posts, Tasks, Poll, None
<1>1. ASSUME NEW live \in BOOLEAN, Publish(live) PROVE IngestInv'
  BY <1>1 DEF Publish, NoFault
<1>2. ASSUME NEW p \in Posts, LeaseExpires(p) PROVE IngestInv'
  BY <1>2 DEF LeaseExpires, NoFault
<1>3. ASSUME NEW T \in SUBSET Tasks, Disconnect(T) PROVE IngestInv'
  BY <1>3 DEF Disconnect, Cancel, Fault
<1>4. CASE Crash
  <2>1. watermark' \in Boot..Last \cup {None} /\ watermark' <= cursor'
        /\ cursor' \in Boot..Last \cup {None}
    BY <1>4 DEF Crash
  <2>2. faults' \in 0..MaxFaults
    BY <1>4 DEF Crash, Fault
  <2>3. lock' \in [Posts -> Tasks \cup {None}] /\ stage' \in [Tasks -> Stages]
    BY <1>4 DEF Crash, Cancel
  <2>4. TypeOK'
    BY <1>4, <2>1, <2>2, <2>3 DEF Crash, Cancel
  <2>5. /\ CurrentIsSet' /\ ReplayIsGapless' /\ OkIsSeen'
        /\ NoPostSkipped' /\ DecidedOnce'
    BY <1>4 DEF Crash, Cancel
  <2> HIDE DEF TypeOK, CurrentIsSet, ReplayIsGapless, OkIsSeen, NoPostSkipped,
          DecidedOnce
  <2> QED
    BY <2>4, <2>5
<1>5. CASE Restart
  BY <1>5 DEF Restart, NoFault
<1> QED
  BY <1>1, <1>2, <1>3, <1>4, <1>5

\* IngestInv is preserved by every step.
LEMMA NextIngest == IngestInv /\ [Next]_vars => IngestInv'
<1> SUFFICES ASSUME IngestInv, [Next]_vars PROVE IngestInv'
  OBVIOUS
<1>1. CASE Next
  BY <1>1, DeliverStep, PollStep, WorldStep DEF Next
<1>2. CASE UNCHANGED vars
  BY <1>2 DEF vars, store, poller, world, IngestInv, TypeOK, CurrentIsSet,
     ReplayIsGapless, OkIsSeen, NoPostSkipped, DecidedOnce, Seen
<1> QED
  BY <1>1, <1>2

\* The invariant of this module holds throughout.
LEMMA IngestInvariance == Spec => []IngestInv
  BY InitIngest, NextIngest, PTL DEF Spec

\* Rows, cursor, poll and tasks keep their types, and the watermark in memory
\* never runs ahead of the durable cursor.
THEOREM IngestionTypes == Spec => []TypeOK
<1>1. IngestInv => TypeOK
  BY DEF IngestInv
<1> QED
  BY <1>1, IngestInvariance, PTL

\* The cursor never passes a post that has no row, however live events, polls,
\* lost connections and crashes interleave.
THEOREM NoneSkipped == Spec => []NoPostSkipped
<1>1. IngestInv => NoPostSkipped
  BY DEF IngestInv
<1> QED
  BY <1>1, IngestInvariance, PTL

\* A post yields at most one batch and keeps its decision.
THEOREM OneDecision == Spec => []DecidedOnce
<1>1. IngestInv => DecidedOnce
  BY DEF IngestInv
<1> QED
  BY <1>1, IngestInvariance, PTL

(***************************************************************************)
(* The session.                                                            *)
(***************************************************************************)
\* The loop holds the lock from the session to the end of the connection, a
\* login holds it to its end; the watcher lives within a connection.
LockInv ==
    /\ run \in {"lock", "session", "start", "serve", "close", "alert", "wait"}
    /\ holder = "run" <=> run \in {"session", "start", "serve", "close"}
    /\ holder = "login" <=> login # "idle"
    /\ watch # "off" => R!Reading
    /\ online => run = "serve"
\* A login that ended while the loop was sending its notice wakes it after.
LoginWakes ==
    state = "AUTHORIZING" /\ run \in {"alert", "wait"} => login # "idle" \/ wake
\* What holds between any two steps of the session.
SessionInv == LockInv /\ LoginWakes /\ R!SessionIsAsShown

\* A process starts without a connection, whatever the session file says.
LEMMA InitSession == R!Init => SessionInv
  BY SessionConstants DEF R!Init, SessionInv, LockInv, LoginWakes, R!SessionIsAsShown,
     R!ReadsAsPinned, R!StatusIsCurrent, R!Reading, R!Constants

\* So does one that starts again.
LEMMA FreshStep == ASSUME R!Fresh PROVE SessionInv'
  BY SessionConstants DEF R!Fresh, SessionInv, LockInv, LoginWakes, R!SessionIsAsShown,
     R!ReadsAsPinned, R!StatusIsCurrent, R!Reading, R!Constants

\* SourceRecovery.run: a connection is made only for the pinned user.
LEMMA RunSession ==
    ASSUME SessionInv, R!RunStep \/ R!Dropped \/ R!RunAlerts(FALSE) PROVE SessionInv'
<1> USE DEF SessionInv, LockInv, LoginWakes, R!SessionIsAsShown, R!ReadsAsPinned,
        R!StatusIsCurrent, R!Reading
<1> USE DEF R!command, R!notices, R!sleeps
<1>1. CASE R!RunLock
  BY <1>1, SessionConstants DEF R!RunLock, R!Constants
<1>2. CASE R!Connects
  BY <1>2 DEF R!Connects, R!MayPin, R!Pin
<1>3. CASE R!Refused \/ R!Unauthorized \/ R!Dropped
  BY <1>3 DEF R!Refused, R!Unauthorized, R!Dropped, R!Fail
<1>4. CASE R!Started
  BY <1>4 DEF R!Started
<1>5. CASE R!Closes
  BY <1>5, SessionConstants DEF R!Closes, R!DownState, R!Constants
<1>6. CASE R!RunAlerts(TRUE) \/ R!RunAlerts(FALSE)
  BY <1>6 DEF R!RunAlerts
<1>7. CASE R!RunWakes
  BY <1>7 DEF R!RunWakes, R!RunDue
<1> QED
  BY <1>1, <1>2, <1>3, <1>4, <1>5, <1>6, <1>7 DEF R!RunStep

\* _monitor_reads moves between the two connected states only.
LEMMA WatchSession ==
    ASSUME SessionInv, R!WatchStep \/ R!WatchAlerts(FALSE) \/ R!WatchRestores(FALSE)
    PROVE  SessionInv'
<1>1. /\ UNCHANGED <<run, online, holder, login, wake, account, pinned>>
      /\ watch # "off" /\ watch' # "off"
  BY DEF R!WatchStep, R!SeesErrors, R!SeesNothing, R!SeesHealthy, R!WatchAlerts, R!WatchRestores,
     R!WatchWakes, R!WatchOnly, R!WatchTo, R!command
<1>2. \/ UNCHANGED state
      \/ state' = "DEGRADED"
      \/ online /\ state = "DEGRADED" /\ state' = "ONLINE"
  BY DEF R!WatchStep, R!SeesErrors, R!SeesNothing, R!SeesHealthy, R!WatchAlerts, R!WatchRestores,
     R!WatchWakes, R!notices
<1> QED
  BY <1>1, <1>2 DEF SessionInv, LockInv, LoginWakes, R!SessionIsAsShown, R!ReadsAsPinned,
     R!StatusIsCurrent, R!Reading

\* /source_login changes the session file and the shown state under the lock.
LEMMA LoginSession ==
    ASSUME SessionInv,
           \/ R!LoginStep \/ R!LoginStarts \/ R!LoginFails \/ R!AsksPassword
           \/ \E u \in Accounts : R!Scanned(u)
    PROVE  SessionInv'
<1>1. UNCHANGED <<run, watch, online>>
  BY DEF R!LoginStep, R!AlreadyAuthorized, R!WrongSession, R!QrLogin, R!ShowsQr, R!QrExpires,
     R!LoginTells, R!LoginStarts, R!LoginFails, R!AsksPassword, R!Scanned, R!LoginRaises,
     R!LoginEnds, R!LoginOnly
<1>2. CASE R!LoginStarts
  BY <1>1, <1>2, SessionConstants DEF R!LoginStarts, R!LoginAllowed, R!Constants,
     SessionInv, LockInv, LoginWakes, R!SessionIsAsShown, R!ReadsAsPinned, R!StatusIsCurrent,
     R!Reading
<1>3. CASE ~R!LoginStarts
  <2>1. /\ login # "idle"
        /\ \/ login' # "idle" /\ UNCHANGED <<holder, wake>> /\ state' \in {state, "AUTH_REQUIRED"}
           \/ login' = "idle" /\ holder' = NoUser /\ wake' = TRUE /\ UNCHANGED state
    BY <1>3 DEF R!LoginStep, R!AlreadyAuthorized, R!WrongSession, R!QrLogin, R!ShowsQr, R!QrExpires,
       R!LoginTells, R!LoginFails, R!AsksPassword, R!Scanned, R!LoginRaises, R!LoginEnds
  <2>2. ~R!Reading /\ ~R!Reading' /\ run # "close" /\ run \notin {"session", "start", "serve", "close"}
    BY <1>1, <2>1 DEF SessionInv, LockInv, R!Reading
  <2> QED
    BY <1>1, <2>1, <2>2, SessionConstants DEF R!Constants, SessionInv, LockInv, LoginWakes,
       R!SessionIsAsShown, R!ReadsAsPinned, R!StatusIsCurrent
<1> QED
  BY <1>2, <1>3

\* Time, polls and a revocation show in the state only through the loop.
LEMMA OutsideSession ==
    ASSUME SessionInv,
           \/ R!Tick \/ R!Revoked \/ R!Restarted \/ R!AuthorizedLocally
           \/ \E c \in Channels : R!PollFails(c) \/ R!PollClears(c)
           \/ UNCHANGED R!vars
    PROVE  SessionInv'
<1>1. CASE R!Restarted \/ R!AuthorizedLocally
  BY <1>1, FreshStep DEF R!Restarted, R!AuthorizedLocally
<1>2. CASE ~(R!Restarted \/ R!AuthorizedLocally)
  <2>1. /\ UNCHANGED <<run, watch, online, holder, login, wake, state, pinned>>
        /\ account' \in {account, NoUser}
    BY <1>2 DEF R!Tick, R!Revoked, R!PollFails, R!PollClears, R!vars, R!session, R!command
  <2> QED
    BY <2>1 DEF SessionInv, LockInv, LoginWakes, R!SessionIsAsShown, R!ReadsAsPinned,
       R!StatusIsCurrent, R!Reading
<1> QED
  BY <1>1, <1>2

\* For any accounts, channels, faults and logins, posts are read as the pinned user
\* only, and /source shows what the reader does (pin_source_identity,
\* SourceRecovery.run, login).
THEOREM SessionShown == R!Spec => []SessionIsAsShown
<1>1. SessionInv /\ [R!Next]_(R!vars) => SessionInv'
  BY RunSession, WatchSession, LoginSession, OutsideSession DEF R!Next
<1>2. SessionInv => SessionIsAsShown
  BY DEF SessionInv, SessionIsAsShown
<1> QED
  BY <1>1, <1>2, InitSession, PTL DEF R!Spec
=============================================================================
