----------------------------- MODULE Ingestion -----------------------------
(***************************************************************************)
(* How the posts of one Telegram channel become decisions: live events and *)
(* the catch-up poll of TelegramSource, SignalService.on_message for each  *)
(* of them, and the source_messages and cursor rows of the store.          *)
(*                                                                         *)
(* A post is an album or a single message, numbered in history order.      *)
(* Task 0 is the poll, task p the live event of post p.  A task's number   *)
(* serves as its claim token: a task claims a post at most once before it  *)
(* ends, and every claim replaces the token in the row.                    *)
(***************************************************************************)
EXTENDS Integers, FiniteSets

CONSTANTS
    Last,        \* the last post of the channel
    Boot,        \* the last post older than the first enrolment's window
    Ignorable,   \* posts without text or supported images
    Slots,       \* MAX_CONCURRENT_POSTS
    MaxFaults    \* bound on failed requests, lost connections and crashes

Posts == 1..Last
Poll == 0
Tasks == 0..Last
None == -1

ASSUME IngestionAssumption ==
    /\ Last \in Nat /\ Boot \in 0..Last /\ Ignorable \subseteq Posts
    /\ Slots \in Nat \ {0} /\ MaxFaults \in Nat

VARIABLES
    row,        \* source_messages.status, "none" without a row
    token,      \* source_messages.claim_token
    stale,      \* updated_at is older than the lease (UNAVAILABLE: a day)
    batches,    \* batches of intents and actions persisted for the post
    cursor,     \* source_history_cursors.message_id
    watermark,  \* TelegramSource._watermarks
    phase,      \* where poll_once is
    todo,       \* posts its current loop has still to visit
    results,    \* outcome of delivering a post in this poll
    current,    \* the post the poll is delivering
    stage,      \* where _handle_messages is, per task
    lock,       \* holder of the post's lock
    published,  \* posts in the channel's history
    up, faults

store == <<row, token, stale, batches, cursor>>
poller == <<watermark, phase, todo, results, current>>
world == <<published, up>>
vars == <<store, poller, stage, lock, world, faults>>

Status == {"none", "PROCESSING", "COMPLETED", "FAILED", "UNAVAILABLE"}
InSlot == {"resolve", "check", "claim", "work", "dispatch", "settle"}
Stages == {"idle", "group", "lock", "slot"} \cup InSlot
Phases == {"idle", "retry", "fetch", "retrying", "history", "replaying"}

TypeOK ==
    /\ row \in [Posts -> Status] /\ token \in [Posts -> Tasks \cup {None}]
    /\ stale \in [Posts -> BOOLEAN] /\ batches \in [Posts -> Nat]
    /\ cursor \in Boot..Last \cup {None}
    /\ watermark \in Boot..Last \cup {None} /\ watermark <= cursor
    /\ phase \in Phases /\ todo \subseteq Posts
    /\ results \in [Posts -> {"none", "ok", "failed"}] /\ current \in Posts \cup {None}
    /\ stage \in [Tasks -> Stages] /\ lock \in [Posts -> Tasks \cup {None}]
    /\ published \in Boot..Last /\ up \in BOOLEAN /\ faults \in 0..MaxFaults

Init ==
    /\ row = [p \in Posts |-> "none"] /\ token = [p \in Posts |-> None]
    /\ stale = [p \in Posts |-> FALSE] /\ batches = [p \in Posts |-> 0]
    /\ cursor = None /\ watermark = None
    /\ phase = "idle" /\ todo = {} /\ current = None
    /\ results = [p \in Posts |-> "none"]
    /\ stage = [t \in Tasks |-> "idle"] /\ lock = [p \in Posts |-> None]
    /\ published \in Boot..Last /\ up = TRUE /\ faults = 0

Fault == faults < MaxFaults /\ faults' = faults + 1
NoFault == UNCHANGED faults

(***************************************************************************)
(* The store.                                                              *)
(***************************************************************************)
\* Mutant: a claim whose worker died is never taken up again.
RetryableFailed(p) == row[p] = "FAILED" \/ (row[p] = "UNAVAILABLE" /\ stale[p])
\* get_retryable_source_message_ids, and the WHERE of defer_unavailable.
Retryable(p) ==
    row[p] = "FAILED" \/ (row[p] \in {"UNAVAILABLE", "PROCESSING"} /\ stale[p])
\* The conflict clause of claim_source.
Claimable(p) ==
    \/ row[p] \in {"none", "FAILED", "UNAVAILABLE"}
    \/ row[p] = "PROCESSING" /\ stale[p]
\* _finish_source matches the row only for the current claim.
Owns(t, p) == row[p] = "PROCESSING" /\ token[p] = t
FinishSource(t, p, status) ==
    IF Owns(t, p)
      THEN /\ row' = [row EXCEPT ![p] = status]
           /\ token' = [token EXCEPT ![p] = None]
           /\ stale' = [stale EXCEPT ![p] = FALSE]
      ELSE UNCHANGED <<row, token, stale>>

(***************************************************************************)
(* Delivering one post: _handle_messages, _deliver_messages, on_message.   *)
(***************************************************************************)
PostOf(t) == IF t = Poll THEN current ELSE t
At(t, s) == stage[t] = s
To(t, s) == stage' = [stage EXCEPT ![t] = s] /\ UNCHANGED <<lock, poller>>
\* Leaving _handle_messages gives back lock and slot; the poll notes whether
\* it raised.
End(t, result) ==
    /\ stage' = [stage EXCEPT ![t] = "idle"]
    /\ lock' = [q \in Posts |-> IF lock[q] = t THEN None ELSE lock[q]]
    /\ results' = IF t = Poll THEN [results EXCEPT ![current] = result] ELSE results
    /\ UNCHANGED <<watermark, phase, todo, current>>
SlotFree == Cardinality({t \in Tasks : stage[t] \in InSlot}) < Slots

\* The album is resolved in a slot, released before the lock is awaited.
EnterResolve(t) ==
    /\ At(t, "group") /\ SlotFree
    /\ To(t, "resolve")
    /\ NoFault /\ UNCHANGED <<store, world>>
Resolve(t) ==
    /\ At(t, "resolve")
    /\ To(t, "lock")
    /\ NoFault /\ UNCHANGED <<store, world>>
AcquireLock(t) ==
    /\ At(t, "lock") /\ lock[PostOf(t)] = None
    /\ lock' = [lock EXCEPT ![PostOf(t)] = t]
    /\ stage' = [stage EXCEPT ![t] = "slot"]
    /\ NoFault /\ UNCHANGED <<store, poller, world>>
EnterSlot(t) ==
    /\ At(t, "slot") /\ SlotFree
    /\ To(t, "check")
    /\ NoFault /\ UNCHANGED <<store, world>>
\* Already COMPLETED, or nothing to read in it.
NothingToDo(t) ==
    /\ At(t, "check")
    /\ row[PostOf(t)] = "COMPLETED" \/ PostOf(t) \in Ignorable
    /\ End(t, "ok")
    /\ NoFault /\ UNCHANGED <<store, world>>
Download(t) ==
    /\ At(t, "check")
    /\ row[PostOf(t)] # "COMPLETED" /\ PostOf(t) \notin Ignorable
    /\ To(t, "claim")
    /\ NoFault /\ UNCHANGED <<store, world>>
ClaimSource(t) ==
    /\ At(t, "claim") /\ Claimable(PostOf(t))
    /\ row' = [row EXCEPT ![PostOf(t)] = "PROCESSING"]
    /\ token' = [token EXCEPT ![PostOf(t)] = t]
    /\ stale' = [stale EXCEPT ![PostOf(t)] = FALSE]
    /\ To(t, "work")
    /\ NoFault /\ UNCHANGED <<batches, cursor, world>>
ClaimRefused(t) ==
    /\ At(t, "claim") /\ ~Claimable(PostOf(t))
    /\ To(t, "settle")
    /\ NoFault /\ UNCHANGED <<store, world>>
\* Extraction, persistence or all planning failed.
MarkSourceFailed(t) ==
    /\ At(t, "work") /\ Fault
    /\ FinishSource(t, PostOf(t), "FAILED")
    /\ To(t, "settle")
    /\ UNCHANGED <<batches, cursor, world>>
\* Rejected, not actionable, or no candidate planned.
MarkSourceCompleted(t) ==
    /\ At(t, "work")
    /\ FinishSource(t, PostOf(t), "COMPLETED")
    /\ To(t, "settle")
    /\ NoFault /\ UNCHANGED <<batches, cursor, world>>
\* record_source_decision or the batch found the claim gone.
ClaimLost(t) ==
    /\ At(t, "work") /\ ~Owns(t, PostOf(t))
    /\ To(t, "settle")
    /\ NoFault /\ UNCHANGED <<store, world>>
\* A rejection that finds the claim gone raises.
RejectionLost(t) ==
    /\ At(t, "work") /\ ~Owns(t, PostOf(t))
    /\ End(t, "failed")
    /\ NoFault /\ UNCHANGED <<store, world>>
\* create_signal_batch_and_complete_source, one transaction.
PersistBatch(t) ==
    /\ At(t, "work") /\ Owns(t, PostOf(t))
    /\ batches' = [batches EXCEPT ![PostOf(t)] = @ + 1]
    /\ FinishSource(t, PostOf(t), "COMPLETED")
    /\ To(t, "dispatch")
    /\ NoFault /\ UNCHANGED <<cursor, world>>
Dispatch(t) ==
    /\ At(t, "dispatch")
    /\ To(t, "settle")
    /\ NoFault /\ UNCHANGED <<store, world>>
\* A post that is neither COMPLETED nor FAILED after on_message raises.
Settle(t) ==
    /\ At(t, "settle")
    /\ End(t, IF row[PostOf(t)] \in {"COMPLETED", "FAILED"} THEN "ok" ELSE "failed")
    /\ NoFault /\ UNCHANGED <<store, world>>
\* Telegram, the planner, the store or the coordinator raises through; a claim
\* stays behind as PROCESSING.
Raises(t) ==
    /\ stage[t] \in InSlot /\ Fault
    /\ End(t, "failed")
    /\ UNCHANGED <<store, world>>

Deliver(t) ==
    \/ EnterResolve(t) \/ Resolve(t) \/ AcquireLock(t) \/ EnterSlot(t)
    \/ NothingToDo(t) \/ Download(t) \/ ClaimSource(t) \/ ClaimRefused(t)
    \/ MarkSourceFailed(t) \/ MarkSourceCompleted(t) \/ ClaimLost(t)
    \/ RejectionLost(t) \/ PersistBatch(t) \/ Dispatch(t) \/ Settle(t) \/ Raises(t)

(***************************************************************************)
(* poll_once.                                                              *)
(***************************************************************************)
Polling(s) == up /\ phase = s /\ stage[Poll] = "idle"
PollSteps == UNCHANGED <<stage, lock, world>>

\* _seed_watermarks: the saved cursor, or the last post before the window.
Seed ==
    /\ Polling("idle")
    /\ cursor' = IF cursor = None THEN Boot ELSE cursor
    /\ watermark' = IF watermark = None THEN cursor' ELSE watermark
    /\ phase' = "retry" /\ results' = [p \in Posts |-> "none"]
    /\ NoFault /\ PollSteps
    /\ UNCHANGED <<todo, current, row, token, stale, batches>>
SeedFails ==
    /\ Polling("idle") /\ watermark = None /\ Fault
    /\ phase' = "retry" /\ results' = [p \in Posts |-> "none"]
    /\ PollSteps /\ UNCHANGED <<watermark, todo, current, store>>
RetryLookup ==
    /\ Polling("retry")
    /\ todo' = {p \in Posts : Retryable(p)}
    /\ phase' = IF todo' = {} THEN "history" ELSE "fetch"
    /\ NoFault /\ PollSteps /\ UNCHANGED <<watermark, results, current, store>>
RetryFails ==
    /\ Polling("retry") \/ Polling("fetch")
    /\ Fault
    /\ todo' = {} /\ phase' = "history"
    /\ PollSteps /\ UNCHANGED <<watermark, results, current, store>>
RetryFetch ==
    /\ Polling("fetch")
    /\ phase' = "retrying"
    /\ NoFault /\ PollSteps
    /\ UNCHANGED <<watermark, todo, results, current, store>>
\* Mutant: posts are deferred in whatever state they are by now.
Anyhow(p) == TRUE
Deferrable(p) == Retryable(p)
\* Telegram has no such posts (any more, or for now): deferred for a day
\* unless their rows have changed since the lookup.
RetryFetchMisses ==
    /\ Polling("fetch") /\ Fault
    /\ \E missing \in (SUBSET todo) \ {{}} :
         LET defer == {p \in missing : Deferrable(p)} IN
           /\ todo' = todo \ missing
           /\ row' = [p \in Posts |-> IF p \in defer THEN "UNAVAILABLE" ELSE row[p]]
           /\ token' = [p \in Posts |-> IF p \in defer THEN None ELSE token[p]]
           /\ stale' = [p \in Posts |-> p \notin defer /\ stale[p]]
    /\ phase' = "retrying"
    /\ PollSteps /\ UNCHANGED <<watermark, results, current, batches, cursor>>
IsNext(p) == p \in todo /\ \A q \in todo : p <= q
StartDelivery(p) ==
    /\ current' = p
    /\ stage' = [stage EXCEPT ![Poll] = "group"]
RetryPost(p) ==
    /\ Polling("retrying") /\ IsNext(p)
    /\ StartDelivery(p)
    /\ todo' = todo \ {p}
    /\ NoFault
    /\ UNCHANGED <<watermark, phase, results, lock, store, world>>
RetriesDone ==
    /\ Polling("retrying") /\ todo = {}
    /\ phase' = "history"
    /\ NoFault /\ PollSteps
    /\ UNCHANGED <<watermark, todo, results, current, store>>
\* Unseeded, unreadable or nothing new: the poll ends.
HistoryFetch ==
    /\ Polling("history") /\ watermark # None
    /\ todo' = {p \in Posts : watermark < p /\ p <= published}
    /\ phase' = IF todo' = {} THEN "idle" ELSE "replaying"
    /\ NoFault /\ PollSteps /\ UNCHANGED <<watermark, results, current, store>>
HistoryFails ==
    /\ Polling("history") /\ ((watermark = None /\ NoFault) \/ Fault)
    /\ phase' = "idle"
    /\ PollSteps /\ UNCHANGED <<watermark, todo, results, current, store>>
ReplayPost(p) ==
    /\ Polling("replaying") /\ IsNext(p) /\ results[p] = "none"
    /\ StartDelivery(p)
    /\ NoFault
    /\ UNCHANGED <<watermark, phase, todo, results, lock, store, world>>
\* Mutant: a post that raised is left behind.
MoveOn(p) == results[p] # "none"
Delivered(p) == results[p] = "ok"
\* The cursor row keeps the maximum; the poll goes on to the next post.
SaveCursor(p) ==
    /\ Polling("replaying") /\ IsNext(p) /\ Delivered(p)
    /\ cursor' = IF cursor < p THEN p ELSE cursor
    /\ watermark' = p
    /\ todo' = todo \ {p}
    /\ phase' = IF todo' = {} THEN "idle" ELSE "replaying"
    /\ NoFault /\ PollSteps
    /\ UNCHANGED <<results, current, row, token, stale, batches>>
\* The post failed in this poll, or the cursor could not be saved.
StopReplay(p) ==
    /\ Polling("replaying") /\ IsNext(p)
    /\ (results[p] = "failed" /\ NoFault) \/ (results[p] = "ok" /\ Fault)
    /\ todo' = {} /\ phase' = "idle"
    /\ PollSteps /\ UNCHANGED <<watermark, results, current, store>>

PollOnce ==
    \/ Seed \/ SeedFails \/ RetryLookup \/ RetryFails \/ RetryFetch
    \/ RetryFetchMisses \/ RetriesDone \/ HistoryFetch \/ HistoryFails
    \/ \E p \in Posts :
         RetryPost(p) \/ ReplayPost(p) \/ SaveCursor(p) \/ StopReplay(p)

(***************************************************************************)
(* The channel, the clock and the process.                                 *)
(***************************************************************************)
\* A new post; its live event can be lost.
Publish(live) ==
    /\ published < Last
    /\ published' = published + 1
    /\ stage' = IF live THEN [stage EXCEPT ![published + 1] = "group"] ELSE stage
    /\ live => up
    /\ NoFault /\ UNCHANGED <<store, poller, lock, up>>
LeaseExpires(p) ==
    /\ row[p] \in {"PROCESSING", "UNAVAILABLE"} /\ ~stale[p]
    /\ stale' = [stale EXCEPT ![p] = TRUE]
    /\ NoFault
    /\ UNCHANGED <<row, token, batches, cursor, poller, stage, lock, world>>
\* Tasks T are cancelled where they are.
Cancel(T) ==
    /\ stage' = [t \in Tasks |-> IF t \in T THEN "idle" ELSE stage[t]]
    /\ lock' = [p \in Posts |-> IF lock[p] \in T THEN None ELSE lock[p]]
    /\ phase' = "idle" /\ todo' = {}
    /\ results' = [p \in Posts |-> "none"]
    /\ current' = None
\* The connection ends: SourceRecovery cancels the poll, the client any of the
\* live handlers; the watermark survives in memory.
Disconnect(T) ==
    /\ up /\ Fault
    /\ Poll \in T
    /\ Cancel(T)
    /\ UNCHANGED <<watermark, store, world>>
Crash ==
    /\ up /\ Fault
    /\ Cancel(Tasks)
    /\ up' = FALSE /\ watermark' = None
    /\ UNCHANGED <<store, published>>
\* reset_stale_processing_sources keeps the token.
Restart ==
    /\ ~up
    /\ up' = TRUE
    /\ row' = [p \in Posts |->
                 IF row[p] = "PROCESSING" /\ stale[p] THEN "FAILED" ELSE row[p]]
    /\ stale' = [p \in Posts |-> row[p] # "PROCESSING" /\ stale[p]]
    /\ NoFault
    /\ UNCHANGED <<token, batches, cursor, poller, stage, lock, published>>

Next ==
    \/ \E t \in Tasks : Deliver(t)
    \/ PollOnce
    \/ \E live \in BOOLEAN : Publish(live)
    \/ \E p \in Posts : LeaseExpires(p)
    \/ \E T \in SUBSET Tasks : Disconnect(T)
    \/ Crash \/ Restart

Spec == Init /\ [][Next]_vars

(***************************************************************************)
(* Requests time out, so a task that can go on does; leases run out and a  *)
(* dead process is restarted.  Locks and the semaphore need not be FIFO.   *)
(***************************************************************************)
Fairness ==
    /\ \A t \in Tasks : WF_vars(Deliver(t))
    /\ WF_vars(PollOnce) /\ WF_vars(Restart)
    /\ \A p \in Posts : WF_vars(LeaseExpires(p))
FairSpec == Spec /\ Fairness

\* The history cursor never passes a post nobody has a record of: below it,
\* every post has a row that is decided, leased or due for a retry, although
\* live events overtake the poll and polls fail half-way
\* (_replay_catchup_messages: "Never advance over a failed post").
NoPostSkipped ==
    \A p \in Posts : Boot < p /\ p <= cursor => row[p] # "none" \/ p \in Ignorable

\* A post yields at most one batch of intents and actions, whatever retries,
\* expired leases, deferrals and crashes it goes through, and a post with a
\* batch stays COMPLETED (create_signal_batch_and_complete_source,
\* claim_source, defer_unavailable_source_messages).
DecidedOnce ==
    \A p \in Posts : batches[p] <= 1 /\ (batches[p] = 1 => row[p] = "COMPLETED")

\* Once failures stop, every post of the channel is decided: a lost live event,
\* a lost claim, a dead worker or a deferred post never hides one for good.
EveryPostIsDecided ==
    \A p \in Posts : Boot < p /\ p <= published
        ~> row[p] = "COMPLETED" \/ p \in Ignorable
=============================================================================
