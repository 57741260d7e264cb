------------------------------- MODULE Client -------------------------------
(***************************************************************************)
(* BybitClient and BybitAuth: signed requests from several threads over    *)
(* one clock offset, with two attempts each, and listings read page by     *)
(* page.  A request travels on its own: it may reach the exchange after    *)
(* its caller has given up, or never.                                      *)
(***************************************************************************)
EXTENDS Integers

CONSTANTS
    Callers,    \* calls made by different threads
    KindOf,     \* caller -> "order", "leverage" or "list"
    Pages,      \* pages of a listing
    MaxDrifts,
    None
\* None stands for no response and no result; a listing has a page.
Constants == Pages \in Nat \ {0} /\ None \notin {"0", "110043", "10002", "refused", "ok"}
VARIABLES
    pc,         \* caller -> where private_request is
    attempt,    \* caller -> 0 or 1
    stamped,    \* caller -> its timestamp fits the exchange's clock
    travelling, \* caller -> its request is on its way
    answer,     \* caller -> the response, not yet read
    page,       \* caller -> the page it asks for
    seen,       \* caller -> cursors it has followed
    items,      \* caller -> pages it has collected
    result,     \* caller -> what the call returned or raised
    applied,    \* caller -> times the exchange carried the request out
    right,      \* _clock_offset_ms fits
    fresh,      \* the last synchronisation is younger than its TTL
    drifts,
    odd         \* the exchange answers with any cursor

cvars == <<pc, attempt, stamped, travelling, answer, page, seen, items, result,
           applied, right, fresh, drifts, odd>>
clock == <<right, fresh, drifts, odd>>
wire == <<stamped, travelling, answer, applied>>
listing == <<page, seen, items>>

Lists(c) == KindOf[c] = "list"

Init ==
    /\ pc = [c \in Callers |-> "idle"]
    /\ attempt = [c \in Callers |-> 0]
    /\ stamped = [c \in Callers |-> FALSE]
    /\ travelling = [c \in Callers |-> FALSE]
    /\ answer = [c \in Callers |-> None]
    /\ page = [c \in Callers |-> 1]
    /\ seen = [c \in Callers |-> {}]
    /\ items = [c \in Callers |-> {}]
    /\ result = [c \in Callers |-> None]
    /\ applied = [c \in Callers |-> 0]
    /\ right = TRUE /\ fresh = FALSE /\ drifts = 0
    /\ odd \in BOOLEAN

Goto(c, l) == pc' = [pc EXCEPT ![c] = l]
End(c, r) == Goto(c, "done") /\ result' = [result EXCEPT ![c] = r]
Again(c, l) ==
    /\ Goto(c, l)
    /\ attempt' = [attempt EXCEPT ![c] = 1]
    /\ UNCHANGED <<result, listing>>
Fails(c, reason) == End(c, reason) /\ UNCHANGED <<attempt, listing>>

Call(c) ==
    /\ pc[c] = "idle"
    /\ Goto(c, "sign")
    /\ UNCHANGED <<attempt, wire, listing, result, clock>>
\* auth_headers with an offset that is still fresh.
AuthHeaders(c) ==
    /\ pc[c] = "sign" /\ fresh
    /\ Goto(c, "send")
    /\ stamped' = [stamped EXCEPT ![c] = right]
    /\ UNCHANGED <<attempt, travelling, answer, applied, listing, result, clock>>
\* sync_clock: forced after a timestamp refusal, otherwise when the TTL is over.
SyncClock(c) ==
    /\ pc[c] = "resync" \/ (pc[c] = "sign" /\ ~fresh)
    /\ Goto(c, "sign")
    /\ right' = TRUE /\ fresh' = TRUE
    /\ UNCHANGED <<attempt, wire, listing, result, drifts, odd>>
\* Three public reads of the server time failed.
SyncFails(c) ==
    /\ pc[c] = "resync" \/ (pc[c] = "sign" /\ ~fresh)
    /\ Fails(c, "clock")
    /\ UNCHANGED <<wire, clock>>
Send(c) ==
    /\ pc[c] = "send"
    /\ Goto(c, "wait")
    /\ travelling' = [travelling EXCEPT ![c] = TRUE]
    /\ answer' = [answer EXCEPT ![c] = None]
    /\ UNCHANGED <<attempt, stamped, applied, listing, result, clock>>

\* External: the exchange refuses a timestamp that does not fit, without effect.
Arrives(c) ==
    /\ travelling[c]
    /\ travelling' = [travelling EXCEPT ![c] = FALSE]
    /\ \E a \in IF ~stamped[c] THEN {"10002"}
                ELSE {"refused", "0"} \cup (IF KindOf[c] = "leverage" THEN {"110043"} ELSE {}) :
         /\ answer' = [answer EXCEPT ![c] = a]
         /\ applied' = [applied EXCEPT ![c] = IF a = "0" /\ ~Lists(c)
                                               THEN @ + 1 ELSE @]
    /\ UNCHANGED <<pc, attempt, stamped, listing, result, clock>>

\* Mutant: every request that times out is sent again.
RetryAny(c) == attempt[c] = 0
\* "A timed-out POST may already be committed."
RetryTimeout(c) == Lists(c) /\ attempt[c] = 0
TimesOut(c) ==
    /\ pc[c] = "wait"
    /\ IF RetryTimeout(c) THEN Again(c, "sign") ELSE Fails(c, "timeout")
    /\ UNCHANGED <<wire, clock>>
\* The connection breaks, an error status, or a response that cannot be read.
Breaks(c) ==
    /\ pc[c] = "wait"
    /\ Fails(c, "invalid")
    /\ UNCHANGED <<wire, clock>>

\* Cursor 0 ends a listing.  A sound exchange goes on to the next page.
Cursors(c) == IF odd THEN 0..Pages ELSE {IF page[c] = Pages THEN 0 ELSE page[c] + 1}
\* Mutant: cursors are followed wherever they lead.
NotRefused(c, cursor) == TRUE
\* A cursor that was followed before is refused.
CursorNew(c, cursor) == cursor \notin seen[c]
\* Mutant: the last page is the listing.
LastPage(c) == [items EXCEPT ![c] = {page[c]}]
Collected(c) == [items EXCEPT ![c] = @ \cup {page[c]}]
ReadPage(c, cursor) ==
    IF cursor = 0
      THEN /\ items' = Collected(c)
           /\ End(c, "ok") /\ UNCHANGED <<attempt, page, seen>>
    ELSE IF CursorNew(c, cursor)
      THEN /\ items' = Collected(c)
           /\ seen' = [seen EXCEPT ![c] = @ \cup {cursor}]
           /\ page' = [page EXCEPT ![c] = cursor]
           /\ attempt' = [attempt EXCEPT ![c] = 0]
           /\ Goto(c, "sign") /\ UNCHANGED result
    ELSE Fails(c, "cursor")
Receive(c) ==
    /\ pc[c] = "wait" /\ answer[c] # None
    /\ CASE answer[c] = "0" ->
              IF Lists(c) THEN \E cursor \in Cursors(c) : ReadPage(c, cursor)
                          ELSE Fails(c, "ok")
         [] answer[c] = "110043" -> Fails(c, "ok")   \* the leverage is already set
         [] answer[c] = "10002" ->
              IF attempt[c] = 0 THEN Again(c, "resync") ELSE Fails(c, "refused")
         [] answer[c] = "refused" -> Fails(c, "refused")
    /\ answer' = [answer EXCEPT ![c] = None]
    /\ UNCHANGED <<stamped, travelling, applied, clock>>

Step(c) ==
    \/ AuthHeaders(c) \/ SyncClock(c) \/ SyncFails(c) \/ Send(c)
    \/ TimesOut(c) \/ Breaks(c) \/ Receive(c)
\* External: the local clock moves, or the offset ages.
Drifts ==
    /\ drifts < MaxDrifts
    /\ drifts' = drifts + 1
    /\ \/ right' = FALSE /\ UNCHANGED fresh
       \/ fresh' = FALSE /\ UNCHANGED right
    /\ UNCHANGED <<pc, attempt, wire, listing, result, odd>>
Next == Drifts \/ \E c \in Callers : Call(c) \/ Step(c) \/ Arrives(c)
Spec == Init /\ [][Next]_cvars

(***************************************************************************)
(* Properties.                                                             *)
(***************************************************************************)
\* A call that changes the account is carried out at most once, however its
\* request and its answer travel; and it returns only if it was, or if there
\* was nothing to change (private_request).
MutatesAtMostOnce ==
    \A c \in Callers : ~Lists(c) =>
      /\ applied[c] <= 1
      /\ result[c] = "ok" /\ KindOf[c] = "order" => applied[c] = 1

\* A listing that returns is complete: a read that fails on any page, or a
\* cursor that leads back, raises instead (paginate_private_list).
ListingComplete ==
    \A c \in Callers : Lists(c) /\ result[c] = "ok" /\ ~odd => items[c] = 1..Pages

\* A call that returns did exactly what it was asked, and one that raises did it
\* at most once (private_request, paginate_private_list).
CallsAreExact == MutatesAtMostOnce /\ ListingComplete

\* The running calls end, whatever cursors the exchange sends: two attempts a request
\* with a timeout each, and no page is asked for twice.
Running == {c \in Callers : pc[c] \notin {"idle", "done"}}
CallEnds == Running # {} ~> Running = {}
=============================================================================
