------------------------------- MODULE Reviews -------------------------------
(***************************************************************************)
(* Delivery of an entry review: the evaluation that saves it delivers what *)
(* is pending, and so does the recovery loop.  A claim is a lease, not a   *)
(* lock: a slow or dead deliverer's claim runs out and another is taken.   *)
(***************************************************************************)
EXTENDS Naturals

CONSTANTS
    Deliverers,   \* evaluations of posts, and the recovery loop
    None,
    MaxFaults     \* failed sends, lost acknowledgements and restarts
\* None stands for a row without a claim.
Constants == None \notin Deliverers
VARIABLES
    saved,       \* the row exists
    delivered,   \* delivered_at is set
    claim,       \* claim_token
    due,         \* retry_after has passed
    told,        \* the person has received it
    doing,       \* deliverer -> where recover_entry_reviews is
    trouble

qvars == <<saved, delivered, claim, due, told, doing, trouble>>

Init ==
    /\ saved = FALSE /\ delivered = FALSE /\ due = TRUE /\ told = FALSE
    /\ claim = None
    /\ doing = [d \in Deliverers |-> "idle"]
    /\ trouble = 0

\* save_entry_reviews under the source's own claim: INSERT OR IGNORE, so that a
\* repeated evaluation leaves a delivered review alone.
SaveReview ==
    /\ saved' = TRUE
    /\ UNCHANGED <<delivered, claim, due, told, doing, trouble>>
\* Mutant: a claimed review is left to its deliverer.
Unclaimed == saved /\ ~delivered /\ due /\ claim = None
Pending == saved /\ ~delivered /\ due
\* pending_entry_reviews, then claim_entry_review by the same condition.
ClaimReview(d) ==
    /\ doing[d] = "idle"
    /\ Pending
    /\ claim' = d /\ due' = FALSE
    /\ doing' = [doing EXCEPT ![d] = "send"]
    /\ UNCHANGED <<saved, delivered, told, trouble>>
SendReview(d) ==
    /\ doing[d] = "send"
    /\ told' = TRUE
    /\ doing' = [doing EXCEPT ![d] = "sent"]
    /\ UNCHANGED <<saved, delivered, claim, due, trouble>>
\* It raises, whether or not the message has reached the person.
SendFails(d) ==
    /\ doing[d] = "send" /\ trouble < MaxFaults
    /\ trouble' = trouble + 1
    /\ told' \in {told, TRUE}
    /\ doing' = [doing EXCEPT ![d] = "failed"]
    /\ UNCHANGED <<saved, delivered, claim, due>>
\* Mutant: the row is finished whoever holds its claim.
FinishAny(d) ==
    /\ claim' = None /\ due' = FALSE
    /\ delivered' = (doing[d] = "sent")
\* UPDATE ... WHERE claim_token = ?
Finish(d) ==
    IF claim = d
      THEN /\ claim' = None /\ due' = FALSE
           /\ delivered' = (doing[d] = "sent")
      ELSE UNCHANGED <<claim, due, delivered>>
FinishReview(d) ==
    /\ doing[d] \in {"sent", "failed"}
    /\ Finish(d)
    /\ doing' = [doing EXCEPT ![d] = "idle"]
    /\ UNCHANGED <<saved, told, trouble>>
\* Five minutes after a claim, thirty seconds after a failed delivery.
RetryAfterPasses ==
    /\ ~due
    /\ due' = TRUE
    /\ UNCHANGED <<saved, delivered, claim, told, doing, trouble>>
Restarted ==
    /\ trouble < MaxFaults
    /\ trouble' = trouble + 1
    /\ doing' = [d \in Deliverers |-> "idle"]
    /\ UNCHANGED <<saved, delivered, claim, due, told>>

Deliver(d) == ClaimReview(d) \/ SendReview(d) \/ SendFails(d) \/ FinishReview(d)
Next ==
    \/ SaveReview \/ RetryAfterPasses \/ Restarted
    \/ \E d \in Deliverers : Deliver(d)
Spec == Init /\ [][Next]_qvars

\* A delivery that is recorded was made, and stays recorded: the late end of a
\* delivery whose lease ran out does not undo another's (finish_entry_review).
StaysStep == (delivered => delivered') /\ (delivered' => told')
\* Every saved review reaches the person (pending_entry_reviews has no other
\* way out, and the recovery loop keeps calling it).
ReviewReachesPerson == saved ~> told
=============================================================================
