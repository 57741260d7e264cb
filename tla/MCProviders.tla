---------------------------- MODULE MCProviders -----------------------------
(***************************************************************************)
(* The two remote services: the evaluation of posts (Providers), and the   *)
(* calls to the exchange (Client).                                         *)
(***************************************************************************)
EXTENDS Providers

CONSTANTS Callers, CallKind, Pages, MaxDrifts
VARIABLES
    part, pc, attempt, stamped, travelling, answer, page, seen, items, result,
    applied, right, fresh, drifts, odd
C == INSTANCE Client WITH KindOf <- CallKind
clientVars ==
    <<pc, attempt, stamped, travelling, answer, page, seen, items, result,
      applied, right, fresh, drifts, odd>>

\* One caller of each kind, named after it.
OfItsName == [c \in Callers |-> c]
ASSUME CallConstants == C!Constants

Both == <<"openrouter", "opencode_go">>
TwoAndOne == [p \in {"openrouter", "opencode_go"} |-> IF p = "openrouter" THEN 2 ELSE 1]

\* Either both tasks evaluate the same post under one configuration, or one
\* task evaluates two posts, with a restart under another configuration.
Shared == /\ model = "m1" /\ restarts = 0 /\ faults = 0 /\ \A t \in Tasks : task[t].ctx # "c2"
          /\ \A fp \in DOMAIN cache : cache[fp].ctx = "c1"
Single == task["t2"] = Waiting /\ ticks = 0
EvaluationNext ==
    part = "evaluations" /\ Next /\ (Shared' \/ Single') /\ UNCHANGED <<part, clientVars>>
\* A listing and an order share the clock, or a listing is read alone from an
\* exchange with odd cursors, or the leverage is set alone.
Paired == /\ pc["leverage"] = "idle" \/ (pc["order"] = "idle" /\ pc["list"] = "idle")
          /\ odd => pc["order"] = "idle" /\ pc["leverage"] = "idle"
CallNext == part = "calls" /\ C!Next /\ Paired' /\ UNCHANGED <<part, vars>>
EitherInit ==
    /\ part \in {"evaluations", "calls"} /\ Init /\ C!Init
    /\ part = "evaluations" => odd = FALSE
EvaluationsOrCalls ==
    /\ EitherInit
    /\ [][EvaluationNext \/ CallNext]_<<part, vars, clientVars>>
    /\ \A t \in Tasks : WF_vars(part = "evaluations" /\ Step(t))
    /\ \A c \in Callers : WF_clientVars(part = "calls" /\ C!Step(c))

\* A call that returns did exactly what it was asked (private_request,
\* paginate_private_list).
CallsAreExact == C!CallsAreExact
\* Evaluations and calls end, whatever the other side answers (extract,
\* private_request, paginate_private_list).
RequestsEnd ==
    /\ part = "evaluations" => EvaluationEnds
    /\ part = "calls" => C!CallEnds
=============================================================================
