------------------------------- MODULE Routing -------------------------------
(***************************************************************************)
(* Which OPEN intents are executed without a person: the context snapshot  *)
(* of a post (signal_context.py), contract resolution and routing          *)
(* (signals/planning.py), and the checks repeated at execution.            *)
(*                                                                         *)
(* Posts of several channels are evaluated at the same time, and a retry   *)
(* of a candidate is an evaluation of its own.  An evaluation reads the    *)
(* store, then the account, then waits for the model, and routes on what   *)
(* it has read; an execution holds the account lock and reads again.       *)
(***************************************************************************)
EXTENDS Integers, FiniteSetsExt

CONSTANTS
    Posts, Opens, Symbols, Sides,
    None,
    PostOf,      \* open -> its post
    ChannelOf,   \* post -> its channel
    Reported,    \* open -> the ticker the post reports
    SideOf,
    Relations,   \* relations the model may give an OPEN
    Recovered,   \* posts recovered outside the automatic window
    Alias,       \* reported ticker -> contract
    Listed,      \* tickers Bybit lists under the reported name
    MaxByHand    \* positions a person opens

\* BYBIT_CONTRACT_ALIASES names no contract twice; a post has finitely many OPENs.
RoutingConstants ==
    /\ IsFiniteSet(Opens) /\ Posts \cap Opens = {} /\ PostOf \in [Opens -> Posts]
    /\ \A s, t \in DOMAIN Alias : Alias[s] = Alias[t] => s = t

VARIABLES
    at,        \* evaluation -> where it is
    history,   \* evaluation -> the source's intents and their status, as read
    account,   \* evaluation -> the account as read, None when the read failed
    relation,  \* open -> the relation the model gives it
    row,       \* open -> status of its row
    mode,      \* open -> its approval mode
    contract,  \* open -> the contract of its plan
    cand,      \* open -> status of its planning candidate
    twin,      \* candidates flagged duplicate_in_batch
    orig,      \* open -> approval mode saved with its candidate
    position,  \* symbol -> side of the live position
    entries,   \* symbol -> side of the resting entries
    owner,     \* symbol -> opens whose strategy is active there
    closing,   \* symbol -> the opens that existed when a CLOSE was created
    closed,    \* symbol -> the opens that existed when the latest executed one was
    byHand

rvars == <<at, history, account, relation, row, mode, contract, cand, twin, orig,
           position, entries, owner, closing, closed, byHand>>
reads == <<at, history, account>>
rows == <<relation, row, mode, contract, cand, twin, orig>>
exchange == <<position, entries, owner, closing, closed, byHand>>

Evaluations == Posts \cup Opens
Of(e) == IF e \in Posts THEN {i \in Opens : PostOf[i] = e} ELSE {e}
Channel(e) == ChannelOf[IF e \in Posts THEN e ELSE PostOf[e]]
NoPosition == [s \in Symbols |-> None]
Nobody == [s \in Symbols |-> {}]

Init ==
    /\ at = [e \in Evaluations |-> "idle"]
    /\ history = [e \in Evaluations |-> {}]
    /\ account = [e \in Evaluations |-> None]
    /\ relation = [i \in Opens |-> None]
    /\ row = [i \in Opens |-> "none"]
    /\ mode = [i \in Opens |-> "none"]
    /\ contract = [i \in Opens |-> None]
    /\ cand = [i \in Opens |-> "none"]
    /\ twin = {}
    /\ orig = [i \in Opens |-> "MANUAL"]
    /\ position = NoPosition /\ entries = NoPosition
    /\ owner = Nobody /\ closing = Nobody /\ closed = Nobody
    /\ byHand = 0

(***************************************************************************)
(* The context snapshot.                                                   *)
(***************************************************************************)
Known(e) ==
    {<<i, row[i]>> : i \in {j \in Opens : Channel(j) = Channel(e)
                                    /\ row[j] \in {"PENDING", "EXECUTING", "EXECUTED"}}}
\* Candidates are retried one by one, by run_delivery_recovery.
ReadStore(e) ==
    /\ at[e] = "idle"
    /\ e \in Opens => cand[e] = "PENDING" /\ \A i \in Opens : at[i] = "idle"
    /\ at' = [at EXCEPT ![e] = "account"]
    /\ history' = [history EXCEPT ![e] = Known(e)]
    /\ UNCHANGED <<account, rows, exchange>>
ReadAccount(e, ok) ==
    /\ at[e] = "account"
    /\ at' = [at EXCEPT ![e] = IF e \in Posts THEN "model" ELSE "plan"]
    /\ account' = [account EXCEPT ![e] =
          IF ok THEN [positions |-> position, entries |-> entries, closed |-> closed]
                ELSE None]
    /\ UNCHANGED <<history, rows, exchange>>
\* The model classifies every OPEN of the post; the intents exist from here on.
Extract(p) ==
    /\ at[p] = "model"
    /\ \E r \in [Of(p) -> Relations] :
         relation' = [i \in Opens |-> IF i \in Of(p) THEN r[i] ELSE relation[i]]
    /\ at' = [at EXCEPT ![p] = "plan"]
    /\ UNCHANGED <<history, account, row, mode, contract, cand, twin, orig, exchange>>

Live(view, s, side) == view.positions[s] = side \/ view.entries[s] = side
\* An EXECUTED copy counts while it is exposed and no CLOSE was created after it.
ActiveCopy(view, i) ==
    /\ Live(view, contract[i], SideOf[i])
    /\ i \notin view.closed[contract[i]]
HasExistingCopy(e, s, side) ==
    \E h \in history[e] :
      /\ contract[h[1]] = s /\ SideOf[h[1]] = side
      /\ h[2] = "EXECUTED" => ActiveCopy(account[e], h[1])

(***************************************************************************)
(* Contract resolution and the duplicates of a post.                       *)
(***************************************************************************)
Contract(s) == IF s \in DOMAIN Alias THEN Alias[s] ELSE s
Canonical(i) == Contract(Reported[i])
Resolved(i) == IF Reported[i] \in Listed THEN Reported[i] ELSE Canonical(i)
\* OPENs of the evaluation that would trade this contract.
Prospective(e, s, side) == Cardinality({j \in Of(e) : Canonical(j) = s /\ SideOf[j] = side})
\* Counted by reported ticker: nothing when no OPEN reports this one.
ResolutionCount(e, s, side) ==
    IF \E j \in Of(e) : Reported[j] = s /\ SideOf[j] = side
    THEN Max({Prospective(e, Contract(s), side), IF e \in twin THEN 2 ELSE 1}) ELSE 0
\* Mutant: only the OPENs that could be resolved are counted.
ResolvedCount(e, done, i) ==
    Cardinality({j \in done : Resolved(j) = Resolved(i) /\ SideOf[j] = SideOf[i]})
\* done: the OPENs of the evaluation whose contract could be resolved.
CandidateCount(e, done, i) ==
    Max({Cardinality({j \in done : Resolved(j) = Resolved(i) /\ SideOf[j] = SideOf[i]})
           + (IF e \in twin THEN 1 ELSE 0),
         ResolutionCount(e, Resolved(i), SideOf[i])})

(***************************************************************************)
(* Routing and commit.                                                     *)
(***************************************************************************)
\* auto_open_safety_reason is None: NEW needs an untouched symbol, an addition
\* no exposure on the other side.
SafeOpen(view, s, side, rel) ==
    IF rel = "NEW" THEN view.positions[s] = None /\ view.entries[s] = None
    ELSE rel = "ADD_OR_REENTRY"
         /\ \A other \in Sides \ {side} : ~Live(view, s, other)
\* _open_approval_mode
Routed(e, done, i) ==
    IF /\ PostOf[i] \notin Recovered
       /\ relation[i] \in {"NEW", "ADD_OR_REENTRY"}
       /\ CandidateCount(e, done, i) = 1
       /\ account[e] # None
       /\ relation[i] = "NEW" => ~HasExistingCopy(e, Resolved(i), SideOf[i])
       /\ SafeOpen(account[e], Resolved(i), SideOf[i], relation[i])
      THEN "AUTO" ELSE "MANUAL"
\* A retry never has more authority than the evaluation it repeats.
RoutedIntent(e, done, i) ==
    IF e \in Opens /\ orig[i] = "MANUAL" THEN "MANUAL" ELSE Routed(e, done, i)

\* Of the evaluated OPENs, done have a contract, sized (among them) a plan, and
\* refused are rejected for good; the rest fail for now.
Commit(e, done, sized, refused) ==
    /\ at[e] = "plan"
    /\ {i \in Of(e) : Reported[i] \notin DOMAIN Alias} \subseteq done
    /\ at' = [at EXCEPT ![e] = IF e \in Posts THEN "done" ELSE "idle"]
    /\ history' = [history EXCEPT ![e] = {}]
    /\ account' = [account EXCEPT ![e] = None]
    /\ row' = [i \in Opens |-> IF i \in sized THEN "PENDING" ELSE row[i]]
    /\ mode' = [i \in Opens |-> IF i \in sized THEN RoutedIntent(e, done, i) ELSE mode[i]]
    /\ contract' = [i \in Opens |-> IF i \in sized THEN Resolved(i) ELSE contract[i]]
    /\ UNCHANGED <<relation, exchange>>
\* What a post's planning leaves for later (_remember_retry_candidates), with
\* the mode it was routed to.  Without the policy or the open risk the pass ends
\* before anything is routed.
CommitPost(p, done, sized, refused, routed) ==
    /\ Commit(p, done, sized, refused)
    /\ routed \/ (sized = {} /\ refused \cap done = {})
    /\ LET later == Of(p) \ (sized \cup refused) IN
         /\ cand' = [i \in Opens |-> IF i \in later THEN "PENDING" ELSE cand[i]]
         /\ twin' = twin \cup
              {i \in later : IF i \in done THEN CandidateCount(p, done, i) > 1
                             ELSE ResolutionCount(p, Reported[i], SideOf[i]) > 1}
         /\ orig' = [i \in Opens |-> IF i \in later \cap done /\ routed
                                       THEN RoutedIntent(p, done, i) ELSE orig[i]]
\* transfer_planning_candidate, or the candidate waits or is rejected.
CommitRetry(i, done, sized, refused) ==
    /\ Commit(i, done, sized, refused)
    /\ cand' = [cand EXCEPT ![i] = IF i \in sized THEN "TRANSFERRED"
                                   ELSE IF i \in refused THEN "REJECTED" ELSE @]
    /\ UNCHANGED <<twin, orig>>

(***************************************************************************)
(* Execution, under the account lock.                                      *)
(***************************************************************************)
Now == [positions |-> position, entries |-> entries]
\* Mutant: what was flat when the post was routed is still flat.
NotOwnedYet(i) == position[contract[i]] = None
\* _assert_open_preflight: whoever approved it, the symbol must be untouched.
PreflightPasses(i) ==
    /\ owner[contract[i]] = {}
    /\ SafeOpen(Now, contract[i], SideOf[i], "NEW")
    /\ mode[i] = "AUTO" => SafeOpen(Now, contract[i], SideOf[i], relation[i])
Execute(i) ==
    /\ row[i] = "PENDING"
    /\ IF PreflightPasses(i)
         THEN /\ row' = [row EXCEPT ![i] = "EXECUTED"]
              /\ entries' = [entries EXCEPT ![contract[i]] = SideOf[i]]
              /\ owner' = [owner EXCEPT ![contract[i]] = @ \cup {i}]
         ELSE row' = [row EXCEPT ![i] = "FAILED"] /\ UNCHANGED <<entries, owner>>
    /\ UNCHANGED <<reads, relation, mode, contract, cand, twin, orig, position,
                   closing, closed, byHand>>

(***************************************************************************)
(* The account moves.                                                      *)
(***************************************************************************)
EntryFills(s) ==
    /\ entries[s] # None /\ position[s] \in {None, entries[s]}
    /\ position' = [position EXCEPT ![s] = entries[s]]
    /\ \E left \in {None, entries[s]} : entries' = [entries EXCEPT ![s] = left]
    /\ UNCHANGED <<reads, rows, owner, closing, closed, byHand>>
\* The exits or the stop end the position, the supervisor closes the strategy.
PositionEnds(s) ==
    /\ position[s] # None
    /\ position' = [position EXCEPT ![s] = None]
    /\ entries' = [entries EXCEPT ![s] = None]
    /\ owner' = [owner EXCEPT ![s] = {}]
    /\ UNCHANGED <<reads, rows, closing, closed, byHand>>
OpensByHand(s, side) ==
    /\ byHand < MaxByHand /\ position[s] = None
    /\ byHand' = byHand + 1
    /\ position' = [position EXCEPT ![s] = side]
    /\ UNCHANGED <<reads, rows, entries, owner, closing, closed>>
\* A CLOSE is created when its post is evaluated and executed later.
CloseCreated(s) ==
    /\ position[s] # None /\ closing[s] = {}
    /\ closing' = [closing EXCEPT ![s] = {i \in Opens : relation[i] # None}]
    /\ UNCHANGED <<reads, rows, position, entries, owner, closed, byHand>>
CloseExecuted(s) ==
    /\ closing[s] # {} /\ position[s] # None
    /\ position' = [position EXCEPT ![s] = None]
    /\ entries' = [entries EXCEPT ![s] = None]
    /\ owner' = [owner EXCEPT ![s] = {}]
    /\ closed' = [closed EXCEPT ![s] = @ \cup closing[s]]
    /\ closing' = [closing EXCEPT ![s] = {}]
    /\ UNCHANGED <<reads, rows, byHand>>

Next ==
    \/ \E e \in Evaluations : ReadStore(e) \/ \E ok \in BOOLEAN : ReadAccount(e, ok)
    \/ \E p \in Posts :
         \/ Extract(p)
         \/ /\ at[p] = "plan"
            /\ \E done \in SUBSET Of(p) : \E sized \in SUBSET done :
                 \E refused \in SUBSET (Of(p) \ sized), routed \in BOOLEAN :
                   CommitPost(p, done, sized, refused, routed)
    \/ \E i \in Opens :
         \E done \in SUBSET {i} : \E sized \in SUBSET done :
           \E refused \in SUBSET ({i} \ sized) : CommitRetry(i, done, sized, refused)
    \/ \E i \in Opens : Execute(i)
    \/ \E s \in Symbols : \/ EntryFills(s) \/ PositionEnds(s)
                          \/ CloseCreated(s) \/ CloseExecuted(s)
                          \/ \E side \in Sides : OpensByHand(s, side)
Spec == Init /\ [][Next]_rvars

(***************************************************************************)
(* Properties.                                                             *)
(***************************************************************************)
\* Two OPENs of one post for one contract and side wait for a person, however
\* often and in whatever order they are resolved, planned and retried.  (Two
\* OPENs reported under the same alias are excepted: _resolve_open_contracts
\* counts by reported ticker, so when one of them cannot be resolved the other
\* counts once.)
TwinsWaitForPerson ==
    \A i, j \in Opens :
      /\ i # j /\ PostOf[i] = PostOf[j] /\ SideOf[i] = SideOf[j]
      /\ Canonical(i) = Canonical(j)
      /\ ~(Reported[i] = Reported[j] /\ Reported[i] \in DOMAIN Alias)
      => mode[i] # "AUTO"

\* Evaluations route on snapshots that are out of date when they execute, but
\* an entry is only ever placed on an untouched symbol: no position or entries
\* of another strategy, of a person or of the other side (the re-read of
\* _assert_open_preflight).
StepEntersUntouched ==
    \A s \in Symbols : owner'[s] # {} /\ owner[s] # owner'[s] =>
        owner[s] = {} /\ position[s] = None /\ entries[s] = None
EntersUntouched == [][StepEntersUntouched]_rvars
=============================================================================
