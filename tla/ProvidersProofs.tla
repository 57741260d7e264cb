--------------------------- MODULE ProvidersProofs --------------------------
(***************************************************************************)
(* The two remote services, for any number of tasks, vendors, callers and  *)
(* pages.                                                                  *)
(*                                                                         *)
(* What an evaluation answers is settled when it is read (Fits), and what  *)
(* the cache holds is keyed by all it depends on (CacheFits).  A vendor    *)
(* rests because a request ignores at least what failed it and what Redis  *)
(* remembers at the time (Avoids), and Redis remembers long enough         *)
(* (RestIsCooled).  A call is exact because only what cannot have been     *)
(* applied, or does not matter if it was, is sent twice (OnceOnly), and    *)
(* because a page is kept before its cursor is followed (InOrder).         *)
(***************************************************************************)
EXTENDS MCProviders, TLAPS

(***************************************************************************)
(* Evaluations.                                                            *)
(***************************************************************************)
\* What evaluations, and what is retained of them, look like.
Evaluated == [ctx : Contexts \cup {None}, model : Models \cup {None}, valid : BOOLEAN]
Stages == {"idle", "ask", "asked", "answered", "done", "failed"}
Evaluation ==
    [pc : Stages, ctx : Contexts \cup {None}, model : Models \cup {None}, link : Nat,
     attempt : Nat, ignored : SUBSET Vendors, vendor : Vendors \cup {None},
     bad : SUBSET Vendors, barred : SUBSET Vendors, answer : Evaluated \cup {None}]
EvaluationsOK ==
    /\ task \in [Tasks -> Evaluation]
    /\ cooldown \in [Vendors -> Nat] /\ down \in [Vendors -> Nat]
    /\ cache \in [DOMAIN cache -> Evaluated]
    /\ model \in Models
\* What is retained under a fingerprint answers it.
CacheFits == \A fp \in DOMAIN cache : fp = Fingerprint(cache[fp].model, cache[fp].ctx)
\* An answer is for what was asked, from the moment it is read.
Fits(s) ==
    s.pc \in {"answered", "done"} =>
        /\ s.answer \in Evaluated
        /\ s.answer.ctx = s.ctx /\ s.answer.model = s.model /\ s.answer.valid
\* A request ignores what failed it, and what rested when it was sent.
Avoids(s) ==
    /\ s.pc \in {"ask", "asked"} => s.bad \subseteq s.ignored
    /\ s.pc = "asked" => s.barred \subseteq s.ignored
\* Redis remembers a failure at least as long as it should be remembered.
RestIsCooled == \A v \in Vendors : down[v] <= cooldown[v]
\* What holds between any two steps of the evaluations.
EvaluationInv ==
    /\ EvaluationsOK /\ CacheFits /\ RestIsCooled
    /\ \A t \in Tasks : Fits(task[t]) /\ Avoids(task[t])
\* FailedVendorsRest, of one step.
VendorsRest ==
    \A t \in Tasks : task[t].pc = "asked" /\ task'[t].pc # "asked" /\ task'[t].vendor # None
        => NotRoutedTwice(t) /\ CooldownHonoured(t)
\* What each step has to show.
EvaluationGoal == EvaluationInv' /\ VendorsRest

\* A task that waits for a post is well formed, and has nothing to show.
LEMMA WaitingOK == Waiting \in Evaluation /\ Fits(Waiting) /\ Avoids(Waiting)
  BY ProviderConstants DEF Waiting, Evaluation, Stages, Fits, Avoids

\* Where only one task moves, it is enough to look at that one.
LEMMA OneTask ==
    ASSUME EvaluationInv, NEW t \in Tasks, NEW s \in Evaluation, Fits(s), Avoids(s),
           task' = [task EXCEPT ![t] = s],
           task[t].pc = "asked" /\ s.pc # "asked" /\ s.vendor # None
               => s.vendor \notin task[t].bad /\ s.vendor \notin task[t].barred
    PROVE  /\ task' \in [Tasks -> Evaluation] /\ VendorsRest
           /\ \A u \in Tasks : Fits(task'[u]) /\ Avoids(task'[u])
  BY DEF EvaluationInv, EvaluationsOK, VendorsRest, NotRoutedTwice, CooldownHonoured

\* A process that starts has neither answers nor failures.
LEMMA InitEvaluation == Init => EvaluationInv
<1> SUFFICES ASSUME Init PROVE EvaluationInv
  OBVIOUS
<1>1. EvaluationsOK
  BY WaitingOK DEF Init, EvaluationsOK
<1>2. CacheFits /\ RestIsCooled
  BY DEF Init, CacheFits, RestIsCooled
<1> QED
  BY <1>1, <1>2, WaitingOK DEF Init, EvaluationInv

\* A step that leaves Redis and the configuration alone.
Aside == UNCHANGED <<cooldown, cache, model, down>>
\* Such a step is judged by its task alone.
LEMMA AsideOK ==
    ASSUME EvaluationInv, Aside,  task' \in [Tasks -> Evaluation], VendorsRest,
           \A u \in Tasks : Fits(task'[u]) /\ Avoids(task'[u])
    PROVE  EvaluationGoal
  BY DEF EvaluationGoal, EvaluationInv, EvaluationsOK, CacheFits, RestIsCooled, Aside

\* extract: what the cache answers with was retained under the same fingerprint,
\* so for the same context and configuration.
LEMMA StartStep ==
    ASSUME EvaluationInv, NEW t \in Tasks, Start(t) \/ Bypass(t) \/ NextPost(t)
    PROVE  EvaluationGoal
<1>1. Aside /\ task[t].pc # "asked"
  BY DEF Start, Bypass, NextPost, Aside
<1>2. CASE NextPost(t)
  <2>1. task' = [task EXCEPT ![t] = Waiting]
    BY <1>2 DEF NextPost
  <2> QED
    BY <1>1, <2>1, WaitingOK, OneTask, AsideOK
<1>3. ASSUME NEW c \in Contexts,
             task' = [task EXCEPT ![t] = [Waiting EXCEPT !.pc = "ask", !.ctx = c, !.model = model]]
      PROVE  EvaluationGoal
  <2> DEFINE s == [Waiting EXCEPT !.pc = "ask", !.ctx = c, !.model = model]
  <2>1. s \in Evaluation /\ Fits(s) /\ Avoids(s)
    BY WaitingOK DEF Waiting, Evaluation, Stages, Fits, Avoids, EvaluationInv, EvaluationsOK
  <2> QED
    BY <1>1, <1>3, <2>1, OneTask, AsideOK
<1>4. ASSUME NEW c \in Contexts, Hit(Fingerprint(model, c)),
             task' = [task EXCEPT ![t] = [Waiting EXCEPT !.pc = "done", !.ctx = c, !.model = model,
                                             !.answer = cache[Fingerprint(model, c)]]]
      PROVE  EvaluationGoal
  <2> DEFINE a == cache[Fingerprint(model, c)]
             s == [Waiting EXCEPT !.pc = "done", !.ctx = c, !.model = model, !.answer = a]
  <2>1. a \in Evaluated /\ a.ctx = c /\ a.model = model /\ a.valid
    BY <1>4 DEF Hit, EvaluationInv, EvaluationsOK, CacheFits, Fingerprint
  <2>2. s \in Evaluation /\ Fits(s) /\ Avoids(s)
    <3> HIDE DEF a
    <3> QED
      BY <2>1, WaitingOK DEF Waiting, Evaluation, Stages, Fits, Avoids, EvaluationInv, EvaluationsOK
  <2> QED
    BY <1>1, <1>4, <2>2, OneTask, AsideOK
<1> QED
  BY <1>2, <1>3, <1>4 DEF Start, Bypass

\* A request to OpenRouter ignores all that rests, when Redis tells; what failed
\* this evaluation it ignores without Redis.
LEMMA AskStep == ASSUME EvaluationInv, NEW t \in Tasks, Ask(t) PROVE EvaluationGoal
<1> DEFINE barred == {v \in Vendors : down[v] > 0}
           s == [task[t] EXCEPT !.pc = "asked", !.vendor = None,
                    !.ignored = IF Provider(t) = "openrouter" THEN @ \cup Cooled ELSE @,
                    !.barred = IF Provider(t) = "openrouter" THEN barred ELSE {}]
           u == [task[t] EXCEPT !.pc = "asked", !.vendor = None, !.barred = {}]
<1>1. Aside /\ task[t].pc = "ask" /\ (task' = [task EXCEPT ![t] = s] \/ task' = [task EXCEPT ![t] = u])
  BY DEF Ask, Aside, EvaluationInv, EvaluationsOK
<1>2. task[t] \in Evaluation /\ task[t].bad \subseteq task[t].ignored
  BY <1>1 DEF EvaluationInv, EvaluationsOK, Avoids
<1>3. barred \subseteq Cooled /\ Cooled \subseteq Vendors
  BY DEF EvaluationInv, EvaluationsOK, RestIsCooled, Cooled
<1>4. s \in Evaluation /\ Fits(s) /\ Avoids(s)
  <2> HIDE DEF barred
  <2> QED
    BY <1>2, <1>3 DEF Evaluation, Stages, Fits, Avoids, Provider
<1>5. u \in Evaluation /\ Fits(u) /\ Avoids(u)
  BY <1>2 DEF Evaluation, Stages, Fits, Avoids
<1>6. s.vendor = None /\ u.vendor = None
  BY <1>2 DEF Evaluation
<1> HIDE DEF s, u
<1> QED
  BY <1>1, <1>4, <1>5, <1>6, OneTask, AsideOK

\* Another attempt, the next provider or the end: the vendor stays out of it.
LEMMA AfterFailureOK ==
    ASSUME NEW s \in Evaluation, NEW reply, s.bad \subseteq s.ignored
    PROVE  LET r == AfterFailure(s, reply)
           IN  r \in Evaluation /\ Fits(r) /\ Avoids(r) /\ r.vendor = s.vendor
<1> DEFINE again == [s EXCEPT !.pc = "ask", !.attempt = @ + 1]
           other == [s EXCEPT !.pc = "ask", !.attempt = 1, !.link = @ + 1, !.ignored = Static, !.bad = {}]
           last == [s EXCEPT !.pc = "failed"]
<1>1. s.attempt + 1 \in Nat /\ s.link + 1 \in Nat /\ 1 \in Nat
  BY DEF Evaluation
<1>2. /\ again \in Evaluation /\ again.pc = "ask" /\ again.vendor = s.vendor
      /\ again.bad = s.bad /\ again.ignored = s.ignored
  <2> DEFINE n == s.attempt + 1
  <2>1. n \in Nat /\ again = [s EXCEPT !.pc = "ask", !.attempt = n]
    BY <1>1 DEF Evaluation
  <2> HIDE DEF n, again
  <2> QED
    BY <2>1 DEF Evaluation, Stages
<1>3. other \in Evaluation /\ other.pc = "ask" /\ other.vendor = s.vendor /\ other.bad = {}
  <2> DEFINE n == s.link + 1
  <2>1. /\ n \in Nat
        /\ other = [s EXCEPT !.pc = "ask", !.attempt = 1, !.link = n, !.ignored = Static, !.bad = {}]
    BY <1>1 DEF Evaluation
  <2>2. Static \in SUBSET Vendors
    BY ProviderConstants
  <2> HIDE DEF n, other
  <2> QED
    BY <1>1, <2>1, <2>2 DEF Evaluation, Stages
<1>4. last \in Evaluation /\ last.pc = "failed" /\ last.vendor = s.vendor
  BY DEF Evaluation, Stages
<1>5. AfterFailure(s, reply) \in {again, other, last}
  BY DEF AfterFailure
<1> HIDE DEF again, other, last
<1> QED
  BY <1>2, <1>3, <1>4, <1>5 DEF Fits, Avoids

\* complete: the vendor that answers was not ignored, and the one that fails is
\* ignored from here on.
LEMMA ReplyStep == ASSUME EvaluationInv, NEW t \in Tasks, Reply(t) PROVE EvaluationGoal
<1>1. PICK v \in Routed(t), reply \in Replies(Provider(t)) :
        LET s == [task[t] EXCEPT !.vendor = v, !.ignored = @ \cup Excluded(reply, v),
                                 !.bad = @ \cup (IF reply \in {"vendor", "invalid"} THEN {v} \ {None}
                                                 ELSE {})]
        IN /\ Attributed(reply, v)
           /\ task' = [task EXCEPT ![t] =
                CASE reply = "ok" -> [s EXCEPT !.pc = "answered",
                                               !.answer = [ctx |-> s.ctx, model |-> s.model, valid |-> TRUE]]
                  [] reply = "refused" -> [s EXCEPT !.pc = "failed"]
                  [] OTHER -> AfterFailure(s, reply)]
           /\ IF reply = "vendor" THEN Cooldown(v) ELSE UNCHANGED <<cooldown, down, counters>>
  BY DEF Reply
<1> DEFINE s == [task[t] EXCEPT !.vendor = v, !.ignored = @ \cup Excluded(reply, v),
                     !.bad = @ \cup (IF reply \in {"vendor", "invalid"} THEN {v} \ {None} ELSE {})]
           r == CASE reply = "ok" -> [s EXCEPT !.pc = "answered",
                                        !.answer = [ctx |-> s.ctx, model |-> s.model, valid |-> TRUE]]
                  [] reply = "refused" -> [s EXCEPT !.pc = "failed"]
                  [] OTHER -> AfterFailure(s, reply)
<1>2. /\ task[t].pc = "asked" /\ task[t] \in Evaluation
      /\ task[t].bad \subseteq task[t].ignored /\ task[t].barred \subseteq task[t].ignored
  BY DEF Reply, EvaluationInv, EvaluationsOK, Avoids
<1>3. v \in Vendors \cup {None} /\ (v # None => v \notin task[t].ignored)
  BY DEF Routed
<1>4. /\ s \in Evaluation /\ s.bad \subseteq s.ignored /\ s.vendor = v
  BY <1>2, <1>3 DEF Evaluation, Excluded
<1>5. r \in Evaluation /\ Fits(r) /\ Avoids(r) /\ r.vendor = v
  <2> HIDE DEF s
  <2>1. CASE reply = "ok"
    BY <1>4, <2>1 DEF Evaluation, Stages, Fits, Avoids, Evaluated
  <2>2. CASE reply = "refused"
    BY <1>4, <2>2 DEF Evaluation, Stages, Fits, Avoids
  <2>3. CASE reply \notin {"ok", "refused"}
    BY <1>4, <2>3, AfterFailureOK
  <2> QED
    BY <2>1, <2>2, <2>3
<1>6. task' = [task EXCEPT ![t] = r]
  BY <1>1
<1>7. /\ task' \in [Tasks -> Evaluation] /\ VendorsRest
      /\ \A u \in Tasks : Fits(task'[u]) /\ Avoids(task'[u])
  <2> HIDE DEF r, s
  <2> QED
    BY <1>2, <1>3, <1>5, <1>6, OneTask
<1>8. \/ UNCHANGED <<cooldown, down>>
      \/ /\ v # None
         /\ cooldown' = [cooldown EXCEPT ![v] = Ttl] /\ down' = [down EXCEPT ![v] = Ttl]
  BY <1>1 DEF Cooldown, Renewed, Attributed
<1>9. cooldown' \in [Vendors -> Nat] /\ down' \in [Vendors -> Nat] /\ RestIsCooled'
  <2>1. CASE UNCHANGED <<cooldown, down>>
    BY <2>1 DEF EvaluationInv, EvaluationsOK, RestIsCooled
  <2>2. CASE v \in Vendors /\ cooldown' = [cooldown EXCEPT ![v] = Ttl]
             /\ down' = [down EXCEPT ![v] = Ttl]
    <3>1. Ttl \in Nat
      BY ProviderConstants
    <3>2. cooldown \in [Vendors -> Nat] /\ down \in [Vendors -> Nat] /\ RestIsCooled
      BY DEF EvaluationInv, EvaluationsOK
    <3> QED
      BY <2>2, <3>1, <3>2 DEF RestIsCooled
  <2> QED
    BY <1>3, <1>8, <2>1, <2>2
<1>10. UNCHANGED <<cache, model>>
  BY DEF Reply
<1> QED
  BY <1>7, <1>9, <1>10 DEF EvaluationGoal, EvaluationInv, EvaluationsOK, CacheFits

\* An answer is retained under the fingerprint of what it answers.
LEMMA CacheStep == ASSUME EvaluationInv, NEW t \in Tasks, CacheAnswer(t) PROVE EvaluationGoal
<1> DEFINE s == [task[t] EXCEPT !.pc = "done"]
           fp == Fingerprint(task[t].model, task[t].ctx)
<1>1. /\ task[t].pc = "answered" /\ task' = [task EXCEPT ![t] = s]
      /\ UNCHANGED <<cooldown, model, down>>
      /\ \/ cache' = [x \in DOMAIN cache \cup {fp} |-> IF x = fp THEN task[t].answer ELSE cache[x]]
         \/ UNCHANGED cache
  BY DEF CacheAnswer, EvaluationInv, EvaluationsOK
<1>2. task[t] \in Evaluation /\ Fits(task[t])
  BY DEF EvaluationInv, EvaluationsOK
<1>3. s \in Evaluation /\ Fits(s) /\ Avoids(s)
  BY <1>1, <1>2 DEF Evaluation, Stages, Fits, Avoids
<1>4. /\ task' \in [Tasks -> Evaluation] /\ VendorsRest
      /\ \A u \in Tasks : Fits(task'[u]) /\ Avoids(task'[u])
  <2> HIDE DEF s
  <2> QED
    BY <1>1, <1>3, OneTask
<1>5. task[t].answer \in Evaluated /\ fp = Fingerprint(task[t].answer.model, task[t].answer.ctx)
  BY <1>1, <1>2 DEF Fits
<1>6. cache' \in [DOMAIN cache' -> Evaluated] /\ CacheFits'
  <2> HIDE DEF fp
  <2> QED
    BY <1>1, <1>5 DEF EvaluationInv, EvaluationsOK, CacheFits
<1> QED
  BY <1>1, <1>4, <1>6 DEF EvaluationGoal, EvaluationInv, EvaluationsOK, RestIsCooled

\* Time, the cache and a restart take answers away, and shorten what should rest
\* no less than what Redis remembers.
LEMMA AroundStep ==
    ASSUME EvaluationInv, Tick \/ Expire \/ Corrupt \/ Restart PROVE EvaluationGoal
<1>1. CASE Tick
  <2>1. UNCHANGED <<task, cache, model>>
    BY <1>1 DEF Tick
  <2>2. cooldown' \in [Vendors -> Nat] /\ down' \in [Vendors -> Nat] /\ RestIsCooled'
    BY <1>1 DEF Tick, Less, EvaluationInv, EvaluationsOK, RestIsCooled
  <2> QED
    BY <2>1, <2>2 DEF EvaluationGoal, EvaluationInv, EvaluationsOK, CacheFits, VendorsRest
<1>2. CASE Expire \/ Corrupt
  <2>1. UNCHANGED <<task, cooldown, model, down>>
    BY <1>2 DEF Expire, Corrupt
  <2>2. cache' \in [DOMAIN cache' -> Evaluated] /\ CacheFits'
    <3>1. CASE Expire
      BY <3>1 DEF Expire, EvaluationInv, EvaluationsOK, CacheFits
    <3>2. CASE Corrupt
      <4>1. PICK fp \in DOMAIN cache : cache' = [cache EXCEPT ![fp].valid = FALSE]
        BY <3>2 DEF Corrupt
      <4> DEFINE a == [cache[fp] EXCEPT !.valid = FALSE]
      <4>2. cache[fp] \in Evaluated
        BY DEF EvaluationInv, EvaluationsOK
      <4>3. a \in Evaluated /\ a.ctx = cache[fp].ctx /\ a.model = cache[fp].model
        BY <4>2 DEF Evaluated
      <4>4. cache' = [cache EXCEPT ![fp] = a]
        BY <4>1
      <4> HIDE DEF a
      <4> QED
        BY <4>3, <4>4 DEF EvaluationInv, EvaluationsOK, CacheFits, Fingerprint
    <3> QED
      BY <1>2, <3>1, <3>2
  <2> QED
    BY <2>1, <2>2 DEF EvaluationGoal, EvaluationInv, EvaluationsOK, RestIsCooled, VendorsRest
<1>3. CASE Restart
  <2>1. /\ task' = [t \in Tasks |-> Waiting] /\ model' \in Models
        /\ UNCHANGED <<cooldown, cache, down>>
    BY <1>3 DEF Restart
  <2>2. VendorsRest
    BY <2>1 DEF VendorsRest, Waiting
  <2> QED
    BY <2>1, <2>2, WaitingOK
       DEF EvaluationGoal, EvaluationInv, EvaluationsOK, CacheFits, RestIsCooled
<1> QED
  BY <1>1, <1>2, <1>3

\* The invariant, and what each step does about vendors.
LEMMA EvaluationInvariance == Spec => []EvaluationInv /\ [][VendorsRest]_vars
<1>1. EvaluationInv /\ [Next]_vars => EvaluationInv' /\ [VendorsRest]_vars
  <2> SUFFICES ASSUME EvaluationInv, [Next]_vars PROVE EvaluationInv' /\ [VendorsRest]_vars
    OBVIOUS
  <2>1. CASE Next
    <3>1. EvaluationGoal
      BY <2>1, StartStep, AskStep, ReplyStep, CacheStep, AroundStep DEF Next, Step
    <3> QED
      BY <3>1 DEF EvaluationGoal
  <2>2. CASE UNCHANGED vars
    BY <2>2 DEF vars, EvaluationInv, EvaluationsOK, CacheFits, RestIsCooled
  <2> QED
    BY <2>1, <2>2
<1> QED
  BY <1>1, InitEvaluation, PTL DEF Spec

\* For any number of evaluations, vendors, providers, restarts and failures of
\* Redis, an answer is for the configuration and the context it was asked with
\* and passed the schema (_evaluation_fingerprint, _read_cached_evaluation).
THEOREM FittingAnswers == Spec => []AnswerFits
<1>1. EvaluationInv => AnswerFits
  BY DEF EvaluationInv, Fits, AnswerFits
<1> QED
  BY <1>1, EvaluationInvariance, PTL

\* For as many, no evaluation is routed to a vendor that failed it, nor to one
\* that rested when it asked (ignored_providers, _active_provider_cooldowns).
THEOREM RestingVendors == Spec => FailedVendorsRest
  BY EvaluationInvariance, PTL DEF FailedVendorsRest, VendorsRest

(***************************************************************************)
(* Calls.                                                                  *)
(***************************************************************************)
\* What the exchange answers, and what a call returns.
Answers == {"0", "110043", "10002", "refused"}
Results == {"ok", "timeout", "invalid", "cursor", "refused", "clock"}
\* The types, and what only a finished call or only a leverage call can have.
CallsOK ==
    /\ pc \in [Callers -> {"idle", "sign", "resync", "send", "wait", "done"}]
    /\ attempt \in [Callers -> 0..1]
    /\ travelling \in [Callers -> BOOLEAN]
    /\ answer \in [Callers -> Answers \cup {None}]
    /\ page \in [Callers -> Nat]
    /\ seen \in [Callers -> SUBSET Nat]
    /\ items \in [Callers -> SUBSET Nat]
    /\ result \in [Callers -> Results \cup {None}]
    /\ applied \in [Callers -> 0..1]
    /\ odd \in BOOLEAN
    /\ \A c \in Callers : /\ result[c] = "ok" => pc[c] = "done"
                          /\ answer[c] = "110043" => CallKind[c] = "leverage"
\* A request is applied as it arrives, at most once; as long as it travels there
\* is no answer, and no other is sent.
OnceOnly ==
    \A c \in Callers : ~C!Lists(c) =>
        /\ travelling[c] => applied[c] = 0 /\ (pc[c] = "wait" => answer[c] = None)
        /\ pc[c] \in {"idle", "sign", "resync", "send"}
             => ~travelling[c] /\ applied[c] = 0
        /\ pc[c] = "wait" => (applied[c] = 1 <=> answer[c] = "0")
        /\ result[c] = "ok" /\ CallKind[c] = "order" => applied[c] = 1
\* From an exchange with orderly cursors, a listing has the pages up to the one
\* it is about to read.
InOrder ==
    ~odd => \A c \in Callers : C!Lists(c) =>
        /\ page[c] \in 1..Pages
        /\ pc[c] # "done" => \A n \in Nat : n \in items[c] <=> n \in 1..(page[c] - 1)
        /\ result[c] = "ok" => \A n \in Nat : n \in items[c] <=> n \in 1..Pages
\* What holds between any two steps of the calls.
CallInv == CallsOK /\ OnceOnly /\ InOrder

\* Before the first call nothing is sent, applied or read.
LEMMA InitCall == C!Init => CallInv
  BY CallConstants DEF C!Init, C!Constants, CallInv, CallsOK, OnceOnly, InOrder, Answers, Results

\* private_request and paginate_private_list: only what the exchange refused
\* before applying it, or a listing, is sent again.
LEMMA CallerStep ==
    ASSUME CallInv, NEW c \in Callers, C!Call(c) \/ C!Step(c) \/ C!Arrives(c)
    PROVE CallInv'
<1> USE CallConstants DEF C!Constants, CallInv, CallsOK, OnceOnly, InOrder, Answers, Results,
    C!Goto, C!End, C!Fails, C!Again, C!wire, C!listing, C!clock, C!Lists
<1>1. CASE C!Call(c)
  BY <1>1 DEF C!Call
<1>2. CASE C!AuthHeaders(c)
  BY <1>2 DEF C!AuthHeaders
<1>3. CASE C!SyncClock(c)
  BY <1>3 DEF C!SyncClock
<1>4. CASE C!SyncFails(c)
  BY <1>4 DEF C!SyncFails
<1>5. CASE C!Send(c)
  BY <1>5 DEF C!Send
<1>6. CASE C!Arrives(c)
  BY <1>6 DEF C!Arrives
<1>7. CASE C!TimesOut(c)
  BY <1>7 DEF C!TimesOut, C!RetryTimeout
<1>8. CASE C!Breaks(c)
  BY <1>8 DEF C!Breaks
<1>9. CASE C!Receive(c)
  <2>1. /\ pc[c] = "wait" /\ answer[c] # None
        /\ answer' = [answer EXCEPT ![c] = None]
        /\ UNCHANGED <<travelling, applied, odd>>
    BY <1>9 DEF C!Receive
  <2>2. CASE C!Lists(c) /\ answer[c] = "0"
    <3>1. PICK cursor \in C!Cursors(c) : C!ReadPage(c, cursor)
      BY <1>9, <2>2 DEF C!Receive
    <3>2. ~odd => page[c] \in 1..Pages /\ cursor = IF page[c] = Pages THEN 0 ELSE page[c] + 1
      BY <2>2 DEF C!Cursors
    <3>3. cursor \in Nat
      BY DEF C!Cursors
    <3> DEFINE grown == items' = [items EXCEPT ![c] = @ \cup {page[c]}]
    <3>g. ASSUME grown, ~odd, NEW n \in Nat PROVE n \in items'[c] <=> n \in 1..page[c]
      <4>1. /\ items'[c] = items[c] \cup {page[c]} /\ page[c] \in Nat \ {0}
            /\ n \in items[c] <=> n \in 1..(page[c] - 1)
        BY <2>1, <2>2, <3>g
      <4>2. n \in 1..page[c] <=> n \in 1..(page[c] - 1) \/ n = page[c]
        BY <4>1
      <4> QED
        BY <4>1, <4>2
    <3>4. CASE cursor = 0
      <4>1. /\ grown /\ UNCHANGED <<attempt, page, seen>>
            /\ pc' = [pc EXCEPT ![c] = "done"] /\ result' = [result EXCEPT ![c] = "ok"]
        BY <3>1, <3>4 DEF C!ReadPage, C!Collected
      <4>2. CallsOK' /\ OnceOnly'
        BY <2>1, <2>2, <4>1
      <4>3. InOrder'
        BY <2>1, <2>2, <3>2, <3>4, <3>g, <4>1
      <4> QED
        BY <4>2, <4>3
    <3>5. CASE cursor # 0 /\ C!CursorNew(c, cursor)
      <4>1. /\ grown /\ UNCHANGED result /\ pc' = [pc EXCEPT ![c] = "sign"]
            /\ seen' = [seen EXCEPT ![c] = @ \cup {cursor}]
            /\ page' = [page EXCEPT ![c] = cursor]
            /\ attempt' = [attempt EXCEPT ![c] = 0]
        BY <3>1, <3>5 DEF C!ReadPage, C!Collected
      <4>2. CallsOK' /\ OnceOnly'
        BY <2>1, <2>2, <3>3, <4>1
      <4>3. InOrder'
        BY <2>1, <2>2, <3>2, <3>3, <3>5, <3>g, <4>1
      <4> QED
        BY <4>2, <4>3
    <3>6. CASE cursor # 0 /\ ~C!CursorNew(c, cursor)
      BY <2>1, <2>2, <3>1, <3>6 DEF C!ReadPage
    <3> HIDE DEF CallInv
    <3> QED
      BY <3>4, <3>5, <3>6
  <2>3. CASE ~(C!Lists(c) /\ answer[c] = "0")
    <3>1. \/ C!Fails(c, "ok") /\ answer[c] \in {"0", "110043"} /\ ~C!Lists(c)
          \/ C!Again(c, "resync") /\ answer[c] = "10002"
          \/ C!Fails(c, "refused")
      BY <1>9, <2>1, <2>3 DEF C!Receive
    <3> QED
      BY <2>1, <3>1
  <2> HIDE DEF CallInv
  <2> QED
    BY <2>2, <2>3
<1> HIDE DEF CallInv
<1> QED
  BY <1>1, <1>2, <1>3, <1>4, <1>5, <1>6, <1>7, <1>8, <1>9 DEF C!Step

\* The clock of the host has no part in what is applied.
LEMMA DriftStep == ASSUME CallInv, C!Drifts PROVE CallInv'
  BY DEF C!Drifts, C!wire, C!listing, CallInv, CallsOK, OnceOnly, InOrder, C!Lists

\* For any number of callers and pages and any clock, an order is applied at most
\* once and was applied if the call returns, and a listing that returns has every
\* page (private_request, paginate_private_list).
THEOREM ExactCalls == C!Spec => []CallsAreExact
<1>1. CallInv /\ [C!Next]_(C!cvars) => CallInv'
  <2> SUFFICES ASSUME CallInv, [C!Next]_(C!cvars) PROVE CallInv'
    OBVIOUS
  <2>1. CASE C!Next
    BY <2>1, CallerStep, DriftStep DEF C!Next
  <2>2. CASE UNCHANGED C!cvars
    BY <2>2 DEF C!cvars, CallInv, CallsOK, OnceOnly, InOrder, C!Lists
  <2> QED
    BY <2>1, <2>2
<1>2. CallInv => CallsAreExact
  <2> SUFFICES ASSUME CallInv PROVE CallsAreExact
    OBVIOUS
  <2>1. C!MutatesAtMostOnce
    BY DEF CallInv, CallsOK, OnceOnly, C!MutatesAtMostOnce
  <2>2. C!ListingComplete
    <3> SUFFICES ASSUME NEW c \in Callers, C!Lists(c), result[c] = "ok", ~odd
                 PROVE  items[c] = 1..Pages
      BY DEF C!ListingComplete
    <3>1. items[c] \subseteq Nat /\ 1..Pages \subseteq Nat
      BY CallConstants DEF CallInv, CallsOK, C!Constants
    <3>2. \A n \in Nat : n \in items[c] <=> n \in 1..Pages
      BY DEF CallInv, InOrder
    <3> QED
      BY <3>1, <3>2
  <2> QED
    BY <2>1, <2>2 DEF CallsAreExact, C!CallsAreExact
<1> QED
  BY <1>1, <1>2, InitCall, PTL DEF C!Spec
=============================================================================
