----------------------------- MODULE Providers ------------------------------
(***************************************************************************)
(* Evaluation of posts by language models: concurrent evaluations share an *)
(* evaluation cache and the cooldowns of OpenRouter's vendors, both in     *)
(* Redis; each walks a chain of providers, with attempts at each.          *)
(* A reply is one of                                                       *)
(*   ok, invalid (fails the response schema), vendor (a failure OpenRouter *)
(*   attributes to a vendor), retry (timeout, transport error, 429, 5xx,   *)
(*   malformed) and refused (any other HTTP status).                       *)
(***************************************************************************)
EXTENDS Naturals, Sequences, FiniteSets

CONSTANTS
    Tasks, Vendors,
    Static,    \* STATIC_IGNORED_PROVIDERS
    Chain,     \* provider names, in their order
    Attempts,  \* max_attempts, by provider
    Contexts,  \* what the fingerprint covers: post, guidance, trusted context
    Models,    \* cache identities, one per configuration of the chain
    Ttl,       \* provider_cooldown_seconds, in ticks
    None,
    MaxTicks, MaxRedisFaults, MaxRestarts

ASSUME ProviderConstants ==
    /\ Static \subseteq Vendors /\ Len(Chain) > 0 /\ Ttl \in Nat \ {0}
    /\ \A i \in DOMAIN Chain : Attempts[Chain[i]] \in Nat \ {0}

VARIABLES
    task,     \* evaluations
    cooldown, \* Redis: vendor -> ticks left
    cache,    \* Redis: fingerprint -> the answer retained
    model,    \* cache_identity of the running process
    ticks, faults, restarts,
    down      \* vendor -> ticks for which nobody should be routed to it

vars == <<task, cooldown, cache, model, ticks, faults, restarts, down>>
counters == <<ticks, faults, restarts>>

Waiting == [pc |-> "idle", ctx |-> None, model |-> None, link |-> 1, attempt |-> 1,
            ignored |-> Static, vendor |-> None, bad |-> {}, barred |-> {}, answer |-> None]

Init ==
    /\ task = [t \in Tasks |-> Waiting]
    /\ cooldown = [v \in Vendors |-> 0] /\ down = [v \in Vendors |-> 0]
    /\ cache = <<>>
    /\ model \in Models
    /\ ticks = 0 /\ faults = 0 /\ restarts = 0

\* Redis does not answer
RedisFails == faults < MaxRedisFaults /\ faults' = faults + 1 /\ UNCHANGED <<ticks, restarts>>

(***************************************************************************)
(* extract: the cache first, unless it is bypassed.                        *)
(***************************************************************************)
\* Mutant: the post alone.
PostFingerprint(m, c) == <<m>>
Fingerprint(m, c) == <<m, c>>
Hit(fp) == fp \in DOMAIN cache /\ cache[fp].valid

Start(t) ==
    /\ task[t].pc = "idle"
    /\ \E c \in Contexts :
         \/ /\ Hit(Fingerprint(model, c))
            /\ task' = [task EXCEPT ![t] = [Waiting EXCEPT !.pc = "done", !.ctx = c, !.model = model,
                                                           !.answer = cache[Fingerprint(model, c)]]]
            /\ UNCHANGED counters
         \/ /\ task' = [task EXCEPT ![t] = [Waiting EXCEPT !.pc = "ask", !.ctx = c, !.model = model]]
            /\ \/ ~Hit(Fingerprint(model, c)) /\ UNCHANGED counters
               \/ Hit(Fingerprint(model, c)) /\ RedisFails
    /\ UNCHANGED <<cooldown, cache, model, down>>
Bypass(t) ==
    /\ task[t].pc = "idle"
    /\ \E c \in Contexts :
         task' = [task EXCEPT ![t] = [Waiting EXCEPT !.pc = "ask", !.ctx = c, !.model = model]]
    /\ UNCHANGED <<cooldown, cache, model, counters, down>>

(***************************************************************************)
(* complete, one attempt at a time.                                        *)
(***************************************************************************)
Provider(t) == Chain[task[t].link]
Cooled == {v \in Vendors : cooldown[v] > 0}
Ask(t) ==
    /\ task[t].pc = "ask"
    /\ \/ /\ task' = [task EXCEPT ![t].pc = "asked", ![t].vendor = None,
               ![t].ignored = IF Provider(t) = "openrouter" THEN @ \cup Cooled ELSE @,
               ![t].barred = IF Provider(t) = "openrouter" THEN {v \in Vendors : down[v] > 0} ELSE {}]
          /\ UNCHANGED counters
       \/ /\ Provider(t) = "openrouter" /\ RedisFails
          /\ task' = [task EXCEPT ![t].pc = "asked", ![t].vendor = None, ![t].barred = {}]
    /\ UNCHANGED <<cooldown, cache, model, down>>

\* Mutant: an invalid answer costs no attempt.
Uncounted(s, reply) ==
    IF reply = "invalid" THEN [s EXCEPT !.pc = "ask"]
    ELSE IF s.attempt < Attempts[Chain[s.link]] THEN [s EXCEPT !.pc = "ask", !.attempt = @ + 1]
    ELSE IF s.link < Len(Chain)
    THEN [s EXCEPT !.pc = "ask", !.attempt = 1, !.link = @ + 1, !.ignored = Static, !.bad = {}]
    ELSE [s EXCEPT !.pc = "failed"]
\* another attempt, the next provider, or the end
AfterFailure(s, reply) ==
    IF s.attempt < Attempts[Chain[s.link]] THEN [s EXCEPT !.pc = "ask", !.attempt = @ + 1]
    ELSE IF s.link < Len(Chain)
    THEN [s EXCEPT !.pc = "ask", !.attempt = 1, !.link = @ + 1, !.ignored = Static, !.bad = {}]
    ELSE [s EXCEPT !.pc = "failed"]

\* Mutant: only a failure of the vendor excludes it.
ExcludedOnFailure(reply, v) == IF reply = "vendor" THEN {v} ELSE {}
\* vendors the rest of this request avoids
Excluded(reply, v) == IF v # None /\ reply \in {"vendor", "invalid"} THEN {v} ELSE {}
\* Mutant: a cooldown that is running is not renewed.
NotRenewed(v) == [cooldown EXCEPT ![v] = IF @ > 0 THEN @ ELSE Ttl]
Renewed(v) == [cooldown EXCEPT ![v] = Ttl]

\* what can come back; only OpenRouter attributes a failure to a vendor
OpenCodeReplies == {"ok", "invalid", "retry", "refused"}
OpenRouterReplies == OpenCodeReplies \cup {"vendor"}
Replies(p) == IF p = "openrouter" THEN OpenRouterReplies ELSE OpenCodeReplies
\* the vendor the router picked, None where the reply does not name it
Routed(t) == IF Provider(t) # "openrouter" THEN {None}
             ELSE {None} \cup (Vendors \ task[t].ignored)
\* a truncated, oversized or error completion is the vendor's where it is named
Attributed(reply, v) == reply = "vendor" => v # None
Cooldown(v) ==
    \/ /\ cooldown' = Renewed(v) /\ down' = [down EXCEPT ![v] = Ttl]
       /\ UNCHANGED counters
    \/ RedisFails /\ UNCHANGED <<cooldown, down>>
Reply(t) ==
    /\ task[t].pc = "asked"
    /\ \E v \in Routed(t), reply \in Replies(Provider(t)) :
         LET s == [task[t] EXCEPT !.vendor = v, !.ignored = @ \cup Excluded(reply, v),
                                  !.bad = @ \cup (IF reply \in {"vendor", "invalid"} THEN {v} \ {None}
                                                  ELSE {})]
         IN
         /\ Attributed(reply, v)
         /\ task' = [task EXCEPT ![t] =
              CASE reply = "ok" -> [s EXCEPT !.pc = "answered",
                                             !.answer = [ctx |-> s.ctx, model |-> s.model, valid |-> TRUE]]
                [] reply = "refused" -> [s EXCEPT !.pc = "failed"]
                [] OTHER -> AfterFailure(s, reply)]
         /\ IF reply = "vendor" THEN Cooldown(v) ELSE UNCHANGED <<cooldown, down, counters>>
    /\ UNCHANGED <<cache, model>>

\* the answer is retained under the fingerprint of what was asked
CacheAnswer(t) ==
    /\ task[t].pc = "answered"
    /\ task' = [task EXCEPT ![t].pc = "done"]
    /\ LET fp == Fingerprint(task[t].model, task[t].ctx) IN
         \/ /\ cache' = [x \in DOMAIN cache \cup {fp} |->
                           IF x = fp THEN task[t].answer ELSE cache[x]]
            /\ UNCHANGED counters
         \/ RedisFails /\ UNCHANGED cache
    /\ UNCHANGED <<cooldown, model, down>>

(***************************************************************************)
(* Around it: the next post, time, a payload an older version wrote, the   *)
(* end of a cache entry, a restart with another configuration.             *)
(***************************************************************************)
NextPost(t) ==
    /\ task[t].pc \in {"done", "failed"}
    /\ task' = [task EXCEPT ![t] = Waiting]
    /\ UNCHANGED <<cooldown, cache, model, counters, down>>
Less(f) == [v \in Vendors |-> IF f[v] > 0 THEN f[v] - 1 ELSE 0]
Tick ==
    /\ ticks < MaxTicks /\ ticks' = ticks + 1
    /\ cooldown' = Less(cooldown) /\ down' = Less(down)
    /\ UNCHANGED <<task, cache, model, faults, restarts>>
Expire ==
    /\ \E fp \in DOMAIN cache : cache' = [x \in DOMAIN cache \ {fp} |-> cache[x]]
    /\ UNCHANGED <<task, cooldown, model, counters, down>>
Corrupt ==
    /\ \E fp \in DOMAIN cache : cache[fp].valid /\ cache' = [cache EXCEPT ![fp].valid = FALSE]
    /\ UNCHANGED <<task, cooldown, model, counters, down>>
Restart ==
    /\ restarts < MaxRestarts /\ restarts' = restarts + 1
    /\ task' = [t \in Tasks |-> Waiting]
    /\ model' \in Models
    /\ UNCHANGED <<cooldown, cache, ticks, faults, down>>

Step(t) == Ask(t) \/ Reply(t) \/ CacheAnswer(t)
Next ==
    \/ \E t \in Tasks : Start(t) \/ Bypass(t) \/ Step(t) \/ NextPost(t)
    \/ Tick \/ Expire \/ Corrupt \/ Restart
Spec == Init /\ [][Next]_vars
\* every request has a timeout
FairSpec == Spec /\ \A t \in Tasks : WF_vars(Step(t))

-----------------------------------------------------------------------------
\* An answer is for the model configuration and the context it was asked with,
\* and passed the schema, whether it came from a provider or from the cache,
\* across restarts with another chain (_evaluation_fingerprint,
\* _read_cached_evaluation).
AnswerFits ==
    \A t \in Tasks : task[t].pc = "done" =>
        /\ task[t].answer.ctx = task[t].ctx /\ task[t].answer.model = task[t].model
        /\ task[t].answer.valid

\* A vendor that failed this request, or answered it with invalid output, is
\* not routed to again by it, also while Redis is down (ignored_providers).
NotRoutedTwice(t) == task'[t].vendor \notin task[t].bad
\* A vendor that failed any request is not routed to until the cooldown of its
\* last failure has passed: a later failure renews the time, nobody's write
\* shortens it (cooldown_openrouter_provider, _active_provider_cooldowns).
CooldownHonoured(t) == task'[t].vendor \notin task[t].barred
\* A vendor that failed is left alone, by the request it failed for good and by
\* all others for a time (openrouter/client.py).
FailedVendorsRest ==
    [][\A t \in Tasks : task[t].pc = "asked" /\ task'[t].pc # "asked" /\ task'[t].vendor # None
         => NotRoutedTwice(t) /\ CooldownHonoured(t)]_vars

\* Every evaluation that was started ends: attempts and providers run out.
EvaluationEnds == \A t \in Tasks : task[t].pc = "ask" ~> task[t].pc \in {"idle", "done", "failed"}
=============================================================================
