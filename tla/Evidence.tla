------------------------------ MODULE Evidence ------------------------------
(***************************************************************************)
(* From what the language model proposes to what the service may act on:   *)
(* signals/normalization.py, signals/evidence.py, signals/entry_review.py. *)
(* The model's words are never trusted.  A lifecycle action is kept only   *)
(* when a clause of the caption itself instructs it.                       *)
(*                                                                         *)
(* A clause is what the regular expressions of evidence.py find in it:     *)
(*   names    the tickers it mentions                                      *)
(*   timed    a condition, a past or a future (_NON_CURRENT_ACTION)        *)
(*   negated  a lifecycle negation                                         *)
(*   reduce   a reduce instruction                                         *)
(*   close    what its close phrases name; Any is a phrase without ticker  *)
(*   inside   those of them that lie inside a reduce phrase ("close half") *)
(*   cancel   "cancel the limits", uncancel the same with a negation       *)
(*   short    the amount of the shorthand "fix 30%"                        *)
(*   pct      its first percentage, part its fraction or fraction word     *)
(*   filled   reports a filled entry; sided: also says which direction     *)
(* A caption is its clauses and what is searched in the whole text:        *)
(*   holds    "you may close a part, I keep holding"                       *)
(*   recap    an update of running trades without a new entry              *)
(*   doubtful a word that makes a reported fill hypothetical or past       *)
(***************************************************************************)
EXTENDS Integers, Sequences, FiniteSetsExt

CONSTANTS
    Tickers,
    Alias,   \* reported ticker -> the contract it is traded as
    Any,
    None

Variants(s) == {s} \cup {r \in DOMAIN Alias : Alias[r] = s}

\* Mutant: the clause mentions the symbol, among others.
MentionsSymbol(c, s) == c.names = {} \/ c.names \cap Variants(s) # {}
\* A clause that names another ticker is no evidence for this one.
LifecycleSymbolMatches(c, s) == c.names \subseteq Variants(s)

Timely(c) == ~c.timed /\ ~c.negated
\* The reduce patterns, the shorthand "fix 30%" among them.
Reduces(c) == c.reduce
\* A close phrase, or one that names this ticker; not a part of a reduce phrase.
Closes(c, s) == (c.close \ c.inside) \cap ({Any} \cup Variants(s)) # {}
Instructs(c, kind, s) ==
    /\ Timely(c)
    /\ CASE kind = "REDUCE" -> Reduces(c)
         [] kind = "CLOSE" -> Closes(c, s)

\* Mutant: the words the model quotes are judged, without their clause.
ScopesOfExcerpt(clauses, excerpt) ==
    IF excerpt = 0 THEN clauses
    ELSE <<[clauses[excerpt] EXCEPT !.timed = FALSE, !.negated = FALSE]>> \o clauses
\* The clause the model quotes comes first, then the clauses in their order; a
\* repetition is never the first that matches.
ActionScopes(clauses, excerpt) ==
    IF excerpt = 0 THEN clauses ELSE <<clauses[excerpt]>> \o clauses

\* A ticker header may stand in the clause before the cancellation; its timing
\* then qualifies the cancellation as well.
CancelScope(clauses, n) ==
    IF clauses[n].names = {} /\ n > 1 THEN <<clauses[n - 1], clauses[n]>>
                                      ELSE <<clauses[n]>>
CancelEntriesEvidence(clauses, s) ==
    LET ok == {n \in 1..Len(clauses) :
                 LET scope == CancelScope(clauses, n) IN
                   /\ clauses[n].cancel /\ ~clauses[n].uncancel
                   /\ \A m \in 1..Len(scope) : ~scope[m].timed
                   /\ scope[1].names # {} /\ scope[1].names \subseteq Variants(s)}
    IN IF ok = {} THEN None ELSE CancelScope(clauses, Min(ok))

CurrentPostActionEvidence(caption, kind, s, excerpt) ==
    IF kind = "CANCEL_ENTRIES" THEN CancelEntriesEvidence(caption.clauses, s)
    ELSE IF kind = "REDUCE" /\ caption.holds THEN None
    ELSE LET scopes == ActionScopes(caption.clauses, excerpt)
             ok == {n \in 1..Len(scopes) : LifecycleSymbolMatches(scopes[n], s)
                                            /\ Instructs(scopes[n], kind, s)}
         IN IF ok = {} THEN None ELSE <<scopes[Min(ok)]>>

\* The caption decides the amount: shorthand, percentage, fraction, one half.
ReductionPct(c) ==
    LET v == CHOOSE x \in {c.short, c.pct, c.part, 50} :
                /\ x # None
                /\ c.short # None => x = c.short
                /\ c.short = None /\ c.pct # None => x = c.pct
                /\ c.short = None /\ c.pct = None /\ c.part # None => x = c.part
    IN IF 0 < v /\ v < 100 THEN v ELSE None
ReduceClosePct(scope) == ReductionPct(scope[1])

Executable == {"CLOSE", "REDUCE", "CANCEL_ENTRIES"}
ActionOf(caption, raw) ==
    LET scope == CurrentPostActionEvidence(caption, raw.kind, raw.symbol, raw.excerpt) IN
      [kind |-> raw.kind, symbol |-> raw.symbol, scope |-> scope,
       pct |-> IF raw.kind = "REDUCE" /\ scope # None THEN ReduceClosePct(scope)
                                                       ELSE None]
\* HOLD and unknown kinds, actions without evidence, reductions without amount.
Dropped(a) == a.scope = None \/ (a.kind = "REDUCE" /\ a.pct = None)

\* Mutant: every action with evidence is kept.
KeepAll(candidates) == candidates
\* One caption clause cannot select several symbols.
UnambiguousPositionActions(candidates) ==
    {a \in candidates : \A b \in candidates : b.scope = a.scope => b.symbol = a.symbol}
PositionActions(caption, raws) ==
    UnambiguousPositionActions(
        {a \in {ActionOf(caption, r) : r \in {x \in raws : x.kind \in Executable}} :
           ~Dropped(a)})

(***************************************************************************)
(* OPEN candidates and reviews of reported fills.                          *)
(***************************************************************************)
\* MARKET ignores a price; LIMIT and RANGE need theirs.
EntryFromTransport(raw) ==
    IF raw.entry \in {"MARKET", None} \/ raw.priced THEN raw.entry ELSE None
OpenIntent(caption, raw) ==
    /\ raw.relation # "UPDATE_EXISTING"
    /\ raw.side # None
    /\ EntryFromTransport(raw) # None
    /\ ~(EntryFromTransport(raw) = "MARKET" /\ caption.recap)
    /\ raw.valid
OpenIntents(caption, raws) == {r \in raws : OpenIntent(caption, r)}

\* Mutant: a reported fill is reviewed whatever else the post opens.
ReviewEveryFill(caption, quoted, s, opens, copied) ==
    /\ quoted # 0
    /\ LET c == caption.clauses[quoted] IN
         c.filled /\ ~c.sided /\ c.names = {s}
    /\ ~caption.doubtful /\ s \notin copied
\* The fill must be quoted from the caption, be current, name this ticker only
\* and no direction; nothing else of the post or the account explains it.
EntryReviewed(caption, quoted, s, opens, copied) ==
    /\ quoted # 0
    /\ LET c == caption.clauses[quoted] IN
         c.filled /\ ~c.sided /\ c.names = {s}
    /\ ~caption.doubtful
    /\ s \notin {r.symbol : r \in opens} /\ s \notin copied

(***************************************************************************)
(* An evaluation: the caption, then the model's answer, then the signals.  *)
(***************************************************************************)
CONSTANTS
    Captions,   \* captions considered
    Raws,       \* lifecycle actions the model may propose
    Candidates, \* OPEN candidates it may propose
    Copied      \* the tickers the source has a copy of

EvidenceConstants ==
    \A c \in Captions :
      /\ c.clauses \in Seq({c.clauses[n] : n \in DOMAIN c.clauses})
      /\ \A n \in 1..Len(c.clauses) : <<c.clauses[n]>> # None

VARIABLES stage, caption, raws, candidates, quote

evars == <<stage, caption, raws, candidates, quote>>

Init ==
    /\ stage = "posted"
    /\ caption \in Captions
    /\ raws = {} /\ candidates = {} /\ quote = <<0, None>>
Answer ==
    /\ stage = "posted"
    /\ stage' = "answered"
    /\ \E r1, r2 \in {r \in Raws : r.excerpt \in 0..Len(caption.clauses)} : raws' = {r1, r2}
    /\ UNCHANGED <<caption, candidates, quote>>
AnswerEntry ==
    /\ stage = "posted"
    /\ stage' = "answered"
    /\ \E c \in Candidates, n \in 0..Len(caption.clauses), s \in Tickers :
         candidates' = {c} /\ quote' = <<n, s>>
    /\ UNCHANGED <<caption, raws>>
Next == Answer \/ AnswerEntry
Spec == Init /\ [][Next]_evars

Normalized ==
    [opens |-> OpenIntents(caption, candidates),
     reviewed |-> EntryReviewed(caption, quote[1], quote[2],
                                OpenIntents(caption, candidates), Copied),
     actions |-> PositionActions(caption, raws)]

(***************************************************************************)
(* Properties.                                                             *)
(***************************************************************************)
\* What a reader of the caption would call an instruction: it stands in one
\* clause, now, unnegated, and no other ticker stands beside it.  A withdrawal
\* names its ticker there or in the clause before.
ReadsAs(kind, s) ==
    \E n \in 1..Len(caption.clauses) :
      LET c == caption.clauses[n]
          Only(names) == names # {} /\ names \subseteq Variants(s) IN
        IF kind = "CANCEL_ENTRIES"
          THEN /\ c.cancel /\ ~c.uncancel /\ ~c.timed
               /\ \/ Only(c.names)
                  \/ /\ c.names = {} /\ n > 1
                     /\ Only(caption.clauses[n - 1].names)
                     /\ ~caption.clauses[n - 1].timed
          ELSE /\ ~c.timed /\ ~c.negated
               /\ c.names = {} \/ Only(c.names)
               /\ IF kind = "REDUCE" THEN c.reduce ELSE c.close \ c.inside # {}
\* Every action the service goes on with can be read in the caption, whatever
\* the model proposed or quoted (_current_post_action_evidence).
ActionsAreWritten ==
    \A a \in Normalized.actions : ReadsAs(a.kind, a.symbol)

\* The excerpt the model quotes orders the search and nothing else: a proposal
\* has evidence with one quotation if it has it with any other
\* (_deterministic_action_evidence: "A model excerpt cannot remove a condition
\* or make a recap current").
ExcerptGivesNoAuthority ==
    \A r \in raws : r.kind \in Executable =>
      \A n \in 0..Len(caption.clauses) :
        (CurrentPostActionEvidence(caption, r.kind, r.symbol, n) = None)
          = (CurrentPostActionEvidence(caption, r.kind, r.symbol, r.excerpt) = None)

\* One clause never moves two positions: actions for two symbols rest on two
\* different scopes (_unambiguous_position_actions).
ClauseMovesOnePosition ==
    \A a, b \in Normalized.actions : a.symbol # b.symbol => a.scope # b.scope

\* A post never both trades a ticker and asks a person to review a fill of it
\* (entry_reviews receives the symbols of the executable intents).
ReviewNeverTraded ==
    Normalized.reviewed =>
        \A r \in Normalized.opens : r.symbol # quote[2]

\* What the service acts on stands in the caption, once: nothing the model
\* proposes, quotes or repeats adds to it, and a fill the post reports is left to
\* a person unless the post opens it (_signals_from_extraction).
ModelGivesNoAuthority ==
    /\ ActionsAreWritten /\ ExcerptGivesNoAuthority
    /\ ClauseMovesOnePosition /\ ReviewNeverTraded
=============================================================================
