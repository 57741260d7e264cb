------------------------------ MODULE MCPlanner ------------------------------
(***************************************************************************)
(* Three questions about planning: the plans themselves (Planner), the     *)
(* signals a caption supports (Evidence), and which of them are executed   *)
(* without a person (Routing).                                             *)
(***************************************************************************)
EXTENDS Planner

CONSTANTS
    i1, i2, p1, p2, o1, o2, o3,
    Tickers, Any, Captions, Raws, Candidates, Copied, \* of Evidence
    Alias,                                            \* of both
    Posts, Opens, Symbols, Sides, PostOf, ChannelOf, Reported, SideOf, Relations,
    Recovered, Listed, MaxByHand                      \* of Routing
VARIABLES
    part,
    stage, caption, raws, candidates, quote,
    at, history, account, relation, row, mode, contract, cand, twin, orig,
    position, entries, owner, closing, closed, byHand

\* percentages of 100; R multiples and depths in hundredths
MCPolicy == [risk |-> <<60, 25, 15>>, depth |-> <<33, 66>>, r |-> <<50, 100, 150>>,
             exits |-> <<25, 25, 25>>, runner |-> 25, fallback |-> 20]
MCLevFilter == [min |-> 1, max |-> 12, step |-> 2]
MCTiers == <<[limit |-> 700, max |-> 10], [limit |-> 2000, max |-> 4]>>
MCLongRisk == <<3, 4>>

At(type, price, low, high) == [type |-> type, price |-> price, low |-> low, high |-> high]
AtMarket == At("MARKET", None, None, None)
AtLimit == At("LIMIT", 41, None, None)
AtRange == At("RANGE", None, 38, 47)

Longs == [side : {"LONG"}, entry : {AtMarket, AtLimit, AtRange}, stop : {None, 29},
          target : {None, 52, 61}, leverage : {None, 6}, auto : {TRUE}]
Shorts == [side : {"SHORT"}, entry : {AtMarket, AtLimit, AtRange}, stop : {None, 59},
           target : {None, 31}, leverage : {3}, auto : {FALSE}]
AllContents == Longs \cup Shorts
RestingContents == {c \in AllContents : c.entry # AtMarket /\ c.leverage # None /\ c.target = None}

\* Either both intents are resting ladders, planned together or one by one, or
\* i1 is any intent and i2 is never planned.
Together == {<<i1, i2>>, <<i1>>, <<i2>>}
Idle == CHOOSE c \in RestingContents : TRUE
Pair == \A i \in Intents : intent[i] \in RestingContents
Alone == intent[i2] = Idle /\ phase[i2] = "new" /\ \A n \in 1..Len(todo) : todo[n] = i1

\* Clauses: a ticker mention, perhaps a condition, and one phrase.
Mute == [names |-> {}, timed |-> FALSE, negated |-> FALSE, reduce |-> FALSE,
         close |-> {}, inside |-> {}, cancel |-> FALSE, uncancel |-> FALSE,
         short |-> None, pct |-> None, part |-> None, filled |-> FALSE, sided |-> FALSE]
Phrases ==
    {Mute,
     [Mute EXCEPT !.close = {Any}],                     \* close
     [Mute EXCEPT !.close = {"BTC"}],                        \* close btc
     [Mute EXCEPT !.close = {Any}, !.negated = TRUE],   \* do not close
     [Mute EXCEPT !.close = {Any}, !.inside = {Any},
                  !.reduce = TRUE, !.part = 25],             \* close a quarter
     [Mute EXCEPT !.reduce = TRUE, !.pct = 150],             \* +150%, take some
     [Mute EXCEPT !.reduce = TRUE, !.short = 25, !.pct = 30],
     [Mute EXCEPT !.cancel = TRUE],
     [Mute EXCEPT !.cancel = TRUE, !.uncancel = TRUE],
     [Mute EXCEPT !.filled = TRUE],
     [Mute EXCEPT !.filled = TRUE, !.sided = TRUE]}
Clauses(phrases, mentions) ==
    {[c EXCEPT !.names = m, !.timed = t] : c \in phrases, m \in mentions, t \in BOOLEAN}
MCAlias == [x \in {"PEPE"} |-> "1000PEPE"]
MCCaptions ==
    [clauses : {<<c, d>> : c \in Clauses(Phrases, {{}, {"PEPE"}, {"BTC", "PEPE"}}),
                           d \in Clauses({x \in Phrases : ~x.filled}, {{}, {"1000PEPE"}})},
     holds : {FALSE}, recap : {FALSE}, doubtful : {FALSE}]
    \cup
    [clauses : {<<c>> : c \in Clauses({x \in Phrases : x.reduce \/ x.filled}, {{}, {"BTC"}})},
     holds : BOOLEAN, recap : BOOLEAN, doubtful : BOOLEAN]
MCRaws == [kind : {"CLOSE", "REDUCE", "CANCEL_ENTRIES", "HOLD"},
           symbol : {"1000PEPE", "BTC"}, excerpt : 0..1]
MCCandidates ==
    [symbol : {"BTC"}, relation : {"NEW", "UPDATE_EXISTING"}, side : {"LONG", None},
     entry : {"MARKET", "LIMIT", None}, priced : BOOLEAN, valid : BOOLEAN]
E == INSTANCE Evidence
ASSUME CaptionConstants == E!EvidenceConstants
captionVars == <<stage, caption, raws, candidates, quote>>

\* One post reports a contract under both of its names; another post of the
\* channel, or of another one, reports it again.
MCPostOf == [o \in {o1, o2, o3} |-> IF o = o3 THEN p2 ELSE p1]
MCReported == [o \in {o1, o2, o3} |-> IF o = o1 THEN "PEPE" ELSE "1000PEPE"]
OneChannel == [p \in {p1, p2} |-> 1]
AllLong == [o \in {o1, o2, o3} |-> "LONG"]
R == INSTANCE Routing
ASSUME RouteConstants == R!RoutingConstants
routeVars == <<at, history, account, relation, row, mode, contract, cand, twin, orig,
               position, entries, owner, closing, closed, byHand>>

NoCaption == CHOOSE c \in Captions : TRUE
NoEvaluation ==
    /\ stage = "posted" /\ caption = NoCaption
    /\ raws = {} /\ candidates = {} /\ quote = <<0, None>>
PlanInit == part = "plan" /\ Init /\ (Pair \/ Alone) /\ NoEvaluation /\ R!Init
CaptionInit ==
    part = "caption" /\ Init /\ (\A i \in Intents : intent[i] = Idle) /\ E!Init /\ R!Init
RouteInit ==
    part = "route" /\ Init /\ (\A i \in Intents : intent[i] = Idle) /\ NoEvaluation /\ R!Init
PlanNext ==
    /\ part = "plan" /\ Next /\ (Pair \/ Alone')
    /\ UNCHANGED <<part, captionVars, routeVars>>
CaptionNext == part = "caption" /\ E!Next /\ UNCHANGED <<part, vars, routeVars>>
\* Either a person trades or a CLOSE comes, and a person only around the second
\* post; one of the two posts is retried; the twins are classified alike.
Shape ==
    /\ relation[o1] = relation[o2]
    /\ cand[o3] = "none" \/ at[p1] = "idle"
    /\ \/ byHand = 0
       \/ at[p1] = "idle" /\ closing["1000PEPE"] = {} /\ closed["1000PEPE"] = {}
RouteNext ==
    part = "route" /\ R!Next /\ Shape' /\ UNCHANGED <<part, vars, captionVars>>
PlanOrSignal ==
    /\ PlanInit \/ CaptionInit \/ RouteInit
    /\ [][PlanNext \/ CaptionNext \/ RouteNext]_<<part, vars, captionVars, routeVars>>

\* Actions rest on the caption alone (_position_actions_from_extraction).
ModelGivesNoAuthority == E!ModelGivesNoAuthority
\* Two OPENs of one post for one contract are not AUTO (_candidate_counts).
TwinsWaitForPerson == R!TwinsWaitForPerson
\* An entry is placed on an untouched symbol only (_assert_open_preflight).
EntersUntouched == [][R!StepEntersUntouched]_routeVars
=============================================================================
