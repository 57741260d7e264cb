-------------------------- MODULE ProtectionProofs --------------------------
(***************************************************************************)
(* What Protection promises at every moment, for any plan, any prices and  *)
(* any number of failures: a live position has a stop, no request of the   *)
(* supervisor loosens it, an exit order is never placed twice, and the     *)
(* open exits together fit the position; and that the exits and the stop   *)
(* in profit are what the policy says they are.                            *)
(*                                                                         *)
(* The cover is not inductive on its own.  An attached stop is dropped on  *)
(* the strength of a position stop read two requests earlier, so the       *)
(* invariant says what such a read is still worth: if the stop it saw is   *)
(* gone, the position was closed since, and its attached stops with it.    *)
(***************************************************************************)
EXTENDS MCProtection, LadderProofs

\* A value, or none yet; an average price as a quotient.
Maybe(S) == S \cup {None}
AvgPrice == Int \X (Nat \ {0})

(***************************************************************************)
(* Types.                                                                  *)
(***************************************************************************)
PositionOK(p) ==
    /\ DOMAIN p = {"size", "avg", "stop", "trail"}
    /\ p.size \in Nat /\ p.avg \in Maybe(AvgPrice) /\ p.stop \in Maybe(Int)
    /\ p.size > 0 => p.avg # None
    /\ p.size = 0 => p.stop = None
\* The columns of a row that the stops are computed from.
TypedRow(r) ==
    /\ DOMAIN r = {"status", "frozen", "rebalance", "installing", "rev", "done", "prot",
                   "trail", "dist", "qty", "avg", "exits"}
    /\ r.rev \in Nat /\ r.prot \in Maybe(Int) /\ r.avg \in Maybe(AvgPrice)
\* A row has a stop from the first installation on, and with it every frozen one.
SoundRow(r) ==
    /\ TypedRow(r)
    /\ r.installing => r.avg # None
    /\ r.rev > 0 \/ (r.frozen /\ ~r.rebalance) => r.prot # None
\* A fixed exit as the exchange keeps it.
OrderOK(o) ==
    /\ DOMAIN o = {"qty", "price", "exec", "status"}
    /\ o.exec \in Nat /\ o.status \in {"New", "Filled", "Cancelled"}
\* The exchange: an entry has an attached stop only once it has filled.
ExchangeInv ==
    /\ PositionOK(pos)
    /\ entry \in [Legs -> {"new", "filled", "gone"}]
    /\ partial \in [Legs -> {"none", "live", "gone"}]
    /\ \A l \in Legs : entry[l] = "new" => partial[l] # "live"
    /\ user \in Nat
ExitInv == \A e \in DOMAIN exit : OrderOK(exit[e])

(***************************************************************************)
(* The pass.                                                               *)
(***************************************************************************)
ReadPlaces == {"decide", "flat", "replaced", "confirm", "match", "ensure", "verify", "fixed",
               "freeze", "rebalance", "trailed"}
Places == ReadPlaces \cup {"idle", "positions", "orders", "protect", "stale", "drop", "handed",
                           "place", "trail"}
\* A pass waits for one of the two account reads.
Reading == pc \in {"positions", "orders"}
\* Where the pass is, or goes once it has read the account.
Place == IF Reading THEN then ELSE pc
\* The parts of an installation: the hand-over, before and after it.
Handing == {"ensure", "drop"}
BeforeHanding == {"protect", "stale", "replaced", "match", "confirm"}
Installs == BeforeHanding \cup {"place", "verify"}
Installing == Place \in Installs \/ (Place \in Handing /\ goal.from # "handoff")

\* The row is sound, and so is the copy of it, unless the pass is installing:
\* the copy then gets the new stop with the last save only.
RowInv ==
    /\ SoundRow(row)
    /\ pc # "idle" => TypedRow(st) /\ SoundRow(loaded) /\ (~Installing => SoundRow(st))
    /\ Place = "fixed" => st.rev > 0
\* The places of a pass.
PlaceInv == pc \in Places /\ (Reading => then \in ReadPlaces)
\* What was read of the position, and of the entries the stops belong to.
SnapInv ==
    /\ pc \notin {"idle", "positions"} => PositionOK(snap.pos) /\ snap.mark \in Int
    /\ pc # "idle" /\ ~Reading => \A l \in snap.partials : l \in Legs /\ entry[l] # "new"
\* What an installation, a hand-over or a new trail works towards.
GoalInv ==
    /\ Place \in Installs \cup Handing =>
         /\ {"from", "stop", "ids", "first"} \subseteq DOMAIN goal
         /\ goal.stop \in Int
    /\ Place \in {"trail", "trailed"} => goal.stop \in Int
    /\ Place \in BeforeHanding => goal.from # "handoff"
    /\ Place \in Handing => \A l \in goal.ids : l \in Legs /\ entry[l] # "new"
\* What the pass knows of the position stop.
StopInv ==
    /\ pc = "drop" => snap.pos.stop = goal.stop
    /\ Place \in Handing /\ goal.from = "handoff" /\ st.prot # None => goal.stop = st.prot
    /\ pc = "handed" /\ ~Gone /\ st.prot # None => snap.pos.stop = st.prot
    /\ pc = "protect" /\ acct.pos.stop # None =>
         acct.pos.stop \in Int /\ ~Below(Plan.side, goal.stop, acct.pos.stop)
    /\ pc = "trail" /\ snap.pos.stop # None => ~Below(Plan.side, goal.stop, snap.pos.stop)
\* If the stop it read is gone the position was closed since, and with it went
\* the attached stops it is about to drop.
HandoverInv ==
    /\ Place \in Handing /\ pc # "positions" /\ user = 0 /\ snap.pos.stop # None /\ pos.stop = None
         => \A l \in goal.ids : partial[l] # "live"
\* What a pass knows; what the exchange holds.
PassInv == RowInv /\ PlaceInv /\ SnapInv /\ GoalInv /\ StopInv /\ HandoverInv
CoverInv == ExchangeInv /\ NeverUncovered
\* What holds between any two steps, and what each has to show.
ProtectionInv == PassInv /\ CoverInv
ProtectionGoal == PassInv' /\ CoverInv'

(***************************************************************************)
(* The stops that are computed.                                            *)
(***************************************************************************)
\* The direction of a side.
LEMMA DirType == Dir(Plan.side) \in {1, -1}
  BY DEF Dir

\* Facts of arithmetic that the solver needs one at a time.
LEMMA DivType == ASSUME NEW a \in Int, NEW b \in Nat \ {0} PROVE a \div b \in Int
  OBVIOUS

\* Products of integers.
LEMMA TimesType == ASSUME NEW a \in Int, NEW b \in Int PROVE a * b \in Int
  OBVIOUS

\* Products of positive numbers.
LEMMA TimesPositive == ASSUME NEW a \in Nat \ {0}, NEW b \in Nat \ {0} PROVE a * b \in Nat \ {0}
  OBVIOUS

\* The stop in profit is a price, and not behind the previous one.
LEMMA ProtectedStopOK ==
    ASSUME NEW avg \in AvgPrice, NEW previous \in Maybe(Int), NEW mark \in Int,
           ~Refused(ProtectedStop(Plan, avg, previous, mark))
    PROVE  LET stop == ProtectedStop(Plan, avg, previous, mark).stop
           IN  /\ stop \in Int
               /\ previous # None => ~Below(Plan.side, stop, previous)
<1> DEFINE d == RiskDistance(avg, Plan.stop)
           n == (avg[1] + Dir(Plan.side) * Fee * avg[2]) * Lock[2] + Dir(Plan.side) * d[1] * Lock[1]
           m == avg[2] * Lock[2]
           locked == LockedTick(Plan.side, <<n, m>>)
           further(a, b) == IF Below(Plan.side, a, b) THEN b ELSE a
           last == IF previous = None THEN Plan.stop ELSE previous
           stop == further(further(locked, Plan.stop), last)
<1>1. avg[1] \in Int /\ avg[2] \in Nat \ {0} /\ Lock[1] \in Nat /\ Lock[2] \in Nat \ {0}
  BY ExitConstants DEF AvgPrice
<1>2. d[1] \in Int
  <2>1. Plan.stop * avg[2] \in Int
    BY <1>1, ProtectionConstants
  <2> QED
    BY <1>1, <2>1 DEF RiskDistance, Dist
<1>3. n \in Int
  <2>1. Dir(Plan.side) * Fee \in Int
    BY DirType, ExitConstants
  <2>2. Dir(Plan.side) * Fee * avg[2] \in Int
    BY <1>1, <2>1
  <2>3. (avg[1] + Dir(Plan.side) * Fee * avg[2]) * Lock[2] \in Int
    BY <1>1, <2>2
  <2>4. Dir(Plan.side) * d[1] \in Int
    BY <1>2, DirType
  <2>5. Dir(Plan.side) * d[1] * Lock[1] \in Int
    BY <1>1, <2>4
  <2> HIDE DEF d
  <2> QED
    BY <2>3, <2>5
<1>4. m \in Nat \ {0}
  BY <1>1, TimesPositive
<1>5. locked \in Int
  <2> HIDE DEF n, m
  <2>1. m * Tick \in Nat \ {0} /\ Tick \in Int
    BY <1>4, TimesPositive, LadderConstants
  <2>2. n + m * Tick - 1 \in Int
    BY <1>3, <2>1
  <2>3. (n + m * Tick - 1) \div (m * Tick) \in Int /\ n \div (m * Tick) \in Int
    BY <1>3, <2>1, <2>2, DivType
  <2>4. Tick * ((n + m * Tick - 1) \div (m * Tick)) \in Int /\ Tick * (n \div (m * Tick)) \in Int
    BY <2>1, <2>3, TimesType
  <2> QED
    BY <2>4 DEF LockedTick
<1>6. stop \in Int /\ (previous # None => ~Below(Plan.side, stop, previous))
  <2> HIDE DEF locked
  <2>1. Plan.stop \in Int /\ last \in Int
    BY ProtectionConstants DEF Maybe
  <2> QED
    BY <1>5, <2>1, DirType DEF Below
<1>7. ProtectedStop(Plan, avg, previous, mark)
        = IF stop <= 0 \/ ~Below(Plan.side, stop, mark) THEN Refusal("passed") ELSE [stop |-> stop]
  BY DEF ProtectedStop
<1> HIDE DEF stop
<1> QED
  BY <1>6, <1>7 DEF Refused, Refusal

\* Of two stops the further one is not behind the other.
LEMMA FurtherOK ==
    ASSUME NEW a \in Int, NEW b \in Maybe(Int)
    PROVE  Further(a, b) \in Int /\ (b # None => ~Below(Plan.side, Further(a, b), b))
  BY ProtectionConstants, DirType DEF Further, Below, Maybe

(***************************************************************************)
(* Cover.                                                                  *)
(***************************************************************************)
LEMMA LegType ==
    ASSUME NEW l \in Legs
    PROVE  Plan.legs[l].qty \in Nat \ {0} /\ Plan.legs[l].ref \in Int
<1> DEFINE Leg == [qty : Nat \ {0}, ref : Int]
           legs == Plan.legs
<1>1. legs \in Seq(Leg) /\ l \in 1..Len(legs)
  BY ProtectionConstants DEF Legs
<1>2. legs[l] \in Leg
  <2> HIDE DEF legs, Leg
  <2> QED
    BY <1>1
<1> QED
  BY <1>2

\* The lots of one leg are as many as its quantity.
LEMMA OneLegLots ==
    ASSUME NEW l \in Legs
    PROVE  /\ IsFiniteSet({l} \X (1..Plan.legs[l].qty))
           /\ Cardinality({l} \X (1..Plan.legs[l].qty)) = Plan.legs[l].qty
<1> DEFINE q == Plan.legs[l].qty
<1>1. q \in Nat
  BY LegType
<1> HIDE DEF q
<1>2. IsFiniteSet(1..q) /\ Cardinality(1..q) = q
  BY <1>1, FS_Interval
<1>3. IsFiniteSet({l}) /\ Cardinality({l}) = 1
  BY FS_Singleton
<1>4. IsFiniteSet({l} \X (1..q)) /\ Cardinality({l} \X (1..q)) = 1 * q
  BY <1>1, <1>2, <1>3, FS_Product
<1> QED
  BY <1>1, <1>4 DEF q

\* The lots of any legs are finitely many.
LEMMA LotsFinite == ASSUME NEW ls \in SUBSET Legs PROVE IsFiniteSet(LotsOf(ls))
<1>1. IsFiniteSet(Legs)
  BY ProtectionConstants, FS_Interval DEF Legs
<1>2. IsFiniteSet(ls)
  BY <1>1, FS_Subset
<1> DEFINE Lots == {{l} \X (1..Plan.legs[l].qty) : l \in ls}
<1>3. IsFiniteSet(Lots)
  <2> DEFINE f == [l \in ls |-> {l} \X (1..Plan.legs[l].qty)]
  <2>1. f \in Surjection(ls, Lots)
    BY DEF Surjection
  <2> HIDE DEF f, Lots
  <2> QED
    BY <1>2, <2>1, FS_Surjection
<1>4. \A s \in Lots : IsFiniteSet(s)
  BY OneLegLots
<1>5. IsFiniteSet(UNION Lots)
  BY <1>3, <1>4, FS_UNION
<1> QED
  BY <1>5 DEF LotsOf

\* An attached stop covers the lots of its leg, besides those of the others.
LEMMA LotsWith ==
    ASSUME NEW ls \in SUBSET Legs, NEW l \in Legs, l \notin ls
    PROVE  Cardinality(LotsOf(ls \cup {l})) = Cardinality(LotsOf(ls)) + Plan.legs[l].qty
<1> DEFINE own == {l} \X (1..Plan.legs[l].qty)
<1>1. LotsOf(ls \cup {l}) = LotsOf(ls) \cup own
  BY DEF LotsOf
<1>2. LotsOf(ls) \cap own = {}
  BY DEF LotsOf
<1>3. IsFiniteSet(LotsOf(ls)) /\ IsFiniteSet(own) /\ Cardinality(own) = Plan.legs[l].qty
  BY LotsFinite, OneLegLots
<1>4. Cardinality({}) = 0
  BY FS_EmptySet
<1>5. Cardinality(LotsOf(ls)) \in Nat /\ Plan.legs[l].qty \in Nat
  BY <1>3, FS_CardinalityType, LegType
<1> HIDE DEF own
<1>6. Cardinality(LotsOf(ls) \cup own)
        = Cardinality(LotsOf(ls)) + Cardinality(own) - Cardinality(LotsOf(ls) \cap own)
  BY <1>3, FS_Union
<1>7. Cardinality(LotsOf(ls) \cap own) = 0
  BY <1>2, <1>4
<1>8. Cardinality(LotsOf(ls) \cup own) = Cardinality(LotsOf(ls)) + Plan.legs[l].qty
  BY <1>3, <1>5, <1>6, <1>7
<1> QED
  BY <1>1, <1>8

\* They can be counted.
LEMMA LotsType == ASSUME NEW ls \in SUBSET Legs PROVE Cardinality(LotsOf(ls)) \in Nat
  BY LotsFinite, FS_CardinalityType

\* Where neither position nor attached stops change, entries may be withdrawn.
EntriesOnlyGo ==
    /\ entry' \in [Legs -> {"new", "filled", "gone"}]
    /\ \A l \in Legs : entry'[l] = "new" => entry[l] = "new"
\* Then the position is as covered as it was.
LEMMA CoverUnchanged ==
    ASSUME CoverInv, UNCHANGED <<pos, partial, user>>, EntriesOnlyGo
    PROVE  CoverInv'
<1>1. LiveStops' = LiveStops
  BY DEF LiveStops
<1> QED
  BY <1>1 DEF CoverInv, ExchangeInv, NeverUncovered, Covered, EntriesOnlyGo

\* What the exchange, and a person, may do under a pass that is under way.
StopsKept ==
    /\ user' # 0 \/ (user = 0 /\ (pos'.stop # None \/ pos.stop = None \/ \A l \in Legs : partial'[l] # "live"))
    /\ \A l \in Legs : partial'[l] = "live" => partial[l] = "live" \/ entry[l] = "new"
    /\ \A l \in Legs : entry'[l] = "new" => entry[l] = "new"
\* What a pass knows survives that.
LEMMA PassKept ==
    ASSUME PassInv, StopsKept, UNCHANGED pass,
           UNCHANGED row \/ (pc = "idle" /\ SoundRow(row'))
    PROVE  PassInv'
<1> USE DEF PassInv, pass
<1>1. Place' = Place /\ Reading' = Reading /\ Installing' = Installing
  BY DEF Place, Reading, Installing
<1>2. RowInv' /\ PlaceInv'
  BY <1>1 DEF RowInv, PlaceInv
<1>3. SnapInv'
  BY <1>1 DEF SnapInv, StopsKept
<1>4. GoalInv'
  BY <1>1 DEF GoalInv, StopsKept
<1>5. StopInv'
  BY <1>1 DEF StopInv, Gone
<1>6. HandoverInv'
  BY <1>1 DEF HandoverInv, GoalInv, StopsKept
<1> QED
  BY <1>2, <1>3, <1>4, <1>5, <1>6

\* Lots that leave the position leave it as covered as it was.
LEMMA ShrinkStep ==
    ASSUME CoverInv, pos.size > 0, NEW by \in 1..pos.size, Shrink(by), UNCHANGED <<entry, user>>
    PROVE  CoverInv' /\ StopsKept
<1> USE DEF CoverInv, ExchangeInv
<1>1. CASE pos.size - by > 0
  <2>1. pos' = [pos EXCEPT !.size = pos.size - by] /\ UNCHANGED partial
    BY <1>1 DEF Shrink
  <2>2. pos'.size = pos.size - by /\ pos'.stop = pos.stop /\ PositionOK(pos')
    BY <1>1, <2>1 DEF PositionOK
  <2>3. LiveStops' = LiveStops /\ LiveStops \in SUBSET Legs
    BY <2>1 DEF LiveStops
  <2>4. NeverUncovered'
    BY <1>1, <2>2, <2>3, LotsType DEF NeverUncovered, Covered, PositionOK
  <2> QED
    BY <2>1, <2>2, <2>4 DEF StopsKept
<1>2. CASE ~(pos.size - by > 0)
  <2>1. /\ pos' = Flat
        /\ partial' = [l \in Legs |-> IF partial[l] = "live" THEN "gone" ELSE partial[l]]
    BY <1>2 DEF Shrink
  <2>2. PositionOK(pos') /\ pos'.size = 0
    BY <2>1 DEF PositionOK, Flat, Maybe
  <2>3. /\ partial' \in [Legs -> {"none", "live", "gone"}]
        /\ \A l \in Legs : partial'[l] # "live"
    BY <2>1
  <2>4. NeverUncovered'
    <3>1. LiveStops' \in SUBSET Legs
      BY DEF LiveStops
    <3> QED
      BY <2>2, <3>1, LotsType DEF NeverUncovered, Covered
  <2> QED
    BY <2>2, <2>3, <2>4 DEF StopsKept
<1> QED
  BY <1>1, <1>2

\* An entry that fills brings its own stop.
LEMMA EntryFillsStep ==
    ASSUME CoverInv, NEW l \in Legs, EntryFills(l) PROVE CoverInv' /\ StopsKept
<1> USE DEF CoverInv, ExchangeInv
<1> DEFINE q == Plan.legs[l].qty
           p == Plan.legs[l].ref
<1>1. q \in Nat \ {0} /\ p \in Int
  BY LegType
<1>2. /\ entry[l] = "new" /\ partial[l] # "live" /\ UNCHANGED user
      /\ entry' = [entry EXCEPT ![l] = "filled"] /\ partial' = [partial EXCEPT ![l] = "live"]
  BY DEF EntryFills, counts
<1>3. LiveStops' = LiveStops \cup {l} /\ l \notin LiveStops /\ LiveStops \in SUBSET Legs
  BY <1>2 DEF LiveStops
<1>4. Cardinality(LotsOf(LiveStops))' = Cardinality(LotsOf(LiveStops)) + q
  BY <1>3, LotsWith
<1>5. Cardinality(LotsOf(LiveStops)) \in Nat
  BY <1>3, LotsType
<1>6. PositionOK(pos') /\ pos'.stop = pos.stop /\ pos'.size = pos.size + q
  <2>1. CASE pos.size = 0
    <3>1. pos' = [Flat EXCEPT !.size = q, !.avg = <<p, 1>>]
      BY <2>1 DEF EntryFills, Filled
    <3> HIDE DEF q, p
    <3>2. pos'.size = q /\ pos'.avg = <<p, 1>> /\ pos'.stop = None
          /\ DOMAIN pos' = {"size", "avg", "stop", "trail"}
      BY <3>1 DEF Flat
    <3>3. <<p, 1>> \in AvgPrice /\ <<p, 1>> # None
      <4>1. <<p, 1>> \in Int \X Nat
        BY <1>1
      <4> QED
        BY <4>1, ProtectionConstants DEF AvgPrice
    <3> QED
      BY <1>1, <2>1, <3>2, <3>3 DEF PositionOK, Maybe
  <2>2. CASE pos.size # 0
    <3> DEFINE avg == <<pos.avg[1] * pos.size + q * p * pos.avg[2], pos.avg[2] * (pos.size + q)>>
               size == pos.size + q
    <3>0. pos.size \in Nat \ {0} /\ pos.avg \in AvgPrice /\ DOMAIN pos = {"size", "avg", "stop", "trail"}
      BY <2>2 DEF PositionOK, Maybe
    <3>1. pos' = [pos EXCEPT !.size = size, !.avg = avg]
      BY <2>2, <3>0 DEF EntryFills, Filled
    <3>2. pos.avg[1] \in Int /\ pos.avg[2] \in Nat \ {0}
      BY <3>0 DEF AvgPrice
    <3>3. size \in Nat \ {0}
      BY <1>1, <3>0
    <3>4. avg \in AvgPrice
      <4>1. pos.avg[1] * pos.size \in Int /\ q * p \in Int
        BY <1>1, <3>0, <3>2, TimesType
      <4>2. q * p * pos.avg[2] \in Int
        BY <3>2, <4>1, TimesType
      <4>3. pos.avg[2] * size \in Nat \ {0}
        BY <3>2, <3>3, TimesPositive
      <4> QED
        BY <4>1, <4>2, <4>3 DEF AvgPrice
    <3> HIDE DEF avg, size
    <3>5. pos'.size = size /\ pos'.avg = avg /\ pos'.stop = pos.stop
          /\ DOMAIN pos' = {"size", "avg", "stop", "trail"}
      BY <3>0, <3>1
    <3>6. avg # None
      BY <3>4, ProtectionConstants DEF AvgPrice
    <3> QED
      BY <3>3, <3>4, <3>5, <3>6 DEF PositionOK, Maybe, size
  <2>3. pos.size = 0 => pos.stop = None
    BY DEF PositionOK
  <2>4. CASE pos.size = 0
    <3>1. pos'.stop = None /\ pos'.size = q
      BY <2>4 DEF EntryFills, Filled, Flat
    <3> QED
      BY <1>1, <2>1, <2>3, <2>4, <3>1
  <2> QED
    BY <2>2, <2>4
<1>7. NeverUncovered'
  <2> HIDE DEF q
  <2> QED
    BY <1>1, <1>2, <1>4, <1>5, <1>6 DEF NeverUncovered, Covered, PositionOK
<1> QED
  BY <1>2, <1>6, <1>7 DEF StopsKept

\* An attached stop that fires takes the lots it covered.
LEMMA PartialStopStep ==
    ASSUME CoverInv, NEW l \in Legs, PartialStopFires(l) PROVE CoverInv' /\ StopsKept
<1> USE DEF CoverInv, ExchangeInv
<1> DEFINE q == Plan.legs[l].qty
<1>1. q \in Nat \ {0}
  BY LegType
<1>2. /\ partial[l] = "live" /\ pos.size > q /\ UNCHANGED <<user, entry>>
      /\ pos' = [pos EXCEPT !.size = @ - q] /\ partial' = [partial EXCEPT ![l] = "gone"]
  BY DEF PartialStopFires
<1> HIDE DEF q
<1>3. PositionOK(pos') /\ pos'.size = pos.size - q /\ pos'.stop = pos.stop /\ pos.size \in Nat
  BY <1>1, <1>2 DEF PositionOK
<1>4. LiveStops = LiveStops' \cup {l} /\ l \notin LiveStops' /\ LiveStops' \in SUBSET Legs
  BY <1>2 DEF LiveStops
<1>5. Cardinality(LotsOf(LiveStops)) = Cardinality(LotsOf(LiveStops))' + q
  BY <1>4, LotsWith DEF q
<1>6. Cardinality(LotsOf(LiveStops))' \in Nat
  BY <1>4, LotsType
<1>7. NeverUncovered'
  BY <1>1, <1>2, <1>3, <1>5, <1>6 DEF NeverUncovered, Covered
<1> QED
  BY <1>2, <1>3, <1>7 DEF StopsKept

(***************************************************************************)
(* Steps of the exchange and of people.                                    *)
(***************************************************************************)
LEMMA EnvironmentStep == ASSUME ProtectionInv, Environment PROVE ProtectionGoal
<1> USE DEF ProtectionInv, ProtectionGoal
<1>1. ASSUME NEW l \in Legs, EntryFills(l) PROVE ProtectionGoal
  BY <1>1, EntryFillsStep, PassKept DEF EntryFills
<1>2. ASSUME NEW l \in Legs, PartialStopFires(l) PROVE ProtectionGoal
  BY <1>2, PartialStopStep, PassKept DEF PartialStopFires
<1>3. ASSUME NEW e \in DOMAIN exit, ExitFills(e) PROVE ProtectionGoal
  <2>1. 1 \in 1..pos.size /\ pos.size > 0 /\ Shrink(1) /\ UNCHANGED <<entry, user>>
    BY <1>3 DEF ExitFills, counts, CoverInv, ExchangeInv, PositionOK
  <2>2. CoverInv' /\ StopsKept
    BY <2>1, ShrinkStep
  <2> QED
    BY <1>3, <2>2, PassKept DEF ExitFills
<1>4. CASE StopFires
  <2>1. pos.size \in 1..pos.size /\ pos.size > 0 /\ Shrink(pos.size) /\ UNCHANGED <<entry, user>>
    BY <1>4 DEF StopFires, counts, CoverInv, ExchangeInv, PositionOK
  <2>2. CoverInv' /\ StopsKept
    BY <2>1, ShrinkStep
  <2> QED
    BY <1>4, <2>2, PassKept DEF StopFires
<1>5. CASE UserRemovesStop \/ UserSetsStop
  <2>1. /\ user' = user + 1 /\ UNCHANGED <<entry, partial, row, pass>> /\ pos.size > 0
        /\ \E p \in Maybe(Int) : \E trail : pos' = [pos EXCEPT !.stop = p, !.trail = trail]
    <3>1. CASE UserRemovesStop
      BY <3>1 DEF UserRemovesStop, Maybe
    <3>2. CASE UserSetsStop
      <4>1. PICK p \in UserStops : pos' = [pos EXCEPT !.stop = p]
        BY <3>2 DEF UserSetsStop
      <4>2. p \in Maybe(Int)
        BY ProtectionConstants DEF Maybe
      <4>3. pos' = [pos EXCEPT !.stop = p, !.trail = pos.trail]
        BY <4>1 DEF CoverInv, ExchangeInv, PositionOK
      <4> QED
        BY <3>2, <4>2, <4>3 DEF UserSetsStop
    <3> QED
      BY <1>5, <3>1, <3>2
  <2>2. PICK p \in Maybe(Int) : \E trail : pos' = [pos EXCEPT !.stop = p, !.trail = trail]
    BY <2>1
  <2>3. PositionOK(pos')
    BY <2>1, <2>2 DEF CoverInv, ExchangeInv, PositionOK
  <2>4. user' \in Nat /\ user' # 0
    BY <2>1 DEF CoverInv, ExchangeInv
  <2>5. CoverInv' /\ StopsKept
    BY <2>1, <2>3, <2>4 DEF CoverInv, ExchangeInv, NeverUncovered, StopsKept
  <2> QED
    BY <2>1, <2>5, PassKept
<1>6. CASE UserCancelsExit
  <2>1. UNCHANGED <<pos, entry, partial, row, pass>> /\ user' = user + 1
    BY <1>6 DEF UserCancelsExit
  <2>2. user' \in Nat /\ user' # 0
    BY <2>1 DEF CoverInv, ExchangeInv
  <2>3. CoverInv' /\ StopsKept
    BY <2>1, <2>2 DEF CoverInv, ExchangeInv, NeverUncovered, StopsKept
  <2> QED
    BY <2>1, <2>3, PassKept
<1>7. CASE Reduce \/ WithdrawUncertain
  <2>1. /\ pc = "idle" /\ row' = [row EXCEPT !.frozen = TRUE, !.rebalance = TRUE]
        /\ UNCHANGED <<partial, pass, user>>
    BY <1>7 DEF Reduce, WithdrawUncertain, At, exchange
  <2>2. SoundRow(row')
    BY <2>1 DEF PassInv, RowInv, SoundRow, TypedRow
  <2>3. EntriesOnlyGo
    BY <1>7 DEF Reduce, WithdrawUncertain, EntriesOnlyGo, exchange, CoverInv, ExchangeInv
  <2>4. PositionOK(pos') /\ pos'.stop = pos.stop /\ pos'.size <= pos.size /\ pos.size \in Nat
    BY <1>7 DEF Reduce, WithdrawUncertain, exchange, CoverInv, ExchangeInv, PositionOK
  <2>5. LiveStops' = LiveStops /\ LiveStops \in SUBSET Legs
    BY <2>1 DEF LiveStops
  <2>6. NeverUncovered'
    BY <2>1, <2>4, <2>5, LotsType DEF CoverInv, NeverUncovered, Covered, PositionOK
  <2>7. CoverInv' /\ StopsKept
    BY <2>1, <2>3, <2>4, <2>6 DEF CoverInv, ExchangeInv, EntriesOnlyGo, StopsKept
  <2> QED
    BY <2>1, <2>2, <2>7, PassKept
<1> QED
  BY <1>1, <1>2, <1>3, <1>4, <1>5, <1>6, <1>7 DEF Environment

(***************************************************************************)
(* Ways on for a pass.                                                     *)
(***************************************************************************)
Quiet == UNCHANGED <<pos, partial, user>> /\ EntriesOnlyGo
\* With no request, or with the entries withdrawn, nothing moves that covers.
LEMMA QuietExchange == ASSUME CoverInv, UNCHANGED <<exchange, user>> PROVE Quiet
  BY DEF CoverInv, ExchangeInv, exchange, Quiet, EntriesOnlyGo
\* Cancelling entries disturbs no position.
LEMMA QuietCancel == ASSUME CoverInv, CancelEntries, UNCHANGED user PROVE Quiet
  BY DEF CoverInv, ExchangeInv, CancelEntries, Quiet, EntriesOnlyGo

\* The pass ends.
LEMMA ReleaseStep ==
    ASSUME ProtectionInv, Quiet, Release, SoundRow(row') PROVE ProtectionGoal
<1>1. pc' = "idle" /\ Place' = "idle" /\ ~Reading'
  BY DEF Release, Place, Reading
<1>2. PassInv'
  BY <1>1 DEF PassInv, RowInv, PlaceInv, SnapInv, GoalInv, StopInv, HandoverInv, Places,
     Installs, BeforeHanding, Handing
<1> QED
  BY <1>2, CoverUnchanged DEF ProtectionInv, ProtectionGoal, Quiet

\* The pass reads the account again, with nothing under way.
LEMMA ReadStep ==
    ASSUME ProtectionInv, Quiet, SoundRow(row'), SoundRow(st'), SoundRow(loaded'),
           pc' = "positions", then' \in {"decide", "flat", "freeze", "rebalance", "fixed"},
           then' = "fixed" => st'.rev > 0
    PROVE  ProtectionGoal
<1>1. Place' = then' /\ Reading'
  BY DEF Place, Reading
<1>2. PassInv'
  BY <1>1 DEF PassInv, RowInv, PlaceInv, SnapInv, GoalInv, StopInv, HandoverInv, Places, ReadPlaces,
     Installs, BeforeHanding, Handing, SoundRow
<1> QED
  BY <1>2, CoverUnchanged DEF ProtectionInv, ProtectionGoal, Quiet

\* What a goal says is not changed by what is noted in it.
GoalKept ==
    /\ {"from", "stop", "ids", "first"} \subseteq DOMAIN goal'
    /\ goal'.stop = goal.stop /\ goal'.from = goal.from
\* An installation goes on, the hand-over aside.
LEMMA InstallOn ==
    ASSUME PassInv, EntriesOnlyGo, UNCHANGED <<row, st, loaded>>, GoalKept,
           pc # "idle", ~Reading, Installing, Place' \in Installs \ {"protect"},
           Place' \in BeforeHanding => Place \in BeforeHanding,
           \/ pc' = "positions" /\ then' \in ReadPlaces
           \/ pc' \in {"stale", "match", "place"} /\ UNCHANGED snap
    PROVE  PassInv'
<1> USE DEF PassInv, Installs, BeforeHanding, Handing
<1>1. Place = pc /\ Installing' /\ pc' \in Places
  BY DEF Place, Reading, Installing, Places, ReadPlaces
<1>2. RowInv'
  BY <1>1 DEF RowInv
<1>3. PlaceInv'
  BY <1>1 DEF PlaceInv, Reading
<1>4. SnapInv'
  BY <1>1 DEF SnapInv, Reading, EntriesOnlyGo
<1>5. GoalInv'
  BY <1>1 DEF GoalInv, GoalKept, Installing
<1>6. StopInv' /\ HandoverInv'
  BY <1>1 DEF StopInv, HandoverInv, Place, Reading
<1> QED
  BY <1>2, <1>3, <1>4, <1>5, <1>6

\* Towards the next look at the position stop.
LEMMA EnsureOn ==
    ASSUME PassInv, SoundRow(row'), SoundRow(loaded'), TypedRow(st'),
           pc' = "positions", then' = "ensure",
           {"from", "stop", "ids", "first"} \subseteq DOMAIN goal', goal'.stop \in Int,
           \A l \in goal'.ids : l \in Legs /\ entry'[l] # "new",
           goal'.from = "handoff" => SoundRow(st') /\ (st'.prot # None => goal'.stop = st'.prot)
    PROVE  PassInv'
<1>1. Place' = "ensure" /\ Reading'
  BY DEF Place, Reading
<1>2. RowInv' /\ PlaceInv' /\ SnapInv'
  BY <1>1 DEF RowInv, PlaceInv, SnapInv, Installing, Installs, BeforeHanding, Handing, Places,
     ReadPlaces, Reading
<1>3. GoalInv' /\ StopInv' /\ HandoverInv'
  BY <1>1 DEF GoalInv, StopInv, HandoverInv, Installs, BeforeHanding, Handing
<1> QED
  BY <1>2, <1>3 DEF PassInv

\* A position stop is set, or the request is lost.
LEMMA SetProtectionStep ==
    ASSUME CoverInv, pos.size > 0, NEW stop \in Int, NEW dist, SetProtection(stop, dist)
    PROVE  CoverInv' /\ EntriesOnlyGo /\ UNCHANGED <<user, entry, partial>>
<1> USE DEF CoverInv, ExchangeInv
<1>1. CASE UNCHANGED <<exchange, user>>
  <2>1. Quiet
    BY <1>1, QuietExchange
  <2> QED
    BY <1>1, <2>1, CoverUnchanged DEF Quiet, exchange
<1>2. CASE /\ pos' = [pos EXCEPT !.stop = stop, !.trail = IF dist = None THEN @ ELSE dist]
           /\ UNCHANGED <<entry, partial, exit, counts>>
  <2> DEFINE trail == IF dist = None THEN pos.trail ELSE dist
  <2>1. pos' = [pos EXCEPT !.stop = stop, !.trail = trail]
    BY <1>2 DEF PositionOK
  <2> HIDE DEF trail
  <2>2. PositionOK(pos') /\ pos'.stop = stop
    BY <2>1 DEF PositionOK, Maybe
  <2>3. NeverUncovered'
    BY <2>2, ProtectionConstants DEF NeverUncovered, Covered
  <2> QED
    BY <1>2, <2>2, <2>3 DEF counts, EntriesOnlyGo
<1> QED
  BY <1>1, <1>2 DEF SetProtection

\* Of the row that a pass has read and not begun to install.
LEMMA LiveRow ==
    ASSUME PassInv, pc \in {"decide", "handed", "flat", "fixed", "freeze", "rebalance", "trail", "trailed"}
    PROVE  SoundRow(st) /\ SoundRow(loaded) /\ SoundRow(row) /\ PositionOK(snap.pos) /\ snap.mark \in Int
<1>1. Place = pc /\ ~Installing
  BY DEF Place, Reading, Installing, Installs, BeforeHanding, Handing
<1> QED
  BY <1>1 DEF PassInv, RowInv, SnapInv

(***************************************************************************)
(* Steps of a pass.                                                        *)
(***************************************************************************)
LEMMA EndPassStep == ASSUME ProtectionInv, EndPass PROVE ProtectionGoal
<1>1. Quiet /\ SoundRow(row')
  BY QuietExchange DEF EndPass, ProtectionInv, PassInv, RowInv, counts
<1> QED
  BY <1>1, ReleaseStep DEF EndPass

\* The pass ends and saves its row.
LEMMA SaveStep == ASSUME ProtectionInv, NEW r, SoundRow(r), Save(r) PROVE ProtectionGoal
<1>1. Quiet /\ row' = r
  BY QuietExchange DEF Save, ProtectionInv, counts
<1> QED
  BY <1>1, ReleaseStep DEF Save

\* The pass ends and hands the strategy to a person.
LEMMA OverrideStep == ASSUME ProtectionInv, NEW r, SoundRow(r), Override(r) PROVE ProtectionGoal
<1> DEFINE paused == [r EXCEPT !.status = "MANUAL_OVERRIDE"]
<1>1. SoundRow(paused)
  BY DEF SoundRow, TypedRow
<1> HIDE DEF paused
<1> QED
  BY <1>1, SaveStep DEF Override, paused

\* The account is read in two requests.
LEMMA ReadingStep ==
    ASSUME ProtectionInv, StartPass \/ ReadPositions \/ ReadOrders PROVE ProtectionGoal
<1> USE DEF ProtectionInv
<1>0. Quiet
  BY QuietExchange DEF StartPass, ReadPositions, ReadOrders, counts
<1>1. CASE StartPass
  BY <1>0, <1>1, ReadStep DEF StartPass, Read, PassInv, RowInv
<1>2. CASE ReadPositions
  <2>1. PICK mark \in Marks : snap' = [pos |-> pos, mark |-> mark]
    BY <1>2 DEF ReadPositions
  <2>2. /\ pc = "positions" /\ pc' = "orders" /\ then \in ReadPlaces
        /\ UNCHANGED <<row, exchange, st, loaded, then, acct, goal, k>>
    BY <1>2 DEF ReadPositions, At, PassInv, PlaceInv, Reading
  <2>3. Place = then /\ Place' = Place /\ Reading /\ Reading' /\ Installing' = Installing
    BY <2>2 DEF Place, Reading, Installing
  <2>4. snap'.pos = pos /\ snap'.mark \in Int
    BY <2>1, ProtectionConstants
  <2>5. RowInv' /\ PlaceInv' /\ SnapInv'
    BY <2>2, <2>3, <2>4 DEF PassInv, RowInv, PlaceInv, SnapInv, Places, CoverInv, ExchangeInv, exchange
  <2>6. GoalInv' /\ StopInv' /\ HandoverInv'
    BY <2>2, <2>3, <2>4 DEF PassInv, GoalInv, StopInv, HandoverInv, exchange
  <2> QED
    BY <1>0, <2>5, <2>6, CoverUnchanged DEF PassInv, ProtectionGoal, Quiet
<1>3. CASE ReadOrders
  <2>1. /\ snap'.pos = snap.pos /\ snap'.mark = snap.mark
        /\ snap'.partials = {l \in Legs : partial[l] = "live"}
    BY <1>3 DEF ReadOrders
  <2>2. /\ pc = "orders" /\ pc' = then /\ then \in ReadPlaces
        /\ UNCHANGED <<row, exchange, st, loaded, acct, goal, k, counts>>
    BY <1>3 DEF ReadOrders, At, PassInv, PlaceInv, Reading
  <2>3. Place = then /\ Place' = Place /\ Reading /\ ~Reading' /\ Installing' = Installing
    BY <2>2 DEF Place, Reading, Installing, ReadPlaces
  <2>4. \A l \in snap'.partials : l \in Legs /\ entry'[l] # "new"
    BY <2>1, <2>2 DEF CoverInv, ExchangeInv, exchange
  <2>5. RowInv' /\ PlaceInv' /\ SnapInv'
    BY <2>1, <2>2, <2>3, <2>4 DEF PassInv, RowInv, PlaceInv, SnapInv, Places, ReadPlaces
  <2>6. GoalInv' /\ StopInv' /\ HandoverInv'
    BY <2>1, <2>2, <2>3 DEF PassInv, GoalInv, StopInv, HandoverInv, exchange, counts, ReadPlaces
  <2> QED
    BY <1>0, <2>5, <2>6, CoverUnchanged DEF PassInv, ProtectionGoal, Quiet
<1> QED
  BY <1>1, <1>2, <1>3

\* An installation is saved with the stop it works towards, which is not behind
\* the one that was read.
LEMMA BeginInstallStep ==
    ASSUME ProtectionInv, pc \in {"decide", "handed", "freeze", "rebalance"},
           NEW s, TypedRow(s), NEW from, from # "handoff", NEW trail, NEW qty,
           NEW avg \in AvgPrice, BeginInstall(s, from, trail, qty, avg)
    PROVE  ProtectionGoal
<1> USE DEF ProtectionInv
<1>1. /\ SoundRow(row) /\ SoundRow(loaded) /\ PositionOK(snap.pos) /\ snap.mark \in Int
      /\ ~Reading /\ \A l \in snap.partials : l \in Legs /\ entry[l] # "new"
  BY LiveRow DEF PassInv, SnapInv, Reading
<1>2. CASE EndPass
  BY <1>2, EndPassStep
<1>3. CASE ~EndPass
  <2> DEFINE planned == IF trail THEN ProtectedStop(Plan, avg, s.prot, snap.mark)
                        ELSE [stop |-> IF s.prot # None THEN s.prot ELSE Plan.stop]
             stop == Further(planned.stop, snap.pos.stop)
  <2>1. PICK exits, dist :
          /\ ~Refused(planned)
          /\ st' = [s EXCEPT !.exits = exits]
          /\ row' = [s EXCEPT !.exits = exits, !.installing = TRUE, !.prot = stop,
                              !.trail = trail \/ s.trail, !.dist = dist,
                              !.qty = qty, !.avg = avg]
          /\ goal' = [from |-> from, stop |-> stop, dist |-> dist, trail |-> trail,
                      qty |-> qty, avg |-> avg, cancelled |-> {}, placed |-> {}, ids |-> {},
                      first |-> TRUE]
          /\ acct' = snap /\ pc' = "protect" /\ UNCHANGED <<snap, loaded, exchange, counts>>
    BY <1>3 DEF BeginInstall, Goto
  <2>2. planned.stop \in Int
    <3>1. CASE trail
      BY <1>1, <2>1, <3>1, ProtectedStopOK DEF TypedRow
    <3>2. CASE ~trail
      BY <3>2, ProtectionConstants DEF TypedRow, Maybe
    <3> QED
      BY <3>1, <3>2
  <2> HIDE DEF planned
  <2>3. stop \in Int /\ (snap.pos.stop # None => ~Below(Plan.side, stop, snap.pos.stop))
    BY <1>1, <2>2, FurtherOK DEF PositionOK
  <2> HIDE DEF stop
  <2>4. SoundRow(row')
    <3> DEFINE carried == trail \/ s.trail
    <3>1. row' = [s EXCEPT !.exits = exits, !.installing = TRUE, !.prot = stop,
                           !.trail = carried, !.dist = dist, !.qty = qty, !.avg = avg]
      BY <2>1
    <3> HIDE DEF carried
    <3>2. /\ DOMAIN row' = DOMAIN s /\ row'.rev = s.rev /\ row'.prot = stop /\ row'.avg = avg
      BY <3>1 DEF TypedRow
    <3>3. stop # None /\ avg # None
      BY <2>3, ProtectionConstants DEF AvgPrice
    <3> QED
      BY <2>3, <3>2, <3>3 DEF SoundRow, TypedRow, Maybe
  <2>5. TypedRow(st')
    BY <2>1 DEF TypedRow
  <2>6. Place' = "protect" /\ ~Reading' /\ Installing'
    BY <2>1 DEF Place, Reading, Installing, Installs, BeforeHanding
  <2>7. /\ goal'.stop = stop /\ goal'.from = from
        /\ {"from", "stop", "ids", "first"} \subseteq DOMAIN goal'
    BY <2>1
  <2>8. RowInv' /\ PlaceInv' /\ SnapInv'
    BY <1>1, <2>1, <2>4, <2>5, <2>6 DEF RowInv, PlaceInv, SnapInv, Places, exchange
  <2>9. GoalInv' /\ StopInv' /\ HandoverInv'
    BY <1>1, <2>1, <2>3, <2>6, <2>7
       DEF GoalInv, StopInv, HandoverInv, Handing, PositionOK, Maybe
  <2>10. Quiet
    BY <2>1, QuietExchange DEF counts
  <2> QED
    BY <2>8, <2>9, <2>10, CoverUnchanged DEF PassInv, ProtectionGoal, Quiet
<1> QED
  BY <1>2, <1>3

\* What a pass sees of a live position is a quantity with an average price.
LEMMA SeenOK ==
    ASSUME NEW s, TypedRow(s), PositionOK(snap.pos), ~Gone
    PROVE  /\ snap.pos.avg \in AvgPrice /\ snap.pos.avg # None
           /\ TypedRow(Seen(s)) /\ Seen(s).avg = snap.pos.avg /\ Seen(s).prot = s.prot
           /\ Seen(s).frozen = s.frozen /\ Seen(s).rebalance = s.rebalance /\ Seen(s).rev = s.rev
  BY DEF TypedRow, PositionOK, Gone, Seen, Maybe

\* No position, and the pauses: the pass ends, or looks whether all is closed.
LEMMA MissingStep ==
    ASSUME ProtectionInv, PositionMissing \/ CloseIfFlat \/ Pause \/ DriftPauses \/ HandedOverFlat
    PROVE  ProtectionGoal
<1> USE DEF ProtectionInv
<1>1. pc \in {"decide", "flat", "handed"}
  BY DEF PositionMissing, CloseIfFlat, Pause, DriftPauses, HandedOverFlat, Sound, Live, At
<1>2. SoundRow(st) /\ SoundRow(loaded) /\ SoundRow(row)
  BY <1>1, LiveRow
<1>3. CASE EndPass
  BY <1>3, EndPassStep
<1>4. CASE PositionMissing /\ ~EndPass
  <2>1. Quiet
    BY <1>4, QuietCancel DEF PositionMissing, counts
  <2> QED
    BY <1>2, <1>4, <2>1, ReadStep DEF PositionMissing, Read
<1>5. CASE CloseIfFlat /\ ~EndPass
  <2> DEFINE closed == [st EXCEPT !.status = "CLOSED"]
  <2>1. SoundRow(closed)
    BY <1>2 DEF SoundRow, TypedRow
  <2>2. Save(closed)
    BY <1>5 DEF CloseIfFlat
  <2> HIDE DEF closed
  <2> QED
    BY <2>1, <2>2, SaveStep
<1>6. CASE Pause \/ DriftPauses
  BY <1>2, <1>6, OverrideStep DEF Pause, DriftPauses
<1> QED
  BY <1>3, <1>4, <1>5, <1>6 DEF HandedOverFlat

\* The installation up to the hand-over, and after it.
LEMMA InstallStep ==
    ASSUME ProtectionInv,
           \/ ApplyProtection \/ ProtectionRefused \/ CancelStaleExit \/ StaleExitsCancelled
           \/ Replaced \/ FillsMatch \/ PlaceExit \/ ExitsPlaced
    PROVE  ProtectionGoal
<1> USE DEF ProtectionInv
<1>1. pc \in {"protect", "stale", "replaced", "match", "place"}
  BY DEF ApplyProtection, ProtectionRefused, CancelStaleExit, StaleExitsCancelled, Replaced,
     FillsMatch, PlaceExit, ExitsPlaced, At
<1>2. /\ ~Reading /\ pc # "idle" /\ Place = pc /\ Installing /\ SoundRow(loaded)
      /\ goal.stop \in Int /\ {"from", "stop", "ids", "first"} \subseteq DOMAIN goal
  BY <1>1 DEF PassInv, RowInv, GoalInv, Place, Reading, Installing, Installs, BeforeHanding
<1>3. CASE EndPass
  BY <1>3, EndPassStep
<1>4. CASE PositionChanged
  BY <1>2, <1>4, OverrideStep DEF PositionChanged
<1>5. CASE ApplyProtection
  <2>1. CoverInv' /\ EntriesOnlyGo
    <3>1. CASE UNCHANGED <<exchange, counts>>
      BY <3>1, QuietExchange, CoverUnchanged DEF Quiet, counts
    <3>2. CASE pos.size > 0 /\ SetProtection(goal.stop, goal.dist)
      BY <1>2, <3>2, SetProtectionStep
    <3> QED
      BY <1>5, <3>1, <3>2 DEF ApplyProtection
  <2>2. pc' = "stale" /\ UNCHANGED <<row, st, loaded, goal, snap>> /\ pc = "protect"
    BY <1>5 DEF ApplyProtection, Goto, At
  <2>3. Place' = "stale"
    BY <2>2 DEF Place, Reading
  <2>4. PassInv'
    BY <1>2, <2>1, <2>2, <2>3, InstallOn DEF GoalKept, Installs, BeforeHanding
  <2> QED
    BY <2>1, <2>4 DEF ProtectionGoal
<1>6. CASE /\ ~EndPass /\ ~PositionChanged
           /\ CancelStaleExit \/ StaleExitsCancelled \/ Replaced \/ FillsMatch \/ PlaceExit \/ ExitsPlaced
  <2>1. Quiet /\ UNCHANGED <<row, st, loaded>>
    <3>1. CASE CancelStaleExit \/ PlaceExit
      <4>1. UNCHANGED <<row, st, loaded, pos, partial, entry, user>>
        BY <1>6, <3>1 DEF CancelStaleExit, PlaceExit, counts
      <4> QED
        BY <4>1 DEF Quiet, EntriesOnlyGo, CoverInv, ExchangeInv
    <3>2. CASE StaleExitsCancelled \/ Replaced \/ FillsMatch \/ ExitsPlaced
      <4>1. UNCHANGED <<row, st, loaded, exchange, counts>>
        BY <1>6, <3>2 DEF StaleExitsCancelled, Replaced, FillsMatch, ExitsPlaced
      <4> QED
        BY <4>1, QuietExchange DEF counts
    <3> QED
      BY <1>6, <3>1, <3>2
  <2>2. GoalKept
    BY <1>2, <1>6 DEF CancelStaleExit, StaleExitsCancelled, Replaced, FillsMatch, PlaceExit,
       ExitsPlaced, GoalKept
  <2>3. \/ pc' = "positions" /\ then' \in {"replaced", "confirm", "match", "verify"}
        \/ pc' \in {"stale", "match", "place"} /\ UNCHANGED snap
    BY <1>6 DEF CancelStaleExit, StaleExitsCancelled, Replaced, FillsMatch, PlaceExit, ExitsPlaced,
       Read, Goto, At
  <2>4. /\ Place' \in {"replaced", "confirm", "match", "verify", "stale", "place"}
        /\ pc = "place" => Place' \in {"place", "verify"}
    BY <1>6, <2>3 DEF CancelStaleExit, StaleExitsCancelled, Replaced, FillsMatch, PlaceExit,
       ExitsPlaced, Read, Goto, At, Place, Reading
  <2>5. PassInv'
    BY <1>1, <1>2, <2>1, <2>2, <2>3, <2>4, InstallOn DEF Quiet, Installs, BeforeHanding, ReadPlaces
  <2> QED
    BY <2>1, <2>5, CoverUnchanged DEF ProtectionGoal, Quiet
<1> QED
  BY <1>3, <1>4, <1>5, <1>6 DEF ProtectionRefused

\* The stop is verified, then the attached stops are dropped one by one.
LEMMA ConfirmStep == ASSUME ProtectionInv, Confirm \/ Handover PROVE ProtectionGoal
<1> USE DEF ProtectionInv
<1>1. CASE EndPass
  BY <1>1, EndPassStep
<1>2. CASE ~EndPass
  <2>1. /\ Quiet /\ UNCHANGED <<row, st, loaded>> /\ pc \in {"confirm", "decide"}
    <3>1. UNCHANGED <<row, exchange, st, loaded, counts>> /\ pc \in {"confirm", "decide"}
      BY <1>2 DEF Confirm, Handover, Sound, Live, At
    <3> QED
      BY <3>1, QuietExchange DEF counts
  <2>2. \A l \in snap.partials : l \in Legs /\ entry'[l] # "new"
    BY <2>1 DEF PassInv, SnapInv, Reading, Quiet, EntriesOnlyGo
  <2>3. TypedRow(st') /\ SoundRow(loaded') /\ SoundRow(row')
    BY <2>1 DEF PassInv, RowInv
  <2>4. CASE Confirm
    <3>1. /\ pc = "confirm" /\ ~Reading /\ Place = pc /\ Installing /\ goal.from # "handoff"
          /\ goal.stop \in Int /\ {"from", "stop", "ids", "first"} \subseteq DOMAIN goal
      BY <2>4 DEF Confirm, At, PassInv, GoalInv, Place, Reading, Installing, Installs, BeforeHanding
    <3>2. goal' = [goal EXCEPT !.ids = snap.partials]
      BY <1>2, <2>4 DEF Confirm
    <3>3. GoalKept /\ goal'.ids = snap.partials
      BY <3>1, <3>2 DEF GoalKept
    <3>4. \/ pc' = "place" /\ UNCHANGED snap
          \/ pc' = "positions" /\ then' = "ensure"
      BY <1>2, <2>4 DEF Confirm, Goto, Read
    <3>5. PassInv'
      <4>1. CASE pc' = "place" /\ UNCHANGED snap
        <5>1. Place' = "place"
          BY <4>1 DEF Place, Reading
        <5> QED
          BY <2>1, <3>1, <3>3, <4>1, <5>1, InstallOn DEF Quiet, Installs, BeforeHanding
      <4>2. CASE pc' = "positions" /\ then' = "ensure"
        BY <2>2, <2>3, <3>1, <3>3, <4>2, EnsureOn DEF GoalKept
      <4> QED
        BY <3>4, <4>1, <4>2
    <3> QED
      BY <2>1, <3>5, CoverUnchanged DEF ProtectionGoal, Quiet
  <2>5. CASE Handover
    <3>1. pc = "decide"
      BY <2>5 DEF Handover, Sound, Live, At
    <3>2. SoundRow(st')
      BY <2>1, <3>1, LiveRow
    <3> DEFINE stop == IF st.prot # None THEN st.prot ELSE Plan.stop
    <3>3. stop \in Int /\ (st.prot # None => stop = st.prot)
      BY <2>1, <2>3, ProtectionConstants DEF TypedRow, Maybe
    <3>4. /\ goal' = [from |-> "handoff", stop |-> stop, first |-> TRUE,
                      dist |-> IF st.trail THEN st.dist ELSE None, ids |-> snap.partials]
          /\ pc' = "positions" /\ then' = "ensure"
      BY <1>2, <2>5 DEF Handover, Read
    <3> HIDE DEF stop
    <3>5. /\ {"from", "stop", "ids", "first"} \subseteq DOMAIN goal'
          /\ goal'.stop = stop /\ goal'.ids = snap.partials
      BY <3>4
    <3>6. PassInv'
      BY <2>1, <2>2, <2>3, <3>2, <3>3, <3>4, <3>5, EnsureOn
    <3> QED
      BY <2>1, <3>6, CoverUnchanged DEF ProtectionGoal, Quiet
  <2> QED
    BY <2>4, <2>5
<1> QED
  BY <1>1, <1>2

\* The hand-over is done: back to the pass, or on with the installation.
LEMMA HandedOverOn ==
    ASSUME ProtectionInv, pc \in Handing, Goto(HandedOver), Quiet, UNCHANGED <<row, st, loaded, goal>>,
           Gone \/ snap.pos.stop = goal.stop
    PROVE  ProtectionGoal
<1> USE DEF ProtectionInv
<1>1. /\ ~Reading /\ Place = pc /\ pc # "idle" /\ PositionOK(snap.pos)
      /\ {"from", "stop", "ids", "first"} \subseteq DOMAIN goal
  BY DEF PassInv, SnapInv, GoalInv, Place, Reading, Handing
<1>2. CASE goal.from = "handoff"
  <2>1. pc' = "handed" /\ UNCHANGED snap /\ Place' = "handed" /\ ~Reading'
    BY <1>2 DEF Goto, HandedOver, Place, Reading
  <2>2. ~Installing /\ SoundRow(st)
    BY <1>1, <1>2 DEF Installing, Installs, BeforeHanding, Handing, PassInv, RowInv
  <2>3. RowInv' /\ PlaceInv' /\ SnapInv'
    <3>1. RowInv'
      BY <1>1, <2>1, <2>2 DEF PassInv, RowInv
    <3>2. PlaceInv'
      BY <2>1 DEF PlaceInv, Places
    <3>3. SnapInv'
      BY <1>1, <2>1 DEF PassInv, SnapInv, Quiet, EntriesOnlyGo, Reading
    <3> QED
      BY <3>1, <3>2, <3>3
  <2>4. ~Gone /\ st.prot # None => snap.pos.stop = st.prot
    BY <1>1, <1>2 DEF PassInv, StopInv
  <2>5. GoalInv' /\ StopInv' /\ HandoverInv'
    BY <2>1, <2>4 DEF GoalInv, StopInv, HandoverInv, Installs, BeforeHanding, Handing, Gone
  <2> QED
    BY <2>3, <2>5, CoverUnchanged DEF PassInv, ProtectionGoal, Quiet
<1>3. CASE goal.from # "handoff"
  <2>1. pc' = "place" /\ UNCHANGED snap /\ Place' = "place" /\ Installing
    BY <1>1, <1>3 DEF Goto, HandedOver, Place, Reading, Installing
  <2>2. PassInv'
    BY <1>1, <2>1, InstallOn DEF Quiet, GoalKept, Installs, BeforeHanding
  <2> QED
    BY <2>2, CoverUnchanged DEF ProtectionGoal, Quiet
<1> QED
  BY <1>2, <1>3

\* The position stop is looked at before every drop, and set again if it is gone.
LEMMA EnsureStep == ASSUME ProtectionInv, EnsureFullStop PROVE ProtectionGoal
<1> USE DEF ProtectionInv
<1>1. /\ pc = "ensure" /\ ~Reading /\ Place = pc /\ pc \in Handing /\ goal.stop \in Int
      /\ {"from", "stop", "ids", "first"} \subseteq DOMAIN goal
      /\ TypedRow(st) /\ SoundRow(loaded) /\ SoundRow(row)
      /\ goal.from = "handoff" => SoundRow(st) /\ (st.prot # None => goal.stop = st.prot)
      /\ \A l \in goal.ids : l \in Legs /\ entry[l] # "new"
  BY DEF EnsureFullStop, At, PassInv, RowInv, GoalInv, StopInv, Place, Reading, Handing, Installing,
     Installs, BeforeHanding
<1>2. CASE EndPass
  BY <1>2, EndPassStep
<1>3. CASE Gone /\ ~EndPass
  <2>1. Goto(HandedOver) /\ UNCHANGED <<row, exchange, st, loaded, goal, counts>>
    BY <1>3 DEF EnsureFullStop
  <2> QED
    BY <1>1, <1>3, <2>1, QuietExchange, HandedOverOn DEF counts
<1>4. CASE ~Gone /\ ~EndPass /\ snap.pos.stop = goal.stop
  <2>1. /\ goal' = [goal EXCEPT !.first = FALSE] /\ pc' = "drop"
        /\ UNCHANGED <<row, exchange, st, loaded, counts, snap>>
    BY <1>4 DEF EnsureFullStop, Goto
  <2>2. /\ GoalKept /\ goal'.ids = goal.ids
    BY <1>1, <2>1 DEF GoalKept
  <2>3. Place' = "drop" /\ ~Reading' /\ Installing' = Installing
    BY <1>1, <2>1, <2>2 DEF Place, Reading, Installing, Handing, GoalKept, Installs, BeforeHanding
  <2>4. RowInv' /\ PlaceInv' /\ SnapInv'
    <3>1. RowInv'
      BY <1>1, <2>1, <2>3 DEF PassInv, RowInv
    <3>2. PlaceInv'
      BY <2>1, <2>3 DEF PlaceInv, Places
    <3>3. SnapInv'
      BY <1>1, <2>1, <2>3 DEF PassInv, SnapInv, exchange
    <3> QED
      BY <3>1, <3>2, <3>3
  <2>5. GoalInv' /\ StopInv'
    BY <1>1, <1>4, <2>1, <2>2, <2>3 DEF PassInv, GoalInv, StopInv, GoalKept, BeforeHanding, exchange
  <2>6. HandoverInv'
    BY <1>1, <2>1, <2>2 DEF PassInv, HandoverInv, exchange, counts
  <2>7. Quiet
    BY <2>1, QuietExchange DEF counts
  <2> QED
    BY <2>4, <2>5, <2>6, <2>7, CoverUnchanged DEF PassInv, ProtectionGoal, Quiet
<1>5. CASE ~Gone /\ ~EndPass /\ snap.pos.stop # goal.stop
  <2>1. /\ pos.size # 0 /\ SetProtection(goal.stop, goal.dist) /\ pc' = "positions" /\ then' = "ensure"
        /\ UNCHANGED <<row, st, loaded, goal>>
    BY <1>5 DEF EnsureFullStop, Read
  <2>2. pos.size > 0
    BY <2>1 DEF CoverInv, ExchangeInv, PositionOK
  <2>3. CoverInv' /\ UNCHANGED entry
    BY <1>1, <2>1, <2>2, SetProtectionStep
  <2>4. PassInv'
    BY <1>1, <2>1, <2>3, EnsureOn
  <2> QED
    BY <2>3, <2>4 DEF ProtectionGoal
<1> QED
  BY <1>2, <1>3, <1>4, <1>5

\* An attached stop is dropped only from a position with a stop of its own: if
\* that one is gone, so is the position, with its attached stops.
LEMMA DropStep == ASSUME ProtectionInv, DropPartialStop \/ PartialStopsDropped PROVE ProtectionGoal
<1> USE DEF ProtectionInv
<1>1. /\ pc = "drop" /\ ~Reading /\ Place = pc /\ pc \in Handing /\ goal.stop \in Int
      /\ {"from", "stop", "ids", "first"} \subseteq DOMAIN goal
      /\ TypedRow(st) /\ SoundRow(loaded) /\ SoundRow(row)
      /\ goal.from = "handoff" => SoundRow(st) /\ (st.prot # None => goal.stop = st.prot)
      /\ \A l \in goal.ids : l \in Legs /\ entry[l] # "new"
      /\ snap.pos.stop = goal.stop
  BY DEF DropPartialStop, PartialStopsDropped, At, PassInv, RowInv, GoalInv, StopInv, Place, Reading,
     Handing, Installing, Installs, BeforeHanding
<1>2. CASE EndPass
  BY <1>2, EndPassStep
<1>3. CASE DropPartialStop /\ ~EndPass
  <2>1. PICK l \in goal.ids :
          /\ partial[l] = "live" /\ partial' = [partial EXCEPT ![l] = "gone"]
          /\ goal' = [goal EXCEPT !.ids = @ \ {l}] /\ pc' = "positions" /\ then' = "ensure"
          /\ UNCHANGED <<row, pos, entry, st, loaded, counts>>
    BY <1>3 DEF DropPartialStop, Read
  <2>2. GoalKept /\ goal'.ids = goal.ids \ {l}
    BY <1>1, <2>1 DEF GoalKept
  <2>3. PassInv'
    BY <1>1, <2>1, <2>2, EnsureOn DEF GoalKept
  <2>4. user = 0 => pos.stop # None
    BY <1>1, <2>1, ProtectionConstants DEF PassInv, HandoverInv
  <2>5. NeverUncovered'
    BY <2>1, <2>4 DEF NeverUncovered, Covered, counts
  <2>6. ExchangeInv'
    BY <1>1, <2>1 DEF CoverInv, ExchangeInv, counts
  <2> QED
    BY <2>3, <2>5, <2>6 DEF ProtectionGoal, CoverInv
<1>4. CASE PartialStopsDropped
  <2>1. Goto(HandedOver) /\ UNCHANGED <<row, exchange, st, loaded, goal, counts>>
    BY <1>4 DEF PartialStopsDropped
  <2> QED
    BY <1>1, <2>1, QuietExchange, HandedOverOn DEF counts
<1> QED
  BY <1>2, <1>3, <1>4

\* An interrupted installation goes on with what was saved.
LEMMA ResumeStep == ASSUME ProtectionInv, ResumeInstall PROVE ProtectionGoal
<1>1. /\ pc = "decide" /\ st.installing
      /\ BeginInstall(st, "resume", st.trail, st.qty, st.avg)
  BY DEF ResumeInstall, Live, At
<1>2. TypedRow(st) /\ st.avg \in AvgPrice
  BY <1>1, LiveRow DEF ProtectionInv, SoundRow, TypedRow, Maybe
<1> QED
  BY <1>1, <1>2, BeginInstallStep

\* The last save of an installation has the stop it verified.
LEMMA VerifyStep == ASSUME ProtectionInv, VerifyInstallation PROVE ProtectionGoal
<1>1. CASE EndPass
  BY <1>1, EndPassStep
<1>2. CASE ~EndPass
  <2>1. pc = "verify" /\ Save(InstalledRow)
    BY <1>2 DEF VerifyInstallation, At
  <2>2. TypedRow(st) /\ goal.stop \in Int
    BY <2>1 DEF ProtectionInv, PassInv, RowInv, GoalInv, Place, Reading, Installs
  <2>3. SoundRow(InstalledRow)
    <3> DEFINE trail == IF goal.from = "resume" THEN st.trail ELSE goal.trail
               kept == IF goal.from = "build" THEN st.trail ELSE trail
               status == IF goal.from # "build" /\ trail THEN "PROFIT_PROTECTED" ELSE "OPEN_RISK"
    <3>1. InstalledRow = [st EXCEPT !.prot = goal.stop, !.dist = goal.dist, !.installing = FALSE,
                                    !.trail = kept, !.status = status]
      BY <2>2 DEF InstalledRow, TypedRow
    <3> HIDE DEF kept, status
    <3>2. /\ DOMAIN InstalledRow = DOMAIN st /\ InstalledRow.rev = st.rev /\ InstalledRow.avg = st.avg
          /\ InstalledRow.prot = goal.stop /\ InstalledRow.installing = FALSE
      BY <2>2, <3>1 DEF TypedRow
    <3> QED
      BY <2>2, <3>2, ProtectionConstants DEF SoundRow, TypedRow, Maybe
  <2> QED
    BY <2>1, <2>3, SaveStep
<1> QED
  BY <1>1, <1>2

\* The work of a pass while the entries build.
LEMMA BuildStep ==
    ASSUME ProtectionInv, FixedExitFilled \/ AfterFixedExit \/ Accumulate \/ Freeze \/ FreezeEntries
    PROVE  ProtectionGoal
<1> USE DEF ProtectionInv
<1>1. pc \in {"decide", "handed", "fixed", "freeze"}
  BY DEF FixedExitFilled, AfterFixedExit, Accumulate, Freeze, FreezeEntries, Undisturbed, Sound, Live, At
<1>2. /\ SoundRow(st) /\ TypedRow(st) /\ SoundRow(loaded) /\ SoundRow(row)
      /\ PositionOK(snap.pos) /\ snap.mark \in Int
  BY <1>1, LiveRow DEF SoundRow
<1>3. CASE FixedExitFilled
  <2>1. /\ pc' = "positions" /\ then' = "fixed" /\ st.rev > 0 /\ st' = [st EXCEPT !.done = Done]
        /\ CancelEntries /\ UNCHANGED <<row, loaded, counts>>
    BY <1>3 DEF FixedExitFilled, Read, AnyFill
  <2>2. SoundRow(st') /\ st'.rev > 0
    BY <1>2, <2>1 DEF SoundRow, TypedRow
  <2>3. Quiet
    BY <2>1, QuietCancel DEF counts
  <2> QED
    BY <1>2, <2>1, <2>2, <2>3, ReadStep
<1>4. CASE AfterFixedExit
  <2>1. Quiet /\ UNCHANGED loaded /\ pc = "fixed" /\ st.rev > 0
    BY <1>4, QuietExchange DEF AfterFixedExit, counts, At, PassInv, RowInv, Place, Reading
  <2>2. CASE Gone
    BY <1>2, <1>4, <2>1, <2>2, ReadStep DEF AfterFixedExit, Read
  <2>3. CASE ~Gone
    <3>1. st' = [Seen(st) EXCEPT !.frozen = TRUE] /\ row' = st' /\ pc' = "decide" /\ UNCHANGED snap
      BY <1>4, <2>3 DEF AfterFixedExit, Goto
    <3>2. TypedRow(Seen(st)) /\ Seen(st).avg # None /\ Seen(st).prot # None
      BY <1>2, <2>1, <2>3, SeenOK DEF SoundRow
    <3>3. SoundRow(st')
      BY <3>1, <3>2 DEF SoundRow, TypedRow
    <3>4. Place' = "decide" /\ ~Reading'
      BY <3>1 DEF Place, Reading
    <3>5. RowInv' /\ PlaceInv'
      BY <1>2, <2>1, <3>1, <3>3, <3>4 DEF RowInv, PlaceInv, Places, ReadPlaces, SoundRow
    <3>6. SnapInv'
      BY <1>2, <2>1, <3>1, <3>4 DEF PassInv, SnapInv, Quiet, EntriesOnlyGo, Reading
    <3>7. GoalInv' /\ StopInv' /\ HandoverInv'
      BY <3>1, <3>4 DEF GoalInv, StopInv, HandoverInv, Installs, BeforeHanding, Handing
    <3> QED
      BY <2>1, <3>5, <3>6, <3>7, CoverUnchanged DEF PassInv, ProtectionGoal, Quiet
  <2> QED
    BY <2>2, <2>3
<1>5. CASE Accumulate \/ Freeze
  <2> DEFINE s == [Seen(st) EXCEPT !.status = "OPEN_RISK"]
  <2>1. ~Gone /\ pc \in {"decide", "handed"}
    BY <1>5 DEF Accumulate, Freeze, Undisturbed, Sound, Live, At
  <2>2. /\ TypedRow(Seen(st)) /\ snap.pos.avg \in AvgPrice /\ snap.pos.avg # None
        /\ Seen(st).avg = snap.pos.avg /\ Seen(st).prot = st.prot /\ Seen(st).rev = st.rev
        /\ Seen(st).frozen = st.frozen /\ Seen(st).rebalance = st.rebalance
    BY <1>2, <2>1, SeenOK
  <2>3. SoundRow(s) /\ TypedRow([s EXCEPT !.rev = @ + 1]) /\ s.avg \in AvgPrice
    BY <1>2, <2>2 DEF SoundRow, TypedRow
  <2>4. CASE Accumulate
    <3>1. \/ BeginInstall([s EXCEPT !.rev = @ + 1], "build", FALSE, s.qty, s.avg)
          \/ Save(s)
      BY <2>4 DEF Accumulate
    <3> HIDE DEF s
    <3> QED
      BY <2>1, <2>3, <3>1, BeginInstallStep, SaveStep
  <2>5. CASE Freeze
    <3>1. /\ st' = s /\ CancelEntries /\ pc' = "positions" /\ then' = "freeze"
          /\ UNCHANGED <<row, loaded, counts>>
      BY <2>5 DEF Freeze, Read
    <3> HIDE DEF s
    <3>2. Quiet
      BY <3>1, QuietCancel DEF counts
    <3> QED
      BY <1>2, <2>3, <3>1, <3>2, ReadStep
  <2> QED
    BY <1>5, <2>4, <2>5
<1>6. CASE FreezeEntries
  <2>1. pc = "freeze"
    BY <1>6 DEF FreezeEntries, At
  <2>2. CASE EndPass
    BY <2>2, EndPassStep
  <2>3. CASE /\ pc' = "positions" /\ then' \in {"freeze", "flat"}
             /\ UNCHANGED <<row, exchange, st, loaded, counts>>
    <3>1. Quiet
      BY <2>3, QuietExchange DEF counts
    <3> QED
      BY <1>2, <2>3, <3>1, ReadStep
  <2> DEFINE s == [Seen(st) EXCEPT !.frozen = TRUE, !.rebalance = FALSE, !.rev = @ + 1]
  <2>4. CASE ~Gone /\ BeginInstall(s, "freeze", Profitable, snap.pos.size, snap.pos.avg)
    <3>1. TypedRow(Seen(st)) /\ snap.pos.avg \in AvgPrice
      BY <1>2, <2>4, SeenOK
    <3>2. TypedRow(s)
      BY <3>1 DEF TypedRow
    <3> HIDE DEF s
    <3> QED
      BY <2>1, <2>4, <3>1, <3>2, BeginInstallStep
  <2> QED
    BY <1>6, <2>2, <2>3, <2>4 DEF FreezeEntries, Read
<1> QED
  BY <1>3, <1>4, <1>5, <1>6

\* The work of a pass once they are frozen.
LEMMA FrozenStep ==
    ASSUME ProtectionInv, StartRebalance \/ Rebalance \/ ManageProfit
    PROVE  ProtectionGoal
<1> USE DEF ProtectionInv
<1>1. pc \in {"decide", "handed", "rebalance"}
  BY DEF StartRebalance, Rebalance, ManageProfit, Undisturbed, Sound, Live, At
<1>2. /\ SoundRow(st) /\ TypedRow(st) /\ SoundRow(loaded) /\ SoundRow(row) /\ PositionOK(snap.pos)
  BY <1>1, LiveRow DEF SoundRow
<1>3. CASE /\ pc' = "positions" /\ then' \in {"rebalance", "flat"}
           /\ UNCHANGED <<row, exchange, st, loaded, counts>>
  <2>1. Quiet
    BY <1>3, QuietExchange DEF counts
  <2> QED
    BY <1>2, <1>3, <2>1, ReadStep
<1>4. CASE Rebalance /\ ~Gone
  <2> DEFINE s == [Seen(st) EXCEPT !.rebalance = FALSE, !.rev = @ + 1]
  <2>1. TypedRow(Seen(st)) /\ snap.pos.avg \in AvgPrice
    BY <1>2, <1>4, SeenOK
  <2>2. TypedRow(s)
    BY <2>1 DEF TypedRow
  <2>3. BeginInstall(s, "rebalance", st.trail \/ Profitable, snap.pos.size, snap.pos.avg)
    BY <1>4 DEF Rebalance
  <2> HIDE DEF s
  <2> QED
    BY <1>1, <2>1, <2>2, <2>3, BeginInstallStep
<1>5. CASE ManageProfit
  <2> DEFINE s == [Seen(st) EXCEPT !.done = Done]
  <2>1. ~Gone /\ Save(s)
    BY <1>5 DEF ManageProfit, Undisturbed, Sound, Live
  <2>2. /\ TypedRow(Seen(st)) /\ snap.pos.avg # None
        /\ Seen(st).avg = snap.pos.avg /\ Seen(st).prot = st.prot /\ Seen(st).rev = st.rev
        /\ Seen(st).frozen = st.frozen /\ Seen(st).rebalance = st.rebalance
    BY <1>2, <2>1, SeenOK
  <2>3. SoundRow(s)
    BY <1>2, <2>2 DEF SoundRow, TypedRow
  <2> HIDE DEF s
  <2> QED
    BY <2>1, <2>3, SaveStep
<1> QED
  BY <1>3, <1>4, <1>5 DEF StartRebalance, Rebalance, Read

\* The trail starts from the stop that was read, which is the recorded one, and
\* the protected stop is not behind it.
LEMMA ActivateStep == ASSUME ProtectionInv, ActivateTrailing PROVE ProtectionGoal
<1> USE DEF ProtectionInv
<1> DEFINE dist == TrailingDistance(Plan, snap.pos.avg)
           p == ProtectedStop(Plan, snap.pos.avg, st.prot, snap.mark)
<1>1. /\ pc \in {"decide", "handed"} /\ ~Gone /\ CancelEntries /\ st.frozen /\ ~st.rebalance
      /\ UNCHANGED <<row, counts>>
  BY DEF ActivateTrailing, Undisturbed, Sound, Live, At
<1>2. /\ SoundRow(st) /\ TypedRow(st) /\ SoundRow(loaded) /\ SoundRow(row)
      /\ PositionOK(snap.pos) /\ snap.mark \in Int
  BY <1>1, LiveRow DEF SoundRow
<1>3. Quiet
  BY <1>1, QuietCancel DEF counts
<1>4. CASE Release
  BY <1>1, <1>2, <1>3, <1>4, ReleaseStep
<1>5. CASE ~Release
  <2>1. /\ ~Refused(p) /\ goal' = [stop |-> p.stop, dist |-> dist] /\ st' = [st EXCEPT !.done = Done]
        /\ pc' = "trail" /\ UNCHANGED <<row, loaded, snap>>
    BY <1>5 DEF ActivateTrailing, Goto
  <2>2. st.prot # None /\ snap.pos.stop = st.prot
    <3>1. st.prot # None
      BY <1>1, <1>2 DEF SoundRow
    <3>2. CASE Live("handed")
      BY <1>1, <3>1, <3>2 DEF Live, At, PassInv, StopInv
    <3>3. CASE Sound /\ snap.partials = {}
      BY <3>1, <3>3 DEF Sound, PauseReason
    <3> QED
      BY <3>1, <3>2, <3>3 DEF ActivateTrailing, Undisturbed
  <2>3. snap.pos.avg \in AvgPrice
    BY <1>1, <1>2, SeenOK
  <2>4. p.stop \in Int /\ ~Below(Plan.side, p.stop, snap.pos.stop)
    BY <1>2, <2>1, <2>2, <2>3, ProtectedStopOK DEF TypedRow
  <2> HIDE DEF p, dist
  <2>5. SoundRow(st') /\ TypedRow(st')
    BY <1>2, <2>1 DEF SoundRow, TypedRow
  <2>6. Place' = "trail" /\ ~Reading' /\ goal'.stop = p.stop
    BY <2>1 DEF Place, Reading
  <2>7. RowInv' /\ PlaceInv'
    BY <1>2, <2>1, <2>5, <2>6 DEF RowInv, PlaceInv, Places
  <2>8. SnapInv'
    BY <1>1, <1>2, <1>3, <2>1, <2>6 DEF PassInv, SnapInv, Quiet, EntriesOnlyGo, Reading
  <2>9. GoalInv' /\ StopInv' /\ HandoverInv'
    BY <2>1, <2>4, <2>6 DEF GoalInv, StopInv, HandoverInv, Installs, BeforeHanding, Handing
  <2> QED
    BY <1>3, <2>7, <2>8, <2>9, CoverUnchanged DEF PassInv, ProtectionGoal, Quiet
<1> QED
  BY <1>4, <1>5

\* The trail is set, read back and saved.
LEMMA TrailingStep == ASSUME ProtectionInv, SetTrailing \/ TrailingSet PROVE ProtectionGoal
<1> USE DEF ProtectionInv
<1>1. pc \in {"trail", "trailed"}
  BY DEF SetTrailing, TrailingSet, At
<1>2. /\ SoundRow(st) /\ TypedRow(st) /\ SoundRow(loaded) /\ SoundRow(row)
      /\ PositionOK(snap.pos) /\ goal.stop \in Int
  BY <1>1, LiveRow DEF SoundRow, PassInv, GoalInv, Place, Reading
<1>3. CASE EndPass
  BY <1>3, EndPassStep
<1>4. CASE SetTrailing /\ ~EndPass
  <2>1. /\ pos.size # 0 /\ SetProtection(goal.stop, goal.dist) /\ pc' = "positions" /\ then' = "trailed"
        /\ UNCHANGED <<row, st, loaded, goal>>
    BY <1>4 DEF SetTrailing, Read
  <2>2. CoverInv'
    BY <1>2, <2>1, SetProtectionStep DEF CoverInv, ExchangeInv, PositionOK
  <2>3. Place' = "trailed" /\ Reading'
    BY <2>1 DEF Place, Reading
  <2>4. RowInv' /\ PlaceInv' /\ SnapInv'
    BY <1>2, <2>1, <2>3 DEF RowInv, PlaceInv, SnapInv, Places, ReadPlaces
  <2>5. GoalInv' /\ StopInv' /\ HandoverInv'
    BY <1>2, <2>1, <2>3 DEF GoalInv, StopInv, HandoverInv, Installs, BeforeHanding, Handing
  <2> QED
    BY <2>2, <2>4, <2>5 DEF PassInv, ProtectionGoal
<1>5. CASE TrailingSet /\ ~EndPass
  <2>1. CASE Gone
    <3>1. Quiet
      BY <1>5, <2>1, QuietExchange DEF TrailingSet, counts
    <3> QED
      BY <1>2, <1>5, <2>1, <3>1, ReadStep DEF TrailingSet, Read
  <2>2. CASE ~Gone
    <3> DEFINE s == [Seen(st) EXCEPT !.trail = TRUE, !.prot = goal.stop, !.dist = goal.dist,
                                     !.status = "PROFIT_PROTECTED"]
    <3>1. Save(s)
      BY <1>5, <2>2 DEF TrailingSet
    <3>2. TypedRow(Seen(st)) /\ Seen(st).avg # None
      BY <1>2, <2>2, SeenOK
    <3>3. SoundRow(s)
      BY <1>2, <3>2, ProtectionConstants DEF SoundRow, TypedRow, Maybe
    <3> HIDE DEF s
    <3> QED
      BY <3>1, <3>3, SaveStep
  <2> QED
    BY <2>1, <2>2
<1> QED
  BY <1>3, <1>4, <1>5

\* A pass that fails leaves the exchange and the row as they are.
LEMMA FailsStep == ASSUME ProtectionInv, PassFails PROVE ProtectionGoal
<1>1. Quiet /\ SoundRow(row')
  BY QuietExchange DEF PassFails, ProtectionInv, PassInv, RowInv
<1> QED
  BY <1>1, ReleaseStep DEF PassFails

\* The fill of the first entry is covered by the stop attached to it.
LEMMA InitProtection == Init => ProtectionInv
<1> SUFFICES ASSUME Init PROVE ProtectionInv
  OBVIOUS
<1>1. 1 \in Legs /\ Plan.legs[1].qty \in Nat \ {0} /\ Plan.legs[1].ref \in Int
  BY LegType, ProtectionConstants DEF Legs
<1>2. ~Reading /\ Place = "idle" /\ pc = "idle" /\ user = 0
  BY DEF Init, Reading, Place
<1>3. PositionOK(pos)
  <2>1. <<Plan.legs[1].ref, 1>> \in AvgPrice /\ <<Plan.legs[1].ref, 1>> # None
    BY <1>1, ProtectionConstants DEF AvgPrice
  <2> QED
    BY <1>1, <2>1 DEF Init, Flat, PositionOK, Maybe
<1>4. SoundRow(row)
  BY DEF Init, SoundRow, TypedRow, Maybe
<1>5. PassInv
  BY <1>2, <1>4 DEF PassInv, RowInv, PlaceInv, SnapInv, GoalInv, StopInv, HandoverInv, Places,
     Installs, BeforeHanding, Handing
<1>6. ExchangeInv
  BY <1>2, <1>3 DEF Init, ExchangeInv
<1>7. NeverUncovered
  <2>1. LiveStops = {1} /\ pos.size = Plan.legs[1].qty
    BY <1>1 DEF Init, LiveStops, Flat
  <2>2. LotsOf({1}) = {1} \X (1..Plan.legs[1].qty)
    BY DEF LotsOf
  <2>3. Cardinality(LotsOf(LiveStops)) = Plan.legs[1].qty
    BY <1>1, <2>1, <2>2, OneLegLots
  <2> QED
    BY <1>1, <2>1, <2>3 DEF NeverUncovered, Covered
<1> QED
  BY <1>5, <1>6, <1>7 DEF ProtectionInv, CoverInv

\* Every step keeps the invariant.
LEMMA ProtectionStep == ProtectionInv /\ [Next]_vars => ProtectionInv'
<1> SUFFICES ASSUME ProtectionInv, [Next]_vars PROVE ProtectionGoal
  BY DEF ProtectionInv, ProtectionGoal
<1>1. CASE Supervise
  BY <1>1, ReadingStep, MissingStep, ResumeStep, ConfirmStep, InstallStep, EnsureStep, DropStep,
     VerifyStep, BuildStep, FrozenStep, ActivateStep, TrailingStep DEF Supervise
<1>2. CASE PassFails
  BY <1>2, FailsStep
<1>3. CASE Environment
  BY <1>3, EnvironmentStep
<1>4. CASE UNCHANGED vars
  <2>1. CoverInv' /\ StopsKept
    <3>1. Quiet
      BY <1>4, QuietExchange DEF ProtectionInv, vars, counts
    <3> QED
      BY <1>4, <3>1, CoverUnchanged DEF ProtectionInv, Quiet, StopsKept, vars, exchange
  <2> QED
    BY <1>4, <2>1, PassKept DEF ProtectionInv, ProtectionGoal, vars, PassInv, RowInv
<1> QED
  BY <1>1, <1>2, <1>3, <1>4 DEF Next

\* Whatever fills, fires, fails or is lost, and as long as nobody intervenes by
\* hand, a live position has a stop (_confirm_protection_and_handoff,
\* _ensure_full_stop, handoff_partial_stops).
THEOREM AlwaysCovered == Spec => []NeverUncovered
<1>1. ProtectionInv => NeverUncovered
  BY DEF ProtectionInv, CoverInv
<1> QED
  BY <1>1, InitProtection, ProtectionStep, PTL DEF Spec

(***************************************************************************)
(* The stop is never loosened.                                             *)
(***************************************************************************)
\* Only three steps of a pass are about to set a position stop.
LEMMA SettingSteps ==
    ASSUME Supervise, pc \in {"protect", "ensure", "trail"}
    PROVE  ApplyProtection \/ ProtectionRefused \/ EnsureFullStop \/ SetTrailing
<1> USE DEF At
<1>1. ~(StartPass \/ ReadPositions \/ ReadOrders \/ PositionMissing \/ CloseIfFlat)
  BY DEF StartPass, ReadPositions, ReadOrders, PositionMissing, CloseIfFlat
<1>2. ~Sound /\ ~Live("handed") /\ ~Live("decide")
  BY DEF Sound, Live
<1>3. ~(Pause \/ ResumeInstall \/ DriftPauses \/ Handover \/ HandedOverFlat)
  BY <1>2 DEF Pause, ResumeInstall, DriftPauses, Handover, HandedOverFlat
<1>4. ~(CancelStaleExit \/ StaleExitsCancelled \/ Replaced \/ FillsMatch \/ Confirm)
  BY DEF CancelStaleExit, StaleExitsCancelled, Replaced, FillsMatch, Confirm
<1>5. ~(DropPartialStop \/ PartialStopsDropped \/ PlaceExit \/ ExitsPlaced \/ VerifyInstallation)
  BY DEF DropPartialStop, PartialStopsDropped, PlaceExit, ExitsPlaced, VerifyInstallation
<1>6. ~(FixedExitFilled \/ AfterFixedExit \/ Accumulate \/ Freeze \/ FreezeEntries)
  BY <1>2 DEF FixedExitFilled, AfterFixedExit, Accumulate, Freeze, FreezeEntries, Undisturbed
<1>7. ~(StartRebalance \/ Rebalance \/ ManageProfit \/ ActivateTrailing \/ TrailingSet)
  BY <1>2 DEF StartRebalance, Rebalance, ManageProfit, ActivateTrailing, TrailingSet, Undisturbed
<1> QED
  BY <1>1, <1>3, <1>4, <1>5, <1>6, <1>7 DEF Supervise

\* The exchange changes a position by changing its size, unless a person does.
LEMMA EnvironmentSizes ==
    ASSUME ExchangeInv, Environment, user' = user, pc # "idle", pos'.size = pos.size
    PROVE  pos' = pos
<1> USE DEF ExchangeInv
<1>0. pos.size \in Nat
  BY DEF PositionOK
<1>1. ASSUME NEW l \in Legs, EntryFills(l) PROVE FALSE
  <2>1. pos'.size = pos.size + Plan.legs[l].qty
    <3>1. pos' = Filled(l)
      BY <1>1 DEF EntryFills
    <3>2. CASE pos.size = 0
      BY <3>1, <3>2, LegType DEF Filled, Flat
    <3>3. CASE pos.size # 0
      BY <1>0, <3>1, <3>3 DEF Filled, PositionOK
    <3> QED
      BY <3>2, <3>3
  <2> QED
    BY <1>0, <2>1, LegType
<1>2. ASSUME NEW l \in Legs, PartialStopFires(l) PROVE FALSE
  <2>1. pos'.size = pos.size - Plan.legs[l].qty
    BY <1>2 DEF PartialStopFires, PositionOK
  <2> QED
    BY <1>0, <2>1, LegType
<1>3. ASSUME NEW by \in Nat \ {0}, Shrink(by), pos.size > 0 PROVE FALSE
  BY <1>0, <1>3 DEF Shrink, Flat, PositionOK
<1>4. CASE StopFires \/ \E e \in DOMAIN exit : ExitFills(e)
  <2>1. 1 \in Nat \ {0} /\ (pos.size > 0 => pos.size \in Nat \ {0})
    BY <1>0
  <2> QED
    BY <1>3, <1>4, <2>1 DEF StopFires, ExitFills
<1>5. ~(UserRemovesStop \/ UserSetsStop \/ UserCancelsExit)
  BY DEF UserRemovesStop, UserSetsStop, UserCancelsExit
<1>6. ~(Reduce \/ WithdrawUncertain)
  BY DEF Reduce, WithdrawUncertain, At
<1> QED
  BY <1>1, <1>2, <1>4, <1>5, <1>6 DEF Environment

\* A request that changes the position sets the stop it names.
LEMMA StopSet ==
    ASSUME CoverInv, NEW stop, NEW dist, SetProtection(stop, dist), pos' # pos
    PROVE  pos'.stop = stop
<1>1. pos' = [pos EXCEPT !.stop = stop, !.trail = IF dist = None THEN @ ELSE dist]
  BY DEF SetProtection, exchange
<1> DEFINE trail == IF dist = None THEN pos.trail ELSE dist
<1>2. pos' = [pos EXCEPT !.stop = stop, !.trail = trail]
  BY <1>1 DEF CoverInv, ExchangeInv, PositionOK
<1> HIDE DEF trail
<1> QED
  BY <1>2 DEF CoverInv, ExchangeInv, PositionOK

\* No request of a pass moves the position stop back from where the pass read
\* it (_resolve_protection, protected_stop, _ensure_full_stop).
THEOREM NeverLoosened == Spec => StopNeverLoosened
<1>1. ASSUME ProtectionInv, [Next]_vars, pc \in {"protect", "ensure", "trail"}, user' = user,
             pos' # pos, pos'.size = pos.size, pos.stop = ReadStop, pos.stop # None
      PROVE  ~Below(Plan.side, pos'.stop, pos.stop)
  <2> USE DEF ProtectionInv
  <2>1. CASE Supervise
    <3>1. CASE ApplyProtection
      <4>1. pc = "protect" /\ SetProtection(goal.stop, goal.dist)
        BY <1>1, <3>1 DEF ApplyProtection, At, exchange
      <4>2. pos'.stop = goal.stop
        BY <1>1, <4>1, StopSet
      <4> QED
        BY <1>1, <4>1, <4>2 DEF PassInv, StopInv, ReadStop
    <3>2. CASE SetTrailing
      <4>1. pc = "trail" /\ SetProtection(goal.stop, goal.dist)
        BY <1>1, <3>2 DEF SetTrailing, At, EndPass, exchange
      <4>2. pos'.stop = goal.stop
        BY <1>1, <4>1, StopSet
      <4> QED
        BY <1>1, <4>1, <4>2 DEF PassInv, StopInv, ReadStop
    <3>3. CASE EnsureFullStop
      <4>1. pc = "ensure" /\ snap.pos.stop = None
        BY <1>1, <3>3 DEF EnsureFullStop, At, EndPass, exchange
      <4> QED
        BY <1>1, <4>1 DEF ReadStop
    <3>4. CASE ProtectionRefused
      BY <1>1, <3>4 DEF ProtectionRefused, EndPass, exchange
    <3> QED
      BY <1>1, <2>1, <3>1, <3>2, <3>3, <3>4, SettingSteps
  <2>2. CASE PassFails
    BY <1>1, <2>2 DEF PassFails, exchange
  <2>3. CASE Environment
    BY <1>1, <2>3, EnvironmentSizes DEF CoverInv
  <2>4. CASE UNCHANGED vars
    BY <1>1, <2>4 DEF vars, exchange
  <2> QED
    BY <1>1, <2>1, <2>2, <2>3, <2>4 DEF Next
<1> DEFINE Step == (/\ pc \in {"protect", "ensure", "trail"} /\ user' = user
                    /\ pos' # pos /\ pos'.size = pos.size
                    /\ pos.stop = ReadStop /\ pos.stop # None)
                   => ~Below(Plan.side, pos'.stop, pos.stop)
<1>2. ProtectionInv /\ [Next]_vars => [Step]_vars
  BY <1>1
<1> QED
  BY <1>2, InitProtection, ProtectionStep, PTL DEF Spec, StopNeverLoosened

(***************************************************************************)
(* Exit orders only make progress.                                         *)
(***************************************************************************)
\* What a step may do to the orders.
Progress ==
    \A e \in DOMAIN exit :
        /\ e \in DOMAIN exit' /\ exit'[e].exec >= exit[e].exec
        /\ exit[e].status # "New" => exit'[e] = exit[e]

\* Of a pass, only the cancellation and the placing of an exit touch one.
LEMMA ExitUntouched ==
    ASSUME Supervise, ~CancelStaleExit, ~PlaceExit
    PROVE  UNCHANGED exit
<1> USE DEF exchange, EndPass
<1>1. CASE StartPass \/ ReadPositions \/ ReadOrders \/ PositionMissing \/ CloseIfFlat
  BY <1>1 DEF StartPass, ReadPositions, ReadOrders, PositionMissing, CloseIfFlat, Save, CancelEntries
<1>2. CASE Pause \/ DriftPauses \/ Handover \/ HandedOverFlat
  BY <1>2 DEF Pause, DriftPauses, Handover, HandedOverFlat, Override, Save
<1>3. ASSUME NEW s, NEW from, NEW trail, NEW qty, NEW avg, BeginInstall(s, from, trail, qty, avg)
      PROVE  UNCHANGED exit
  BY <1>3 DEF BeginInstall
<1>4. CASE ResumeInstall \/ Accumulate \/ FreezeEntries \/ Rebalance
  BY <1>3, <1>4 DEF ResumeInstall, Accumulate, FreezeEntries, Rebalance, Save
<1>5. CASE ApplyProtection \/ ProtectionRefused \/ StaleExitsCancelled \/ EnsureFullStop \/ SetTrailing
  BY <1>5 DEF ApplyProtection, ProtectionRefused, StaleExitsCancelled, EnsureFullStop, SetTrailing,
     SetProtection
<1>6. CASE Replaced \/ FillsMatch \/ Confirm
  BY <1>6 DEF Replaced, FillsMatch, Confirm, PositionChanged, Override, Save
<1>7. CASE DropPartialStop \/ PartialStopsDropped \/ ExitsPlaced \/ VerifyInstallation
  BY <1>7 DEF DropPartialStop, PartialStopsDropped, ExitsPlaced, VerifyInstallation, Save
<1>8. CASE FixedExitFilled \/ AfterFixedExit \/ Freeze \/ StartRebalance
  BY <1>8 DEF FixedExitFilled, AfterFixedExit, Freeze, StartRebalance, CancelEntries
<1>9. CASE ManageProfit \/ ActivateTrailing \/ TrailingSet
  BY <1>9 DEF ManageProfit, ActivateTrailing, TrailingSet, CancelEntries, Save
<1> QED
  BY <1>1, <1>2, <1>4, <1>5, <1>6, <1>7, <1>8, <1>9 DEF Supervise

\* Every open order is cancelled.
LEMMA AllClosed ==
    ASSUME NEW x, \A e \in DOMAIN x : OrderOK(x[e]), DOMAIN x = DOMAIN exit, ExitInv,
           \A e \in DOMAIN exit :
              x[e].exec >= exit[e].exec /\ (exit[e].status # "New" => x[e] = exit[e]),
           \/ exit' = x
           \/ exit' = [e \in DOMAIN x |-> IF x[e].status = "New" THEN [x[e] EXCEPT !.status = "Cancelled"]
                                          ELSE x[e]]
    PROVE  ExitInv' /\ Progress
<1>1. CASE exit' = x
  BY <1>1 DEF ExitInv, Progress
<1>2. CASE exit' = [e \in DOMAIN x |-> IF x[e].status = "New" THEN [x[e] EXCEPT !.status = "Cancelled"]
                                        ELSE x[e]]
  <2>1. ASSUME NEW e \in DOMAIN exit
        PROVE  /\ e \in DOMAIN exit' /\ OrderOK(exit'[e]) /\ exit'[e].exec = x[e].exec
               /\ x[e].status # "New" => exit'[e] = x[e]
    BY <1>2, <2>1 DEF OrderOK
  <2>2. DOMAIN exit' = DOMAIN exit
    BY <1>2
  <2> QED
    BY <2>1, <2>2 DEF ExitInv, Progress
<1> QED
  BY <1>1, <1>2

\* Every step makes progress, and leaves orders.
LEMMA ExitStep == ExitInv /\ [Next]_vars => ExitInv' /\ Progress
<1> SUFFICES ASSUME ExitInv, [Next]_vars PROVE ExitInv' /\ Progress
  OBVIOUS
<1>1. CASE UNCHANGED exit
  BY <1>1 DEF ExitInv, Progress, OrderOK
<1>2. CASE CancelStaleExit
  <2>1. CASE EndPass
    BY <1>1, <2>1 DEF EndPass, exchange
  <2>2. PICK e \in Stale : EndPass \/ (exit[e].status = "New" /\
            (UNCHANGED exit \/ exit' = [exit EXCEPT ![e].status = "Cancelled"]))
    BY <1>2 DEF CancelStaleExit
  <2>3. CASE exit[e].status = "New" /\ exit' = [exit EXCEPT ![e].status = "Cancelled"]
    BY <2>3 DEF ExitInv, OrderOK, Progress
  <2> QED
    BY <1>1, <2>1, <2>2, <2>3
<1>3. CASE PlaceExit
  <2>1. CASE EndPass
    BY <1>1, <2>1 DEF EndPass, exchange
  <2>2. PICK e, o : \/ EndPass \/ UNCHANGED exit
                    \/ /\ e \notin DOMAIN exit /\ OrderOK(o)
                       /\ exit' = [x \in DOMAIN exit \cup {e} |-> IF x = e THEN o ELSE exit[x]]
    <3> DEFINE i == Min(Unplaced)
               e == <<i, st.rev>>
               o == [qty |-> st.exits[i][1], price |-> st.exits[i][2], exec |-> 0, status |-> "New"]
    <3>1. OrderOK(o)
      BY DEF OrderOK
    <3>2. \/ EndPass \/ UNCHANGED exit
          \/ /\ e \notin DOMAIN exit
             /\ exit' = [x \in DOMAIN exit \cup {e} |-> IF x = e THEN o ELSE exit[x]]
      BY <1>3 DEF PlaceExit, Known
    <3> QED
      BY <3>1, <3>2
  <2>3. CASE /\ e \notin DOMAIN exit /\ OrderOK(o)
             /\ exit' = [x \in DOMAIN exit \cup {e} |-> IF x = e THEN o ELSE exit[x]]
    BY <2>3 DEF ExitInv, OrderOK, Progress
  <2> QED
    BY <1>1, <2>1, <2>2, <2>3
<1>4. CASE Supervise
  BY <1>1, <1>2, <1>3, <1>4, ExitUntouched
<1>5. ASSUME NEW e \in DOMAIN exit, ExitFills(e) PROVE ExitInv' /\ Progress
  <2> DEFINE status == IF exit[e].exec + 1 = exit[e].qty THEN "Filled" ELSE exit[e].status
             x == [exit EXCEPT ![e].exec = @ + 1,
                               ![e].status = IF exit[e].exec + 1 = exit[e].qty THEN "Filled" ELSE @]
             o == [exit[e] EXCEPT !.exec = @ + 1, !.status = status]
  <2>1. status \in {"New", "Filled"} /\ exit[e].status = "New"
    BY <1>5 DEF ExitFills
  <2>2. x = [exit EXCEPT ![e] = o]
    OBVIOUS
  <2>3. \/ exit' = x
        \/ exit' = [f \in DOMAIN x |-> IF x[f].status = "New" THEN [x[f] EXCEPT !.status = "Cancelled"]
                                       ELSE x[f]]
    BY <1>5 DEF ExitFills, Closed
  <2> HIDE DEF status, x
  <2>4. OrderOK(o) /\ o.exec >= exit[e].exec
    BY <2>1 DEF ExitInv, OrderOK
  <2> HIDE DEF o
  <2>5. /\ DOMAIN x = DOMAIN exit
        /\ \A f \in DOMAIN x : OrderOK(x[f])
        /\ \A f \in DOMAIN exit :
              x[f].exec >= exit[f].exec /\ (exit[f].status # "New" => x[f] = exit[f])
    BY <2>1, <2>2, <2>4 DEF ExitInv, OrderOK
  <2> QED
    BY <2>3, <2>5, AllClosed
<1>6. \A e \in DOMAIN exit : OrderOK(exit[e]) /\ exit[e].exec >= exit[e].exec
  BY DEF ExitInv, OrderOK
<1>7. CASE StopFires \/ Reduce
  BY <1>6, <1>7, AllClosed DEF StopFires, Closed, Reduce
<1>8. CASE UserCancelsExit
  <2>1. PICK e \in DOMAIN exit :
          exit[e].status = "New" /\ exit' = [exit EXCEPT ![e].status = "Cancelled"]
    BY <1>8 DEF UserCancelsExit, Open
  <2> QED
    BY <2>1 DEF ExitInv, OrderOK, Progress
<1>9. CASE Environment
  <2>1. \/ UNCHANGED exit \/ \E e \in DOMAIN exit : ExitFills(e)
        \/ StopFires \/ Reduce \/ UserCancelsExit
    BY <1>9 DEF Environment, EntryFills, PartialStopFires, UserRemovesStop, UserSetsStop,
       WithdrawUncertain, exchange
  <2> QED
    BY <1>1, <1>5, <1>7, <1>8, <2>1
<1>10. CASE PassFails \/ UNCHANGED vars
  BY <1>1, <1>10 DEF PassFails, vars, exchange
<1> QED
  BY <1>4, <1>9, <1>10 DEF Next

\* An exit that has filled, in part or whole, or was cancelled is never placed
\* again under its link (_reconcile_or_place_exit, _find_existing_exit).
THEOREM ExitProgress == Spec => ExitsOnlyProgress
<1>1. Init => ExitInv
  BY DEF Init, ExitInv
<1>2. ExitInv /\ [Next]_vars => ExitInv'
  BY ExitStep
<1>3. ExitInv /\ [Next]_vars => [Progress]_vars
  BY ExitStep
<1> QED
  BY <1>1, <1>2, <1>3, PTL DEF Spec, ExitsOnlyProgress, Progress

(***************************************************************************)
(* The exits fit the position.                                             *)
(***************************************************************************)
\* Nobody intervened by hand, and the position lost no lots but to its exits.
Calm == user = 0 /\ ~fired
\* The lots a plan of exits wants in all.
LotsAt(x, i) == IF i \in DOMAIN x THEN x[i][1] ELSE 0
Wanted(x) == LotsAt(x, 1) + LotsAt(x, 2) + LotsAt(x, 3)
\* What is left to sell of the planned exits, and what is open of a revision.
Exec(i) == IF <<i, st.rev>> \in DOMAIN exit THEN exit[<<i, st.rev>>].exec ELSE 0
Left(i) == IF i \in DOMAIN st.exits THEN st.exits[i][1] - Exec(i) ELSE 0
OpenOf(i, r) == IF <<i, r>> \in Open(exit) THEN exit[<<i, r>>].qty - exit[<<i, r>>].exec ELSE 0
OpenAt(r) == OpenOf(1, r) + OpenOf(2, r) + OpenOf(3, r)
\* What was sold of this revision's exits since the orders were read.
SinceOf(i) == IF <<i, st.rev>> \in DOMAIN snap.exits
              THEN exit[<<i, st.rev>>].exec - snap.exits[<<i, st.rev>>] ELSE 0
Since == SinceOf(1) + SinceOf(2) + SinceOf(3)

\* Links are numbers with revisions; an open exit has lots left.
Placed(e, o) ==
    /\ e \in (1..3) \X Nat /\ OrderOK(o) /\ o.qty \in Nat /\ o.exec <= o.qty
    /\ o.status = "New" => o.exec < o.qty
OrderInv == \A e \in DOMAIN exit : Placed(e, exit[e])
\* The exits a row plans; those of an installation fit the size it was saved for.
PlannedRow(r) ==
    /\ r.done \subseteq 1..3
    /\ r.exits # None => /\ DOMAIN r.exits \subseteq 1..3
                         /\ \A i \in DOMAIN r.exits : r.exits[i][1] \in Nat \ {0}
    /\ r.installing => r.exits # None /\ r.qty \in Nat /\ Wanted(r.exits) <= r.qty
\* Exits are placed as the row plans them, under its revision or an older one.
LinkInv ==
    \A e \in DOMAIN exit :
        /\ e[2] <= row.rev
        /\ e[2] = row.rev => /\ row.exits # None /\ e[1] \in DOMAIN row.exits
                             /\ exit[e].qty = row.exits[e[1]][1]
\* The pass works on a copy of the row.
Managing == \/ Place \in {"fixed", "freeze", "rebalance", "handed", "trail", "trailed"}
            \/ Place \in Handing /\ goal.from = "handoff"
CopyInv ==
    /\ row.status \in Active => PlannedRow(row) /\ LinkInv
    /\ pc # "idle" => /\ row.status \in Active /\ st.status \in Active /\ PlannedRow(st)
                      /\ st.rev = row.rev /\ st.exits = row.exits
                      /\ Managing => ~st.installing
\* What the last list of orders says of the exits.
ListInv ==
    pc \notin {"idle", "positions", "orders"} =>
        /\ DOMAIN snap.exits \subseteq DOMAIN exit
        /\ \A e \in DOMAIN snap.exits : snap.exits[e] \in Nat /\ snap.exits[e] <= exit[e].exec
        /\ pc # "place" => Open(exit) \subseteq DOMAIN snap.exits
\* Until the old exits are gone.
Replacing == {"protect", "stale", "replaced", "match"}
ReplaceInv ==
    /\ Place \in Replacing =>
         /\ st.exits # None /\ goal.qty \in Nat /\ Wanted(st.exits) <= goal.qty
         /\ DOMAIN acct.exits \subseteq DOMAIN exit /\ Open(exit) \subseteq DOMAIN acct.exits
         /\ ~st.installing => \A e \in DOMAIN exit : e[2] # st.rev
    /\ Place \in {"replaced", "match"} =>
         \A e \in DOMAIN acct.exits : e[2] = st.rev \/ e \in goal.cancelled
    /\ Place = "match" => goal.cancelled = {}
    /\ pc \in {"replaced", "match"} => DOMAIN snap.exits \subseteq DOMAIN acct.exits
    /\ pc \in {"protect", "stale"} => snap = acct /\ (~st.installing => snap.pos.size = goal.qty)
\* From then on only the exits of this revision are open.
Placing == Place \in {"confirm", "place"} \/ (Place \in Handing /\ goal.from # "handoff")
RevisionInv ==
    /\ \A e, f \in Open(exit) : e[2] = f[2]
    /\ Placing => st.exits # None /\ \A e \in Open(exit) : e[2] = st.rev
ShapeInv == OrderInv /\ CopyInv /\ ListInv /\ ReplaceInv /\ RevisionInv

\* What the last reading says of the size.
HasRead == pc \notin {"idle", "positions", "orders", "place"}
SizeKnown ==
    pos.size > 0 =>
        /\ pc = "orders" => pos.size >= snap.pos.size
        /\ HasRead /\ (\A e \in DOMAIN snap.exits : e[2] = st.rev)
             => pos.size + Since >= snap.pos.size
\* The planned exits fit the position, and so do the open ones.
LeftFits == Placing /\ pos.size > 0 => Left(1) + Left(2) + Left(3) <= pos.size
OpenFits == \A e \in Open(exit) : OpenAt(e[2]) <= pos.size
SizeInv == Calm => SizeKnown /\ LeftFits /\ OpenFits
FitInv == ShapeInv /\ SizeInv

\* The share of one exit, if it is among those asked for.
Share(S, i) == IF i \in S THEN Policy.exits[i] ELSE 0
\* The shares of some exits.
LEMMA SharesAre ==
  ASSUME NEW S \in SUBSET (1..3)
  PROVE  /\ SharesOf(S) = Share(S, 1) + Share(S, 2) + Share(S, 3)
         /\ \A i \in 1..3 : Share(S, i) \in Nat /\ Policy.exits[i] \in Nat \ {0}
<1> DEFINE f == [i \in S |-> Policy.exits[i]]
<1>1. \A i \in 1..3 : Policy.exits[i] \in Nat \ {0}
  BY PolicyFacts
<1>2. f \in [S -> Int]
  BY <1>1
<1>3. SharesOf(S) = SumOver(S, f)
  BY DEF SharesOf
<1>4. \A i \in 1..3 : Term(S, f, i) = Share(S, i)
  BY DEF Term, Share
<1>5. \A i \in 1..3 : Share(S, i) \in Nat
  BY <1>1 DEF Share
<1> HIDE DEF f
<1>6. SumOver(S, f) = Term(S, f, 1) + Term(S, f, 2) + Term(S, f, 3)
  BY <1>2, SumIndex
<1> QED
  BY <1>1, <1>3, <1>4, <1>5, <1>6

\* What is left of the whole once the filled exits are taken off.
LEMMA WeightIs ==
  ASSUME NEW done \in SUBSET (1..3)
  PROVE  /\ RemainingWeight(done) \in Nat \ {0}
         /\ RemainingWeight(done) = Whole - SharesOf(done)
         /\ RemainingWeight(done) = Policy.runner + (Share(1..3 \ done, 1) + Share(1..3 \ done, 2)
                                                       + Share(1..3 \ done, 3))
<1> DEFINE rest == 1..3 \ done
<1>1. SharesOf(done) = Share(done, 1) + Share(done, 2) + Share(done, 3)
  BY SharesAre
<1>2. rest \in SUBSET (1..3)
  OBVIOUS
<1>3. SharesOf(rest) = Share(rest, 1) + Share(rest, 2) + Share(rest, 3)
  BY <1>2, SharesAre
<1>4. \A i \in 1..3 : /\ Policy.exits[i] \in Nat /\ Share(rest, i) \in Nat /\ Share(done, i) \in Nat
                      /\ Share(done, i) + Share(rest, i) = Policy.exits[i]
  BY PolicyFacts DEF Share
<1>5. Policy.runner \in Nat \ {0}
  BY LadderConstants DEF ValidPolicy
<1>6. Policy.exits[1] + Policy.exits[2] + Policy.exits[3] + Policy.runner = Whole
  BY PolicyFacts
<1>7. RemainingWeight(done) = Policy.runner + SharesOf(rest)
  BY DEF RemainingWeight
<1> HIDE DEF rest
<1> QED
  BY <1>1, <1>3, <1>4, <1>5, <1>6, <1>7 DEF Whole, rest

\* Every planned exit takes the largest whole number of lots within its share,
\* and all of them together leave the runner's.
LEMMA ExitLots ==
  ASSUME NEW plan, NEW qty \in Nat, NEW avg, NEW done \in SUBSET (1..3),
         ~Refused(PlannedExits(plan, qty, avg, done))
  PROVE  LET x == PlannedExits(plan, qty, avg, done).exits
             W == RemainingWeight(done)
         IN  /\ DOMAIN x \subseteq 1..3
             /\ \A i \in DOMAIN x : /\ x[i][1] \in Nat \ {0}
                                    /\ x[i][1] * W <= qty * Policy.exits[i]
                                    /\ (x[i][1] + 1) * W > qty * Policy.exits[i]
             /\ Wanted(x) \in Nat /\ Wanted(x) * W <= qty * (W - Policy.runner)
<1> DEFINE W == RemainingWeight(done)
           rest == 1..3 \ done
           n(i) == RoundDown(<<qty * Policy.exits[i], W>>)
           x == PlannedExits(plan, qty, avg, done).exits
<1>1. \A i \in 1..3 : Policy.exits[i] \in Nat \ {0} /\ Share(rest, i) \in Nat
  BY SharesAre DEF Share
<1>2. /\ W \in Nat \ {0} /\ Policy.runner \in Nat
      /\ W = Policy.runner + (Share(rest, 1) + Share(rest, 2) + Share(rest, 3))
  BY WeightIs, PolicyFacts
<1> HIDE DEF W
<1>3. \A i \in 1..3 : /\ n(i) \in Nat /\ n(i) * W <= qty * Policy.exits[i]
                      /\ (n(i) + 1) * W > qty * Policy.exits[i]
  <2> TAKE i \in 1..3
  <2> DEFINE m == qty * Policy.exits[i]
  <2>1. m \in Nat
    BY <1>1
  <2>2. n(i) = m \div W
    BY DEF RoundDown
  <2> HIDE DEF m, n
  <2>3. m \div W \in Nat /\ (m \div W) * W <= m /\ (m \div W + 1) * W > m
    BY <1>2, <2>1
  <2> QED
    BY <2>2, <2>3 DEF m
<1>4. /\ DOMAIN x \subseteq rest
      /\ \A i \in DOMAIN x : x[i][1] = n(i) /\ n(i) > 0
  <2> DEFINE price(i) == ExitPrice(plan, avg, TargetRs(plan, avg)[i])
             wanted == {i \in 1..3 \ done : n(i) > 0 /\ n(i) >= MinQty}
             placed == {i \in wanted : n(i) * price(i) >= MinNotional}
  <2>1. PlannedExits(plan, qty, avg, done) = [exits |-> [i \in placed |-> <<n(i), price(i)>>]]
    BY DEF PlannedExits, Refused, Refusal, W
  <2>2. x = [i \in placed |-> <<n(i), price(i)>>]
    BY <2>1
  <2> HIDE DEF x, price, n
  <2> QED
    BY <2>2
<1>5. \A i \in DOMAIN x : /\ x[i][1] \in Nat \ {0} /\ x[i][1] * W <= qty * Policy.exits[i]
                          /\ (x[i][1] + 1) * W > qty * Policy.exits[i]
  <2> TAKE i \in DOMAIN x
  <2> HIDE DEF x, n
  <2>1. i \in 1..3 /\ x[i][1] = n(i) /\ n(i) > 0
    BY <1>4
  <2>2. n(i) \in Nat /\ n(i) * W <= qty * Policy.exits[i] /\ (n(i) + 1) * W > qty * Policy.exits[i]
    BY <1>3, <2>1
  <2>3. n(i) \in Nat \ {0}
    BY <2>1, <2>2
  <2> QED
    BY <2>1, <2>2, <2>3
<1> HIDE DEF x, n
<1>6. \A i \in 1..3 : LotsAt(x, i) \in Nat /\ LotsAt(x, i) * W <= qty * Share(rest, i)
  <2> TAKE i \in 1..3
  <2>1. CASE i \in DOMAIN x
    <3>1. LotsAt(x, i) = n(i) /\ Share(rest, i) = Policy.exits[i]
      BY <1>4, <2>1 DEF LotsAt, Share
    <3> QED
      BY <1>3, <3>1
  <2>2. CASE i \notin DOMAIN x
    <3>1. LotsAt(x, i) = 0 /\ Share(rest, i) \in Nat
      BY <1>1, <2>2 DEF LotsAt
    <3>2. qty * Share(rest, i) \in Nat /\ 0 * W = 0
      BY <1>2, <3>1
    <3> QED
      BY <3>1, <3>2
  <2> QED
    BY <2>1, <2>2
<1>7. Wanted(x) \in Nat /\ Wanted(x) * W <= qty * (W - Policy.runner)
  <2> DEFINE a == LotsAt(x, 1)
             b == LotsAt(x, 2)
             d == LotsAt(x, 3)
             u == Share(rest, 1)
             v == Share(rest, 2)
             w == Share(rest, 3)
  <2>1. /\ a \in Nat /\ b \in Nat /\ d \in Nat /\ u \in Nat /\ v \in Nat /\ w \in Nat
        /\ a * W <= qty * u /\ b * W <= qty * v /\ d * W <= qty * w
    BY <1>1, <1>6
  <2>2. W - Policy.runner = u + v + w
    BY <1>1, <1>2
  <2> HIDE DEF a, b, d, u, v, w
  <2>3. (a + b + d) * W <= qty * (u + v + w)
    BY <1>2, <2>1
  <2>4. Wanted(x) = a + b + d
    BY DEF Wanted, a, b, d
  <2> QED
    BY <2>1, <2>2, <2>3, <2>4
<1>8. DOMAIN x \subseteq 1..3
  BY <1>4
<1> QED
  BY <1>5, <1>7, <1>8 DEF x, W

\* The exits that are planned fit the size they are planned for.
LEMMA PlannedFit ==
  ASSUME NEW plan, NEW qty \in Nat, NEW avg, NEW done \in SUBSET (1..3),
         ~Refused(PlannedExits(plan, qty, avg, done))
  PROVE  LET x == PlannedExits(plan, qty, avg, done).exits
         IN  /\ DOMAIN x \subseteq 1..3 /\ \A i \in DOMAIN x : x[i][1] \in Nat \ {0}
             /\ Wanted(x) <= qty
<1> DEFINE x == PlannedExits(plan, qty, avg, done).exits
           W == RemainingWeight(done)
           n == Wanted(x)
<1>1. /\ DOMAIN x \subseteq 1..3 /\ \A i \in DOMAIN x : x[i][1] \in Nat \ {0}
      /\ n \in Nat /\ n * W <= qty * (W - Policy.runner)
  BY ExitLots
<1>2. W \in Nat \ {0} /\ Policy.runner \in Nat
  BY WeightIs, PolicyFacts
<1> HIDE DEF W, n
<1>3. qty * (W - Policy.runner) <= qty * W
  BY <1>2
<1>4. qty * (W - Policy.runner) \in Int /\ n * W \in Int /\ qty * W \in Int
  BY <1>1, <1>2
<1>5. n * W <= qty * W
  BY <1>1, <1>3, <1>4
<1>6. n <= qty
  BY <1>1, <1>2, <1>5
<1> QED
  BY <1>1, <1>6 DEF n

\* The sum of what is open.
LEMMA OpenSum ==
  ASSUME ShapeInv, SizeInv, Calm, pos.size \in Nat
  PROVE  OpenLots <= pos.size
<1> DEFINE S == Open(exit)
           f == [e \in S |-> exit[e].qty - exit[e].exec]
<1>1. \A e \in S : e \in DOMAIN exit /\ Placed(e, exit[e])
  BY DEF ShapeInv, OrderInv, Open
<1>2. f \in [S -> Int]
  BY <1>1 DEF Placed, OrderOK
<1>3. PICK r \in Nat : (\A e \in S : e[2] = r) /\ OpenAt(r) <= pos.size
  <2>1. CASE S = {}
    <3>1. OpenAt(0) = 0
      BY <2>1 DEF OpenAt, OpenOf
    <3> QED
      BY <2>1, <3>1
  <2>2. CASE S # {}
    <3>1. PICK e \in S : TRUE
      BY <2>2
    <3>2. e[2] \in Nat
      BY <1>1 DEF Placed
    <3> QED
      BY <3>1, <3>2 DEF ShapeInv, RevisionInv, SizeInv, OpenFits
  <2> QED
    BY <2>1, <2>2
<1>4. S \in SUBSET {<<1, r>>, <<2, r>>, <<3, r>>}
  BY <1>1, <1>3 DEF Placed
<1>5. \A i \in 1..3 : OpenOf(i, r) = IF <<i, r>> \in S THEN f[<<i, r>>] ELSE 0
  BY DEF OpenOf
<1> HIDE DEF S, f
<1>8. <<1, r>> # <<2, r>> /\ <<1, r>> # <<3, r>> /\ <<2, r>> # <<3, r>>
  OBVIOUS
<1>6. SumOver(S, f) = Term(S, f, <<1, r>>) + Term(S, f, <<2, r>>) + Term(S, f, <<3, r>>)
  BY <1>2, <1>4, <1>8, SumThree
<1>7. OpenLots = SumOver(S, f)
  BY DEF OpenLots, S, f
<1> QED
  BY <1>3, <1>5, <1>6, <1>7 DEF OpenAt, Term

\* The exits stay as they are, and so does the size of the position.
Still == UNCHANGED <<exit, user, fired>> /\ pos'.size = pos.size
\* What no step that is Still can disturb.
LEMMA StillKeeps ==
  ASSUME FitInv, Still
  PROVE  /\ OrderInv' /\ (\A e, f \in Open(exit) : e[2] = f[2])'
         /\ Calm' => Calm /\ OpenFits'
<1>1. OrderInv'
  BY DEF FitInv, ShapeInv, OrderInv, Still
<1>2. Open(exit)' = Open(exit)
  BY DEF Still, Open
<1>3. (\A e, f \in Open(exit) : e[2] = f[2])'
  BY <1>2 DEF FitInv, ShapeInv, RevisionInv
<1>4. Calm' => Calm
  BY DEF Calm, Still
<1>5. \A r : OpenAt(r)' = OpenAt(r)
  BY <1>2 DEF OpenAt, OpenOf, Still
<1>6. OpenFits => OpenFits'
  BY <1>2, <1>5 DEF OpenFits, Still
<1> QED
  BY <1>1, <1>3, <1>4, <1>6 DEF FitInv, SizeInv

\* The row as the pass leaves it.
RowKept == row'.rev = row.rev /\ row'.exits = row.exits
\* The exits stay linked to it.
LEMMA LinksKept ==
  ASSUME FitInv, UNCHANGED exit, RowKept, row.status \in Active
  PROVE  LinkInv'
<1>1. LinkInv
  BY DEF FitInv, ShapeInv, CopyInv
<1> QED
  BY <1>1 DEF LinkInv, RowKept

\* A pass ends.
LEMMA Ended ==
  ASSUME FitInv, Still, pc # "idle", pc' = "idle",
         row'.status \in Active => PlannedRow(row') /\ RowKept
  PROVE  FitInv'
<1>1. /\ OrderInv' /\ (\A e, f \in Open(exit) : e[2] = f[2])'
      /\ Calm' => Calm /\ OpenFits'
  BY StillKeeps
<1>2. Place' = "idle"
  BY DEF Place, Reading
<1>3. row.status \in Active
  BY DEF FitInv, ShapeInv, CopyInv
<1>4. CopyInv'
  BY <1>3, LinksKept DEF CopyInv, PlannedRow, Wanted, LotsAt, Still
<1>5. ListInv' /\ ReplaceInv' /\ ~Placing'
  BY <1>2 DEF ListInv, ReplaceInv, Placing, Replacing, Handing
<1>6. Calm' => SizeKnown' /\ LeftFits' /\ OpenFits'
  BY <1>1, <1>5 DEF SizeKnown, HasRead, LeftFits
<1> QED
  BY <1>1, <1>4, <1>5, <1>6 DEF FitInv, ShapeInv, RevisionInv, SizeInv

\* A pass goes on, with what it knows of the place it goes to.
Reads == pc' = "positions"
Stays == /\ pc' \notin {"idle", "positions", "orders"} /\ snap' = snap
         /\ HasRead \/ (pc = "place" /\ pc' = "place")
Copied == /\ row'.status \in Active /\ st'.status \in Active
          /\ PlannedRow(row') /\ PlannedRow(st')
          /\ st'.rev = row'.rev /\ st'.exits = row'.exits /\ RowKept
          /\ Managing' => ~st'.installing
\* Then what is shown of that place is all there is to show.
LEMMA Moved ==
  ASSUME FitInv, Still, pc # "idle", Reads \/ Stays, Copied, ReplaceInv',
         Placing' => st'.exits # None /\ (\A e \in Open(exit) : e[2] = st.rev)',
         Calm => LeftFits'
  PROVE  FitInv'
<1>1. /\ OrderInv' /\ (\A e, f \in Open(exit) : e[2] = f[2])'
      /\ Calm' => Calm /\ OpenFits'
  BY StillKeeps
<1>2. /\ row.status \in Active /\ st.rev = row.rev
  BY DEF FitInv, ShapeInv, CopyInv
<1>3. LinkInv'
  BY <1>2, LinksKept DEF Copied, Still
<1>4. CopyInv'
  <2>1. PlannedRow(row)' /\ PlannedRow(st)'
    BY DEF Copied, PlannedRow, Wanted, LotsAt
  <2> QED
    BY <1>3, <2>1 DEF CopyInv, Copied
<1>5. ListInv'
  <2>1. CASE Reads
    BY <2>1 DEF Reads, ListInv
  <2>2. CASE Stays
    <3>1. ListInv /\ exit' = exit /\ snap' = snap
      BY <2>2 DEF FitInv, ShapeInv, Stays, Still
    <3>2. pc \notin {"idle", "positions", "orders"} /\ (pc = "place" => pc' = "place")
      BY <2>2 DEF Stays, HasRead
    <3> QED
      BY <3>1, <3>2 DEF ListInv, Open
  <2> QED
    BY <2>1, <2>2
<1>6. Calm' => SizeKnown'
  <2>1. CASE Reads
    BY <2>1 DEF Reads, SizeKnown, HasRead
  <2>2. CASE Stays
    <3>1. HasRead' => HasRead
      BY <2>2 DEF Stays, HasRead
    <3>2. Since' = Since /\ snap' = snap /\ st'.rev = st.rev /\ pos'.size = pos.size /\ pc' # "orders"
      BY <1>2, <2>2 DEF Since, SinceOf, Stays, Still, Copied, RowKept
    <3>3. Calm' => SizeKnown
      BY <1>1 DEF FitInv, SizeInv
    <3> QED
      BY <3>1, <3>2, <3>3 DEF SizeKnown
  <2> QED
    BY <2>1, <2>2
<1> QED
  BY <1>1, <1>4, <1>5, <1>6 DEF FitInv, ShapeInv, RevisionInv, SizeInv

\* The places where a pass has nothing to do with the exits.
Elsewhere == Place' \notin Replacing \cup Handing \cup {"confirm", "place"}
\* Nothing is to be shown of them.
LEMMA Away ==
  ASSUME FitInv, Still, pc # "idle", Reads \/ Stays, Copied, Elsewhere, PlaceInv'
  PROVE  FitInv'
<1>1. Place' \notin Replacing /\ pc' \notin Replacing /\ ~Placing'
  BY DEF Elsewhere, Place, Reading, Replacing, Placing
<1>2. ReplaceInv'
  BY <1>1 DEF ReplaceInv, Replacing
<1> QED
  BY <1>1, <1>2, Moved DEF LeftFits

\* Exits fill or end while the pass stands.
Shrinks ==
    /\ DOMAIN exit' = DOMAIN exit
    /\ \A e \in DOMAIN exit :
         /\ Placed(e, exit'[e]) /\ exit'[e].qty = exit[e].qty /\ exit'[e].exec >= exit[e].exec
         /\ exit'[e].status = "New" => exit[e].status = "New"
\* What the pass knows of them survives that.
LEMMA ShapeKept ==
  ASSUME FitInv, UNCHANGED <<row, pass>>, Shrinks
  PROVE  ShapeInv' /\ Open(exit)' \subseteq Open(exit)
<1>1. /\ OrderInv /\ CopyInv /\ ListInv /\ ReplaceInv /\ RevisionInv
      /\ UNCHANGED <<row, st, loaded, pc, then, snap, acct, goal, k>>
  BY DEF FitInv, ShapeInv, pass
<1>2. Place' = Place
  BY <1>1 DEF Place, Reading
<1>3. Open(exit)' \subseteq Open(exit)
  BY DEF Shrinks, Open
<1>4. OrderInv'
  BY DEF OrderInv, Shrinks
<1>5. CopyInv'
  <2>1. LinkInv => LinkInv'
    BY <1>1 DEF LinkInv, Shrinks
  <2>2. PlannedRow(row)' = PlannedRow(row) /\ PlannedRow(st)' = PlannedRow(st)
    BY <1>1
  <2>3. Managing' = Managing
    BY <1>1, <1>2 DEF Managing
  <2> QED
    BY <1>1, <2>1, <2>2, <2>3 DEF CopyInv
<1>6. ListInv'
  <2>1. ASSUME NEW e \in DOMAIN exit, NEW n \in Nat, n <= exit[e].exec PROVE n <= exit'[e].exec
    <3>1. exit[e].exec \in Nat /\ exit'[e].exec \in Nat /\ exit'[e].exec >= exit[e].exec
      BY <1>1 DEF Shrinks, OrderInv, Placed, OrderOK
    <3> QED
      BY <2>1, <3>1
  <2>2. CASE pc \in {"idle", "positions", "orders"}
    BY <1>1, <2>2 DEF ListInv
  <2>3. CASE pc \notin {"idle", "positions", "orders"}
    <3>1. /\ DOMAIN snap.exits \subseteq DOMAIN exit
          /\ \A e \in DOMAIN snap.exits : snap.exits[e] \in Nat /\ snap.exits[e] <= exit[e].exec
          /\ pc # "place" => Open(exit) \subseteq DOMAIN snap.exits
      BY <1>1, <2>3 DEF ListInv
    <3>2. \A e \in DOMAIN snap.exits : snap.exits[e] <= exit'[e].exec
      BY <2>1, <3>1
    <3> QED
      BY <1>1, <1>3, <3>1, <3>2 DEF ListInv, Shrinks
  <2> QED
    BY <2>2, <2>3
<1>7. ReplaceInv'
  BY <1>1, <1>2, <1>3 DEF ReplaceInv, Shrinks, Wanted, LotsAt
<1>8. RevisionInv'
  BY <1>1, <1>2, <1>3 DEF RevisionInv, Placing
<1> QED
  BY <1>3, <1>4, <1>5, <1>6, <1>7, <1>8 DEF ShapeInv

\* All of these are numbers of lots.
LEMMA Counts ==
  ASSUME ShapeInv
  PROVE  /\ \A e \in DOMAIN exit : exit[e].exec \in Nat /\ exit[e].qty \in Nat
                                   /\ exit[e].exec <= exit[e].qty
         /\ \A i, r : OpenOf(i, r) \in Nat
         /\ HasRead => (\A i : SinceOf(i) \in Nat) /\ Since \in Nat
         /\ Placing => \A i : Left(i) \in Nat
<1>1. \A e \in DOMAIN exit : exit[e].exec \in Nat /\ exit[e].qty \in Nat /\ exit[e].exec <= exit[e].qty
  BY DEF ShapeInv, OrderInv, Placed, OrderOK
<1>2. \A i, r : OpenOf(i, r) \in Nat
  <2> TAKE i, r
  <2>1. CASE <<i, r>> \in Open(exit)
    <3> DEFINE q == exit[<<i, r>>].qty
               x == exit[<<i, r>>].exec
    <3>1. q \in Nat /\ x \in Nat /\ x <= q
      BY <1>1, <2>1 DEF Open
    <3>2. OpenOf(i, r) = q - x
      BY <2>1 DEF OpenOf
    <3> HIDE DEF q, x
    <3> QED
      BY <3>1, <3>2
  <2> QED
    BY <2>1 DEF OpenOf
<1>3. ASSUME HasRead PROVE (\A i : SinceOf(i) \in Nat) /\ Since \in Nat
  <2>1. \A i : SinceOf(i) \in Nat
    <3> TAKE i
    <3>1. CASE <<i, st.rev>> \in DOMAIN snap.exits
      <4> DEFINE n == snap.exits[<<i, st.rev>>]
                 x == exit[<<i, st.rev>>].exec
      <4>1. n \in Nat /\ x \in Nat /\ n <= x
        BY <1>1, <1>3, <3>1 DEF ShapeInv, ListInv, HasRead
      <4>2. SinceOf(i) = x - n
        BY <3>1 DEF SinceOf
      <4> HIDE DEF n, x
      <4> QED
        BY <4>1, <4>2
    <3> QED
      BY <3>1 DEF SinceOf
  <2> QED
    BY <2>1 DEF Since
<1>4. ASSUME Placing PROVE \A i : Left(i) \in Nat
  <2> TAKE i
  <2>1. pc # "idle" /\ st.exits # None
    BY <1>4 DEF ShapeInv, RevisionInv, Placing, Place, Reading, Handing
  <2>2. PlannedRow(st) /\ st.rev = row.rev /\ st.exits = row.exits /\ LinkInv
    BY <2>1 DEF ShapeInv, CopyInv
  <2>3. CASE i \in DOMAIN st.exits
    <3> DEFINE q == st.exits[i][1]
               x == Exec(i)
    <3>1. q \in Nat
      BY <2>1, <2>2, <2>3 DEF PlannedRow
    <3>2. x \in Nat /\ x <= q
      <4>1. CASE <<i, st.rev>> \in DOMAIN exit
        <5>1. exit[<<i, st.rev>>].qty = q
          BY <2>2, <4>1 DEF LinkInv
        <5> QED
          BY <1>1, <4>1, <5>1 DEF Exec
      <4> QED
        BY <3>1, <4>1 DEF Exec
    <3>3. Left(i) = q - x
      BY <2>3 DEF Left
    <3> HIDE DEF q, x
    <3> QED
      BY <3>1, <3>2, <3>3
  <2> QED
    BY <2>3 DEF Left
<1> QED
  BY <1>1, <1>2, <1>3, <1>4

\* What is kept when no lot leaves the position.
LEMMA Grows ==
  ASSUME FitInv, ProtectionInv, UNCHANGED <<row, pass, exit>>, pos.size \in Nat, pos'.size \in Nat,
         Calm' => Calm /\ pos'.size >= pos.size /\ (pos.size = 0 => pos'.size = 0)
  PROVE  FitInv'
<1>1. Shrinks
  <2>1. \A e \in DOMAIN exit : Placed(e, exit[e]) /\ exit[e].exec \in Nat
    BY DEF FitInv, ShapeInv, OrderInv, Placed, OrderOK
  <2> QED
    BY <2>1 DEF Shrinks
<1>2. ShapeInv'
  BY <1>1, ShapeKept
<1>3. UNCHANGED <<row, st, loaded, pc, then, snap, acct, goal, k>>
  BY DEF pass
<1>4. /\ Since' = Since /\ HasRead' = HasRead /\ Placing' = Placing
      /\ Left(1)' = Left(1) /\ Left(2)' = Left(2) /\ Left(3)' = Left(3)
      /\ Open(exit)' = Open(exit) /\ \A r : OpenAt(r)' = OpenAt(r)
  BY <1>3 DEF Since, SinceOf, HasRead, Placing, Place, Reading, Left, Exec, Open, OpenAt, OpenOf
<1>5. ASSUME Calm' PROVE SizeKnown' /\ LeftFits' /\ OpenFits'
  <2>1. SizeKnown /\ LeftFits /\ OpenFits /\ Calm /\ pos'.size >= pos.size /\ (pos'.size > 0 => pos.size > 0)
    BY <1>5 DEF FitInv, SizeInv
  <2>2. OrderInv /\ ListInv /\ CopyInv
    BY DEF FitInv, ShapeInv
  <2>3. SizeKnown'
    <3>1. pc = "orders" => snap.pos.size \in Nat
      BY DEF ProtectionInv, PassInv, SnapInv, PositionOK
    <3>2. HasRead => Since \in Nat /\ snap.pos.size \in Nat
      BY Counts DEF FitInv, HasRead, ProtectionInv, PassInv, SnapInv, PositionOK
    <3>3. ASSUME pos'.size > 0, pc = "orders" PROVE pos'.size >= snap.pos.size
      BY <2>1, <3>1, <3>3 DEF SizeKnown
    <3>4. ASSUME pos'.size > 0, HasRead, \A e \in DOMAIN snap.exits : e[2] = st.rev
          PROVE  pos'.size + Since >= snap.pos.size
      <4>1. pos.size + Since >= snap.pos.size
        BY <2>1, <3>4 DEF SizeKnown
      <4> QED
        BY <2>1, <3>2, <3>4, <4>1
    <3> QED
      BY <1>3, <1>4, <3>3, <3>4 DEF SizeKnown
  <2>4. LeftFits'
    <3>1. ASSUME Placing, pos'.size > 0 PROVE Left(1) + Left(2) + Left(3) <= pos'.size
      <4>1. Left(1) + Left(2) + Left(3) <= pos.size
        BY <2>1, <3>1 DEF LeftFits
      <4>2. Left(1) \in Nat /\ Left(2) \in Nat /\ Left(3) \in Nat
        BY <3>1, Counts DEF FitInv
      <4> QED
        BY <2>1, <4>1, <4>2
    <3> QED
      BY <1>3, <1>4, <3>1 DEF LeftFits
  <2>5. OpenFits'
    <3>1. \A r : OpenAt(r) \in Nat
      BY Counts DEF FitInv, OpenAt
    <3>2. \A e \in Open(exit) : OpenAt(e[2]) <= pos'.size
      BY <2>1, <3>1 DEF OpenFits
    <3> QED
      BY <1>4, <3>2 DEF OpenFits
  <2> QED
    BY <2>3, <2>4, <2>5
<1> QED
  BY <1>2, <1>5 DEF FitInv, SizeInv

\* Every open exit is cancelled.
LEMMA AllCancelled ==
  ASSUME NEW x, DOMAIN x = DOMAIN exit,
         \A e \in DOMAIN exit : Placed(e, x[e]) /\ x[e].qty = exit[e].qty /\ x[e].exec >= exit[e].exec,
         exit' = [e \in DOMAIN x |-> IF x[e].status = "New" THEN [x[e] EXCEPT !.status = "Cancelled"]
                                     ELSE x[e]]
  PROVE  Shrinks /\ Open(exit)' = {}
<1>1. ASSUME NEW e \in DOMAIN exit
      PROVE  /\ Placed(e, exit'[e]) /\ exit'[e].qty = exit[e].qty /\ exit'[e].exec >= exit[e].exec
             /\ exit'[e].status # "New"
  <2>1. CASE x[e].status = "New"
    <3>1. exit'[e] = [x[e] EXCEPT !.status = "Cancelled"]
      BY <2>1
    <3>2. DOMAIN x[e] = {"qty", "price", "exec", "status"}
      BY DEF Placed, OrderOK
    <3>3. exit'[e].qty = x[e].qty /\ exit'[e].exec = x[e].exec /\ exit'[e].status = "Cancelled"
          /\ DOMAIN exit'[e] = DOMAIN x[e]
      BY <3>1, <3>2
    <3> QED
      BY <3>3 DEF Placed, OrderOK
  <2>2. CASE x[e].status # "New"
    BY <2>2
  <2> QED
    BY <2>1, <2>2
<1>2. DOMAIN exit' = DOMAIN exit
  OBVIOUS
<1>3. Open(exit)' = {}
  BY <1>1, <1>2 DEF Open
<1> QED
  BY <1>1, <1>2, <1>3 DEF Shrinks

\* No exit is left open, and no position.
LEMMA Emptied ==
  ASSUME FitInv, UNCHANGED <<row, pass>>, Shrinks, Open(exit)' = {}, pos'.size = 0
  PROVE  FitInv'
<1>1. ShapeInv'
  BY ShapeKept
<1>2. SizeKnown' /\ LeftFits' /\ OpenFits'
  BY DEF SizeKnown, LeftFits, OpenFits
<1> QED
  BY <1>1, <1>2 DEF FitInv, SizeInv

\* One lot of one exit is sold.
Sells(e) ==
    /\ e \in DOMAIN exit /\ DOMAIN exit' = DOMAIN exit
    /\ exit[e].status = "New" /\ exit'[e].exec = exit[e].exec + 1 /\ exit'[e].qty = exit[e].qty
    /\ exit'[e].status = "New" \/ exit'[e].exec = exit'[e].qty
    /\ \A f \in DOMAIN exit \ {e} : exit'[f] = exit[f]
\* The position and the exit lose it together.
LEMMA Sold ==
  ASSUME FitInv, ProtectionInv, UNCHANGED <<row, pass, user, fired>>, NEW e, Shrinks, Sells(e),
         pc # "orders", pos.size \in Nat, pos.size > 1, pos'.size = pos.size - 1
  PROVE  FitInv'
<1>1. ShapeInv' /\ Open(exit)' \subseteq Open(exit)
  BY ShapeKept
<1>2. UNCHANGED <<row, st, loaded, pc, then, snap, acct, goal, k>>
  BY DEF pass
<1>3. ShapeInv /\ OrderInv /\ CopyInv /\ ListInv /\ RevisionInv
  BY DEF FitInv, ShapeInv
<1>4. PICK i \in 1..3, r \in Nat : e = <<i, r>>
  BY <1>3 DEF OrderInv, Placed, Sells
<1>5. e \in Open(exit)
  BY DEF Sells, Open
<1>6. HasRead' = HasRead /\ Placing' = Placing
  BY <1>2 DEF HasRead, Placing, Place, Reading
<1>7. ASSUME Calm' PROVE SizeKnown' /\ LeftFits' /\ OpenFits'
  <2>1. SizeKnown /\ LeftFits /\ OpenFits
    BY <1>7 DEF FitInv, SizeInv, Calm
  <2>2. exit[e].exec \in Nat /\ exit[e].qty \in Nat
    BY <1>3, <1>5, Counts DEF Open
  <2>3. SizeKnown'
    <3>1. SUFFICES ASSUME HasRead, \A f \in DOMAIN snap.exits : f[2] = st.rev
                   PROVE  pos'.size + Since' >= snap.pos.size
      BY <1>2, <1>6 DEF SizeKnown
    <3>2. e \in DOMAIN snap.exits /\ snap.exits[e] \in Nat
      BY <1>3, <1>5, <3>1 DEF ListInv, HasRead
    <3>3. r = st.rev
      BY <1>4, <3>1, <3>2
    <3>4. /\ SinceOf(i) = exit[e].exec - snap.exits[e]
          /\ SinceOf(i)' = exit'[e].exec - snap.exits[e]
      BY <1>2, <1>4, <3>2, <3>3 DEF SinceOf
    <3>5. SinceOf(i)' = SinceOf(i) + 1
      BY <2>2, <3>2, <3>4 DEF Sells
    <3>6. \A j \in 1..3 \ {i} : SinceOf(j)' = SinceOf(j)
      <4> TAKE j \in 1..3 \ {i}
      <4>1. CASE <<j, st.rev>> \in DOMAIN snap.exits
        <5>1. <<j, st.rev>> \in DOMAIN exit \ {e}
          BY <1>3, <1>4, <3>1, <4>1 DEF ListInv, HasRead
        <5> QED
          BY <1>2, <4>1, <5>1 DEF SinceOf, Sells
      <4> QED
        BY <1>2, <4>1 DEF SinceOf
    <3>7. \A j \in 1..3 : SinceOf(j) \in Nat
      BY <1>3, <3>1, Counts
    <3>8. Since' = Since + 1 /\ Since \in Nat
      <4> HIDE DEF SinceOf
      <4> QED
        BY <3>5, <3>6, <3>7 DEF Since
    <3>9. pos.size + Since >= snap.pos.size /\ snap.pos.size \in Nat
      BY <2>1, <3>1 DEF SizeKnown, HasRead, ProtectionInv, PassInv, SnapInv, PositionOK
    <3> QED
      BY <3>8, <3>9
  <2>4. LeftFits'
    <3>1. SUFFICES ASSUME Placing PROVE Left(1)' + Left(2)' + Left(3)' <= pos'.size
      BY <1>6 DEF LeftFits
    <3>2. r = st.rev /\ pc # "idle"
      BY <1>3, <1>4, <1>5, <3>1 DEF RevisionInv, Placing, Place, Reading, Handing
    <3>3. i \in DOMAIN st.exits
      BY <1>3, <1>4, <1>5, <3>2 DEF CopyInv, LinkInv, Open
    <3>4. Exec(i) = exit[e].exec /\ Exec(i)' = exit'[e].exec
      BY <1>2, <1>4, <1>5, <3>2 DEF Exec, Open, Sells
    <3>5. Left(i)' = Left(i) - 1
      <4>1. st.exits[i][1] \in Nat
        BY <1>3, <3>2, <3>3, <3>1 DEF CopyInv, PlannedRow, RevisionInv
      <4>2. Left(i) = st.exits[i][1] - Exec(i) /\ Left(i)' = st.exits[i][1] - Exec(i)'
        BY <1>2, <3>3 DEF Left
      <4> QED
        BY <2>2, <3>4, <4>1, <4>2 DEF Sells
    <3>6. \A j \in 1..3 \ {i} : Left(j)' = Left(j)
      <4> TAKE j \in 1..3 \ {i}
      <4>1. Exec(j)' = Exec(j)
        <5>1. <<j, st.rev>> # e
          BY <1>4
        <5> QED
          BY <1>2, <5>1 DEF Exec, Sells
      <4> QED
        BY <1>2, <4>1 DEF Left
    <3>7. \A j \in 1..3 : Left(j) \in Nat
      BY <1>3, <3>1, Counts
    <3>8. Left(1) + Left(2) + Left(3) <= pos.size
      BY <2>1, <3>1 DEF LeftFits
    <3> HIDE DEF Left
    <3>9. Left(1)' + Left(2)' + Left(3)' = Left(1) + Left(2) + Left(3) - 1
      BY <3>5, <3>6, <3>7
    <3> QED
      BY <3>7, <3>8, <3>9
  <2>5. OpenFits'
    <3>1. OpenAt(r) <= pos.size
      BY <1>4, <1>5, <2>1 DEF OpenFits
    <3>2. \A f \in Open(exit)' : f[2] = r
      BY <1>1, <1>3, <1>4, <1>5 DEF RevisionInv
    <3>3. OpenOf(i, r)' = OpenOf(i, r) - 1
      <4>1. OpenOf(i, r) = exit[e].qty - exit[e].exec
        BY <1>4, <1>5 DEF OpenOf
      <4>2. CASE exit'[e].status = "New"
        <5>1. OpenOf(i, r)' = exit'[e].qty - exit'[e].exec
          BY <1>4, <4>2 DEF OpenOf, Open, Sells
        <5> QED
          BY <2>2, <4>1, <5>1 DEF Sells
      <4>3. CASE exit'[e].status # "New"
        <5>1. OpenOf(i, r)' = 0
          BY <1>4, <4>3 DEF OpenOf, Open
        <5> QED
          BY <2>2, <4>1, <4>3, <5>1 DEF Sells
      <4> QED
        BY <4>2, <4>3
    <3>4. \A j \in 1..3 \ {i} : OpenOf(j, r)' = OpenOf(j, r)
      <4> TAKE j \in 1..3 \ {i}
      <4>1. <<j, r>> # e
        BY <1>4
      <4> QED
        BY <4>1 DEF OpenOf, Open, Sells
    <3>5. \A j \in 1..3 : OpenOf(j, r) \in Nat
      BY <1>3, Counts
    <3>6. OpenAt(r)' <= pos'.size
      <4> HIDE DEF OpenOf
      <4>1. OpenAt(r)' = OpenAt(r) - 1 /\ OpenAt(r) \in Nat
        BY <3>3, <3>4, <3>5 DEF OpenAt
      <4> QED
        BY <3>1, <4>1
    <3> QED
      BY <3>2, <3>6 DEF OpenFits
  <2> QED
    BY <2>3, <2>4, <2>5
<1> QED
  BY <1>1, <1>7 DEF FitInv, SizeInv

\* An exit fills, not between the two reads of one snapshot.
LEMMA ExitFillsFit ==
  ASSUME FitInv, ProtectionInv, ~Torn, NEW e \in DOMAIN exit, ExitFills(e)
  PROVE  FitInv'
<1> DEFINE status == IF exit[e].exec + 1 = exit[e].qty THEN "Filled" ELSE exit[e].status
           x == [exit EXCEPT ![e].exec = @ + 1,
                             ![e].status = IF exit[e].exec + 1 = exit[e].qty THEN "Filled" ELSE @]
           o == [exit[e] EXCEPT !.exec = @ + 1, !.status = status]
<1>1. /\ exit[e].status = "New" /\ pos.size > 0 /\ pc # "orders" /\ Shrink(1)
      /\ exit' = Closed(x, 1) /\ UNCHANGED <<row, pass, user, fired>>
  BY DEF ExitFills, At, counts
<1>2. pos.size \in Nat
  BY DEF ProtectionInv, CoverInv, ExchangeInv, PositionOK
<1>3. \A f \in DOMAIN exit : Placed(f, exit[f]) /\ exit[f].exec \in Nat
  BY DEF FitInv, ShapeInv, OrderInv, Placed, OrderOK
<1>4. x = [exit EXCEPT ![e] = o]
  OBVIOUS
<1>5. /\ Placed(e, o) /\ o.exec = exit[e].exec + 1 /\ o.qty = exit[e].qty
      /\ o.status = "New" \/ o.exec = o.qty
  <2>1. /\ exit[e].exec \in Nat /\ exit[e].qty \in Nat /\ exit[e].exec < exit[e].qty
        /\ DOMAIN exit[e] = {"qty", "price", "exec", "status"} /\ e \in (1..3) \X Nat
    BY <1>1, <1>3 DEF Placed, OrderOK
  <2>2. status \in {"New", "Filled"} /\ (status = "New" <=> exit[e].exec + 1 # exit[e].qty)
    BY <1>1
  <2> HIDE DEF status
  <2>3. /\ DOMAIN o = {"qty", "price", "exec", "status"} /\ o.exec = exit[e].exec + 1
        /\ o.qty = exit[e].qty /\ o.status = status
    BY <2>1
  <2> HIDE DEF o
  <2> QED
    BY <2>1, <2>2, <2>3 DEF Placed, OrderOK
<1> HIDE DEF x, o
<1>6. /\ DOMAIN x = DOMAIN exit /\ x[e] = o /\ \A f \in DOMAIN exit \ {e} : x[f] = exit[f]
  BY <1>4
<1>7. \A f \in DOMAIN exit : Placed(f, x[f]) /\ x[f].qty = exit[f].qty /\ x[f].exec >= exit[f].exec
  <2> TAKE f \in DOMAIN exit
  <2>1. CASE f = e
    BY <1>3, <1>5, <1>6, <2>1
  <2>2. CASE f # e
    BY <1>3, <1>6, <2>2
  <2> QED
    BY <2>1, <2>2
<1>8. CASE pos.size > 1
  <2>1. exit' = x /\ pos'.size = pos.size - 1
    <3>1. pos' = [pos EXCEPT !.size = pos.size - 1]
      BY <1>1, <1>2, <1>8 DEF Shrink
    <3>2. "size" \in DOMAIN pos
      BY DEF ProtectionInv, CoverInv, ExchangeInv, PositionOK
    <3> QED
      BY <1>1, <1>8, <3>1, <3>2 DEF Closed
  <2>2. Sells(e)
    BY <1>1, <1>5, <1>6, <2>1 DEF Sells
  <2>3. Shrinks
    <3>1. \A f \in DOMAIN exit : x[f].status = "New" => exit[f].status = "New"
      BY <1>1, <1>6
    <3> QED
      BY <1>6, <1>7, <2>1, <3>1 DEF Shrinks
  <2> QED
    BY <1>1, <1>2, <1>8, <2>1, <2>2, <2>3, Sold
<1>9. CASE ~(pos.size > 1)
  <2>1. pos' = Flat
    BY <1>1, <1>2, <1>9 DEF Shrink
  <2>2. Shrinks /\ Open(exit)' = {}
    BY <1>1, <1>6, <1>7, <1>9, AllCancelled DEF Closed
  <2>3. pos'.size = 0
    BY <2>1 DEF Flat
  <2> QED
    BY <1>1, <2>2, <2>3, Emptied
<1> QED
  BY <1>8, <1>9

\* What the exchange and the others do leaves the exits fitting.
LEMMA EnvironmentFits ==
  ASSUME FitInv, ProtectionInv, ProtectionInv', ~Torn, Environment
  PROVE  FitInv'
<1>1. pos.size \in Nat /\ pos'.size \in Nat /\ user \in Nat /\ "size" \in DOMAIN pos
  BY DEF ProtectionInv, CoverInv, ExchangeInv, PositionOK
<1>2. ASSUME NEW l \in Legs, EntryFills(l) PROVE FitInv'
  <2>1. /\ UNCHANGED <<row, pass, exit, user>> /\ fired' = (fired \/ pos.size = 0) /\ pos' = Filled(l)
    BY <1>2 DEF EntryFills
  <2>2. Plan.legs[l].qty \in Nat
    BY LegType
  <2>3. pos.size # 0 => pos'.size = pos.size + Plan.legs[l].qty
    BY <1>1, <2>1 DEF Filled
  <2>4. Calm' => Calm /\ pos.size # 0
    BY <2>1 DEF Calm
  <2> QED
    BY <1>1, <2>1, <2>2, <2>3, <2>4, Grows
<1>3. ASSUME NEW l \in Legs, PartialStopFires(l) PROVE FitInv'
  <2>1. UNCHANGED <<row, pass, exit>> /\ ~Calm'
    BY <1>3 DEF PartialStopFires, Calm
  <2> QED
    BY <1>1, <2>1, Grows
<1>4. ASSUME NEW e \in DOMAIN exit, ExitFills(e) PROVE FitInv'
  BY <1>4, ExitFillsFit
<1>5. \A e \in DOMAIN exit : Placed(e, exit[e]) /\ exit[e].exec \in Nat
  BY DEF FitInv, ShapeInv, OrderInv, Placed, OrderOK
<1>6. CASE StopFires
  <2>1. /\ UNCHANGED <<row, pass>> /\ exit' = Closed(exit, pos.size) /\ pos' = Flat
    BY <1>1, <1>6 DEF StopFires, Shrink
  <2>2. Shrinks /\ Open(exit)' = {}
    BY <1>1, <1>5, <2>1, AllCancelled DEF Closed
  <2>3. pos'.size = 0
    BY <2>1 DEF Flat
  <2> QED
    BY <2>1, <2>2, <2>3, Emptied
<1>7. CASE UserRemovesStop \/ UserSetsStop
  <2>1. UNCHANGED <<row, pass, exit>> /\ ~Calm'
    BY <1>1, <1>7 DEF UserRemovesStop, UserSetsStop, Calm
  <2> QED
    BY <1>1, <2>1, Grows
<1>8. CASE UserCancelsExit
  <2>1. UNCHANGED <<row, pass>> /\ ~Calm'
    BY <1>1, <1>8 DEF UserCancelsExit, Calm
  <2>2. PICK e \in DOMAIN exit : exit' = [exit EXCEPT ![e].status = "Cancelled"]
    BY <1>8 DEF UserCancelsExit, Open
  <2>3. Shrinks
    BY <1>5, <2>2 DEF Shrinks, Placed, OrderOK
  <2>4. ShapeInv'
    BY <2>1, <2>3, ShapeKept
  <2> QED
    BY <2>1, <2>4 DEF FitInv, SizeInv
<1>9. CASE Reduce \/ WithdrawUncertain
  <2>1. /\ pc = "idle" /\ pc' = "idle" /\ row.status \in Active
        /\ row' = [row EXCEPT !.frozen = TRUE, !.rebalance = TRUE]
        /\ UNCHANGED <<user, fired>>
    BY <1>9 DEF Reduce, WithdrawUncertain, At, pass
  <2>2. TypedRow(row) /\ PlannedRow(row) /\ LinkInv
    BY <2>1 DEF ProtectionInv, PassInv, RowInv, SoundRow, FitInv, ShapeInv, CopyInv
  <2>3. /\ row'.rev = row.rev /\ row'.exits = row.exits /\ row'.done = row.done
        /\ row'.installing = row.installing /\ row'.qty = row.qty
    BY <2>1, <2>2 DEF TypedRow
  <2>4. PlannedRow(row)'
    BY <2>2, <2>3 DEF PlannedRow, Wanted, LotsAt
  <2>5. Place' = "idle"
    BY <2>1 DEF Place, Reading
  <2>6. ListInv' /\ ReplaceInv' /\ ~Placing' /\ SizeKnown' /\ LeftFits'
    BY <2>1, <2>5 DEF ListInv, ReplaceInv, Placing, Replacing, Handing, SizeKnown, HasRead, LeftFits
  <2>7. CASE Reduce
    <3>1. Shrinks /\ Open(exit)' = {}
      <4>1. exit' = [e \in DOMAIN exit |-> IF exit[e].status = "New"
                                           THEN [exit[e] EXCEPT !.status = "Cancelled"] ELSE exit[e]]
        BY <2>7 DEF Reduce
      <4>2. \A e \in DOMAIN exit : Placed(e, exit[e]) /\ exit[e].exec >= exit[e].exec
        BY <1>5
      <4> QED
        BY <4>1, <4>2, AllCancelled
    <3>2. OrderInv' /\ LinkInv'
      BY <2>2, <2>3, <3>1 DEF OrderInv, LinkInv, Shrinks
    <3>3. CopyInv'
      BY <2>1, <2>4, <3>2 DEF CopyInv
    <3>4. RevisionInv' /\ OpenFits'
      BY <2>6, <3>1 DEF RevisionInv, OpenFits
    <3> QED
      BY <2>6, <3>2, <3>3, <3>4 DEF FitInv, ShapeInv, SizeInv
  <2>8. CASE WithdrawUncertain
    <3>1. Still
      BY <2>8 DEF WithdrawUncertain, Still, exchange
    <3>2. /\ OrderInv' /\ (\A e, f \in Open(exit) : e[2] = f[2])'
          /\ Calm' => Calm /\ OpenFits'
      BY <3>1, StillKeeps
    <3>3. LinkInv'
      BY <2>2, <2>3, <3>1 DEF LinkInv, Still
    <3>4. CopyInv'
      BY <2>1, <2>4, <3>3 DEF CopyInv
    <3> QED
      BY <2>6, <3>2, <3>4 DEF FitInv, ShapeInv, RevisionInv, SizeInv
  <2> QED
    BY <1>9, <2>7, <2>8
<1> QED
  BY <1>2, <1>3, <1>4, <1>6, <1>7, <1>8, <1>9 DEF Environment

\* A pass that ends without a save, or is interrupted.
LEMMA EndFits ==
  ASSUME FitInv, pc # "idle", EndPass \/ PassFails
  PROVE  FitInv'
<1>1. Still /\ pc' = "idle" /\ UNCHANGED row
  BY DEF EndPass, PassFails, Release, exchange, counts, Still
<1>2. PlannedRow(row)
  BY DEF FitInv, ShapeInv, CopyInv
<1>3. PlannedRow(row') /\ RowKept
  BY <1>1, <1>2 DEF RowKept
<1> QED
  BY <1>1, <1>3, Ended

\* A pass that ends with a save.
LEMMA SaveFits ==
  ASSUME FitInv, pc # "idle", NEW r, Save(r),
         r.status \in Active => PlannedRow(r) /\ r.rev = row.rev /\ r.exits = row.exits
  PROVE  FitInv'
<1>1. Still /\ pc' = "idle" /\ row' = r
  BY DEF Save, Release, exchange, counts, Still
<1> QED
  BY <1>1, Ended DEF RowKept

\* A pass that hands the strategy to a person.
LEMMA OverrideFits ==
  ASSUME FitInv, pc # "idle", NEW r, TypedRow(r), Override(r)
  PROVE  FitInv'
<1> DEFINE s == [r EXCEPT !.status = "MANUAL_OVERRIDE"]
<1>1. s.status \notin Active
  BY DEF TypedRow, Active
<1>2. Save(s)
  BY DEF Override
<1> HIDE DEF s
<1> QED
  BY <1>1, <1>2, SaveFits

\* A pass starts.
LEMMA StartFits == ASSUME FitInv, StartPass PROVE FitInv'
<1>1. /\ pc = "idle" /\ row.status \in Active /\ st' = row /\ pc' = "positions" /\ then' = "decide"
      /\ UNCHANGED row /\ Still
  BY DEF StartPass, At, Read, exchange, counts, Still
<1>2. /\ OrderInv' /\ (\A e, f \in Open(exit) : e[2] = f[2])'
      /\ Calm' => Calm /\ OpenFits'
  BY <1>1, StillKeeps
<1>3. Place' = "decide"
  BY <1>1 DEF Place, Reading
<1>4. PlannedRow(row) /\ LinkInv
  BY <1>1 DEF FitInv, ShapeInv, CopyInv
<1>5. PlannedRow(row)' /\ PlannedRow(st)' /\ LinkInv'
  BY <1>1, <1>4 DEF PlannedRow, Wanted, LotsAt, LinkInv, Still
<1>6. ~Managing' /\ ~Placing'
  BY <1>3 DEF Managing, Placing, Handing
<1>7. CopyInv'
  BY <1>1, <1>5, <1>6 DEF CopyInv
<1>8. ListInv' /\ ReplaceInv'
  BY <1>1, <1>3 DEF ListInv, ReplaceInv, Replacing
<1>9. SizeKnown' /\ LeftFits'
  BY <1>1, <1>6 DEF SizeKnown, HasRead, LeftFits
<1> QED
  BY <1>2, <1>6, <1>7, <1>8, <1>9 DEF FitInv, ShapeInv, RevisionInv, SizeInv

\* The two reads of a snapshot.
LEMMA ReadFits == ASSUME FitInv, ProtectionInv, ReadPositions \/ ReadOrders PROVE FitInv'
<1>1. /\ UNCHANGED <<row, st, acct, goal>> /\ Still /\ Reading /\ Place' = Place
  <2>1. CASE ReadPositions
    BY <2>1 DEF ReadPositions, At, exchange, counts, Still, Place, Reading
  <2>2. CASE ReadOrders
    <3>1. pc = "orders" /\ pc' = then /\ then \in ReadPlaces
      BY <2>2 DEF ReadOrders, At, ProtectionInv, PassInv, PlaceInv, Reading
    <3>2. then \notin {"positions", "orders"}
      BY <3>1 DEF ReadPlaces
    <3>3. /\ UNCHANGED <<row, st, acct, goal>> /\ Still
      BY <2>2 DEF ReadOrders, exchange, counts, Still
    <3> QED
      BY <3>1, <3>2, <3>3 DEF Place, Reading
  <2> QED
    BY <2>1, <2>2
<1>2. /\ OrderInv' /\ (\A e, f \in Open(exit) : e[2] = f[2])'
      /\ Calm' => Calm /\ OpenFits'
  BY <1>1, StillKeeps
<1>3. UNCHANGED exit /\ Open(exit)' = Open(exit) /\ pos'.size = pos.size /\ pos.size \in Nat
  BY <1>1 DEF Still, Open, ProtectionInv, CoverInv, ExchangeInv, PositionOK
<1>4. OrderInv /\ CopyInv /\ ReplaceInv /\ RevisionInv
  BY DEF FitInv, ShapeInv
<1>5. pc # "idle" /\ pc' # "idle"
  <2>1. pc # "idle"
    BY <1>1 DEF Reading
  <2>2. CASE ReadPositions
    BY <2>1, <2>2 DEF ReadPositions
  <2>3. CASE ReadOrders
    <3>1. pc' = then /\ then \in ReadPlaces
      BY <2>3 DEF ReadOrders, At, ProtectionInv, PassInv, PlaceInv, Reading
    <3> QED
      BY <2>1, <3>1 DEF ReadPlaces
  <2> QED
    BY <2>1, <2>2, <2>3
<1>6. CopyInv'
  <2>1. LinkInv => LinkInv'
    BY <1>1, <1>3 DEF LinkInv
  <2>2. PlannedRow(row)' = PlannedRow(row) /\ PlannedRow(st)' = PlannedRow(st)
    BY <1>1
  <2>3. Managing' = Managing
    BY <1>1 DEF Managing
  <2> QED
    BY <1>1, <1>4, <1>5, <2>1, <2>2, <2>3 DEF CopyInv
<1>7. Placing' = Placing /\ Left(1)' = Left(1) /\ Left(2)' = Left(2) /\ Left(3)' = Left(3)
  BY <1>1, <1>3 DEF Placing, Left, Exec
<1>8. RevisionInv'
  BY <1>1, <1>2, <1>3, <1>4, <1>7 DEF RevisionInv
<1>9. Calm' => LeftFits'
  BY <1>2, <1>3, <1>7 DEF FitInv, SizeInv, LeftFits
<1>10. CASE ReadPositions
  <2>1. /\ pc' = "orders" /\ snap'.pos = pos
    BY <1>10 DEF ReadPositions
  <2>2. ListInv' /\ ReplaceInv'
    BY <1>1, <1>3, <1>4, <2>1 DEF ListInv, ReplaceInv, Wanted, LotsAt
  <2>3. SizeKnown'
    BY <1>3, <2>1 DEF SizeKnown, HasRead
  <2> QED
    BY <1>2, <1>6, <1>8, <1>9, <2>2, <2>3 DEF FitInv, ShapeInv, SizeInv
<1>11. CASE ReadOrders
  <2>1. /\ pc = "orders" /\ pc' = then /\ then \in ReadPlaces
        /\ snap'.pos = snap.pos /\ snap'.exits = [e \in Open(exit) |-> exit[e].exec]
    BY <1>11 DEF ReadOrders, At, ProtectionInv, PassInv, PlaceInv, Reading
  <2>2. DOMAIN snap'.exits = Open(exit) /\ \A e \in Open(exit) : snap'.exits[e] = exit[e].exec
    BY <2>1
  <2>3. pc' \notin {"positions", "orders", "place", "protect", "stale"} /\ Place = pc'
    BY <2>1 DEF ReadPlaces, Place, Reading
  <2>4. \A e \in Open(exit) : e \in DOMAIN exit /\ exit[e].exec \in Nat
    BY <1>4 DEF Open, OrderInv, Placed, OrderOK
  <2>5. ListInv'
    BY <1>3, <2>2, <2>3, <2>4 DEF ListInv
  <2>6. ReplaceInv'
    <3>1. pc' \in {"replaced", "match"} => DOMAIN snap'.exits \subseteq DOMAIN acct'.exits
      BY <1>1, <1>4, <2>2, <2>3 DEF ReplaceInv, Replacing
    <3> QED
      BY <1>1, <1>3, <1>4, <2>3, <3>1 DEF ReplaceInv, Wanted, LotsAt
  <2>7. Calm' => SizeKnown'
    <3>1. Since' = 0
      <4>1. \A i \in 1..3 : SinceOf(i)' = 0
        BY <1>1, <1>3, <2>2, <2>4 DEF SinceOf
      <4> QED
        BY <4>1 DEF Since
    <3>2. ASSUME Calm', pos.size > 0 PROVE pos.size >= snap.pos.size
      BY <1>2, <2>1, <3>2 DEF FitInv, SizeInv, SizeKnown
    <3>3. snap.pos.size \in Nat
      BY <2>1 DEF ProtectionInv, PassInv, SnapInv, PositionOK
    <3> QED
      BY <1>3, <2>1, <2>3, <3>1, <3>2, <3>3 DEF SizeKnown
  <2> QED
    BY <1>2, <1>6, <1>8, <1>9, <2>5, <2>6, <2>7 DEF FitInv, ShapeInv, SizeInv
<1> QED
  BY <1>10, <1>11

\* A column without a value is no plan of exits.
NullIsNoPlan == \A qty, avg, done : PlannedExits(Plan, qty, avg, done) # [exits |-> None]

\* An installation starts, with new exits under a new revision or with those
\* that the interrupted one saved.
Renewed(s, qty) == /\ ~s.installing /\ s.rev = row.rev + 1 /\ s.done \subseteq 1..3
                   /\ qty = snap.pos.size
Resumed(s, qty) == s = st /\ st.installing /\ qty = st.qty
\* Either way they fit the size they are sized for.
LEMMA BeginFits ==
  ASSUME FitInv, ProtectionInv, NullIsNoPlan, HasRead,
         NEW s, NEW from, NEW trail, NEW qty, NEW avg, BeginInstall(s, from, trail, qty, avg),
         TypedRow(s), s.status \in Active, Renewed(s, qty) \/ Resumed(s, qty)
  PROVE  FitInv'
<1> DEFINE legs == IF s.installing /\ s.exits # None THEN [exits |-> s.exits]
                   ELSE PlannedExits(Plan, qty, avg, s.done)
           x == legs.exits
<1>1. pc # "idle" /\ pc \notin {"idle", "positions", "orders", "place"}
  BY DEF HasRead
<1>2. CASE EndPass
  BY <1>1, <1>2, EndFits
<1>3. SUFFICES ASSUME ~EndPass PROVE FitInv'
  BY <1>2
<1>4. PICK stop, dist :
        /\ ~Refused(legs) /\ st' = [s EXCEPT !.exits = x]
        /\ row' = [s EXCEPT !.exits = x, !.installing = TRUE, !.prot = stop,
                            !.trail = trail \/ s.trail, !.dist = dist, !.qty = qty, !.avg = avg]
        /\ goal' = [from |-> from, stop |-> stop, dist |-> dist, trail |-> trail,
                    qty |-> qty, avg |-> avg, cancelled |-> {}, placed |-> {}, ids |-> {},
                    first |-> TRUE]
        /\ acct' = snap /\ pc' = "protect" /\ UNCHANGED <<snap, exchange, counts>>
  BY <1>3 DEF BeginInstall, Goto
<1> HIDE DEF legs, x
<1>5. /\ st'.exits = x /\ st'.rev = s.rev /\ st'.status = s.status /\ st'.installing = s.installing
      /\ st'.done = s.done /\ st'.qty = s.qty
      /\ row'.exits = x /\ row'.rev = s.rev /\ row'.status = s.status /\ row'.installing = TRUE
      /\ row'.done = s.done /\ row'.qty = qty
  <2> DEFINE carried == trail \/ s.trail
  <2>1. row' = [s EXCEPT !.exits = x, !.installing = TRUE, !.prot = stop,
                         !.trail = carried, !.dist = dist, !.qty = qty, !.avg = avg]
    BY <1>4
  <2> HIDE DEF carried
  <2> QED
    BY <1>4, <2>1 DEF TypedRow
<1>6. Still
  BY <1>4 DEF Still, exchange, counts
<1>7. Place' = "protect" /\ ~Managing' /\ ~Placing'
  BY <1>4 DEF Place, Reading, Managing, Placing, Handing
<1>8. /\ DOMAIN snap.exits \subseteq DOMAIN exit /\ Open(exit) \subseteq DOMAIN snap.exits
      /\ \A e \in DOMAIN snap.exits : snap.exits[e] \in Nat /\ snap.exits[e] <= exit[e].exec
      /\ UNCHANGED exit /\ Open(exit)' = Open(exit)
  BY <1>1, <1>6 DEF FitInv, ShapeInv, ListInv, Still, Open
<1>9. row.status \in Active /\ LinkInv /\ PlannedRow(st) /\ st.rev = row.rev /\ st.exits = row.exits
  BY <1>1 DEF FitInv, ShapeInv, CopyInv
<1>10. CASE Resumed(s, qty)
  <2>1. s = st /\ s.installing /\ qty = st.qty /\ s.exits # None
    BY <1>9, <1>10 DEF Resumed, PlannedRow
  <2>2. x = st.exits
    BY <2>1 DEF x, legs
  <2>3. PlannedRow(row') /\ PlannedRow(st')
    BY <1>5, <1>9, <2>1, <2>2 DEF PlannedRow
  <2>4. Copied
    BY <1>5, <1>7, <1>9, <2>1, <2>2, <2>3 DEF Copied, RowKept
  <2>5. Stays
    BY <1>1, <1>4 DEF Stays
  <2>6. ReplaceInv'
    <3>1. st'.exits # None /\ goal'.qty \in Nat /\ Wanted(st'.exits) <= goal'.qty
      BY <1>4, <1>5, <1>9, <2>1, <2>2 DEF PlannedRow
    <3> QED
      BY <1>4, <1>5, <1>7, <1>8, <2>1, <3>1 DEF ReplaceInv, Replacing, Wanted, LotsAt
  <2> QED
    BY <1>1, <1>6, <1>7, <2>4, <2>5, <2>6, Moved DEF LeftFits
<1>11. CASE Renewed(s, qty)
  <2>1. /\ ~s.installing /\ s.rev = row.rev + 1 /\ s.done \in SUBSET (1..3) /\ qty = snap.pos.size
        /\ row.rev \in Nat /\ qty \in Nat
    BY <1>1, <1>11 DEF Renewed, ProtectionInv, PassInv, RowInv, SnapInv, SoundRow, TypedRow, PositionOK
  <2>2. legs = PlannedExits(Plan, qty, avg, s.done)
    BY <2>1 DEF legs
  <2>3. /\ DOMAIN x \subseteq 1..3 /\ \A i \in DOMAIN x : x[i][1] \in Nat \ {0}
        /\ Wanted(x) <= qty
    BY <1>4, <2>1, <2>2, PlannedFit DEF x
  <2>4. x # None
    <3>1. legs = [exits |-> x]
      BY <1>4, <2>2 DEF PlannedExits, Refused, Refusal, x
    <3> QED
      BY <2>2, <3>1 DEF NullIsNoPlan
  <2>5. PlannedRow(row)' /\ PlannedRow(st)'
    BY <1>5, <2>1, <2>3, <2>4 DEF PlannedRow, Wanted, LotsAt
  <2>6. \A e \in DOMAIN exit : e[2] \in Nat /\ e[2] <= row.rev /\ e[2] # s.rev /\ e[2] <= s.rev
    <3>1. \A e \in DOMAIN exit : e[2] \in Nat
      BY DEF FitInv, ShapeInv, OrderInv, Placed
    <3> QED
      BY <1>9, <2>1, <3>1 DEF LinkInv
  <2>7. LinkInv'
    BY <1>5, <1>8, <2>6 DEF LinkInv
  <2>8. /\ OrderInv' /\ (\A e, f \in Open(exit) : e[2] = f[2])'
        /\ Calm' => Calm /\ OpenFits'
    BY <1>6, StillKeeps
  <2>9. CopyInv'
    BY <1>4, <1>5, <1>7, <2>5, <2>7 DEF CopyInv
  <2>10. ListInv'
    BY <1>4, <1>8 DEF ListInv
  <2>11. ReplaceInv'
    <3>1. st'.exits # None /\ goal'.qty \in Nat /\ Wanted(st.exits)' <= goal'.qty
      BY <1>4, <1>5, <2>1, <2>3, <2>4 DEF Wanted, LotsAt
    <3>2. (\A e \in DOMAIN exit : e[2] # st.rev)'
      BY <1>5, <1>8, <2>6
    <3> QED
      BY <1>4, <1>7, <1>8, <2>1, <3>1, <3>2 DEF ReplaceInv, Replacing
  <2>12. RevisionInv'
    BY <1>7, <2>8 DEF RevisionInv
  <2>13. ASSUME Calm' PROVE SizeKnown'
    <3>1. SUFFICES ASSUME pos'.size > 0, \A e \in DOMAIN snap.exits : e[2] = s.rev
                   PROVE  pos'.size + Since' >= snap.pos.size
      BY <1>4, <1>5 DEF SizeKnown
    <3>2. DOMAIN snap.exits = {}
      BY <1>8, <2>6, <3>1
    <3>3. Since = 0 /\ Since' = 0
      BY <1>4, <3>2 DEF Since, SinceOf
    <3>4. pos'.size = pos.size /\ pos.size + Since >= snap.pos.size
      BY <1>6, <2>8, <2>13, <3>1, <3>2 DEF FitInv, SizeInv, SizeKnown, Still
    <3> QED
      BY <3>3, <3>4
  <2> QED
    BY <1>7, <2>8, <2>9, <2>10, <2>11, <2>12, <2>13 DEF FitInv, ShapeInv, SizeInv, LeftFits
<1> QED
  BY <1>10, <1>11

\* A pass that leaves the row and its copy alone.
LEMMA CopyKept ==
  ASSUME FitInv, pc # "idle", UNCHANGED <<row, st>>, Managing' => ~st.installing
  PROVE  Copied
  BY DEF FitInv, ShapeInv, CopyInv, Copied, RowKept

\* A request for a stop leaves the size alone.
LEMMA SetProtectionStill ==
  ASSUME ProtectionInv, NEW stop, NEW dist, SetProtection(stop, dist)
  PROVE  Still
<1>1. DOMAIN pos = {"size", "avg", "stop", "trail"}
  BY DEF ProtectionInv, CoverInv, ExchangeInv, PositionOK
<1>2. CASE /\ pos' = [pos EXCEPT !.stop = stop, !.trail = IF dist = None THEN @ ELSE dist]
           /\ UNCHANGED <<entry, partial, exit, counts>>
  <2> DEFINE d == IF dist = None THEN pos.trail ELSE dist
  <2>1. pos' = [pos EXCEPT !.stop = stop, !.trail = d]
    BY <1>1, <1>2
  <2> HIDE DEF d
  <2> QED
    BY <1>1, <1>2, <2>1 DEF Still, counts
<1>3. CASE UNCHANGED <<exchange, user, acts, fired>>
  BY <1>3 DEF Still, exchange
<1> QED
  BY <1>2, <1>3 DEF SetProtection

\* The protection of an installation is asked for, or refused.
LEMMA ApplyFits ==
  ASSUME FitInv, ProtectionInv, ApplyProtection \/ ProtectionRefused
  PROVE  FitInv'
<1>1. pc = "protect"
  BY DEF ApplyProtection, ProtectionRefused, At
<1>2. CASE ProtectionRefused
  BY <1>1, <1>2, EndFits DEF ProtectionRefused
<1>3. CASE ApplyProtection
  <2>1. pc' = "stale" /\ UNCHANGED <<row, st, acct, goal, snap>>
    BY <1>3 DEF ApplyProtection, Goto
  <2>2. Still
    <3>1. CASE UNCHANGED <<exchange, counts>>
      BY <3>1 DEF Still, exchange, counts
    <3> QED
      BY <1>3, <3>1, SetProtectionStill DEF ApplyProtection
  <2>3. Place = "protect" /\ Place' = "stale" /\ ~Managing' /\ ~Placing'
    BY <1>1, <2>1 DEF Place, Reading, Managing, Placing, Handing
  <2>4. Copied /\ Stays
    BY <1>1, <2>1, <2>3, CopyKept DEF Stays, HasRead
  <2>5. UNCHANGED exit /\ Open(exit)' = Open(exit)
    BY <2>2 DEF Still, Open
  <2>6. ReplaceInv'
    BY <1>1, <2>1, <2>3, <2>5 DEF FitInv, ShapeInv, ReplaceInv, Replacing, Wanted, LotsAt
  <2> QED
    BY <1>1, <2>2, <2>3, <2>4, <2>6, Moved DEF LeftFits
<1> QED
  BY <1>2, <1>3

\* An exit of an older revision is cancelled.
LEMMA CancelFits == ASSUME FitInv, ProtectionInv, CancelStaleExit PROVE FitInv'
<1>1. pc = "stale"
  BY DEF CancelStaleExit, At
<1>2. CASE EndPass
  BY <1>1, <1>2, EndFits
<1>3. SUFFICES ASSUME ~EndPass PROVE FitInv'
  BY <1>2
<1>4. PICK e \in Stale :
        /\ exit[e].status = "New"
        /\ (exit' = [exit EXCEPT ![e].status = "Cancelled"]) \/ UNCHANGED exit
        /\ goal' = [goal EXCEPT !.cancelled = @ \cup {e}]
        /\ UNCHANGED <<user, fired, row, pos, st, loaded, pc, then, snap, acct, k>>
  BY <1>3 DEF CancelStaleExit, counts
<1>5. /\ ShapeInv /\ OrderInv /\ CopyInv /\ ListInv /\ ReplaceInv /\ RevisionInv
  BY DEF FitInv, ShapeInv
<1>6. goal'.qty = goal.qty /\ goal'.from = goal.from
  BY <1>4
<1>7. Place = "stale" /\ Place' = "stale" /\ ~Placing' /\ ~Managing'
  BY <1>1, <1>4 DEF Place, Reading, Placing, Managing, Handing
<1>8. \A f \in DOMAIN exit : Placed(f, exit[f]) /\ exit[f].exec \in Nat
                             /\ DOMAIN exit[f] = {"qty", "price", "exec", "status"}
  BY <1>5 DEF OrderInv, Placed, OrderOK
<1>9. /\ DOMAIN exit' = DOMAIN exit
      /\ \A f \in DOMAIN exit :
           /\ Placed(f, exit'[f]) /\ exit'[f].qty = exit[f].qty /\ exit'[f].exec = exit[f].exec
           /\ exit'[f].status = "New" => exit[f].status = "New"
  <2>1. CASE exit' = [exit EXCEPT ![e].status = "Cancelled"]
    <3>1. ASSUME NEW f \in DOMAIN exit
          PROVE  /\ Placed(f, exit'[f]) /\ exit'[f].qty = exit[f].qty /\ exit'[f].exec = exit[f].exec
                 /\ exit'[f].status = "New" => exit[f].status = "New"
      <4>1. CASE f = e
        <5>1. exit'[f] = [exit[f] EXCEPT !.status = "Cancelled"]
          BY <2>1, <4>1
        <5>2. /\ DOMAIN exit'[f] = DOMAIN exit[f] /\ exit'[f].qty = exit[f].qty
              /\ exit'[f].exec = exit[f].exec /\ exit'[f].status = "Cancelled"
          BY <1>8, <5>1
        <5> QED
          BY <1>8, <5>2 DEF Placed, OrderOK
      <4>2. CASE f # e
        BY <1>8, <2>1, <4>2
      <4> QED
        BY <4>1, <4>2
    <3> QED
      BY <2>1, <3>1
  <2> QED
    BY <1>4, <1>8, <2>1
<1>10. Open(exit)' \subseteq Open(exit)
  BY <1>9 DEF Open
<1>11. OrderInv' /\ (LinkInv => LinkInv')
  BY <1>4, <1>9 DEF OrderInv, LinkInv
<1>12. CopyInv'
  <2>1. PlannedRow(row)' = PlannedRow(row) /\ PlannedRow(st)' = PlannedRow(st)
    BY <1>4
  <2> QED
    BY <1>4, <1>5, <1>7, <1>11, <2>1 DEF CopyInv
<1>13. ListInv'
  BY <1>1, <1>4, <1>5, <1>9, <1>10 DEF ListInv
<1>14. ReplaceInv'
  BY <1>1, <1>4, <1>5, <1>6, <1>7, <1>9, <1>10 DEF ReplaceInv, Wanted, LotsAt
<1>15. RevisionInv'
  BY <1>5, <1>7, <1>10 DEF RevisionInv
<1>16. ASSUME Calm' PROVE SizeKnown' /\ LeftFits' /\ OpenFits'
  <2>1. SizeKnown /\ OpenFits
    BY <1>4, <1>16 DEF FitInv, SizeInv, Calm
  <2>2. SizeKnown'
    <3>1. Since' = Since
      <4>1. \A f \in DOMAIN snap.exits : exit'[f].exec = exit[f].exec
        BY <1>1, <1>5, <1>9 DEF ListInv
      <4> QED
        BY <1>4, <4>1 DEF Since, SinceOf
    <3> QED
      BY <1>4, <2>1, <3>1 DEF SizeKnown, HasRead
  <2>3. OpenFits'
    <3>1. \A i, r : OpenOf(i, r) \in Nat
      BY <1>5, Counts
    <3>2. \A i, r : OpenOf(i, r)' \in {OpenOf(i, r), 0}
      BY <1>9, <1>10 DEF OpenOf, Open
    <3>3. \A r : OpenAt(r) \in Nat /\ OpenAt(r)' \in Nat /\ OpenAt(r)' <= OpenAt(r)
      <4> TAKE r
      <4> HIDE DEF OpenOf
      <4>1. \A i \in 1..3 : OpenOf(i, r) \in Nat /\ OpenOf(i, r)' \in Nat /\ OpenOf(i, r)' <= OpenOf(i, r)
        BY <3>1, <3>2
      <4> QED
        BY <4>1 DEF OpenAt
    <3>4. pos'.size = pos.size /\ pos.size \in Nat
      BY <1>4 DEF ProtectionInv, CoverInv, ExchangeInv, PositionOK
    <3>5. ASSUME NEW f \in Open(exit)' PROVE OpenAt(f[2])' <= pos'.size
      <4>1. OpenAt(f[2]) <= pos.size
        BY <1>10, <2>1 DEF OpenFits
      <4>2. OpenAt(f[2]) \in Nat /\ OpenAt(f[2])' \in Nat /\ OpenAt(f[2])' <= OpenAt(f[2])
        BY <3>3
      <4> HIDE DEF OpenAt
      <4> QED
        BY <3>4, <4>1, <4>2
    <3> QED
      BY <3>5 DEF OpenFits
  <2> QED
    BY <1>7, <2>2, <2>3 DEF LeftFits
<1> QED
  BY <1>11, <1>12, <1>13, <1>14, <1>15, <1>16 DEF FitInv, ShapeInv, SizeInv

\* The lots an installation still places, as what it wants less what was sold.
SoldOf(i) == IF i \in DOMAIN st.exits THEN Exec(i) ELSE 0
\* Nothing is sold of an exit that was not placed.
LEMMA LeftSum ==
  ASSUME FitInv, HasRead, st.exits # None
  PROVE  /\ \A i \in 1..3 : /\ LotsAt(st.exits, i) \in Nat /\ SoldOf(i) \in Nat
                            /\ Left(i) = LotsAt(st.exits, i) - SoldOf(i)
                            /\ SinceOf(i) \in Nat /\ SinceOf(i) <= SoldOf(i)
         /\ Left(1) + Left(2) + Left(3)
              = Wanted(st.exits) - (SoldOf(1) + SoldOf(2) + SoldOf(3))
         /\ Wanted(st.exits) \in Nat
<1>1. ShapeInv /\ pc # "idle"
  BY DEF FitInv, HasRead
<1>2. PlannedRow(st) /\ LinkInv /\ st.rev = row.rev /\ st.exits = row.exits /\ ListInv
  BY <1>1 DEF ShapeInv, CopyInv
<1>3. ASSUME NEW i \in 1..3
      PROVE  /\ LotsAt(st.exits, i) \in Nat /\ SoldOf(i) \in Nat
             /\ Left(i) = LotsAt(st.exits, i) - SoldOf(i)
             /\ SinceOf(i) \in Nat /\ SinceOf(i) <= SoldOf(i)
  <2>1. LotsAt(st.exits, i) \in Nat
    BY <1>2 DEF LotsAt, PlannedRow
  <2>2. Exec(i) \in Nat
    BY <1>1, Counts DEF Exec
  <2>3. Left(i) = LotsAt(st.exits, i) - SoldOf(i)
    BY DEF Left, LotsAt, SoldOf
  <2>4. SinceOf(i) \in Nat
    BY <1>1, Counts
  <2>5. SinceOf(i) <= SoldOf(i)
    <3>1. CASE <<i, st.rev>> \in DOMAIN snap.exits
      <4>1. <<i, st.rev>> \in DOMAIN exit /\ snap.exits[<<i, st.rev>>] \in Nat
        BY <1>2, <3>1 DEF ListInv, HasRead
      <4>2. i \in DOMAIN st.exits
        BY <1>2, <4>1 DEF LinkInv
      <4>3. SoldOf(i) = exit[<<i, st.rev>>].exec
        BY <4>1, <4>2 DEF SoldOf, Exec
      <4>4. SinceOf(i) = exit[<<i, st.rev>>].exec - snap.exits[<<i, st.rev>>]
        BY <3>1 DEF SinceOf
      <4>5. exit[<<i, st.rev>>].exec \in Nat
        BY <1>1, <4>1, Counts
      <4> QED
        BY <4>1, <4>3, <4>4, <4>5
    <3>2. CASE <<i, st.rev>> \notin DOMAIN snap.exits
      BY <2>2, <3>2 DEF SinceOf, SoldOf
    <3> QED
      BY <3>1, <3>2
  <2> QED
    BY <2>1, <2>2, <2>3, <2>4, <2>5 DEF SoldOf
<1>4. /\ Left(1) + Left(2) + Left(3) = Wanted(st.exits) - (SoldOf(1) + SoldOf(2) + SoldOf(3))
      /\ Wanted(st.exits) \in Nat
  <2> HIDE DEF Left, SoldOf, LotsAt
  <2> QED
    BY <1>3 DEF Wanted
<1> QED
  BY <1>3, <1>4

\* The old exits are gone: from here on this revision's are placed.
LEMMA NowPlacing ==
  ASSUME FitInv, ProtectionInv, HasRead, pc \in Replacing, Read("confirm"),
         UNCHANGED <<row, exchange, st, goal, counts>>, st.exits # None,
         \A e \in Open(exit) : e[2] = st.rev,
         Calm /\ pos.size > 0 => Left(1) + Left(2) + Left(3) <= pos.size
  PROVE  FitInv'
<1>1. pc' = "positions" /\ then' = "confirm" /\ pc # "idle" /\ Still
  BY DEF Read, HasRead, Still, exchange, counts
<1>2. Place' = "confirm"
  BY <1>1 DEF Place, Reading
<1>3. ~Managing'
  BY <1>2 DEF Managing, Handing
<1>4. Copied /\ Reads
  BY <1>1, <1>3, CopyKept DEF Reads
<1>5. ReplaceInv'
  BY <1>1, <1>2 DEF ReplaceInv, Replacing
<1>6. UNCHANGED exit /\ Open(exit)' = Open(exit) /\ pos'.size = pos.size
  BY <1>1 DEF Still, Open
<1>7. Left(1)' = Left(1) /\ Left(2)' = Left(2) /\ Left(3)' = Left(3)
  BY <1>6 DEF Left, Exec
<1>8. Calm => LeftFits'
  BY <1>6, <1>7 DEF LeftFits
<1> QED
  BY <1>1, <1>4, <1>5, <1>6, <1>8, Moved

\* The cancellations are done.
LEMMA CancelledFits == ASSUME FitInv, ProtectionInv, StaleExitsCancelled PROVE FitInv'
<1> DEFINE to == IF goal.cancelled # {} \/ st.installing THEN "replaced" ELSE "confirm"
<1>1. /\ pc = "stale" /\ Stale = {} /\ Read(to)
      /\ UNCHANGED <<row, exchange, st, loaded, acct, goal, k, counts>>
  BY DEF StaleExitsCancelled, At
<1>2. pc # "idle" /\ HasRead /\ Still /\ Place = "stale" /\ pc \in Replacing
  BY <1>1 DEF HasRead, Still, exchange, counts, Place, Reading, Replacing
<1>3. ReplaceInv /\ CopyInv
  BY DEF FitInv, ShapeInv
<1>4. /\ st.exits # None /\ goal.qty \in Nat /\ Wanted(st.exits) <= goal.qty
      /\ DOMAIN acct.exits \subseteq DOMAIN exit /\ Open(exit) \subseteq DOMAIN acct.exits
      /\ ~st.installing => \A e \in DOMAIN exit : e[2] # st.rev
      /\ snap = acct /\ (~st.installing => snap.pos.size = goal.qty)
  BY <1>1, <1>2, <1>3 DEF ReplaceInv, Replacing
<1>5. \A e \in DOMAIN acct.exits : e[2] = st.rev \/ e \in goal.cancelled
  BY <1>1 DEF Stale
<1>6. CASE to = "replaced"
  <2>1. pc' = "positions" /\ Place' = "replaced"
    BY <1>1, <1>6 DEF Read, Place, Reading
  <2>2. ~Managing' /\ ~Placing'
    BY <2>1 DEF Managing, Placing, Handing
  <2>3. Copied /\ Reads
    BY <1>1, <1>2, <2>1, <2>2, CopyKept DEF Reads
  <2>4. UNCHANGED exit /\ Open(exit)' = Open(exit)
    BY <1>2 DEF Still, Open
  <2>5. ReplaceInv'
    BY <1>1, <1>4, <1>5, <2>1, <2>4 DEF ReplaceInv, Wanted, LotsAt
  <2> QED
    BY <1>2, <2>2, <2>3, <2>5, Moved DEF LeftFits
<1>7. CASE to # "replaced"
  <2>1. goal.cancelled = {} /\ ~st.installing /\ Read("confirm")
    BY <1>1, <1>7
  <2>2. DOMAIN acct.exits = {} /\ Open(exit) = {}
    BY <1>4, <1>5, <2>1
  <2>3. ASSUME Calm, pos.size > 0 PROVE Left(1) + Left(2) + Left(3) <= pos.size
    <3>1. Since = 0
      BY <1>4, <2>2 DEF Since, SinceOf
    <3>2. pos.size + Since >= snap.pos.size
      BY <1>2, <1>4, <2>2, <2>3 DEF FitInv, SizeInv, SizeKnown
    <3>3. pos.size \in Nat
      BY DEF ProtectionInv, CoverInv, ExchangeInv, PositionOK
    <3>4. /\ Left(1) + Left(2) + Left(3) = Wanted(st.exits) - (SoldOf(1) + SoldOf(2) + SoldOf(3))
          /\ Wanted(st.exits) \in Nat /\ SoldOf(1) \in Nat /\ SoldOf(2) \in Nat /\ SoldOf(3) \in Nat
      BY <1>2, <1>4, LeftSum
    <3>5. Wanted(st.exits) <= pos.size
      <4>1. goal.qty = snap.pos.size /\ pos.size + 0 >= snap.pos.size
        BY <1>4, <2>1, <3>1, <3>2
      <4> QED
        BY <1>4, <3>3, <3>4, <4>1
    <3> QED
      BY <3>3, <3>4, <3>5
  <2> QED
    BY <1>1, <1>2, <1>4, <2>1, <2>2, <2>3, NowPlacing
<1> QED
  BY <1>6, <1>7

\* What holds where the replacement is checked.
LEMMA ReplacedFacts ==
  ASSUME FitInv, ProtectionInv, pc \in {"replaced", "match"}
  PROVE  /\ pc # "idle" /\ HasRead /\ Place = pc /\ pc \in Replacing
         /\ st.exits # None /\ goal.qty \in Nat /\ Wanted(st.exits) <= goal.qty
         /\ DOMAIN acct.exits \subseteq DOMAIN exit /\ Open(exit) \subseteq DOMAIN acct.exits
         /\ ~st.installing => \A e \in DOMAIN exit : e[2] # st.rev
         /\ \A e \in DOMAIN acct.exits : e[2] = st.rev \/ e \in goal.cancelled
         /\ pc = "match" => goal.cancelled = {}
         /\ DOMAIN snap.exits \subseteq DOMAIN acct.exits /\ Open(exit) \subseteq DOMAIN snap.exits
         /\ DOMAIN snap.exits \subseteq DOMAIN exit
         /\ TypedRow(loaded) /\ pos.size \in Nat /\ snap.pos.size \in Nat
<1>1. pc # "idle" /\ HasRead /\ Place = pc /\ pc \in Replacing
  BY DEF HasRead, Place, Reading, Replacing
<1>2. ReplaceInv /\ ListInv
  BY DEF FitInv, ShapeInv
<1>3. /\ DOMAIN snap.exits \subseteq DOMAIN exit /\ Open(exit) \subseteq DOMAIN snap.exits
  BY <1>1, <1>2 DEF ListInv, HasRead
<1>4. TypedRow(loaded) /\ pos.size \in Nat /\ snap.pos.size \in Nat
  BY <1>1 DEF ProtectionInv, PassInv, RowInv, SoundRow, SnapInv, CoverInv, ExchangeInv, PositionOK, HasRead
<1> QED
  BY <1>1, <1>2, <1>3, <1>4 DEF ReplaceInv

\* The pass that goes on to match, or to read once more.
LEMMA MatchOn ==
  ASSUME FitInv, ProtectionInv, pc \in {"replaced", "match"}, goal.cancelled = {},
         Goto("match") \/ Read("match"), UNCHANGED <<row, exchange, st, acct, goal, counts>>
  PROVE  FitInv'
<1>1. Place' = "match" /\ (Reads \/ Stays) /\ pc' # "protect" /\ pc' # "stale"
  BY DEF Goto, Read, Place, Reading, Reads, Stays, HasRead
<1>2. ~Managing' /\ ~Placing'
  BY <1>1 DEF Managing, Placing, Handing
<1>3. pc # "idle" /\ Still
  BY DEF Still, exchange, counts
<1>4. Copied
  BY <1>2, <1>3, CopyKept
<1>5. UNCHANGED exit /\ Open(exit)' = Open(exit) /\ UNCHANGED snap
  BY <1>3 DEF Still, Open, Goto, Read
<1>6. ReplaceInv'
  BY <1>1, <1>5, ReplacedFacts DEF ReplaceInv, Wanted, LotsAt
<1> QED
  BY <1>1, <1>2, <1>3, <1>4, <1>6, Moved DEF LeftFits

\* The size is what the installation was planned for.
LEMMA ReplacedFits == ASSUME FitInv, ProtectionInv, Replaced PROVE FitInv'
<1>1. pc = "replaced"
  BY DEF Replaced, At
<1>2. /\ pc # "idle" /\ HasRead /\ pc \in Replacing
      /\ st.exits # None /\ goal.qty \in Nat /\ Wanted(st.exits) <= goal.qty
      /\ \A e \in DOMAIN acct.exits : e[2] = st.rev \/ e \in goal.cancelled
      /\ DOMAIN snap.exits \subseteq DOMAIN acct.exits /\ Open(exit) \subseteq DOMAIN snap.exits
      /\ TypedRow(loaded) /\ pos.size \in Nat /\ snap.pos.size \in Nat
  BY <1>1, ReplacedFacts
<1>3. CASE EndPass
  BY <1>2, <1>3, EndFits
<1>4. CASE PositionChanged
  BY <1>2, <1>4, OverrideFits DEF PositionChanged
<1>5. CASE Goto("match") /\ goal.cancelled = {} /\ UNCHANGED <<row, exchange, st, loaded, acct, goal, k, counts>>
  BY <1>1, <1>5, MatchOn
<1>6. CASE /\ goal.cancelled \cap DOMAIN snap.exits = {} /\ snap.pos.size = goal.qty
           /\ Read("confirm") /\ UNCHANGED <<row, exchange, st, loaded, acct, goal, k, counts>>
  <2>1. \A e \in DOMAIN snap.exits : e[2] = st.rev
    BY <1>2, <1>6
  <2>2. ASSUME Calm, pos.size > 0 PROVE Left(1) + Left(2) + Left(3) <= pos.size
    <3>1. pos.size + Since >= snap.pos.size
      BY <1>2, <2>1, <2>2 DEF FitInv, SizeInv, SizeKnown
    <3>2. \A i \in 1..3 : /\ SoldOf(i) \in Nat /\ SinceOf(i) \in Nat /\ SinceOf(i) <= SoldOf(i)
      BY <1>2, LeftSum
    <3>3. /\ Left(1) + Left(2) + Left(3) = Wanted(st.exits) - (SoldOf(1) + SoldOf(2) + SoldOf(3))
          /\ Wanted(st.exits) \in Nat
      BY <1>2, LeftSum
    <3> HIDE DEF SoldOf, SinceOf, Left, Wanted
    <3>4. Since \in Nat /\ Since <= SoldOf(1) + SoldOf(2) + SoldOf(3)
      BY <3>2 DEF Since
    <3> DEFINE sold == SoldOf(1) + SoldOf(2) + SoldOf(3)
               want == Wanted(st.exits)
               size == snap.pos.size
    <3>5. sold \in Nat
      BY <3>2
    <3>6. want \in Nat /\ size \in Nat /\ want <= size /\ Left(1) + Left(2) + Left(3) = want - sold
          /\ Since <= sold
      BY <1>2, <1>6, <3>3, <3>4
    <3> HIDE DEF sold, want, size, Since
    <3>7. pos.size + Since >= size
      BY <3>1 DEF size
    <3> QED
      BY <1>2, <3>4, <3>5, <3>6, <3>7
  <2> QED
    BY <1>2, <1>6, <2>1, <2>2, NowPlacing
<1> QED
  BY <1>1, <1>3, <1>4, <1>5, <1>6 DEF Replaced

\* The fills that explain the smaller position, one by one.
LEMMA ExecutedSum ==
  ASSUME FitInv, HasRead, st.exits # None
  PROVE  /\ \A i \in 1..3 : Term(DOMAIN st.exits, [j \in DOMAIN st.exits |-> Executed(j)], i)
                              = SoldOf(i) - SinceOf(i)
         /\ ExecutedAll = (SoldOf(1) - SinceOf(1)) + (SoldOf(2) - SinceOf(2)) + (SoldOf(3) - SinceOf(3))
<1> DEFINE S == DOMAIN st.exits
           f == [j \in S |-> Executed(j)]
<1>1. ShapeInv /\ pc # "idle"
  BY DEF FitInv, HasRead
<1>2. S \in SUBSET (1..3) /\ LinkInv /\ st.rev = row.rev /\ st.exits = row.exits /\ ListInv
  BY <1>1 DEF ShapeInv, CopyInv, PlannedRow
<1>3. ASSUME NEW i PROVE <<i, st.rev>> \in DOMAIN snap.exits
                          => /\ <<i, st.rev>> \in DOMAIN exit /\ i \in S
                             /\ snap.exits[<<i, st.rev>>] \in Nat
  BY <1>2 DEF ListInv, HasRead, LinkInv
<1>4. \A i \in S : Executed(i) = SoldOf(i) - SinceOf(i) /\ Executed(i) \in Nat
  <2> TAKE i \in S
  <2>1. <<i, st.rev>> \in DOMAIN exit => exit[<<i, st.rev>>].exec \in Nat
    BY <1>1, Counts
  <2>2. CASE <<i, st.rev>> \in DOMAIN snap.exits
    <3>1. /\ <<i, st.rev>> \in DOMAIN exit /\ snap.exits[<<i, st.rev>>] \in Nat
          /\ Executed(i) = snap.exits[<<i, st.rev>>]
      BY <1>3, <2>2 DEF Executed
    <3>2. /\ SoldOf(i) = exit[<<i, st.rev>>].exec
          /\ SinceOf(i) = exit[<<i, st.rev>>].exec - snap.exits[<<i, st.rev>>]
      BY <2>2, <3>1 DEF SoldOf, Exec, SinceOf
    <3> QED
      BY <2>1, <3>1, <3>2
  <2>3. CASE <<i, st.rev>> \notin DOMAIN snap.exits
    <3>1. Executed(i) = SoldOf(i) /\ SoldOf(i) \in Nat /\ SinceOf(i) = 0
      BY <2>1, <2>3 DEF Executed, SoldOf, Exec, SinceOf
    <3> QED
      BY <3>1
  <2> QED
    BY <2>2, <2>3
<1>5. \A i \in 1..3 \ S : SoldOf(i) = 0 /\ SinceOf(i) = 0
  BY <1>3 DEF SoldOf, SinceOf
<1>6. f \in [S -> Int] /\ \A i \in S : f[i] = SoldOf(i) - SinceOf(i)
  BY <1>4
<1>7. ExecutedAll = SumOver(S, f)
  BY DEF ExecutedAll
<1> HIDE DEF S, f, SoldOf, SinceOf
<1>8. \A i \in 1..3 : Term(S, f, i) = SoldOf(i) - SinceOf(i)
  BY <1>5, <1>6 DEF Term
<1>9. SumOver(S, f) = Term(S, f, 1) + Term(S, f, 2) + Term(S, f, 3)
  BY <1>2, <1>6, SumIndex
<1> QED
  BY <1>7, <1>8, <1>9 DEF S, f

\* Fills of this revision explain the size, or a person is called.
LEMMA MatchFits == ASSUME FitInv, ProtectionInv, FillsMatch PROVE FitInv'
<1>1. pc = "match"
  BY DEF FillsMatch, At
<1>2. /\ pc # "idle" /\ HasRead /\ pc \in Replacing
      /\ st.exits # None /\ goal.qty \in Nat /\ Wanted(st.exits) <= goal.qty
      /\ \A e \in DOMAIN acct.exits : e[2] = st.rev \/ e \in goal.cancelled
      /\ goal.cancelled = {}
      /\ DOMAIN snap.exits \subseteq DOMAIN acct.exits /\ Open(exit) \subseteq DOMAIN snap.exits
      /\ TypedRow(loaded) /\ pos.size \in Nat /\ snap.pos.size \in Nat
  BY <1>1, ReplacedFacts
<1>3. CASE PositionChanged
  BY <1>2, <1>3, OverrideFits DEF PositionChanged
<1>4. CASE Read("match") /\ UNCHANGED <<row, exchange, st, loaded, acct, goal, counts>>
  BY <1>1, <1>2, <1>4, MatchOn
<1>5. CASE /\ ExecutedAll = goal.qty - snap.pos.size
           /\ Read("confirm") /\ UNCHANGED <<row, exchange, st, loaded, acct, goal, k, counts>>
  <2>1. \A e \in DOMAIN snap.exits : e[2] = st.rev
    BY <1>2
  <2>2. ASSUME Calm, pos.size > 0 PROVE Left(1) + Left(2) + Left(3) <= pos.size
    <3>1. pos.size + Since >= snap.pos.size
      BY <1>2, <2>1, <2>2 DEF FitInv, SizeInv, SizeKnown
    <3>2. \A i \in 1..3 : SoldOf(i) \in Nat /\ SinceOf(i) \in Nat
      BY <1>2, LeftSum
    <3>3. /\ Left(1) + Left(2) + Left(3) = Wanted(st.exits) - (SoldOf(1) + SoldOf(2) + SoldOf(3))
          /\ Wanted(st.exits) \in Nat
      BY <1>2, LeftSum
    <3>4. ExecutedAll = (SoldOf(1) - SinceOf(1)) + (SoldOf(2) - SinceOf(2)) + (SoldOf(3) - SinceOf(3))
      BY <1>2, ExecutedSum
    <3> HIDE DEF SoldOf, SinceOf, Left, Wanted, ExecutedAll
    <3> DEFINE sold == SoldOf(1) + SoldOf(2) + SoldOf(3)
               want == Wanted(st.exits)
               size == snap.pos.size
    <3>5. sold \in Nat /\ Since \in Nat /\ ExecutedAll = sold - Since
      BY <3>2, <3>4 DEF Since
    <3>6. want \in Nat /\ size \in Nat /\ want <= goal.qty /\ Left(1) + Left(2) + Left(3) = want - sold
          /\ ExecutedAll = goal.qty - size
      BY <1>2, <1>5, <3>3
    <3> HIDE DEF sold, want, size, Since
    <3>7. pos.size + Since >= size
      BY <3>1 DEF size
    <3> QED
      BY <1>2, <3>5, <3>6, <3>7
  <2> QED
    BY <1>2, <1>5, <2>1, <2>2, NowPlacing
<1> QED
  BY <1>1, <1>3, <1>4, <1>5 DEF FillsMatch

\* A pass that has nothing to do with new exits.
LEMMA AsideOn ==
  ASSUME FitInv, Still, pc # "idle", UNCHANGED <<row, st>>, Reads \/ Stays,
         Place' \notin Replacing, ~Placing', Managing' => ~st.installing
  PROVE  FitInv'
<1>1. Copied
  BY CopyKept
<1>2. pc' \notin Replacing
  BY DEF Place, Reading, Replacing
<1>3. ReplaceInv'
  BY <1>2 DEF ReplaceInv, Replacing
<1> QED
  BY <1>1, <1>3, Moved DEF LeftFits

\* A pass on its way to the new exits.
LEMMA PlacingOn ==
  ASSUME FitInv, Still, Placing, UNCHANGED <<row, st>>, Reads \/ Stays,
         Place' \notin Replacing, ~Managing'
  PROVE  FitInv'
<1>1. pc # "idle"
  BY DEF Placing, Place, Reading, Handing
<1>2. Copied
  BY <1>1, CopyKept
<1>3. pc' \notin Replacing
  BY DEF Place, Reading, Replacing
<1>4. ReplaceInv'
  BY <1>3 DEF ReplaceInv, Replacing
<1>5. st.exits # None /\ \A e \in Open(exit) : e[2] = st.rev
  BY DEF FitInv, ShapeInv, RevisionInv
<1>6. UNCHANGED exit /\ Open(exit)' = Open(exit) /\ pos'.size = pos.size
  BY DEF Still, Open
<1>7. Left(1)' = Left(1) /\ Left(2)' = Left(2) /\ Left(3)' = Left(3)
  BY <1>6 DEF Left, Exec
<1>8. Calm => LeftFits'
  BY <1>6, <1>7 DEF LeftFits, FitInv, SizeInv
<1> QED
  BY <1>1, <1>2, <1>4, <1>5, <1>6, <1>8, Moved

\* A step of the hand-over, of an installation or on its own.
LEMMA HandingOn ==
  ASSUME FitInv, Still, pc \in Handing, UNCHANGED <<row, st>>, Reads \/ Stays,
         goal'.from = goal.from, Place' \in Handing \/ Place' = HandedOver
  PROVE  FitInv'
<1>1. pc # "idle" /\ Place = pc
  BY DEF Handing, Place, Reading
<1>2. Place' \notin Replacing
  BY DEF Handing, HandedOver, Replacing
<1>3. CASE goal.from = "handoff"
  <2>1. ~Placing'
    BY <1>3 DEF Placing, Handing, HandedOver
  <2>2. Managing
    BY <1>1, <1>3 DEF Managing
  <2>3. ~st.installing
    BY <1>1, <2>2 DEF FitInv, ShapeInv, CopyInv
  <2> QED
    BY <1>1, <1>2, <2>1, <2>3, AsideOn
<1>4. CASE goal.from # "handoff"
  <2>1. Placing
    BY <1>1, <1>4 DEF Placing
  <2>2. ~Managing'
    BY <1>4 DEF Managing, Handing, HandedOver
  <2> QED
    BY <1>2, <2>1, <2>2, PlacingOn
<1> QED
  BY <1>3, <1>4

\* The steps of a hand-over.
LEMMA HandoverFits ==
  ASSUME FitInv, ProtectionInv, EnsureFullStop \/ DropPartialStop \/ PartialStopsDropped
  PROVE  FitInv'
<1>1. pc \in Handing /\ pc # "idle" /\ HasRead
  BY DEF EnsureFullStop, DropPartialStop, PartialStopsDropped, At, Handing, HasRead
<1>2. Place = pc /\ {"from", "stop", "ids", "first"} \subseteq DOMAIN goal
  BY <1>1 DEF ProtectionInv, PassInv, GoalInv, Place, Reading, Handing
<1>3. CASE EndPass
  BY <1>1, <1>3, EndFits
<1>4. HandedOver \in {"handed", "place"}
  BY DEF HandedOver
<1>5. ASSUME Goto(HandedOver), UNCHANGED <<row, exchange, st, loaded, acct, goal, k, counts>>
      PROVE  FitInv'
  <2>1. Still /\ Stays /\ Place' = HandedOver
    BY <1>1, <1>4, <1>5 DEF Still, exchange, counts, Stays, Goto, Place, Reading
  <2> QED
    BY <1>1, <1>5, <2>1, HandingOn
<1>6. CASE EnsureFullStop
  <2>1. CASE /\ goal' = [goal EXCEPT !.first = FALSE] /\ Goto("drop")
             /\ UNCHANGED <<row, exchange, st, loaded, acct, counts>>
    <3>1. Still /\ Stays /\ Place' = "drop" /\ goal'.from = goal.from
      BY <1>1, <1>2, <2>1 DEF Still, exchange, counts, Stays, Goto, Place, Reading
    <3> QED
      BY <1>1, <2>1, <3>1, HandingOn DEF Handing
  <2>2. CASE /\ SetProtection(goal.stop, goal.dist) /\ Read("ensure")
             /\ UNCHANGED <<row, st, loaded, acct, goal>>
    <3>1. Still
      BY <2>2, SetProtectionStill
    <3>2. Reads /\ Place' = "ensure"
      BY <2>2 DEF Reads, Read, Place, Reading
    <3> QED
      BY <1>1, <2>2, <3>1, <3>2, HandingOn DEF Handing
  <2> QED
    BY <1>3, <1>5, <1>6, <2>1, <2>2 DEF EnsureFullStop
<1>7. CASE DropPartialStop
  <2>1. PICK l : \/ EndPass
                 \/ /\ goal' = [goal EXCEPT !.ids = @ \ {l}] /\ Read("ensure")
                    /\ UNCHANGED <<row, pos, entry, exit, st, loaded, acct, k, counts>>
    BY <1>7 DEF DropPartialStop
  <2>2. CASE /\ goal' = [goal EXCEPT !.ids = @ \ {l}] /\ Read("ensure")
             /\ UNCHANGED <<row, pos, entry, exit, st, loaded, acct, k, counts>>
    <3>1. Still /\ Reads /\ Place' = "ensure" /\ goal'.from = goal.from
      BY <1>2, <2>2 DEF Still, counts, Reads, Read, Place, Reading
    <3> QED
      BY <1>1, <2>2, <3>1, HandingOn DEF Handing
  <2> QED
    BY <1>3, <2>1, <2>2
<1>8. CASE PartialStopsDropped
  BY <1>5, <1>8 DEF PartialStopsDropped
<1> QED
  BY <1>6, <1>7, <1>8

\* The protection is confirmed; the attached stops are handed over first.
LEMMA ConfirmFits == ASSUME FitInv, ProtectionInv, Confirm PROVE FitInv'
<1>1. pc = "confirm" /\ HasRead /\ Place = "confirm"
  BY DEF Confirm, At, HasRead, Place, Reading
<1>2. /\ {"from", "stop", "ids", "first"} \subseteq DOMAIN goal /\ goal.from # "handoff"
  BY <1>1 DEF ProtectionInv, PassInv, GoalInv, Installs, BeforeHanding
<1>3. CASE EndPass
  BY <1>1, <1>3, EndFits
<1>4. CASE /\ goal' = [goal EXCEPT !.ids = snap.partials]
           /\ Goto("place") \/ Read("ensure")
           /\ UNCHANGED <<row, exchange, st, loaded, acct, counts>>
  <2>1. Still /\ goal'.from = goal.from
    BY <1>2, <1>4 DEF Still, exchange, counts
  <2>2. (Reads \/ Stays) /\ Place' \in {"place", "ensure"}
    BY <1>1, <1>4 DEF Reads, Stays, Goto, Read, Place, Reading
  <2>3. ~Managing' /\ Place' \notin Replacing
    BY <1>2, <2>1, <2>2 DEF Managing, Replacing
  <2>4. Placing
    BY <1>1 DEF Placing
  <2> QED
    BY <1>4, <2>1, <2>2, <2>3, <2>4, PlacingOn
<1> QED
  BY <1>3, <1>4 DEF Confirm

\* The exits are placed, and the installation is verified.
LEMMA VerifyFits ==
  ASSUME FitInv, ProtectionInv, ExitsPlaced \/ VerifyInstallation
  PROVE  FitInv'
<1>1. CASE ExitsPlaced
  <2>1. pc = "place" /\ Still /\ Reads /\ Place' = "verify" /\ UNCHANGED <<row, st>>
    BY <1>1 DEF ExitsPlaced, At, Still, exchange, counts, Reads, Read, Place, Reading
  <2>2. Place' \notin Replacing /\ ~Placing' /\ ~Managing'
    BY <2>1 DEF Replacing, Placing, Managing, Handing
  <2> QED
    BY <2>1, <2>2, AsideOn
<1>2. CASE VerifyInstallation
  <2>1. pc = "verify" /\ (EndPass \/ Save(InstalledRow))
    BY <1>2 DEF VerifyInstallation, At
  <2>2. TypedRow(st) /\ PlannedRow(st) /\ st.rev = row.rev /\ st.exits = row.exits
    BY <2>1 DEF ProtectionInv, PassInv, RowInv, FitInv, ShapeInv, CopyInv
  <2>3. /\ InstalledRow.rev = st.rev /\ InstalledRow.exits = st.exits
        /\ InstalledRow.done = st.done /\ ~InstalledRow.installing
    <3> DEFINE trail == IF goal.from = "resume" THEN st.trail ELSE goal.trail
               carried == IF goal.from = "build" THEN st.trail ELSE trail
               status == IF goal.from # "build" /\ trail THEN "PROFIT_PROTECTED" ELSE "OPEN_RISK"
    <3>1. InstalledRow = [st EXCEPT !.prot = goal.stop, !.dist = goal.dist, !.installing = FALSE,
                                    !.trail = carried, !.status = status]
      BY <2>2 DEF InstalledRow, TypedRow
    <3> HIDE DEF carried, status
    <3> QED
      BY <2>2, <3>1 DEF TypedRow
  <2>4. PlannedRow(InstalledRow)
    BY <2>2, <2>3 DEF PlannedRow
  <2> QED
    BY <2>1, <2>2, <2>3, <2>4, EndFits, SaveFits
<1> QED
  BY <1>1, <1>2

\* An exit that the exchange does not know is placed.
LEMMA NewExitFits ==
  ASSUME FitInv, ProtectionInv, pc = "place", pos.size > 0,
         NEW i \in DOMAIN st.exits, NEW o, <<i, st.rev>> \notin DOMAIN exit,
         DOMAIN o = {"qty", "price", "exec", "status"},
         o.qty = st.exits[i][1] /\ o.exec = 0 /\ o.status = "New",
         exit' = [x \in DOMAIN exit \cup {<<i, st.rev>>} |-> IF x = <<i, st.rev>> THEN o ELSE exit[x]],
         UNCHANGED <<row, pos, st, loaded, pc, then, snap, acct, user, fired>>
  PROVE  FitInv'
<1> DEFINE e == <<i, st.rev>>
<1>1. ShapeInv /\ OrderInv /\ CopyInv /\ ListInv /\ ReplaceInv /\ RevisionInv
  BY DEF FitInv, ShapeInv
<1>2. Place = "place" /\ Place' = "place" /\ Placing /\ Placing' /\ ~Managing'
  BY DEF Place, Reading, Placing, Managing, Handing
<1>3. /\ row.status \in Active /\ st.status \in Active /\ PlannedRow(row) /\ PlannedRow(st) /\ LinkInv
      /\ st.rev = row.rev /\ st.exits = row.exits
      /\ st.exits # None /\ \A f \in Open(exit) : f[2] = st.rev
  BY <1>1, <1>2 DEF CopyInv, RevisionInv
<1>4. i \in 1..3 /\ st.exits[i][1] \in Nat \ {0} /\ st.rev \in Nat
  BY <1>3 DEF PlannedRow, ProtectionInv, PassInv, RowInv, TypedRow
<1>5. /\ DOMAIN exit' = DOMAIN exit \cup {e} /\ exit'[e] = o
      /\ \A f \in DOMAIN exit : exit'[f] = exit[f] /\ f # e
  OBVIOUS
<1>6. Placed(e, o)
  BY <1>4 DEF Placed, OrderOK
<1> HIDE DEF e
<1>7. OrderInv'
  BY <1>1, <1>5, <1>6 DEF OrderInv
<1>8. Open(exit)' = Open(exit) \cup {e}
  BY <1>5 DEF Open
<1>9. CopyInv'
  <2>1. e[2] = row.rev /\ e[1] = i
    BY <1>3 DEF e
  <2>2. LinkInv'
    <3>1. ASSUME NEW f \in DOMAIN exit'
          PROVE  /\ f[2] <= row.rev
                 /\ f[2] = row.rev => /\ row.exits # None /\ f[1] \in DOMAIN row.exits
                                      /\ exit'[f].qty = row.exits[f[1]][1]
      <4>1. CASE f = e
        BY <1>3, <1>4, <1>5, <2>1, <4>1
      <4>2. CASE f \in DOMAIN exit
        BY <1>3, <1>5, <4>2 DEF LinkInv
      <4> QED
        BY <1>5, <4>1, <4>2
    <3> QED
      BY <3>1 DEF LinkInv
  <2>3. PlannedRow(row)' /\ PlannedRow(st)'
    BY <1>3 DEF PlannedRow, Wanted, LotsAt
  <2> QED
    BY <1>2, <1>3, <2>2, <2>3 DEF CopyInv
<1>10. ListInv'
  BY <1>1, <1>5 DEF ListInv
<1>11. ReplaceInv'
  BY <1>2 DEF ReplaceInv, Replacing
<1>12. RevisionInv'
  <2>1. \A f \in Open(exit)' : f[2] = st.rev
    BY <1>3, <1>8 DEF e
  <2> QED
    BY <1>2, <1>3, <2>1 DEF RevisionInv
<1>13. ASSUME Calm' PROVE SizeKnown' /\ LeftFits' /\ OpenFits'
  <2>1. LeftFits
    BY <1>13 DEF FitInv, SizeInv, Calm
  <2>2. SizeKnown'
    BY DEF SizeKnown, HasRead
  <2>3. \A j \in 1..3 : Exec(j)' = Exec(j)
    <3> TAKE j \in 1..3
    <3>1. CASE <<j, st.rev>> \in DOMAIN exit
      BY <1>5, <3>1 DEF Exec
    <3>2. CASE <<j, st.rev>> = e
      <4>1. e \notin DOMAIN exit
        BY <1>5
      <4> QED
        BY <1>5, <3>2, <4>1 DEF Exec
    <3> QED
      BY <1>5, <3>1, <3>2 DEF Exec
  <2>4. \A j \in 1..3 : Left(j)' = Left(j) /\ Left(j) \in Nat
    BY <1>1, <1>2, <2>3, Counts DEF Left
  <2>5. Left(1) + Left(2) + Left(3) <= pos.size
    BY <1>2, <2>1 DEF LeftFits
  <2>6. LeftFits'
    BY <2>4, <2>5 DEF LeftFits
  <2>7. \A j \in 1..3 : OpenOf(j, st.rev)' \in Nat /\ OpenOf(j, st.rev)' <= Left(j)
    <3> TAKE j \in 1..3
    <3> DEFINE f == <<j, st.rev>>
    <3>1. CASE f \in Open(exit)'
      <4>1. f \in DOMAIN exit' /\ OpenOf(j, st.rev)' = exit'[f].qty - exit'[f].exec
        BY <3>1 DEF OpenOf, Open
      <4>2. j \in DOMAIN st.exits /\ exit'[f].qty = st.exits[j][1]
        <5>1. LinkInv'
          BY <1>3, <1>9 DEF CopyInv
        <5> QED
          BY <1>3, <4>1, <5>1 DEF LinkInv
      <4>3. Exec(j)' = exit'[f].exec
        BY <4>1 DEF Exec
      <4>4. Left(j)' = OpenOf(j, st.rev)'
        BY <4>1, <4>2, <4>3 DEF Left
      <4>5. Left(j) \in Nat /\ Left(j)' = Left(j)
        BY <2>4
      <4> HIDE DEF Left, OpenOf
      <4> QED
        BY <4>4, <4>5
    <3>2. CASE f \notin Open(exit)'
      <4>1. OpenOf(j, st.rev)' = 0
        BY <3>2 DEF OpenOf
      <4> QED
        BY <2>4, <4>1
    <3> QED
      BY <3>1, <3>2
  <2>8. OpenAt(st.rev)' <= pos.size
    <3>1. pos.size \in Nat
      BY DEF ProtectionInv, CoverInv, ExchangeInv, PositionOK
    <3> HIDE DEF OpenOf, Left
    <3>2. OpenAt(st.rev)' = OpenOf(1, st.rev)' + OpenOf(2, st.rev)' + OpenOf(3, st.rev)'
      BY DEF OpenAt
    <3> QED
      BY <2>4, <2>5, <2>7, <3>1, <3>2
  <2>9. OpenFits'
    <3>1. \A f \in Open(exit)' : f[2] = st.rev
      BY <1>3, <1>8 DEF e
    <3>2. \A f \in Open(exit)' : OpenAt(f[2])' <= pos'.size
      BY <2>8, <3>1
    <3> QED
      BY <3>2 DEF OpenFits
  <2> QED
    BY <2>2, <2>6, <2>9
<1> QED
  BY <1>7, <1>9, <1>10, <1>11, <1>12, <1>13 DEF FitInv, ShapeInv, SizeInv

\* The next exit is placed, or was already.
LEMMA PlaceFits == ASSUME FitInv, ProtectionInv, PlaceExit PROVE FitInv'
<1> DEFINE i == Min(Unplaced)
           e == <<i, st.rev>>
           o == [qty |-> st.exits[i][1], price |-> st.exits[i][2], exec |-> 0, status |-> "New"]
<1>1. pc = "place" /\ Unplaced # {}
  BY DEF PlaceExit, At
<1>2. Placing /\ Place = "place"
  BY <1>1 DEF Placing, Place, Reading
<1>3. i \in DOMAIN st.exits
  <2>1. DOMAIN st.exits \subseteq 1..3
    BY <1>1, <1>2 DEF FitInv, ShapeInv, CopyInv, RevisionInv, PlannedRow
  <2>2. Unplaced \in SUBSET Nat
    BY <2>1 DEF Unplaced
  <2>3. \E x \in Unplaced : \A y \in Unplaced : x <= y
    BY <1>1, <2>2, LeastNat
  <2>4. i \in Unplaced
    BY <2>3 DEF Min
  <2> QED
    BY <2>4 DEF Unplaced
<1>4. \/ EndPass
      \/ /\ UNCHANGED <<row, pos, entry, partial, st, loaded, pc, then, snap, acct, k, counts>>
         /\ \/ Known(e) /\ UNCHANGED exit
            \/ /\ ~Known(e) /\ pos.size # 0
               /\ exit' = [x \in DOMAIN exit \cup {e} |-> IF x = e THEN o ELSE exit[x]]
  BY DEF PlaceExit
<1> HIDE DEF i
<1>5. CASE EndPass
  BY <1>1, <1>5, EndFits
<1>6. CASE UNCHANGED <<row, pos, entry, partial, st, loaded, pc, then, snap, acct, k, counts, exit>>
  <2>1. Still /\ Stays /\ Place' = "place"
    BY <1>1, <1>6 DEF Still, counts, Stays, Place, Reading
  <2>2. Place' \notin Replacing /\ ~Managing'
    BY <2>1 DEF Replacing, Managing, Handing
  <2> QED
    BY <1>2, <1>6, <2>1, <2>2, PlacingOn
<1>7. CASE /\ UNCHANGED <<row, pos, entry, partial, st, loaded, pc, then, snap, acct, k, counts>>
           /\ ~Known(e) /\ pos.size # 0
           /\ exit' = [x \in DOMAIN exit \cup {e} |-> IF x = e THEN o ELSE exit[x]]
  <2>1. pos.size > 0
    BY <1>7 DEF ProtectionInv, CoverInv, ExchangeInv, PositionOK
  <2>2. e \notin DOMAIN exit
    BY <1>7 DEF Known
  <2>3. DOMAIN o = {"qty", "price", "exec", "status"} /\ o.qty = st.exits[i][1] /\ o.exec = 0 /\ o.status = "New"
    OBVIOUS
  <2>4. UNCHANGED <<user, fired>>
    BY <1>7 DEF counts
  <2> HIDE DEF o
  <2> QED
    BY <1>1, <1>3, <1>7, <2>1, <2>2, <2>3, <2>4, NewExitFits
<1> QED
  BY <1>4, <1>5, <1>6, <1>7

\* What a pass that manages an installed position has in hand.
AtWork == Undisturbed \/ pc \in {"fixed", "freeze", "rebalance", "trail", "trailed"}
\* No installation is under way there.
LEMMA WorkFacts ==
  ASSUME FitInv, ProtectionInv, AtWork
  PROVE  /\ pc # "idle" /\ HasRead /\ TypedRow(st) /\ PlannedRow(st) /\ ~st.installing
         /\ st.rev = row.rev /\ st.exits = row.exits /\ st.status \in Active
         /\ Done \subseteq 1..3 /\ st.done \subseteq 1..3
<1>1. pc \in {"decide", "handed", "fixed", "freeze", "rebalance", "trail", "trailed"}
  BY DEF AtWork, Undisturbed, Sound, Live, At
<1>2. pc # "idle" /\ HasRead /\ Place = pc
  BY <1>1 DEF HasRead, Place, Reading
<1>3. TypedRow(st) /\ PlannedRow(st) /\ st.rev = row.rev /\ st.exits = row.exits /\ st.status \in Active
  BY <1>2 DEF ProtectionInv, PassInv, RowInv, FitInv, ShapeInv, CopyInv
<1>4. ~st.installing
  <2>1. CASE pc = "decide"
    BY <2>1 DEF AtWork, Undisturbed, Sound, Live, At
  <2>2. CASE pc # "decide"
    <3>1. Managing
      BY <1>1, <1>2, <2>2 DEF Managing
    <3> QED
      BY <1>2, <3>1 DEF FitInv, ShapeInv, CopyInv
  <2> QED
    BY <2>1, <2>2
<1>5. Done \subseteq 1..3 /\ st.done \subseteq 1..3
  BY <1>3 DEF Done, PlannedRow
<1> QED
  BY <1>2, <1>3, <1>4, <1>5

\* It goes on with its copy, the exits and their revision as they were.
LEMMA WorksOn ==
  ASSUME FitInv, ProtectionInv, PlaceInv', AtWork, Still, Reads \/ Stays, Elsewhere,
         UNCHANGED row \/ row' = st', st'.rev = st.rev, st'.exits = st.exits,
         st'.status \in Active, st'.done \subseteq 1..3, ~st'.installing
  PROVE  FitInv'
<1>1. /\ pc # "idle" /\ PlannedRow(st) /\ st.rev = row.rev /\ st.exits = row.exits
  BY WorkFacts
<1>2. PlannedRow(st')
  BY <1>1 DEF PlannedRow
<1>3. row.status \in Active /\ PlannedRow(row)
  BY <1>1 DEF FitInv, ShapeInv, CopyInv
<1>4. Copied
  BY <1>1, <1>2, <1>3 DEF Copied, RowKept
<1> QED
  BY <1>1, <1>4, Away

\* It saves the copy, the exits and their revision as they were.
LEMMA WorkSaved ==
  ASSUME FitInv, ProtectionInv, AtWork, NEW r, Save(r), r.rev = st.rev, r.exits = st.exits,
         r.done \subseteq 1..3, ~r.installing
  PROVE  FitInv'
<1>1. /\ pc # "idle" /\ PlannedRow(st) /\ st.rev = row.rev /\ st.exits = row.exits
  BY WorkFacts
<1>2. PlannedRow(r)
  BY <1>1 DEF PlannedRow
<1> QED
  BY <1>1, <1>2, SaveFits

\* What a pass has seen of the position is only that.
LEMMA SeenKeeps ==
  ASSUME NEW s, TypedRow(s)
  PROVE  /\ Seen(s).rev = s.rev /\ Seen(s).exits = s.exits /\ Seen(s).done = s.done
         /\ Seen(s).installing = s.installing /\ Seen(s).status = s.status
         /\ Seen(s).qty = snap.pos.size /\ DOMAIN Seen(s) = DOMAIN s
  BY DEF Seen, TypedRow

\* Steps that end the pass, or read once more.
LEMMA PlainFits ==
  ASSUME FitInv, ProtectionInv, ProtectionInv',
         \/ PositionMissing \/ CloseIfFlat \/ Pause \/ DriftPauses \/ HandedOverFlat
         \/ Handover \/ StartRebalance
  PROVE  FitInv'
<1>1. pc \in {"decide", "flat", "handed"}
  BY DEF PositionMissing, CloseIfFlat, Pause, DriftPauses, HandedOverFlat, Handover, StartRebalance,
     Undisturbed, Sound, Live, At
<1>2. pc # "idle" /\ HasRead /\ TypedRow(st)
  BY <1>1 DEF HasRead, ProtectionInv, PassInv, RowInv
<1>3. CASE EndPass
  BY <1>2, <1>3, EndFits
<1>4. CASE PositionMissing
  <2>1. CASE CancelEntries /\ Read("flat") /\ UNCHANGED <<row, st, loaded, acct, goal, k, counts>>
    <3>1. Still /\ Reads /\ Place' = "flat"
      BY <2>1 DEF CancelEntries, Still, counts, Reads, Read, Place, Reading
    <3>2. Place' \notin Replacing /\ ~Placing' /\ ~Managing'
      BY <3>1 DEF Replacing, Placing, Managing, Handing
    <3> QED
      BY <1>2, <2>1, <3>1, <3>2, AsideOn
  <2> QED
    BY <1>3, <1>4, <2>1 DEF PositionMissing
<1>5. CASE CloseIfFlat
  <2> DEFINE r == [st EXCEPT !.status = "CLOSED"]
  <2>1. r.status \notin Active
    BY <1>2 DEF TypedRow, Active
  <2>2. EndPass \/ Save(r)
    BY <1>5 DEF CloseIfFlat
  <2> HIDE DEF r
  <2> QED
    BY <1>2, <1>3, <2>1, <2>2, SaveFits
<1>6. CASE Pause \/ DriftPauses
  BY <1>2, <1>6, OverrideFits DEF Pause, DriftPauses
<1>7. CASE HandedOverFlat
  BY <1>3, <1>7 DEF HandedOverFlat
<1>8. CASE Handover
  <2>1. Sound
    BY <1>8 DEF Handover
  <2>2. \/ EndPass
        \/ /\ goal'.from = "handoff" /\ Read("ensure") /\ UNCHANGED <<row, exchange, st, loaded, acct, counts>>
    BY <1>8 DEF Handover
  <2>3. CASE /\ goal'.from = "handoff" /\ Read("ensure") /\ UNCHANGED <<row, exchange, st, loaded, acct, counts>>
    <3>1. Still /\ Reads /\ Place' = "ensure"
      BY <2>3 DEF Still, exchange, counts, Reads, Read, Place, Reading
    <3>2. Place' \notin Replacing /\ ~Placing' /\ ~st.installing
      BY <2>1, <2>3, <3>1 DEF Replacing, Placing, Sound
    <3> QED
      BY <1>2, <2>3, <3>1, <3>2, AsideOn
  <2> QED
    BY <1>3, <2>2, <2>3
<1>9. CASE StartRebalance
  <2>1. AtWork /\ Still /\ Reads /\ Place' = "rebalance" /\ UNCHANGED <<row, st>>
    BY <1>9 DEF StartRebalance, AtWork, Still, exchange, counts, Reads, Read, Place, Reading
  <2>2. Place' \notin Replacing /\ ~Placing'
    BY <2>1 DEF Replacing, Placing, Handing
  <2> QED
    BY <2>1, <2>2, AsideOn, WorkFacts
<1> QED
  BY <1>4, <1>5, <1>6, <1>7, <1>8, <1>9

\* A pass that finds the position gone, or reads it once more.
LEMMA FlatOn ==
  ASSUME FitInv, ProtectionInv, AtWork, NEW l \in {"flat", "freeze"}, Read(l),
         UNCHANGED <<row, exchange, st, counts>>
  PROVE  FitInv'
<1>1. Still /\ Reads /\ Place' = l
  BY DEF Still, exchange, counts, Reads, Read, Place, Reading
<1>2. Place' \notin Replacing /\ ~Placing'
  BY <1>1 DEF Replacing, Placing, Handing
<1> QED
  BY <1>1, <1>2, AsideOn, WorkFacts

\* The steps while entries are still building.
LEMMA BuildFits ==
  ASSUME FitInv, ProtectionInv, ProtectionInv', NullIsNoPlan,
         \/ FixedExitFilled \/ AfterFixedExit \/ Accumulate \/ Freeze
  PROVE  FitInv'
<1>1. AtWork
  BY DEF FixedExitFilled, AfterFixedExit, Accumulate, Freeze, AtWork, At
<1>2. /\ pc # "idle" /\ HasRead /\ TypedRow(st) /\ PlannedRow(st) /\ ~st.installing
      /\ st.rev = row.rev /\ st.exits = row.exits /\ st.status \in Active
      /\ Done \subseteq 1..3 /\ st.done \subseteq 1..3
  BY <1>1, WorkFacts
<1>3. PlaceInv'
  BY DEF ProtectionInv, PassInv
<1>4. CASE FixedExitFilled
  <2>1. st' = [st EXCEPT !.done = Done] /\ CancelEntries /\ Read("fixed") /\ UNCHANGED <<row, counts>>
    BY <1>4 DEF FixedExitFilled
  <2>2. /\ st'.rev = st.rev /\ st'.exits = st.exits /\ st'.status = st.status /\ st'.done = Done
        /\ st'.installing = st.installing
    BY <1>2, <2>1 DEF TypedRow
  <2>3. Still /\ Reads /\ Place' = "fixed"
    BY <2>1 DEF CancelEntries, Still, counts, Reads, Read, Place, Reading
  <2>4. Elsewhere
    BY <2>3 DEF Elsewhere, Replacing, Handing
  <2> QED
    BY <1>1, <1>2, <1>3, <2>1, <2>2, <2>3, <2>4, WorksOn
<1>5. CASE AfterFixedExit
  <2>1. CASE Read("flat") /\ UNCHANGED <<row, st, exchange, counts>>
    BY <1>1, <2>1, FlatOn
  <2>2. CASE /\ st' = [Seen(st) EXCEPT !.frozen = TRUE] /\ row' = st' /\ Goto("decide")
             /\ UNCHANGED <<exchange, counts>>
    <3>1. /\ st'.rev = st.rev /\ st'.exits = st.exits /\ st'.status = st.status
          /\ st'.done = st.done /\ st'.installing = st.installing
      BY <1>2, <2>2 DEF TypedRow, Seen
    <3>2. Still /\ Stays /\ Place' = "decide"
      BY <1>2, <2>2 DEF Still, exchange, counts, Stays, Goto, Place, Reading
    <3>3. Elsewhere
      BY <3>2 DEF Elsewhere, Replacing, Handing
    <3> QED
      BY <1>1, <1>2, <1>3, <2>2, <3>1, <3>2, <3>3, WorksOn
  <2> QED
    BY <1>5, <2>1, <2>2 DEF AfterFixedExit
<1>6. CASE Accumulate
  <2> DEFINE s == [Seen(st) EXCEPT !.status = "OPEN_RISK"]
             r == [s EXCEPT !.rev = @ + 1]
  <2>1. /\ s.rev = st.rev /\ s.exits = st.exits /\ s.status = "OPEN_RISK"
        /\ s.done = st.done /\ s.installing = st.installing /\ s.qty = snap.pos.size
        /\ DOMAIN s = DOMAIN st /\ s.prot = st.prot /\ s.avg = snap.pos.avg
    BY <1>2 DEF TypedRow, Seen
  <2>2. BeginInstall(r, "build", FALSE, s.qty, s.avg) \/ Save(s)
    BY <1>6 DEF Accumulate
  <2> HIDE DEF s
  <2>3. /\ r.rev = st.rev + 1 /\ r.status = "OPEN_RISK" /\ r.done = st.done /\ r.prot = st.prot
        /\ r.installing = st.installing /\ r.avg = snap.pos.avg /\ DOMAIN r = DOMAIN st
    BY <1>2, <2>1 DEF TypedRow
  <2> HIDE DEF r
  <2>4. PositionOK(snap.pos)
    BY <1>2 DEF HasRead, ProtectionInv, PassInv, SnapInv
  <2>5. TypedRow(r) /\ r.status \in Active /\ s.status \in Active
    BY <1>2, <2>1, <2>3, <2>4 DEF TypedRow, PositionOK, Active
  <2>6. Renewed(r, s.qty)
    BY <1>2, <2>1, <2>3 DEF Renewed
  <2> QED
    BY <1>1, <1>2, <2>1, <2>2, <2>5, <2>6, BeginFits, WorkSaved
<1>7. CASE Freeze
  <2>1. /\ st' = [Seen(st) EXCEPT !.status = "OPEN_RISK"] /\ CancelEntries /\ Read("freeze")
        /\ UNCHANGED <<row, counts>>
    BY <1>7 DEF Freeze
  <2>2. /\ st'.rev = st.rev /\ st'.exits = st.exits /\ st'.status = "OPEN_RISK" /\ st'.done = st.done
        /\ st'.installing = st.installing
    BY <1>2, <2>1 DEF TypedRow, Seen
  <2>3. Still /\ Reads /\ Place' = "freeze"
    BY <2>1 DEF CancelEntries, Still, counts, Reads, Read, Place, Reading
  <2>4. Elsewhere /\ st'.status \in Active
    BY <2>2, <2>3 DEF Elsewhere, Replacing, Handing, Active
  <2> QED
    BY <1>1, <1>2, <1>3, <2>1, <2>2, <2>3, <2>4, WorksOn
<1> QED
  BY <1>4, <1>5, <1>6, <1>7

\* The steps once they are frozen.
LEMMA FrozenFits ==
  ASSUME FitInv, ProtectionInv, ProtectionInv', NullIsNoPlan, FreezeEntries \/ Rebalance
  PROVE  FitInv'
<1>1. AtWork
  BY DEF FreezeEntries, Rebalance, AtWork, At
<1>2. /\ pc # "idle" /\ HasRead /\ TypedRow(st) /\ PlannedRow(st) /\ ~st.installing
      /\ st.rev = row.rev /\ st.status \in Active /\ st.done \subseteq 1..3
  BY <1>1, WorkFacts
<1>3. PositionOK(snap.pos)
  BY <1>2 DEF HasRead, ProtectionInv, PassInv, SnapInv
<1>4. CASE EndPass
  BY <1>2, <1>4, EndFits
<1>5. CASE FreezeEntries
  <2> DEFINE r == [Seen(st) EXCEPT !.frozen = TRUE, !.rebalance = FALSE, !.rev = @ + 1]
  <2>1. /\ r.rev = st.rev + 1 /\ r.status = st.status /\ r.done = st.done /\ r.prot = st.prot
        /\ r.installing = st.installing /\ r.avg = snap.pos.avg /\ DOMAIN r = DOMAIN st
    BY <1>2 DEF TypedRow, Seen
  <2>2. \/ EndPass
        \/ /\ Read("freeze") \/ Read("flat")
           /\ UNCHANGED <<row, exchange, st, counts>>
        \/ BeginInstall(r, "freeze", Profitable, snap.pos.size, snap.pos.avg)
    BY <1>5 DEF FreezeEntries
  <2> HIDE DEF r
  <2>3. TypedRow(r) /\ r.status \in Active
    BY <1>2, <1>3, <2>1 DEF TypedRow, PositionOK
  <2>4. Renewed(r, snap.pos.size)
    BY <1>2, <2>1 DEF Renewed
  <2>5. CASE (Read("freeze") \/ Read("flat")) /\ UNCHANGED <<row, exchange, st, counts>>
    BY <1>1, <2>5, FlatOn
  <2>6. CASE BeginInstall(r, "freeze", Profitable, snap.pos.size, snap.pos.avg)
    BY <1>2, <2>3, <2>4, <2>6, BeginFits
  <2> QED
    BY <1>4, <2>2, <2>5, <2>6
<1>6. CASE Rebalance
  <2> DEFINE r == [Seen(st) EXCEPT !.rebalance = FALSE, !.rev = @ + 1]
             trail == st.trail \/ Profitable
  <2>1. /\ r.rev = st.rev + 1 /\ r.status = st.status /\ r.done = st.done /\ r.prot = st.prot
        /\ r.installing = st.installing /\ r.avg = snap.pos.avg /\ DOMAIN r = DOMAIN st
    BY <1>2 DEF TypedRow, Seen
  <2>2. \/ Read("flat") /\ UNCHANGED <<row, exchange, st, counts>>
        \/ BeginInstall(r, "rebalance", trail, snap.pos.size, snap.pos.avg)
    BY <1>6 DEF Rebalance
  <2> HIDE DEF r, trail
  <2>3. TypedRow(r) /\ r.status \in Active
    BY <1>2, <1>3, <2>1 DEF TypedRow, PositionOK
  <2>4. Renewed(r, snap.pos.size)
    BY <1>2, <2>1 DEF Renewed
  <2>5. CASE Read("flat") /\ UNCHANGED <<row, exchange, st, counts>>
    BY <1>1, <2>5, FlatOn
  <2>6. CASE BeginInstall(r, "rebalance", trail, snap.pos.size, snap.pos.avg)
    BY <1>2, <2>3, <2>4, <2>6, BeginFits
  <2> QED
    BY <2>2, <2>5, <2>6
<1> QED
  BY <1>5, <1>6

\* The steps that only save, or trail.
LEMMA TrailFits ==
  ASSUME FitInv, ProtectionInv, ProtectionInv',
         ManageProfit \/ ActivateTrailing \/ SetTrailing \/ TrailingSet
  PROVE  FitInv'
<1>1. AtWork
  BY DEF ManageProfit, ActivateTrailing, SetTrailing, TrailingSet, AtWork, At
<1>2. /\ pc # "idle" /\ HasRead /\ TypedRow(st) /\ PlannedRow(st) /\ ~st.installing
      /\ st.rev = row.rev /\ st.exits = row.exits /\ st.status \in Active
      /\ Done \subseteq 1..3 /\ st.done \subseteq 1..3
  BY <1>1, WorkFacts
<1>3. PlaceInv'
  BY DEF ProtectionInv, PassInv
<1>4. CASE EndPass
  BY <1>2, <1>4, EndFits
<1>5. CASE ManageProfit
  <2> DEFINE r == [Seen(st) EXCEPT !.done = Done]
  <2>1. r.rev = st.rev /\ r.exits = st.exits /\ r.done = Done /\ r.installing = st.installing
    BY <1>2 DEF TypedRow, Seen
  <2>2. Save(r)
    BY <1>5 DEF ManageProfit
  <2> HIDE DEF r
  <2> QED
    BY <1>1, <1>2, <2>1, <2>2, WorkSaved
<1>6. CASE ActivateTrailing
  <2>1. CASE CancelEntries /\ Release /\ UNCHANGED <<row, counts>>
    <3>1. Still /\ pc' = "idle"
      BY <2>1 DEF CancelEntries, Still, counts, Release
    <3>2. PlannedRow(row') /\ RowKept
      BY <1>2, <2>1 DEF RowKept, FitInv, ShapeInv, CopyInv
    <3> QED
      BY <1>2, <3>1, <3>2, Ended
  <2>2. CASE /\ CancelEntries /\ st' = [st EXCEPT !.done = Done] /\ Goto("trail")
             /\ UNCHANGED <<row, counts>>
    <3>1. /\ st'.rev = st.rev /\ st'.exits = st.exits /\ st'.status = st.status /\ st'.done = Done
          /\ st'.installing = st.installing
      BY <1>2, <2>2 DEF TypedRow
    <3>2. Still /\ Stays /\ Place' = "trail"
      BY <1>2, <2>2 DEF CancelEntries, Still, counts, Stays, Goto, Place, Reading
    <3>3. Elsewhere
      BY <3>2 DEF Elsewhere, Replacing, Handing
    <3> QED
      BY <1>1, <1>2, <1>3, <2>2, <3>1, <3>2, <3>3, WorksOn
  <2> QED
    BY <1>6, <2>1, <2>2 DEF ActivateTrailing
<1>7. CASE SetTrailing
  <2>1. CASE SetProtection(goal.stop, goal.dist) /\ Read("trailed") /\ UNCHANGED <<row, st>>
    <3>1. Still
      BY <2>1, SetProtectionStill
    <3>2. Reads /\ Place' = "trailed"
      BY <2>1 DEF Reads, Read, Place, Reading
    <3>3. Place' \notin Replacing /\ ~Placing'
      BY <3>2 DEF Replacing, Placing, Handing
    <3> QED
      BY <1>2, <2>1, <3>1, <3>2, <3>3, AsideOn
  <2> QED
    BY <1>4, <1>7, <2>1 DEF SetTrailing
<1>8. CASE TrailingSet
  <2> DEFINE r == [Seen(st) EXCEPT !.trail = TRUE, !.prot = goal.stop, !.dist = goal.dist,
                                   !.status = "PROFIT_PROTECTED"]
  <2>1. r.rev = st.rev /\ r.exits = st.exits /\ r.done = st.done /\ r.installing = st.installing
    BY <1>2 DEF TypedRow, Seen
  <2>2. \/ EndPass \/ Save(r)
        \/ Read("flat") /\ UNCHANGED <<row, exchange, st, loaded, acct, goal, k, counts>>
    BY <1>8 DEF TrailingSet
  <2> HIDE DEF r
  <2> QED
    BY <1>1, <1>2, <1>4, <2>1, <2>2, WorkSaved, FlatOn
<1> QED
  BY <1>5, <1>6, <1>7, <1>8

\* An interrupted installation is resumed.
LEMMA ResumeFits ==
  ASSUME FitInv, ProtectionInv, NullIsNoPlan, ResumeInstall
  PROVE  FitInv'
<1>1. pc = "decide" /\ st.installing /\ BeginInstall(st, "resume", st.trail, st.qty, st.avg)
  BY DEF ResumeInstall, Live, At
<1>2. HasRead /\ TypedRow(st) /\ st.status \in Active
  BY <1>1 DEF HasRead, ProtectionInv, PassInv, RowInv, FitInv, ShapeInv, CopyInv
<1>3. Resumed(st, st.qty)
  BY <1>1 DEF Resumed
<1> QED
  BY <1>1, <1>2, <1>3, BeginFits

\* At the start there are no exits.
LEMMA InitFits == Init => FitInv
<1> SUFFICES ASSUME Init PROVE FitInv
  OBVIOUS
<1>1. /\ row.done = {} /\ row.exits = None /\ row.installing = FALSE /\ DOMAIN exit = {} /\ pc = "idle"
  BY DEF Init
<1>2. Place = "idle"
  BY <1>1 DEF Place, Reading
<1>3. Open(exit) = {}
  BY <1>1 DEF Open
<1>4. OrderInv /\ LinkInv /\ PlannedRow(row)
  BY <1>1 DEF OrderInv, LinkInv, PlannedRow
<1>5. CopyInv /\ ListInv /\ ReplaceInv /\ ~Placing
  BY <1>1, <1>2, <1>4 DEF CopyInv, ListInv, ReplaceInv, Placing, Replacing, Handing
<1>6. RevisionInv /\ SizeKnown /\ LeftFits /\ OpenFits
  BY <1>1, <1>3, <1>5 DEF RevisionInv, SizeKnown, HasRead, LeftFits, OpenFits
<1> QED
  BY <1>4, <1>5, <1>6 DEF FitInv, ShapeInv, SizeInv

\* Every step leaves the exits fitting.
LEMMA FitStep ==
  ASSUME ~Torn, NullIsNoPlan, FitInv, ProtectionInv, ProtectionInv', [Next]_vars
  PROVE  FitInv'
<1>1. CASE UNCHANGED vars
  <2>1. pos.size \in Nat /\ pos' = pos /\ UNCHANGED <<row, pass, exit, user, fired>>
    BY <1>1 DEF vars, exchange, counts, ProtectionInv, CoverInv, ExchangeInv, PositionOK
  <2>2. Calm' => Calm
    BY <2>1 DEF Calm
  <2> QED
    BY <2>1, <2>2, Grows
<1>2. CASE PassFails
  BY <1>2, EndFits DEF PassFails
<1>3. CASE Environment
  BY <1>3, EnvironmentFits
<1>4. CASE Supervise
  <2>1. CASE StartPass \/ ReadPositions \/ ReadOrders
    BY <2>1, StartFits, ReadFits
  <2>2. CASE \/ PositionMissing \/ CloseIfFlat \/ Pause \/ DriftPauses \/ HandedOverFlat
             \/ Handover \/ StartRebalance
    BY <2>2, PlainFits
  <2>3. CASE ResumeInstall
    BY <2>3, ResumeFits
  <2>4. CASE ApplyProtection \/ ProtectionRefused \/ CancelStaleExit \/ StaleExitsCancelled
    BY <2>4, ApplyFits, CancelFits, CancelledFits
  <2>5. CASE Replaced \/ FillsMatch \/ Confirm
    BY <2>5, ReplacedFits, MatchFits, ConfirmFits
  <2>6. CASE EnsureFullStop \/ DropPartialStop \/ PartialStopsDropped
    BY <2>6, HandoverFits
  <2>7. CASE PlaceExit \/ ExitsPlaced \/ VerifyInstallation
    BY <2>7, PlaceFits, VerifyFits
  <2>8. CASE FixedExitFilled \/ AfterFixedExit \/ Accumulate \/ Freeze
    BY <2>8, BuildFits
  <2>9. CASE FreezeEntries \/ Rebalance
    BY <2>9, FrozenFits
  <2>10. CASE ManageProfit \/ ActivateTrailing \/ SetTrailing \/ TrailingSet
    BY <2>10, TrailFits
  <2> QED
    BY <1>4, <2>1, <2>2, <2>3, <2>4, <2>5, <2>6, <2>7, <2>8, <2>9, <2>10 DEF Supervise
<1> QED
  BY <1>1, <1>2, <1>3, <1>4 DEF Next

\* The open fixed exits never add up to more than the position, whatever filled
\* while they were replaced or an interrupted installation was resumed, unless an
\* exit fills between the two reads of one snapshot (_cancel_stale_exits,
\* _replacement_fill_matches, _planned_exits).
THEOREM ExitsAlwaysFit ==
  ASSUME ~Torn, NullIsNoPlan
  PROVE  Spec => []ExitsFitPosition
<1>1. Init => ProtectionInv /\ FitInv
  BY InitProtection, InitFits
<1>2. ProtectionInv /\ FitInv /\ [Next]_vars => (ProtectionInv /\ FitInv)'
  BY ProtectionStep, FitStep
<1>3. ProtectionInv /\ FitInv => ExitsFitPosition
  <2> SUFFICES ASSUME ProtectionInv, FitInv, user = 0 /\ ~fired PROVE OpenLots <= pos.size
    BY DEF ExitsFitPosition
  <2>1. pos.size \in Nat
    BY DEF ProtectionInv, CoverInv, ExchangeInv, PositionOK
  <2> QED
    BY <2>1, OpenSum DEF FitInv, Calm
<1> QED
  BY <1>1, <1>2, <1>3, PTL DEF Spec

(***************************************************************************)
(* The arithmetic of exits, for any position: the shares of what is left,  *)
(* the stop in profit, and the prices.                                     *)
(***************************************************************************)
\* The shares of the rest, for any case.
LEMMA SharesHold ==
  ASSUME NEW x, x.size \in Nat, x.done \in SUBSET (1..3)
  PROVE  SharesOfTheRest(x)
<1> DEFINE y == PlannedLegsOf(x)
           W == RemainingWeight(x.done)
           f == [i \in DOMAIN y |-> y[i][1]]
<1> SUFFICES ASSUME Sized(x)
             PROVE  /\ \A i \in DOMAIN y : /\ y[i][1] * (Whole - SharesOf(x.done)) <= x.size * Policy.exits[i]
                                           /\ (y[i][1] + 1) * (Whole - SharesOf(x.done)) > x.size * Policy.exits[i]
                    /\ (x.size - SumOver(DOMAIN y, f)) * (Whole - SharesOf(x.done)) >= x.size * Policy.runner
  BY DEF SharesOfTheRest
<1>1. W \in Nat \ {0} /\ W = Whole - SharesOf(x.done) /\ Policy.runner \in Nat
  BY WeightIs, PolicyFacts
<1>2. /\ DOMAIN y \subseteq 1..3
      /\ \A i \in DOMAIN y : /\ y[i][1] \in Nat \ {0}
                             /\ y[i][1] * W <= x.size * Policy.exits[i]
                             /\ (y[i][1] + 1) * W > x.size * Policy.exits[i]
      /\ Wanted(y) \in Nat /\ Wanted(y) * W <= x.size * (W - Policy.runner)
  BY ExitLots DEF Sized, PlannedLegsOf
<1> HIDE DEF W, y
<1>3. SumOver(DOMAIN y, f) = Wanted(y)
  <2> DEFINE S == DOMAIN y
  <2>1. S \in SUBSET (1..3) /\ f \in [S -> Int]
    BY <1>2
  <2>2. \A i \in 1..3 : Term(S, f, i) = LotsAt(y, i)
    BY DEF Term, LotsAt
  <2> HIDE DEF S, f
  <2>3. SumOver(S, f) = Term(S, f, 1) + Term(S, f, 2) + Term(S, f, 3)
    BY <2>1, SumIndex
  <2> QED
    BY <2>2, <2>3 DEF Wanted, S
<1>4. (x.size - Wanted(y)) * W >= x.size * Policy.runner
  <2> DEFINE n == Wanted(y)
             s == x.size
  <2>1. n \in Nat /\ s \in Nat /\ n * W <= s * (W - Policy.runner)
    BY <1>2
  <2> HIDE DEF n, s
  <2>2. s * (W - Policy.runner) = s * W - s * Policy.runner
    BY <1>1, <2>1
  <2>3. (s - n) * W = s * W - n * W
    BY <1>1, <2>1
  <2>4. s * W \in Int /\ n * W \in Int /\ s * Policy.runner \in Int
    BY <1>1, <2>1
  <2>5. (s - n) * W >= s * Policy.runner
    BY <2>1, <2>2, <2>3, <2>4
  <2> QED
    BY <2>5 DEF n, s
<1> QED
  BY <1>1, <1>2, <1>3, <1>4

\* The locked price is on the profitable side of what it rounds.
LEMMA LockedBeyond ==
  ASSUME NEW side, NEW n \in Int, NEW m \in Nat \ {0}
  PROVE  LET locked == LockedTick(side, <<n, m>>)
         IN  locked \in Int /\ Dir(side) * locked * m >= Dir(side) * n
<1> DEFINE M == m * Tick
           u == (n + M - 1) \div M
           l == n \div M
<1>1. Tick \in Nat \ {0} /\ M \in Nat \ {0}
  BY PolicyFacts, TimesPositive
<1>2. LockedTick(side, <<n, m>>) = IF side = "LONG" THEN Tick * u ELSE Tick * l
  BY DEF LockedTick
<1>3. u \in Int /\ l \in Int
  <2> HIDE DEF M
  <2>1. n + M - 1 \in Int
    BY <1>1
  <2> QED
    BY <1>1, <2>1, DivType
<1>4. u * M >= n /\ l * M <= n
  <2> HIDE DEF M
  <2>1. n + M - 1 \in Int
    BY <1>1
  <2>2. (u + 1) * M > n + M - 1 /\ l * M <= n
    BY <1>1, <2>1
  <2> HIDE DEF u, l
  <2>3. u * M \in Int /\ (u + 1) * M = u * M + M
    BY <1>1, <1>3
  <2> QED
    BY <1>1, <2>2, <2>3
<1> HIDE DEF u, l
<1>5. Tick * u \in Int /\ Tick * l \in Int /\ (Tick * u) * m = u * M /\ (Tick * l) * m = l * M
  BY <1>1, <1>3
<1> HIDE DEF M
<1> DEFINE p == Tick * u
           q == Tick * l
<1>6. p \in Int /\ q \in Int /\ p * m >= n /\ q * m <= n
  BY <1>4, <1>5
<1> HIDE DEF p, q
<1>7. CASE side = "LONG"
  <2>1. LockedTick(side, <<n, m>>) = p /\ Dir(side) = 1
    BY <1>2, <1>7 DEF p, Dir
  <2> QED
    BY <1>6, <2>1
<1>8. CASE side # "LONG"
  <2>1. LockedTick(side, <<n, m>>) = q /\ Dir(side) = -1
    BY <1>2, <1>8 DEF q, Dir
  <2>2. -1 * q * m = -(q * m) /\ -1 * n = -n /\ q * m \in Int
    BY <1>6
  <2>3. -1 * q * m >= -1 * n
    BY <1>6, <2>2
  <2> QED
    BY <1>6, <2>1, <2>3
<1> QED
  BY <1>7, <1>8

\* The distance of an average price to a stop.
LEMMA RiskIs ==
  ASSUME NEW avg \in AvgPrice, NEW stop \in Int
  PROVE  LET D == RiskDistance(avg, stop)[1]
         IN  D \in Nat /\ (avg[1] # stop * avg[2] => D > 0)
<1>1. avg[1] \in Int /\ avg[2] \in Int
  BY DEF AvgPrice
<1> DEFINE s == stop * avg[2]
<1>2. s \in Int
  BY <1>1
<1> HIDE DEF s
<1>3. Dist(avg[1], s) \in Nat /\ (avg[1] # s => Dist(avg[1], s) > 0)
  BY <1>1, <1>2 DEF Dist
<1> QED
  BY <1>3 DEF RiskDistance, s

\* The protected stop, for any case.
LEMMA StopHolds ==
  ASSUME NEW x, x.plan.stop \in Int, x.avg \in AvgPrice, x.prev \in Maybe(Int), x.mark \in Int
  PROVE  StopLocksProfit(x)
<1> DEFINE side == x.plan.side
           d == Dir(side)
           a == x.avg[1]
           b == x.avg[2]
           D == RiskDistance(x.avg, x.plan.stop)[1]
           n == (a + d * Fee * b) * Lock[2] + d * D * Lock[1]
           m == b * Lock[2]
           locked == LockedTick(side, <<n, m>>)
           further(u, v) == IF Below(side, u, v) THEN v ELSE u
           last == IF x.prev = None THEN x.plan.stop ELSE x.prev
           stop == further(further(locked, x.plan.stop), last)
           p == ProtectedStop(x.plan, x.avg, x.prev, x.mark)
<1>1. p = IF stop <= 0 \/ ~Below(side, stop, x.mark) THEN Refusal("passed") ELSE [stop |-> stop]
  BY DEF ProtectedStop
<1>2. /\ a \in Int /\ b \in Nat \ {0} /\ D \in Nat /\ d \in {1, -1} /\ Fee \in Nat
      /\ Lock[1] \in Nat /\ Lock[2] \in Nat \ {0} /\ m \in Nat \ {0}
  BY RiskIs, ExitConstants, TimesPositive DEF AvgPrice, Dir
<1>3. last \in Int
  BY DEF Maybe
<1>4. SUFFICES ASSUME ~Refused(p)
               PROVE  /\ d * stop * b * Lock[2] >= d * a * Lock[2] + Fee * b * Lock[2] + D * Lock[1]
                      /\ x.prev # None => ~Below(side, stop, x.prev)
                      /\ Below(side, stop, x.mark)
  <2> HIDE DEF stop
  <2>1. ~Refused(p) => p.stop = stop
    BY <1>1 DEF Refused, Refusal
  <2> HIDE DEF p
  <2>2. StopLocksProfit(x) <=>
          (~Refused(p) => /\ d * p.stop * b * Lock[2] >= d * a * Lock[2] + Fee * b * Lock[2] + D * Lock[1]
                          /\ x.prev # None => ~Below(side, p.stop, x.prev)
                          /\ Below(side, p.stop, x.mark))
    BY DEF StopLocksProfit, p
  <2> HIDE DEF d, a, b, D, side
  <2> QED
    BY <2>1, <2>2
<1>5. Below(side, stop, x.mark)
  <2> HIDE DEF stop
  <2> QED
    BY <1>1, <1>4 DEF Refused, Refusal
<1> HIDE DEF p, d, a, b, D
<1>6. n \in Int /\ d * n = d * a * Lock[2] + Fee * b * Lock[2] + D * Lock[1]
  <2> DEFINE g == Fee * b
             h == a * Lock[2]
             i == g * Lock[2]
             j == D * Lock[1]
  <2>1. g \in Int /\ h \in Int /\ i \in Int /\ j \in Int
    BY <1>2
  <2>2. CASE d = 1
    <3>1. n = h + i + j /\ d * a * Lock[2] = h
      BY <1>2, <2>2
    <3> QED
      BY <2>1, <2>2, <3>1
  <2>3. CASE d = -1
    <3>1. n = h - i - j /\ d * a * Lock[2] = -h
      BY <1>2, <2>3
    <3> QED
      BY <2>1, <2>3, <3>1
  <2> QED
    BY <1>2, <2>2, <2>3
<1> HIDE DEF n
<1>7. locked \in Int /\ d * locked * m >= d * n
  <2> HIDE DEF m
  <2> QED
    BY <1>2, <1>6, LockedBeyond DEF d
<1> HIDE DEF locked, last
<1>8. /\ stop \in Int /\ d * stop >= d * locked
      /\ x.prev # None => ~Below(side, stop, x.prev)
  <2>1. x.prev # None => last = x.prev
    BY DEF last
  <2>2. /\ stop \in Int /\ d * stop >= d * locked /\ ~Below(side, stop, last)
    BY <1>2, <1>3, <1>7 DEF Below, d
  <2> HIDE DEF stop
  <2> QED
    BY <2>1, <2>2
<1> HIDE DEF stop, m
<1>9. d * stop * m >= d * locked * m
  <2> DEFINE u == d * stop
             v == d * locked
  <2>1. u \in Int /\ v \in Int /\ u >= v
    BY <1>2, <1>7, <1>8
  <2> HIDE DEF u, v
  <2>2. u * m >= v * m
    BY <1>2, <2>1
  <2> QED
    BY <2>2 DEF u, v
<1>10. d * stop * m = d * stop * b * Lock[2]
  BY <1>2, <1>8 DEF m
<1>11. d * stop * b * Lock[2] >= d * n
  <2> DEFINE u == d * stop * m
             v == d * locked * m
             w == d * n
  <2>1. u \in Int /\ v \in Int /\ w \in Int
    BY <1>2, <1>6, <1>7, <1>8
  <2>2. u >= v /\ v >= w /\ u = d * stop * b * Lock[2]
    BY <1>7, <1>9, <1>10
  <2> HIDE DEF u, v, w
  <2>3. u >= w
    BY <2>1, <2>2
  <2> QED
    BY <2>2, <2>3 DEF w
<1> QED
  BY <1>5, <1>6, <1>8, <1>11

\* A multiple of R: a positive rational.
Multiple == (Nat \ {0}) \X (Nat \ {0})
\* A plan of exits: three growing multiples of R, and perhaps a trader's target.
PlanOK(plan) ==
    /\ plan.stop \in Int /\ plan.cap \in Maybe(Int)
    /\ \A i \in 1..3 : plan.rs[i] \in Multiple
    /\ LessR(plan.rs[1], plan.rs[2]) /\ LessR(plan.rs[2], plan.rs[3])
\* An average price that is not the planned stop: at the stop there is no R to
\* divide by, and _resolve_target_rs raises.
OffStop(avg, plan) == avg[1] # plan.stop * avg[2]
\* Rationals in order.
NotMore(r, s) == r[1] * s[2] <= s[1] * r[2]

\* Order of positive rationals.
LEMMA LessThrough ==
  ASSUME NEW r \in Multiple, NEW s \in Multiple, NEW t \in Multiple, LessR(r, s), LessR(s, t)
  PROVE  NotMore(r, s) /\ NotMore(s, t) /\ NotMore(r, t)
<1> DEFINE a == r[1]
           b == r[2]
           e == s[1]
           f == s[2]
           g == t[1]
           h == t[2]
<1>1. /\ a \in Nat \ {0} /\ b \in Nat \ {0} /\ e \in Nat \ {0} /\ f \in Nat \ {0}
      /\ g \in Nat \ {0} /\ h \in Nat \ {0}
      /\ a * f < e * b /\ e * h < g * f
  BY DEF Multiple, LessR
<1> HIDE DEF a, b, e, f, g, h
<1>2. /\ a * f \in Int /\ e * b \in Int /\ e * h \in Int /\ g * f \in Int
      /\ a * h \in Int /\ g * b \in Int
  BY <1>1
<1>3. (a * f) * h <= (e * b) * h /\ (e * h) * b <= (g * f) * b
  <2> DEFINE u == a * f
             v == e * b
             w == e * h
             z == g * f
  <2>1. u \in Int /\ v \in Int /\ w \in Int /\ z \in Int /\ u <= v /\ w <= z
    BY <1>1, <1>2
  <2> HIDE DEF u, v, w, z
  <2>2. u * h <= v * h /\ w * b <= z * b
    BY <1>1, <2>1
  <2> QED
    BY <2>2 DEF u, v, w, z
<1>4. (a * h) * f <= (g * b) * f
  <2>1. /\ (a * f) * h = (a * h) * f /\ (e * b) * h = (e * h) * b /\ (g * f) * b = (g * b) * f
    BY <1>1
  <2>2. (a * f) * h \in Int /\ (e * b) * h \in Int /\ (g * f) * b \in Int
    BY <1>1, <1>2
  <2> QED
    BY <1>3, <2>1, <2>2
<1>5. a * h <= g * b
  <2> DEFINE u == a * h
             v == g * b
  <2>1. u \in Int /\ v \in Int /\ u * f <= v * f
    BY <1>2, <1>4
  <2> HIDE DEF u, v
  <2>2. u <= v
    BY <1>1, <2>1
  <2> QED
    BY <2>2 DEF u, v
<1>6. a * f <= e * b /\ e * h <= g * f
  BY <1>1, <1>2
<1> QED
  BY <1>5, <1>6 DEF NotMore, a, b, e, f, g, h

\* Halfway between two rationals.
LEMMA Midway ==
  ASSUME NEW r \in Multiple, NEW s \in Multiple, LessR(r, s)
  PROVE  LET m == <<r[1] * s[2] + s[1] * r[2], 2 * r[2] * s[2]>>
         IN  m \in Multiple /\ NotMore(r, m) /\ NotMore(m, s)
<1> DEFINE a == r[1]
           b == r[2]
           e == s[1]
           f == s[2]
           p == a * f
           q == e * b
           w == 2 * b * f
<1>1. /\ a \in Nat \ {0} /\ b \in Nat \ {0} /\ e \in Nat \ {0} /\ f \in Nat \ {0} /\ p < q
  BY DEF Multiple, LessR
<1> HIDE DEF a, b, e, f
<1>2. p \in Nat \ {0} /\ q \in Nat \ {0} /\ w \in Nat \ {0}
  BY <1>1, TimesPositive
<1>3. a * w = 2 * (p * b) /\ e * w = 2 * (q * f)
  BY <1>1
<1> HIDE DEF p, q, w
<1>4. p * b <= q * b /\ p * f <= q * f /\ p * b \in Int /\ q * b \in Int /\ p * f \in Int /\ q * f \in Int
  BY <1>1, <1>2
<1>5. (p + q) * b = p * b + q * b /\ (p + q) * f = p * f + q * f
  BY <1>1, <1>2
<1>6. a * w <= (p + q) * b /\ (p + q) * f <= e * w
  BY <1>3, <1>4, <1>5
<1>7. <<p + q, w>> \in Multiple
  BY <1>2 DEF Multiple
<1> QED
  BY <1>6, <1>7 DEF NotMore, a, b, e, f, p, q, w

\* Shrinking keeps the order.
LEMMA Shrunk ==
  ASSUME NEW r \in Multiple, NEW s \in Multiple, NEW x \in Nat \ {0}, NEW y \in Nat \ {0}, NEW z \in Nat \ {0}, NEW w \in Nat \ {0},
         NotMore(r, s), x * y <= w * z
  PROVE  LET t(j) == <<j[1] * x * y, j[2] * z * w>>
         IN  t(r) \in Multiple /\ NotMore(t(r), t(s)) /\ NotMore(t(r), r)
<1> DEFINE a == r[1]
           b == r[2]
           e == s[1]
           f == s[2]
           g == x * y
           h == z * w
<1>1. /\ a \in Nat \ {0} /\ b \in Nat \ {0} /\ e \in Nat \ {0} /\ f \in Nat \ {0}
      /\ a * f <= e * b
  BY DEF Multiple, NotMore
<1> HIDE DEF a, b, e, f
<1>2. g \in Nat \ {0} /\ h \in Nat \ {0} /\ w * z = h
  BY TimesPositive
<1>3. /\ a * x * y = a * g /\ b * z * w = b * h /\ e * x * y = e * g /\ f * z * w = f * h
  BY <1>1
<1>4. g <= h
  BY <1>2
<1> HIDE DEF g, h
<1>5. a * g \in Nat \ {0} /\ b * h \in Nat \ {0}
  BY <1>1, <1>2, TimesPositive
<1>6. (a * g) * (f * h) <= (e * g) * (b * h)
  <2> DEFINE u == a * f
             v == e * b
             j == g * h
  <2>1. u \in Int /\ v \in Int /\ j \in Nat /\ u <= v
    BY <1>1, <1>2
  <2>2. (a * g) * (f * h) = u * j /\ (e * g) * (b * h) = v * j
    BY <1>1, <1>2
  <2> HIDE DEF u, v, j
  <2>3. u * j <= v * j
    BY <2>1
  <2> QED
    BY <2>2, <2>3
<1>7. (a * g) * b <= a * (b * h)
  <2> DEFINE u == a * b
  <2>1. u \in Nat
    BY <1>1
  <2>2. (a * g) * b = u * g /\ a * (b * h) = u * h
    BY <1>1, <1>2
  <2> HIDE DEF u
  <2>3. u * g <= u * h
    BY <1>2, <1>4, <2>1
  <2> QED
    BY <2>2, <2>3
<1> DEFINE p == <<a * g, b * h>>
           q == <<e * g, f * h>>
<1>8. p \in Multiple /\ NotMore(p, q) /\ NotMore(p, r)
  BY <1>5, <1>6, <1>7 DEF Multiple, NotMore, a, b
<1>9. p = <<r[1] * x * y, r[2] * z * w>> /\ q = <<s[1] * x * y, s[2] * z * w>>
  BY <1>3 DEF a, b, e, f
<1> HIDE DEF p, q
<1> QED
  BY <1>8, <1>9

\* Where a plan's exits go: growing multiples of R, of which the first and the
\* last are not beyond the plan's own.
LEMMA TargetsGrow ==
  ASSUME NEW plan, NEW avg \in AvgPrice, PlanOK(plan), OffStop(avg, plan), ~CapBehind(plan, avg)
  PROVE  LET rs == TargetRs(plan, avg)
         IN  /\ \A i \in 1..3 : rs[i] \in Multiple /\ (i # 2 => NotMore(rs[i], plan.rs[i]))
             /\ NotMore(rs[1], rs[2]) /\ NotMore(rs[2], rs[3]) /\ NotMore(rs[1], rs[3])
<1> DEFINE tr == TraderR(plan.side, avg, plan.stop, plan.cap)
           D == RiskDistance(avg, plan.stop)[1]
           r1 == plan.rs[1]
           r2 == plan.rs[2]
           r3 == plan.rs[3]
           Grow(x, y, z) == /\ x \in Multiple /\ y \in Multiple /\ z \in Multiple
                            /\ NotMore(x, y) /\ NotMore(y, z) /\ NotMore(x, z)
                            /\ NotMore(x, r1) /\ NotMore(z, r3)
           rs == TargetRs(plan, avg)
<1>1. r1 \in Multiple /\ r2 \in Multiple /\ r3 \in Multiple /\ LessR(r1, r2) /\ LessR(r2, r3)
  BY DEF PlanOK
<1>2. Grow(r1, r2, r3)
  <2>1. \A r \in Multiple : NotMore(r, r)
    BY DEF Multiple, NotMore
  <2> QED
    BY <1>1, <2>1, LessThrough
<1>3. D \in Nat \ {0}
  BY RiskIs DEF PlanOK, OffStop
<1>4. plan.cap # None => tr \in Multiple
  <2>1. avg[1] \in Int /\ avg[2] \in Int
    BY DEF AvgPrice
  <2>2. plan.cap # None => plan.cap \in Int
    BY DEF PlanOK, Maybe
  <2>3. plan.cap # None => tr[1] \in Int /\ tr[1] > 0
    <3> SUFFICES ASSUME plan.cap # None PROVE tr[1] \in Int /\ tr[1] > 0
      OBVIOUS
    <3> DEFINE u == plan.cap * avg[2]
               v == u - avg[1]
    <3>1. v \in Int
      BY <2>1, <2>2
    <3>2. tr[1] = Dir(plan.side) * v
      BY DEF TraderR
    <3> HIDE DEF v
    <3>3. tr[1] \in Int
      BY <3>1, <3>2 DEF Dir
    <3>4. ~(tr[1] <= 0)
      BY DEF CapBehind
    <3> HIDE DEF tr
    <3> QED
      BY <3>3, <3>4
  <2>4. tr = <<tr[1], D>>
    BY DEF TraderR
  <2> HIDE DEF tr, D
  <2> QED
    BY <1>3, <2>3, <2>4 DEF Multiple
<1> HIDE DEF tr, D
<1>5. rs = IF plan.cap = None THEN plan.rs
           ELSE IF ~LessR(tr, r3) THEN plan.rs
           ELSE IF LessR(r1, tr)
                THEN <<r1, <<r1[1] * tr[2] + tr[1] * r1[2], 2 * r1[2] * tr[2]>>, tr>>
           ELSE [i \in 1..3 |-> <<plan.rs[i][1] * tr[1] * r3[2], plan.rs[i][2] * tr[2] * r3[1]>>]
  BY DEF TargetRs, tr
<1> HIDE DEF rs
<1>6. Grow(rs[1], rs[2], rs[3])
  <2>1. CASE plan.cap = None \/ ~LessR(tr, r3)
    <3>1. rs = plan.rs
      BY <1>5, <2>1
    <3> QED
      BY <1>2, <3>1
  <2>2. CASE plan.cap # None /\ LessR(tr, r3) /\ LessR(r1, tr)
    <3> DEFINE m == <<r1[1] * tr[2] + tr[1] * r1[2], 2 * r1[2] * tr[2]>>
    <3>1. rs[1] = r1 /\ rs[2] = m /\ rs[3] = tr
      BY <1>5, <2>2
    <3>2. tr \in Multiple
      BY <1>4, <2>2
    <3>3. m \in Multiple /\ NotMore(r1, m) /\ NotMore(m, tr)
      BY <1>1, <2>2, <3>2, Midway
    <3> HIDE DEF m
    <3>4. NotMore(r1, tr) /\ NotMore(tr, r3)
      BY <1>1, <2>2, <3>2, LessThrough
    <3>5. NotMore(r1, r1)
      BY <1>2
    <3> HIDE DEF r1, r2, r3
    <3> QED
      BY <1>1, <3>1, <3>2, <3>3, <3>4, <3>5
  <2>3. CASE plan.cap # None /\ LessR(tr, r3) /\ ~LessR(r1, tr)
    <3> DEFINE t(j) == <<j[1] * tr[1] * r3[2], j[2] * tr[2] * r3[1]>>
    <3>1. rs[1] = t(r1) /\ rs[2] = t(r2) /\ rs[3] = t(r3)
      BY <1>5, <2>3
    <3>2. tr \in Multiple
      BY <1>4, <2>3
    <3>3. /\ tr[1] \in Nat \ {0} /\ tr[2] \in Nat \ {0} /\ r3[1] \in Nat \ {0} /\ r3[2] \in Nat \ {0}
      BY <1>1, <3>2 DEF Multiple
    <3>4. tr[1] * r3[2] <= r3[1] * tr[2]
      <4>1. tr[1] * r3[2] < r3[1] * tr[2]
        BY <2>3 DEF LessR
      <4>2. tr[1] * r3[2] \in Int /\ r3[1] * tr[2] \in Int
        BY <3>3
      <4> QED
        BY <4>1, <4>2
    <3> HIDE DEF r1, r2, r3
    <3>5. \A r, s \in Multiple : NotMore(r, s) => t(r) \in Multiple /\ NotMore(t(r), t(s)) /\ NotMore(t(r), r)
      BY <3>3, <3>4, Shrunk
    <3> HIDE DEF t
    <3>6. NotMore(r3, r3)
      BY <1>1 DEF NotMore, Multiple
    <3> QED
      BY <1>1, <1>2, <3>1, <3>5, <3>6
  <2> QED
    BY <2>1, <2>2, <2>3
<1> HIDE DEF r1, r2, r3
<1>7. \A i \in 1..3 : i = 1 \/ i = 2 \/ i = 3
  OBVIOUS
<1>8. NotMore(rs[1], plan.rs[1]) /\ NotMore(rs[3], plan.rs[3])
  BY <1>6 DEF r1, r3
<1> QED
  BY <1>6, <1>7, <1>8 DEF rs

\* A target at a multiple of R, before the cap.
LEMMA TargetIs ==
  ASSUME NEW side, NEW avg \in AvgPrice, NEW stop \in Int, NEW r \in Multiple
  PROVE  LET D == RiskDistance(avg, stop)[1]
             n == avg[1] * r[2] + Dir(side) * D * r[1]
             q == avg[2] * r[2]
             t == TargetPrice(side, avg, stop, r)
         IN  /\ n \in Int /\ q \in Nat \ {0} /\ t \in Int /\ t = RoundPrice(<<n, q>>)
             /\ 2 * q * (Dir(side) * t) <= 2 * (Dir(side) * n) + q * Tick
<1> DEFINE D == RiskDistance(avg, stop)[1]
           d == Dir(side)
           n == avg[1] * r[2] + d * D * r[1]
           q == avg[2] * r[2]
           t == TargetPrice(side, avg, stop, r)
<1>1. avg[1] \in Int /\ avg[2] \in Nat \ {0} /\ D \in Nat /\ d \in {1, -1}
      /\ r[1] \in Nat \ {0} /\ r[2] \in Nat \ {0} /\ Tick \in Nat \ {0}
  BY RiskIs, PolicyFacts DEF AvgPrice, Multiple, Dir
<1>2. t = RoundPrice(<<n, q>>)
  BY DEF TargetPrice
<1> HIDE DEF D, d, t
<1>3. n \in Int /\ q \in Nat \ {0}
  <2>1. d * D \in Int
    BY <1>1
  <2>2. d * D * r[1] \in Int /\ avg[1] * r[2] \in Int
    BY <1>1, <2>1, TimesType
  <2> QED
    BY <1>1, <2>2, TimesPositive
<1> HIDE DEF n, q
<1>4. PICK j \in Int : /\ t = Tick * j /\ j * (2 * q * Tick) <= 2 * n + q * Tick
                       /\ 2 * n + q * Tick < (j + 1) * (2 * q * Tick)
  BY <1>2, <1>3, Rounded
<1>5. t \in Int
  BY <1>1, <1>4
<1> DEFINE u == q * t
           v == q * Tick
<1>6. u \in Int /\ v \in Int /\ j * (2 * q * Tick) = 2 * u /\ (j + 1) * (2 * q * Tick) = 2 * u + 2 * v
  BY <1>1, <1>3, <1>4
<1>7. 2 * u <= 2 * n + v /\ 2 * n + v < 2 * u + 2 * v
  BY <1>4, <1>6
<1>8. d = 1 => 2 * q * (d * t) = 2 * u /\ 2 * (d * n) = 2 * n
  BY <1>3, <1>5
<1>9. d = -1 => 2 * q * (d * t) = -2 * u /\ 2 * (d * n) = -2 * n
  BY <1>3, <1>5
<1> HIDE DEF u
<1>10. 2 * q * (d * t) <= 2 * (d * n) + v
  <2> HIDE DEF v
  <2> QED
    BY <1>1, <1>3, <1>6, <1>7, <1>8, <1>9
<1> QED
  BY <1>2, <1>3, <1>5, <1>10 DEF D, d, n, q, t

\* Products over sums.
LEMMA Distributes ==
  ASSUME NEW a \in Int, NEW b \in Int, NEW j \in Int
  PROVE  (a + b) * j = a * j + b * j /\ (a - b) * j = a * j - b * j
  OBVIOUS

\* A larger multiple of R is not nearer.
LEMMA TargetsOrdered ==
  ASSUME NEW side, NEW avg \in AvgPrice, NEW stop \in Int, NEW r \in Multiple, NEW s \in Multiple,
         NotMore(r, s)
  PROVE  Dir(side) * TargetPrice(side, avg, stop, r) <= Dir(side) * TargetPrice(side, avg, stop, s)
<1> DEFINE D == RiskDistance(avg, stop)[1]
           a == avg[1]
           b == avg[2]
           d == Dir(side)
           N(j) == a * j[2] + d * D * j[1]
           Q(j) == b * j[2]
           T(j) == TargetPrice(side, avg, stop, j)
<1>1. /\ a \in Int /\ b \in Nat \ {0} /\ D \in Nat /\ d \in {1, -1}
      /\ r[1] \in Nat \ {0} /\ r[2] \in Nat \ {0} /\ s[1] \in Nat \ {0} /\ s[2] \in Nat \ {0}
      /\ r[1] * s[2] <= s[1] * r[2]
  BY RiskIs DEF AvgPrice, Multiple, Dir, NotMore
<1>2. /\ N(r) \in Int /\ Q(r) \in Nat \ {0} /\ T(r) \in Int /\ T(r) = RoundPrice(<<N(r), Q(r)>>)
      /\ N(s) \in Int /\ Q(s) \in Nat \ {0} /\ T(s) \in Int /\ T(s) = RoundPrice(<<N(s), Q(s)>>)
  BY TargetIs
<1> HIDE DEF D, d, a, b, T
<1> DEFINE u == r[1] * s[2]
           v == s[1] * r[2]
           w == a * b * r[2] * s[2]
           z == D * b
<1>3. u \in Int /\ v \in Int /\ u <= v /\ w \in Int /\ z \in Nat
  BY <1>1
<1>4. CASE d = 1
  <2>1. N(r) * Q(s) = w + z * u /\ N(s) * Q(r) = w + z * v
    <3> DEFINE X(j) == a * j[2]
               Y(j) == D * j[1]
    <3>1. X(r) \in Int /\ Y(r) \in Int /\ X(s) \in Int /\ Y(s) \in Int
      BY <1>1
    <3>2. N(r) = X(r) + Y(r) /\ N(s) = X(s) + Y(s)
      BY <1>1, <1>4, <3>1
    <3>3. /\ X(r) * Q(s) = w /\ X(s) * Q(r) = w
          /\ Y(r) * Q(s) = z * u /\ Y(s) * Q(r) = z * v
      BY <1>1
    <3> HIDE DEF X, Y, N, Q, u, v, w, z
    <3>4. /\ (X(r) + Y(r)) * Q(s) = X(r) * Q(s) + Y(r) * Q(s)
          /\ (X(s) + Y(s)) * Q(r) = X(s) * Q(r) + Y(s) * Q(r)
      BY <1>2, <3>1, Distributes
    <3> QED
      BY <3>2, <3>3, <3>4
  <2> HIDE DEF u, v, w, z, N, Q
  <2>2. z * u <= z * v /\ z * u \in Int /\ z * v \in Int
    BY <1>3
  <2>3. N(r) * Q(s) <= N(s) * Q(r)
    BY <1>3, <2>1, <2>2
  <2>4. T(r) <= T(s)
    BY <1>2, <2>3, RoundMonotone
  <2> QED
    BY <1>2, <1>4, <2>4 DEF T, d
<1>5. CASE d = -1
  <2>1. N(r) * Q(s) = w - z * u /\ N(s) * Q(r) = w - z * v
    <3> DEFINE X(j) == a * j[2]
               Y(j) == D * j[1]
    <3>1. X(r) \in Int /\ Y(r) \in Int /\ X(s) \in Int /\ Y(s) \in Int
      BY <1>1
    <3>2. N(r) = X(r) - Y(r) /\ N(s) = X(s) - Y(s)
      BY <1>1, <1>5, <3>1
    <3>3. /\ X(r) * Q(s) = w /\ X(s) * Q(r) = w
          /\ Y(r) * Q(s) = z * u /\ Y(s) * Q(r) = z * v
      BY <1>1
    <3> HIDE DEF X, Y, N, Q, u, v, w, z
    <3>4. /\ (X(r) - Y(r)) * Q(s) = X(r) * Q(s) - Y(r) * Q(s)
          /\ (X(s) - Y(s)) * Q(r) = X(s) * Q(r) - Y(s) * Q(r)
      BY <1>2, <3>1, Distributes
    <3> QED
      BY <3>2, <3>3, <3>4
  <2> HIDE DEF u, v, w, z, N, Q
  <2>2. z * u <= z * v /\ z * u \in Int /\ z * v \in Int
    BY <1>3
  <2>3. N(s) * Q(r) <= N(r) * Q(s)
    BY <1>3, <2>1, <2>2
  <2>4. T(s) <= T(r)
    BY <1>2, <2>3, RoundMonotone
  <2> QED
    BY <1>2, <1>5, <2>4 DEF T, d
<1> QED
  BY <1>1, <1>4, <1>5 DEF T, d

\* The last tick within the trader's target.
CapTick(plan) == IF plan.side = "LONG" THEN FloorTick(plan.cap) ELSE CeilTick(plan.cap)

\* It is within.
LEMMA CapTickWithin ==
  ASSUME NEW plan, plan.cap \in Int
  PROVE  CapTick(plan) \in Int /\ Dir(plan.side) * CapTick(plan) <= Dir(plan.side) * plan.cap
<1> DEFINE p == plan.cap
           u == p \div Tick
           v == (p + Tick - 1) \div Tick
<1>1. Tick \in Nat \ {0}
  BY PolicyFacts
<1>2. u \in Int /\ u * Tick <= p
  BY <1>1
<1>3. v \in Int /\ (v + 1) * Tick > p + Tick - 1
  <2> DEFINE q == p + Tick - 1
  <2>1. q \in Int
    BY <1>1
  <2> HIDE DEF q
  <2>2. q \div Tick \in Int /\ (q \div Tick + 1) * Tick > q
    BY <1>1, <2>1
  <2> QED
    BY <2>2 DEF q
<1> HIDE DEF u, v
<1>4. v * Tick >= p
  <2>1. (v + 1) * Tick = v * Tick + Tick /\ v * Tick \in Int
    BY <1>1, <1>3
  <2> QED
    BY <1>1, <1>3, <2>1
<1>5. FloorTick(p) = u * Tick /\ CeilTick(p) = v * Tick /\ u * Tick \in Int /\ v * Tick \in Int
  <2>1. FloorTick(p) = Tick * u /\ CeilTick(p) = Tick * v
    BY DEF FloorTick, CeilTick, u, v
  <2> QED
    BY <1>1, <1>2, <1>3, <2>1
<1> HIDE DEF p
<1>6. p \in Int
  BY DEF p
<1>7. CapTick(plan) = IF plan.side = "LONG" THEN FloorTick(p) ELSE CeilTick(p)
  BY DEF CapTick, p
<1>8. CapTick(plan) \in Int /\ Dir(plan.side) * CapTick(plan) <= Dir(plan.side) * p
  BY <1>2, <1>4, <1>5, <1>6, <1>7 DEF Dir
<1> QED
  BY <1>8 DEF p

\* An exit's price is neither past the target of its multiple nor past the cap.
LEMMA ExitPriceIs ==
  ASSUME NEW plan, NEW avg \in AvgPrice, PlanOK(plan), NEW r \in Multiple
  PROVE  LET d == Dir(plan.side)
             t == TargetPrice(plan.side, avg, plan.stop, r)
             p == ExitPrice(plan, avg, r)
         IN  /\ p \in Int /\ d * p <= d * t
             /\ plan.cap # None => d * p <= d * plan.cap
             /\ p = IF plan.cap # None /\ ~Below(plan.side, t, CapTick(plan)) THEN CapTick(plan) ELSE t
<1> DEFINE d == Dir(plan.side)
           t == TargetPrice(plan.side, avg, plan.stop, r)
           p == ExitPrice(plan, avg, r)
<1>1. plan.stop \in Int /\ plan.cap \in Maybe(Int) /\ d \in {1, -1}
  BY DEF PlanOK, Dir
<1>2. t \in Int
  BY <1>1, TargetIs
<1>3. p = IF plan.cap # None /\ ~Below(plan.side, t, CapTick(plan)) THEN CapTick(plan) ELSE t
  BY DEF ExitPrice, Nearer, CapTick
<1>4. plan.cap # None => /\ plan.cap \in Int /\ CapTick(plan) \in Int
                         /\ d * CapTick(plan) <= d * plan.cap
  BY <1>1, CapTickWithin DEF Maybe
<1>5. Below(plan.side, t, CapTick(plan)) <=> d * t < d * CapTick(plan)
  BY DEF Below
<1> HIDE DEF d, t, p
<1>6. /\ p \in Int /\ d * p <= d * t
      /\ plan.cap # None => d * p <= d * plan.cap
  BY <1>1, <1>2, <1>3, <1>4, <1>5
<1> QED
  BY <1>3, <1>6 DEF d, t, p

\* A larger multiple of R has no nearer exit.
LEMMA PricesOrdered ==
  ASSUME NEW plan, NEW avg \in AvgPrice, PlanOK(plan), NEW r \in Multiple, NEW s \in Multiple,
         NotMore(r, s)
  PROVE  Dir(plan.side) * ExitPrice(plan, avg, r) <= Dir(plan.side) * ExitPrice(plan, avg, s)
<1> DEFINE d == Dir(plan.side)
           t(j) == TargetPrice(plan.side, avg, plan.stop, j)
           p(j) == ExitPrice(plan, avg, j)
<1>1. plan.stop \in Int /\ plan.cap \in Maybe(Int) /\ d \in {1, -1}
  BY DEF PlanOK, Dir
<1>2. t(r) \in Int /\ t(s) \in Int
  BY <1>1, TargetIs
<1>3. d * t(r) <= d * t(s)
  BY <1>1, TargetsOrdered
<1>4. /\ p(r) = IF plan.cap # None /\ ~Below(plan.side, t(r), CapTick(plan)) THEN CapTick(plan) ELSE t(r)
      /\ p(s) = IF plan.cap # None /\ ~Below(plan.side, t(s), CapTick(plan)) THEN CapTick(plan) ELSE t(s)
  BY ExitPriceIs
<1>5. plan.cap # None => CapTick(plan) \in Int
  BY <1>1, CapTickWithin DEF Maybe
<1>6. \A q : Below(plan.side, q, CapTick(plan)) <=> d * q < d * CapTick(plan)
  BY DEF Below
<1> HIDE DEF d, t, p
<1>7. d * p(r) <= d * p(s)
  BY <1>1, <1>2, <1>3, <1>4, <1>5, <1>6
<1> QED
  BY <1>7 DEF d, p

\* An exit is not further out than its plan's multiple by more than half a tick.
LEMMA WithinHalfTick ==
  ASSUME NEW plan, NEW avg \in AvgPrice, PlanOK(plan), NEW r \in Multiple, NEW s \in Multiple,
         NotMore(r, s)
  PROVE  LET d == Dir(plan.side)
         IN  2 * avg[2] * s[2] * d * ExitPrice(plan, avg, r)
               <= d * 2 * avg[1] * s[2] + 2 * RiskDistance(avg, plan.stop)[1] * s[1]
                  + Tick * avg[2] * s[2]
<1> DEFINE d == Dir(plan.side)
           a == avg[1]
           b == avg[2]
           D == RiskDistance(avg, plan.stop)[1]
           t == TargetPrice(plan.side, avg, plan.stop, r)
           p == ExitPrice(plan, avg, r)
           n == a * r[2] + d * D * r[1]
           q == b * r[2]
<1>1. /\ plan.stop \in Int /\ d \in {1, -1} /\ a \in Int /\ b \in Nat \ {0} /\ D \in Nat
      /\ r[1] \in Nat \ {0} /\ r[2] \in Nat \ {0} /\ s[1] \in Nat \ {0} /\ s[2] \in Nat \ {0}
      /\ r[1] * s[2] <= s[1] * r[2] /\ Tick \in Nat \ {0}
  BY RiskIs, PolicyFacts DEF PlanOK, AvgPrice, Multiple, Dir, NotMore
<1>2. n \in Int /\ q \in Nat \ {0} /\ t \in Int /\ 2 * q * (d * t) <= 2 * (d * n) + q * Tick
  BY <1>1, TargetIs
<1>3. p \in Int /\ d * p <= d * t
  BY ExitPriceIs
<1> HIDE DEF d, a, b, D, t, p
<1> DEFINE P == d * p
           A == d * a
           V == r[2]
           W == s[2]
           u == r[1]
           v == s[1]
<1>4. P \in Int /\ A \in Int /\ d * t \in Int
  BY <1>1, <1>2, <1>3
<1>5. d * n = A * V + D * u
  <2> DEFINE x == a * V
             y == D * u
  <2>1. x \in Int /\ y \in Int
    BY <1>1
  <2>2. CASE d = 1
    <3>1. n = x + y /\ A * V = x
      BY <1>1, <2>2
    <3> QED
      BY <2>1, <2>2, <3>1
  <2>3. CASE d = -1
    <3>1. d * D = -D /\ A = -a
      BY <1>1, <2>3
    <3>2. (-D) * u = -(D * u) /\ (-a) * V = -(a * V)
      BY <1>1
    <3>3. n = x - y
      BY <2>1, <3>1, <3>2
    <3>4. A * V = -x
      BY <3>1, <3>2
    <3>5. d * n = -n /\ n \in Int
      BY <1>2, <2>3
    <3> QED
      BY <2>1, <3>3, <3>4, <3>5
  <2> QED
    BY <1>1, <2>2, <2>3
<1>6. 2 * (b * V) * P <= 2 * (A * V + D * u) + (b * V) * Tick
  <2> DEFINE R == d * t
             B == b * V
             S == A * V + D * u
  <2>1. B \in Nat \ {0} /\ S \in Int /\ R \in Int /\ P <= R /\ 2 * B * R <= 2 * S + B * Tick
    BY <1>1, <1>2, <1>3, <1>4, <1>5
  <2> HIDE DEF R, B, S, P
  <2>2. 2 * B * P <= 2 * B * R /\ 2 * B * P \in Int /\ 2 * B * R \in Int /\ B * Tick \in Int
    BY <1>1, <1>4, <2>1
  <2> QED
    BY <2>1, <2>2 DEF B, S
<1> HIDE DEF P, A
<1>7. V \in Nat \ {0} /\ W \in Nat \ {0} /\ u \in Nat /\ v \in Nat /\ u * W <= v * V
  BY <1>1
<1> HIDE DEF V, W, u, v
<1> DEFINE X == 2 * b * W * P
           Y == 2 * A * W + 2 * D * v + Tick * b * W
<1>8. X \in Int /\ Y \in Int
  BY <1>1, <1>4, <1>7
<1>9. X * V <= Y * V
  <2> DEFINE f == 2 * (b * V) * P
             g == A * V
             h == D * u
             o == (b * V) * Tick
  <2>1. f \in Int /\ g \in Int /\ h \in Int /\ o \in Int /\ f <= 2 * (g + h) + o
    BY <1>1, <1>4, <1>6, <1>7
  <2>2. f * W = X * V
    BY <1>1, <1>4, <1>7
  <2>3. h * W <= (D * v) * V
    <3> DEFINE x == u * W
               y == v * V
    <3>1. x \in Int /\ y \in Int /\ x <= y
      BY <1>7
    <3>2. h * W = D * x /\ (D * v) * V = D * y
      BY <1>1, <1>7
    <3> HIDE DEF x, y, h
    <3>3. D * x <= D * y
      BY <1>1, <3>1
    <3> QED
      BY <3>2, <3>3
  <2>4. g * W = (A * W) * V /\ o * W = (Tick * b * W) * V
    BY <1>1, <1>4, <1>7
  <2>5. Y * V = 2 * ((A * W) * V) + 2 * ((D * v) * V) + (Tick * b * W) * V
    <3> DEFINE x == A * W
               y == D * v
               z == Tick * b * W
    <3>1. x \in Int /\ y \in Int /\ z \in Int /\ Y = 2 * x + 2 * y + z
      BY <1>1, <1>4, <1>7
    <3> HIDE DEF x, y, z, Y
    <3>2. (2 * x + 2 * y + z) * V = 2 * (x * V) + 2 * (y * V) + z * V
      BY <1>7, <3>1
    <3> QED
      BY <3>1, <3>2 DEF x, y, z
  <2>6. (D * v) * V \in Int
    BY <1>1, <1>7
  <2> HIDE DEF f, g, h, o, X, Y
  <2>7. f * W <= (2 * (g + h) + o) * W
    <3> DEFINE m == 2 * (g + h) + o
    <3>1. m \in Int /\ f <= m
      BY <2>1
    <3> HIDE DEF m
    <3>2. f * W <= m * W
      BY <1>7, <2>1, <3>1
    <3> QED
      BY <3>2 DEF m
  <2>8. (2 * (g + h) + o) * W = 2 * (g * W) + 2 * (h * W) + o * W
    BY <1>7, <2>1
  <2>9. f * W \in Int /\ g * W \in Int /\ h * W \in Int /\ o * W \in Int
    BY <1>7, <2>1, TimesType
  <2>10. f * W <= 2 * (g * W) + 2 * ((D * v) * V) + o * W
    BY <2>3, <2>6, <2>7, <2>8, <2>9
  <2> QED
    BY <2>2, <2>4, <2>5, <2>10
<1>10. X <= Y
  <2> HIDE DEF X, Y
  <2> QED
    BY <1>7, <1>8, <1>9
<1>11. X = 2 * b * W * d * p
  BY <1>1, <1>3, <1>7 DEF P
<1>12. Y = d * 2 * a * W + 2 * D * v + Tick * b * W
  <2>1. 2 * A * W = d * 2 * a * W
    BY <1>1, <1>7 DEF A
  <2> QED
    BY <2>1
<1>13. 2 * b * W * d * p <= d * 2 * a * W + 2 * D * v + Tick * b * W
  <2> HIDE DEF X, Y
  <2> QED
    BY <1>10, <1>11, <1>12
<1> QED
  BY <1>13 DEF d, a, b, D, p, W, v

\* The prices of the exits, for any case.
LEMMA PricesHold ==
  ASSUME NEW x, PlanOK(x.plan), x.avg \in AvgPrice, OffStop(x.avg, x.plan)
  PROVE  PricesInOrder(x)
<1> DEFINE plan == x.plan
           avg == x.avg
           side == plan.side
           d == Dir(side)
           rs == TargetRs(plan, avg)
           qty(i) == RoundDown(<<x.size * Policy.exits[i], RemainingWeight(x.done)>>)
           price(i) == ExitPrice(plan, avg, rs[i])
           wanted == {i \in 1..3 \ x.done : qty(i) > 0 /\ qty(i) >= MinQty}
           placed == {i \in wanted : qty(i) * price(i) >= MinNotional}
           y == PlannedLegsOf(x)
           half(i) == 2 * avg[2] * plan.rs[i][2] * d * price(i)
                        <= d * 2 * avg[1] * plan.rs[i][2]
                           + 2 * RiskDistance(avg, plan.stop)[1] * plan.rs[i][1]
                           + Tick * avg[2] * plan.rs[i][2]
<1> SUFFICES ASSUME Sized(x)
             PROVE  \A i \in DOMAIN y :
                      /\ Below(side, avg[1], y[i][2] * avg[2])
                      /\ plan.cap # None => ~Below(side, plan.cap, y[i][2])
                      /\ \A j \in DOMAIN y : j < i => Below(side, y[j][2], y[i][2])
                      /\ i # 2 => 2 * avg[2] * plan.rs[i][2] * Dir(side) * y[i][2]
                           <= Dir(side) * 2 * avg[1] * plan.rs[i][2]
                              + 2 * RiskDistance(avg, plan.stop)[1] * plan.rs[i][1]
                              + Tick * avg[2] * plan.rs[i][2]
  BY DEF PricesInOrder
<1>1. /\ ~CapBehind(plan, avg)
      /\ \A i \in wanted : Below(side, avg[1], price(i) * avg[2])
      /\ \A i \in wanted : \A j \in placed : j < i => price(j) # price(i)
      /\ y = [i \in placed |-> <<qty(i), price(i)>>]
  <2> DEFINE legs == [i \in placed |-> <<qty(i), price(i)>>]
  <2>1. PlannedExits(plan, x.size, avg, x.done)
          = IF CapBehind(plan, avg) THEN Refusal("cap")
            ELSE IF \E i \in wanted : ~Below(side, avg[1], price(i) * avg[2]) THEN Refusal("profit")
            ELSE IF \E i \in wanted : \E j \in placed : j < i /\ price(j) = price(i)
                 THEN Refusal("distinct")
            ELSE [exits |-> legs]
    BY DEF PlannedExits
  <2>2. ~Refused(PlannedExits(plan, x.size, avg, x.done))
    BY DEF Sized
  <2>3. y = PlannedExits(plan, x.size, avg, x.done).exits
    BY DEF PlannedLegsOf
  <2> HIDE DEF y, legs, wanted, placed, price
  <2>4. \A w : Refused(Refusal(w))
    BY DEF Refused, Refusal
  <2>5. y = legs
    BY <2>1, <2>2, <2>3, <2>4
  <2> QED
    BY <2>1, <2>2, <2>4, <2>5 DEF legs
<1>2. /\ \A i \in 1..3 : rs[i] \in Multiple /\ (i # 2 => NotMore(rs[i], plan.rs[i]))
      /\ NotMore(rs[1], rs[2]) /\ NotMore(rs[2], rs[3]) /\ NotMore(rs[1], rs[3])
  BY <1>1, TargetsGrow
<1>3. /\ \A i \in 1..3 : plan.rs[i] \in Multiple
      /\ d \in {1, -1} /\ plan.cap \in Maybe(Int)
  BY DEF PlanOK, Dir
<1> HIDE DEF rs
<1>4. \A i \in 1..3 : price(i) \in Int /\ (plan.cap # None => d * price(i) <= d * plan.cap)
  BY <1>2, ExitPriceIs
<1>5. \A i, j \in 1..3 : j < i => d * price(j) <= d * price(i)
  <2> TAKE i, j \in 1..3
  <2> HAVE j < i
  <2>1. NotMore(rs[j], rs[i])
    <3>1. (j = 1 /\ i = 2) \/ (j = 2 /\ i = 3) \/ (j = 1 /\ i = 3)
      <4>1. (i = 1 \/ i = 2 \/ i = 3) /\ (j = 1 \/ j = 2 \/ j = 3)
        OBVIOUS
      <4> QED
        BY <4>1
    <3> QED
      BY <1>2, <3>1
  <2> QED
    BY <1>2, <2>1, PricesOrdered
<1>6. \A i \in 1..3 : i # 2 => half(i)
  BY <1>2, <1>3, WithinHalfTick
<1>7. placed \subseteq wanted /\ wanted \subseteq 1..3
  OBVIOUS
<1> HIDE DEF wanted, placed, price, y, half
<1>8. DOMAIN y = placed /\ \A i \in DOMAIN y : y[i][2] = price(i)
  BY <1>1
<1> TAKE i \in DOMAIN y
<1>9. i \in wanted /\ i \in placed /\ i \in 1..3 /\ y[i][2] = price(i)
  BY <1>7, <1>8
<1>10. Below(side, avg[1], y[i][2] * avg[2])
  BY <1>1, <1>9
<1>11. plan.cap # None => ~Below(side, plan.cap, y[i][2])
  <2> SUFFICES ASSUME plan.cap # None PROVE ~(d * plan.cap < d * price(i))
    BY <1>9 DEF Below
  <2>1. plan.cap \in Int /\ price(i) \in Int /\ d * price(i) <= d * plan.cap
    BY <1>3, <1>4, <1>9 DEF Maybe
  <2>2. d * price(i) \in Int /\ d * plan.cap \in Int
    BY <1>3, <2>1
  <2> QED
    BY <2>1, <2>2
<1>12. ASSUME NEW j \in DOMAIN y, j < i PROVE Below(side, y[j][2], y[i][2])
  <2>1. j \in placed /\ j \in 1..3 /\ y[j][2] = price(j)
    BY <1>7, <1>8, <1>12
  <2>2. price(j) # price(i) /\ d * price(j) <= d * price(i)
    BY <1>1, <1>5, <1>9, <1>12, <2>1
  <2>3. price(j) \in Int /\ price(i) \in Int
    BY <1>4, <1>9, <2>1
  <2>4. d * price(j) < d * price(i)
    BY <1>3, <2>2, <2>3
  <2> QED
    BY <1>9, <2>1, <2>4 DEF Below
<1>13. i # 2 => half(i)
  BY <1>6, <1>9
<1> QED
  BY <1>9, <1>10, <1>11, <1>12, <1>13 DEF half

\* A position to exit from: any size and average price, whatever has filled,
\* whatever stop was set before, wherever the market is.
ExitCase(x) ==
    /\ PlanOK(x.plan) /\ x.size \in Nat /\ x.avg \in AvgPrice /\ OffStop(x.avg, x.plan)
    /\ x.done \in SUBSET (1..3) /\ x.prev \in Maybe(Int) /\ x.mark \in Int

\* For every tick, policy, plan and position (_planned_exits, _planned_exit,
\* protected_stop): the exits are in profit, in order and within the trader's
\* target, they leave the runner its share, and a stop in profit locks what it
\* promises and gives nothing back.
THEOREM ExitsAreExact ==
  ASSUME c # None => ExitCase(c)
  PROVE  ExitArithmetic
<1> SUFFICES ASSUME c # None
             PROVE  PricesInOrder(c) /\ SharesOfTheRest(c) /\ StopLocksProfit(c)
  BY DEF ExitArithmetic
<1>1. /\ PlanOK(c.plan) /\ c.size \in Nat /\ c.avg \in AvgPrice /\ OffStop(c.avg, c.plan)
      /\ c.done \in SUBSET (1..3) /\ c.prev \in Maybe(Int) /\ c.mark \in Int /\ c.plan.stop \in Int
  BY DEF ExitCase, PlanOK
<1>2. PricesInOrder(c)
  BY <1>1, PricesHold
<1>3. SharesOfTheRest(c)
  BY <1>1, SharesHold
<1>4. StopLocksProfit(c)
  BY <1>1, StopHolds
<1> QED
  BY <1>2, <1>3, <1>4

\* The cases of the run are such positions.
LEMMA CasesFit == \A x \in Cases : ExitCase(x)
<1> TAKE x \in Cases
<1>1. x.plan \in Plans /\ x.avg \in Averages
  BY DEF Cases
<1>2. x.size \in Nat /\ x.done \in SUBSET (1..3) /\ x.prev \in Maybe(Int) /\ x.mark \in Int
  BY DEF Cases, Maybe
<1> DEFINE avg == x.avg
           plan == x.plan
<1>3. avg \in AvgPrice /\ avg \in {<<40, 1>>, <<83, 2>>, <<121, 3>>}
  BY <1>1 DEF Averages, AvgPrice
<1>4. PICK side \in {"LONG", "SHORT"}, dist \in {6, 10, 16}, cap \in {None, 1, 5, 8, 13, 21} :
        plan = PlanOf(side, dist, cap)
  BY <1>1 DEF Plans
<1>5. /\ plan.rs = MCRs
      /\ plan.stop = (IF side = "LONG" THEN 40 - dist ELSE 40 + dist)
      /\ plan.cap = (IF cap = None THEN None ELSE IF side = "LONG" THEN 40 + cap ELSE 40 - cap)
  BY <1>4 DEF PlanOf
<1> HIDE DEF plan, avg
<1>6. plan.stop \in {34, 30, 24, 46, 50, 56}
  BY <1>5
<1>7. OffStop(avg, plan)
  BY <1>3, <1>6 DEF OffStop
<1>8. \A i \in 1..3 : MCRs[i] \in Multiple
  <2>1. MCRs[1] = <<1, 2>> /\ MCRs[2] = <<1, 1>> /\ MCRs[3] = <<2, 1>>
    BY DEF MCRs
  <2>2. \A i \in 1..3 : i = 1 \/ i = 2 \/ i = 3
    OBVIOUS
  <2> HIDE DEF MCRs
  <2> QED
    BY <2>1, <2>2 DEF Multiple
<1>9. LessR(MCRs[1], MCRs[2]) /\ LessR(MCRs[2], MCRs[3])
  BY DEF LessR, MCRs
<1>10. plan.cap \in Maybe(Int)
  BY <1>5 DEF Maybe
<1>11. PlanOK(plan)
  BY <1>5, <1>6, <1>8, <1>9, <1>10 DEF PlanOK
<1> QED
  BY <1>2, <1>3, <1>7, <1>11 DEF ExitCase, plan, avg

\* So they are in the states the run protect starts from.
COROLLARY Arithmetic == MCSpec => []ExitArithmetic
<1> DEFINE Case == c # None => ExitCase(c)
<1>1. MCInit => Case
  BY CasesFit DEF MCInit
<1>2. Case /\ [MCNext]_<<vars, c>> => Case'
  BY DEF MCNext
<1>3. Case => ExitArithmetic
  BY ExitsAreExact
<1> QED
  BY <1>1, <1>2, <1>3, PTL DEF MCSpec
=============================================================================
