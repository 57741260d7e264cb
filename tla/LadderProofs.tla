---------------------------- MODULE LadderProofs ----------------------------
(***************************************************************************)
(* Rounding and sums, for any tick and policy: the facts that plans and    *)
(* exits (PlanningProofs, ProtectionProofs) rest on.  Sums are recursive   *)
(* functions over the subsets of a finite set; that they exist, and what   *)
(* they are, is argued by a least counterexample.                          *)
(***************************************************************************)
EXTENDS Ladder, FiniteSetTheorems, WellFoundedInduction, TLAPS

\* What StrategyV2Policy's validator guarantees, in one place.
LEMMA PolicyFacts ==
    /\ \A i \in 1..3 : /\ Policy.risk[i] \in Nat \ {0} /\ Policy.exits[i] \in Nat \ {0}
                       /\ Policy.r[i] \in Nat \ {0}
    /\ Policy.depth[1] \in Nat \ {0} /\ Policy.depth[2] \in Nat \ {0}
    /\ Policy.risk[1] + Policy.risk[2] + Policy.risk[3] = Whole
    /\ Policy.r[1] < Policy.r[2] /\ Policy.r[2] < Policy.r[3]
    /\ Policy.exits[1] + Policy.exits[2] + Policy.exits[3] + Policy.runner = Whole
    /\ Policy.fallback \in Nat /\ Policy.runner \in Nat
    /\ Tick \in Nat \ {0} /\ None \notin Int
  BY LadderConstants DEF ValidPolicy, Whole

\* A rounded price is the tick whose half-open interval holds the rational.
LEMMA Rounded ==
  ASSUME NEW n \in Int, NEW d \in Nat \ {0}
  PROVE  LET k == (2 * n + d * Tick) \div (2 * d * Tick)
         IN  /\ k \in Int /\ RoundPrice(<<n, d>>) = Tick * k
             /\ k * (2 * d * Tick) <= 2 * n + d * Tick
             /\ 2 * n + d * Tick < (k + 1) * (2 * d * Tick)
<1> DEFINE a == 2 * n + d * Tick
           b == 2 * d * Tick
           k == a \div b
<1>1. Tick \in Nat \ {0}
  BY PolicyFacts
<1>2. d * Tick \in Nat \ {0}
  BY <1>1
<1>3. a \in Int /\ b \in Nat \ {0}
  BY <1>1, <1>2
<1>4. RoundPrice(<<n, d>>) = Tick * (a \div b)
  BY DEF RoundPrice
<1> HIDE DEF a, b
<1>5. k \in Int /\ k * b <= a /\ a < (k + 1) * b
  BY <1>3
<1> QED
  BY <1>4, <1>5 DEF a, b

\* Rounding keeps the order of rationals.
LEMMA RoundMonotone ==
  ASSUME NEW n \in Int, NEW d \in Nat \ {0}, NEW m \in Int, NEW e \in Nat \ {0},
         n * e <= m * d
  PROVE  RoundPrice(<<n, d>>) <= RoundPrice(<<m, e>>)
<1>1. PICK k \in Int : /\ RoundPrice(<<n, d>>) = Tick * k
                       /\ k * (2 * d * Tick) <= 2 * n + d * Tick
  BY Rounded
<1>2. PICK l \in Int : /\ RoundPrice(<<m, e>>) = Tick * l
                       /\ 2 * m + e * Tick < (l + 1) * (2 * e * Tick)
  BY Rounded
<1>3. Tick \in Nat \ {0}
  BY PolicyFacts
<1>4. k * (2 * d * Tick) * e <= (2 * n + d * Tick) * e
  <2>1. k * (2 * d * Tick) \in Int /\ 2 * n + d * Tick \in Int
    BY <1>3
  <2> QED
    BY <1>1, <2>1
<1>5. (2 * m + e * Tick) * d < (l + 1) * (2 * e * Tick) * d
  <2>1. (l + 1) * (2 * e * Tick) \in Int /\ 2 * m + e * Tick \in Int
    BY <1>3
  <2> QED
    BY <1>2, <2>1
<1>6. (2 * n + d * Tick) * e <= (2 * m + e * Tick) * d
  BY <1>3
<1> DEFINE c == 2 * d * e * Tick
<1>7. c \in Nat \ {0} /\ k * c < (l + 1) * c
  BY <1>3, <1>4, <1>5, <1>6
<1>8. k < l + 1
  <2> HIDE DEF c
  <2> QED
    BY <1>7
<1> QED
  BY <1>1, <1>2, <1>3, <1>8

\* A price on the grid rounds to itself.
LEMMA RoundExact ==
  ASSUME NEW k \in Int, NEW d \in Nat \ {0}, NEW n \in Int, n = Tick * k * d
  PROVE  RoundPrice(<<n, d>>) = Tick * k
<1>1. Tick \in Nat \ {0}
  BY PolicyFacts
<1>2. PICK l \in Int : /\ RoundPrice(<<n, d>>) = Tick * l
                       /\ l * (2 * d * Tick) <= 2 * n + d * Tick
                       /\ 2 * n + d * Tick < (l + 1) * (2 * d * Tick)
  BY <1>1, Rounded
<1> DEFINE c == d * Tick
<1>3. c \in Nat \ {0}
  BY <1>1
<1>4. 2 * l * c <= (2 * k + 1) * c /\ (2 * k + 1) * c < (2 * l + 2) * c
  BY <1>1, <1>2
<1>5. 2 * l <= 2 * k + 1 /\ 2 * k + 1 < 2 * l + 2
  <2> HIDE DEF c
  <2> QED
    BY <1>3, <1>4
<1> QED
  BY <1>2, <1>5

\* A set of naturals has a least member.
LEMMA LeastNat ==
  ASSUME NEW S \in SUBSET Nat, S # {}
  PROVE  \E x \in S : \A y \in S : x <= y
<1> DEFINE Less == {ss \in Nat \X Nat : ss[1] < ss[2]}
<1>1. IsWellFoundedOn(Less, Nat)
  BY NatLessThanWellFounded DEF OpToRel
<1>2. \A a, b \in Nat : a < b => <<a, b>> \in Less
  OBVIOUS
<1> HIDE DEF Less
<1>3. PICK x \in S : \A y \in S : ~(<<y, x>> \in Less)
  BY <1>1, WFMin
<1>4. ASSUME NEW y \in S, y < x PROVE FALSE
  <2>1. x \in Nat /\ y \in Nat
    OBVIOUS
  <2>2. <<y, x>> \in Less
    BY <1>2, <1>4, <2>1
  <2> QED
    BY <1>3, <2>2
<1>5. \A y \in S : x \in Int /\ y \in Int /\ ~(y < x)
  BY <1>4
<1> QED
  BY <1>5

\* The member SumOver takes first.
Pick(T) == CHOOSE x \in T : TRUE

\* Without its picked member a finite set is smaller.
LEMMA Smaller ==
  ASSUME NEW S, IsFiniteSet(S), NEW T \in SUBSET S
  PROVE  /\ Cardinality(T) \in Nat /\ (Cardinality(T) = 0 <=> T = {})
         /\ T # {} => /\ Pick(T) \in T /\ T \ {Pick(T)} \in SUBSET S
                      /\ Cardinality(T \ {Pick(T)}) = Cardinality(T) - 1
<1>1. IsFiniteSet(T)
  BY FS_Subset
<1>2. Cardinality(T) \in Nat /\ (Cardinality(T) = 0 <=> T = {})
  BY <1>1, FS_CardinalityType, FS_EmptySet
<1>3. T # {} => Pick(T) \in T
  BY DEF Pick
<1>4. T # {} => Cardinality(T \ {Pick(T)}) = Cardinality(T) - 1
  BY <1>1, <1>3, FS_RemoveElement
<1> QED
  BY <1>2, <1>3, <1>4

\* What holds of the empty set, and of a set once it holds without its picked
\* member, holds of every finite set.
LEMMA Subsets ==
  ASSUME NEW S, IsFiniteSet(S), NEW G \in SUBSET (SUBSET S), {} \in G,
         \A T \in SUBSET S : T # {} /\ T \ {Pick(T)} \in G => T \in G
  PROVE  SUBSET S \subseteq G
<1> DEFINE Bad == {Cardinality(T) : T \in (SUBSET S) \ G}
<1>1. SUFFICES ASSUME (SUBSET S) \ G # {} PROVE FALSE
  OBVIOUS
<1>2. Bad \in SUBSET Nat /\ Bad # {}
  <2>1. \A T \in SUBSET S : Cardinality(T) \in Nat
    BY Smaller
  <2> QED
    BY <1>1, <2>1
<1>3. PICK n \in Bad : \A m \in Bad : n <= m
  BY <1>2, LeastNat
<1>4. PICK T \in (SUBSET S) \ G : n = Cardinality(T)
  BY <1>3
<1>5. T # {} /\ Cardinality(T) \in Nat /\ T \ {Pick(T)} \in SUBSET S
      /\ Cardinality(T \ {Pick(T)}) = Cardinality(T) - 1
  BY <1>4, Smaller
<1>6. T \ {Pick(T)} \notin G
  BY <1>4
<1>7. Cardinality(T \ {Pick(T)}) \in Bad
  BY <1>5, <1>6
<1>8. n <= Cardinality(T \ {Pick(T)})
  BY <1>3, <1>7
<1> QED
  BY <1>4, <1>5, <1>8

\* g sums f over each set of D.
Sums(g, D, f) ==
    /\ g \in [D -> Int]
    /\ \A T \in D : g[T] = IF T = {} THEN 0 ELSE f[Pick(T)] + g[T \ {Pick(T)}]

\* Such sums exist over the subsets of a finite set.
LEMMA SumExists ==
  ASSUME NEW S, IsFiniteSet(S), NEW f \in [S -> Int]
  PROVE  \E g : Sums(g, SUBSET S, f)
<1> DEFINE Small(m) == {T \in SUBSET S : Cardinality(T) <= m}
           Summed(m) == \E g : Sums(g, Small(m), f)
           Bad == {m \in Nat : ~Summed(m)}
<1>1. Bad = {}
  <2>1. SUFFICES ASSUME Bad # {} PROVE FALSE
    OBVIOUS
  <2> HIDE DEF Summed
  <2>2. PICK m \in Bad : \A j \in Bad : m <= j
    <3>1. Bad \in SUBSET Nat
      OBVIOUS
    <3> HIDE DEF Bad
    <3> QED
      BY <2>1, <3>1, LeastNat
  <2>3. m \in Nat /\ ~Summed(m)
    OBVIOUS
  <2>4. m # 0
    <3>1. \A T \in Small(0) : T = {}
      <4>1. \A T \in SUBSET S : Cardinality(T) \in Nat /\ (Cardinality(T) = 0 <=> T = {})
        BY Smaller
      <4> QED
        BY <4>1
    <3>2. Sums([T \in Small(0) |-> 0], Small(0), f)
      BY <3>1 DEF Sums
    <3> QED
      BY <2>3, <3>2 DEF Summed
  <2>5. m - 1 \in Nat /\ Summed(m - 1)
    BY <2>2, <2>3, <2>4
  <2>6. PICK g : Sums(g, Small(m - 1), f)
    BY <2>5 DEF Summed
  <2> DEFINE h == [T \in Small(m) |-> IF T = {} THEN 0 ELSE f[Pick(T)] + g[T \ {Pick(T)}]]
  <2>7. \A T \in Small(m) : T # {} => Pick(T) \in S /\ T \ {Pick(T)} \in Small(m - 1)
    BY <2>3, Smaller
  <2>8. \A T \in Small(m - 1) : T \in Small(m)
    <3>1. \A T \in SUBSET S : Cardinality(T) \in Nat
      BY Smaller
    <3> QED
      BY <2>3, <3>1
  <2>9. g \in [Small(m - 1) -> Int]
        /\ \A T \in Small(m - 1) : g[T] = IF T = {} THEN 0 ELSE f[Pick(T)] + g[T \ {Pick(T)}]
    BY <2>6 DEF Sums
  <2> HIDE DEF Small
  <2>10. h \in [Small(m) -> Int]
    <3>1. \A T \in Small(m) : T # {} => f[Pick(T)] + g[T \ {Pick(T)}] \in Int
      BY <2>7, <2>9
    <3> QED
      BY <3>1
  <2>11. \A T \in Small(m - 1) : h[T] = g[T]
    BY <2>8, <2>9
  <2>12. \A T \in Small(m) : T # {} => h[T \ {Pick(T)}] = g[T \ {Pick(T)}]
    BY <2>7, <2>11
  <2>13. \A T \in Small(m) : h[T] = IF T = {} THEN 0 ELSE f[Pick(T)] + h[T \ {Pick(T)}]
    BY <2>12
  <2>14. Sums(h, Small(m), f)
    BY <2>10, <2>13 DEF Sums
  <2> QED
    BY <2>3, <2>14 DEF Summed
<1>2. Cardinality(S) \in Nat
  BY FS_CardinalityType
<1>3. Summed(Cardinality(S))
  <2> HIDE DEF Summed
  <2> QED
    BY <1>1, <1>2
<1>4. Small(Cardinality(S)) = SUBSET S
  BY FS_Subset
<1> QED
  BY <1>3, <1>4

\* The sum over a finite set is the last value of such a g.
LEMMA SumIs ==
  ASSUME NEW S, IsFiniteSet(S), NEW f \in [S -> Int]
  PROVE  \E g : Sums(g, SUBSET S, f) /\ SumOver(S, f) = g[S]
<1> DEFINE Step(s) == [T \in SUBSET S |-> IF T = {} THEN 0
                                        ELSE f[Pick(T)] + s[T \ {Pick(T)}]]
           sum == CHOOSE s : s = Step(s)
<1>1. SumOver(S, f) = sum[S]
  BY DEF SumOver, Pick
<1>2. PICK g : Sums(g, SUBSET S, f)
  BY SumExists
<1>4. g = Step(g)
  <2>1. g = [T \in SUBSET S |-> g[T]]
    BY <1>2 DEF Sums
  <2>2. \A T \in SUBSET S : g[T] = IF T = {} THEN 0 ELSE f[Pick(T)] + g[T \ {Pick(T)}]
    BY <1>2 DEF Sums
  <2> QED
    BY <2>1, <2>2, Zenon
<1>6. sum = Step(sum)
  <2> HIDE DEF Step
  <2> QED
    BY <1>4, Zenon
<1> HIDE DEF sum
<1>7. \A T \in SUBSET S : sum[T] = IF T = {} THEN 0 ELSE f[Pick(T)] + sum[T \ {Pick(T)}]
  BY <1>6, Zenon
<1> DEFINE G == {T \in SUBSET S : sum[T] = g[T]}
<1>8. S \in G
  <2>1. {} \in G
    BY <1>2, <1>7 DEF Sums
  <2>2. ASSUME NEW T \in SUBSET S, T # {}, T \ {Pick(T)} \in G PROVE T \in G
    BY <1>2, <1>7, <2>2 DEF Sums
  <2> HIDE DEF G
  <2>3. G \in SUBSET (SUBSET S)
    BY DEF G
  <2> QED
    BY <2>1, <2>2, <2>3, Subsets
<1> QED
  BY <1>1, <1>2, <1>8

\* A sum of naturals is a natural.
LEMMA SumNat ==
  ASSUME NEW S, IsFiniteSet(S), NEW f \in [S -> Nat]
  PROVE  SumOver(S, f) \in Nat
<1>1. f \in [S -> Int]
  OBVIOUS
<1>2. PICK g : Sums(g, SUBSET S, f) /\ SumOver(S, f) = g[S]
  BY <1>1, SumIs
<1> DEFINE G == {T \in SUBSET S : g[T] \in Nat}
<1>3. {} \in G
  <2>1. {} \in SUBSET S
    OBVIOUS
  <2>2. g[{}] = 0
    BY <1>2, <2>1 DEF Sums
  <2> QED
    BY <2>1, <2>2
<1>4. ASSUME NEW T \in SUBSET S, T # {}, T \ {Pick(T)} \in G PROVE T \in G
  <2>1. f[Pick(T)] \in Nat
    BY <1>4, Smaller
  <2> QED
    BY <1>2, <1>4, <2>1 DEF Sums
<1>5. G \in SUBSET (SUBSET S)
  OBVIOUS
<1>6. S \in G
  <2> HIDE DEF G
  <2> QED
    BY <1>3, <1>4, <1>5, Subsets
<1> QED
  BY <1>2, <1>6

\* A sum of zeros is zero.
LEMMA SumZero ==
  ASSUME NEW S, IsFiniteSet(S), NEW f \in [S -> Int], \A x \in S : f[x] = 0
  PROVE  SumOver(S, f) = 0
<1>1. PICK g : Sums(g, SUBSET S, f) /\ SumOver(S, f) = g[S]
  BY SumIs
<1> DEFINE G == {T \in SUBSET S : g[T] = 0}
<1>2. {} \in G
  <2>1. {} \in SUBSET S
    OBVIOUS
  <2>2. g[{}] = 0
    BY <1>1, <2>1 DEF Sums
  <2> QED
    BY <2>1, <2>2
<1>3. ASSUME NEW T \in SUBSET S, T # {}, T \ {Pick(T)} \in G PROVE T \in G
  <2>1. f[Pick(T)] = 0
    BY <1>3, Smaller
  <2> QED
    BY <1>1, <1>3, <2>1 DEF Sums
<1>4. G \in SUBSET (SUBSET S)
  OBVIOUS
<1>5. S \in G
  <2> HIDE DEF G
  <2> QED
    BY <1>2, <1>3, <1>4, Subsets
<1> QED
  BY <1>1, <1>5

\* A sum grows with its terms.
LEMMA SumMonotone ==
  ASSUME NEW S, IsFiniteSet(S), NEW e \in [S -> Int], NEW f \in [S -> Int],
         \A x \in S : e[x] <= f[x]
  PROVE  SumOver(S, e) <= SumOver(S, f)
<1>1. PICK g : Sums(g, SUBSET S, e) /\ SumOver(S, e) = g[S]
  BY SumIs
<1>2. PICK h : Sums(h, SUBSET S, f) /\ SumOver(S, f) = h[S]
  BY SumIs
<1> DEFINE G == {T \in SUBSET S : g[T] <= h[T]}
<1>3. {} \in G
  <2>1. {} \in SUBSET S
    OBVIOUS
  <2>2. g[{}] = 0 /\ h[{}] = 0
    BY <1>1, <1>2, <2>1 DEF Sums
  <2> QED
    BY <2>1, <2>2
<1>4. ASSUME NEW T \in SUBSET S, T # {}, T \ {Pick(T)} \in G PROVE T \in G
  <2>1. /\ Pick(T) \in S /\ T \ {Pick(T)} \in SUBSET S
    BY <1>4, Smaller
  <2>2. /\ g[T] = e[Pick(T)] + g[T \ {Pick(T)}] /\ h[T] = f[Pick(T)] + h[T \ {Pick(T)}]
        /\ g[T \ {Pick(T)}] \in Int /\ h[T \ {Pick(T)}] \in Int
    BY <1>1, <1>2, <1>4, <2>1 DEF Sums
  <2>3. g[T \ {Pick(T)}] <= h[T \ {Pick(T)}]
    BY <1>4
  <2>4. e[Pick(T)] \in Int /\ f[Pick(T)] \in Int /\ e[Pick(T)] <= f[Pick(T)]
    BY <2>1
  <2> QED
    BY <2>2, <2>3, <2>4
<1>5. G \in SUBSET (SUBSET S)
  OBVIOUS
<1>6. S \in G
  <2> HIDE DEF G
  <2> QED
    BY <1>3, <1>4, <1>5, Subsets
<1> QED
  BY <1>1, <1>2, <1>6

\* A change at one point changes the sum by as much.
LEMMA SumPoint ==
  ASSUME NEW S, IsFiniteSet(S), NEW e \in [S -> Int], NEW f \in [S -> Int], NEW z \in S,
         \A x \in S : x # z => e[x] = f[x]
  PROVE  SumOver(S, f) = SumOver(S, e) - e[z] + f[z]
<1>1. PICK g : Sums(g, SUBSET S, e) /\ SumOver(S, e) = g[S]
  BY SumIs
<1>2. PICK h : Sums(h, SUBSET S, f) /\ SumOver(S, f) = h[S]
  BY SumIs
<1> DEFINE G == {T \in SUBSET S : h[T] = IF z \in T THEN g[T] - e[z] + f[z] ELSE g[T]}
<1>3. {} \in G
  <2>1. {} \in SUBSET S
    OBVIOUS
  <2>2. g[{}] = 0 /\ h[{}] = 0
    BY <1>1, <1>2, <2>1 DEF Sums
  <2> QED
    BY <2>1, <2>2
<1>4. ASSUME NEW T \in SUBSET S, T # {}, T \ {Pick(T)} \in G PROVE T \in G
  <2> DEFINE x == Pick(T)
             U == T \ {x}
  <2>1. /\ x \in S /\ x \in T /\ U \in SUBSET S
    BY <1>4, Smaller
  <2>2. /\ g[T] = e[x] + g[U] /\ h[T] = f[x] + h[U]
        /\ g[U] \in Int /\ h[U] \in Int
    BY <1>1, <1>2, <1>4, <2>1 DEF Sums
  <2>3. h[U] = IF z \in U THEN g[U] - e[z] + f[z] ELSE g[U]
    BY <1>4
  <2>4. e[x] \in Int /\ f[x] \in Int /\ e[z] \in Int /\ f[z] \in Int
    BY <2>1
  <2>5. z \in U <=> z \in T /\ z # x
    OBVIOUS
  <2> HIDE DEF x, U
  <2> QED
    BY <2>1, <2>2, <2>3, <2>4, <2>5
<1>5. G \in SUBSET (SUBSET S)
  OBVIOUS
<1>6. S \in G
  <2> HIDE DEF G
  <2> QED
    BY <1>3, <1>4, <1>5, Subsets
<1> QED
  BY <1>1, <1>2, <1>6

\* A sum over at most three members.
Term(S, f, x) == IF x \in S THEN f[x] ELSE 0

LEMMA SumThree ==
  ASSUME NEW a, NEW b, NEW d, a # b, a # d, b # d,
         NEW S \in SUBSET {a, b, d}, NEW f \in [S -> Int]
  PROVE  SumOver(S, f) = Term(S, f, a) + Term(S, f, b) + Term(S, f, d)
<1>1. IsFiniteSet(S)
  BY FS_EmptySet, FS_AddElement, FS_Subset, {a, b, d} = (({} \cup {a}) \cup {b}) \cup {d}
<1>2. PICK g : Sums(g, SUBSET S, f) /\ SumOver(S, f) = g[S]
  BY <1>1, SumIs
<1> DEFINE in(x, T) == IF x \in T THEN f[x] ELSE 0
           total(T) == in(a, T) + in(b, T) + in(d, T)
           G == {T \in SUBSET S : g[T] = total(T)}
<1>3. {} \in G
  <2>1. {} \in SUBSET S
    OBVIOUS
  <2>2. g[{}] = 0
    BY <1>2, <2>1 DEF Sums
  <2>3. total({}) = 0
    OBVIOUS
  <2> QED
    BY <2>1, <2>2, <2>3
<1>4. ASSUME NEW T \in SUBSET S, T # {}, T \ {Pick(T)} \in G PROVE T \in G
  <2> DEFINE x == Pick(T)
             U == T \ {x}
  <2>1. x \in T /\ x \in {a, b, d}
    BY <1>4 DEF Pick
  <2>2. g[T] = f[x] + g[U]
    BY <1>2, <1>4 DEF Sums
  <2> HIDE DEF x
  <2>3. g[U] = total(U)
    BY <1>4 DEF x
  <2>4. \A y \in S : f[y] \in Int
    OBVIOUS
  <2>5. /\ in(a, T) \in Int /\ in(b, T) \in Int /\ in(d, T) \in Int /\ f[x] \in Int
        /\ in(a, U) = (IF x = a THEN 0 ELSE in(a, T))
        /\ in(b, U) = (IF x = b THEN 0 ELSE in(b, T))
        /\ in(d, U) = (IF x = d THEN 0 ELSE in(d, T))
        /\ x = a => in(a, T) = f[x]
        /\ x = b => in(b, T) = f[x]
        /\ x = d => in(d, T) = f[x]
    BY <2>1, <2>4
  <2> HIDE DEF in
  <2>6. g[T] = total(T)
    BY <2>1, <2>2, <2>3, <2>5
  <2> QED
    BY <2>6
<1>5. G \in SUBSET (SUBSET S)
  OBVIOUS
<1>6. S \in G
  <2> HIDE DEF G
  <2>1. SUBSET S \subseteq G
    BY <1>1, <1>3, <1>4, <1>5, Subsets
  <2> QED
    BY <2>1
<1> QED
  BY <1>2, <1>6 DEF Term

\* A sum over numbers of exits.
LEMMA SumIndex ==
  \A S \in SUBSET (1..3) : \A f \in [S -> Int] :
      SumOver(S, f) = Term(S, f, 1) + Term(S, f, 2) + Term(S, f, 3)
<1>1. 1..3 = {1, 2, 3} /\ 1 # 2 /\ 1 # 3 /\ 2 # 3
  OBVIOUS
<1>2. \A a, b, d : a # b /\ a # d /\ b # d =>
        \A S \in SUBSET {a, b, d} : \A f \in [S -> Int] :
            SumOver(S, f) = Term(S, f, a) + Term(S, f, b) + Term(S, f, d)
  BY SumThree
<1>3. \A S \in SUBSET {1, 2, 3} : \A f \in [S -> Int] :
            SumOver(S, f) = Term(S, f, 1) + Term(S, f, 2) + Term(S, f, 3)
  <2> DEFINE Sums3(a, b, d) == \A S \in SUBSET {a, b, d} : \A f \in [S -> Int] :
                                 SumOver(S, f) = Term(S, f, a) + Term(S, f, b) + Term(S, f, d)
  <2>1. \A a, b, d : a # b /\ a # d /\ b # d => Sums3(a, b, d)
    BY <1>2
  <2> HIDE DEF Sums3
  <2>2. Sums3(1, 2, 3)
    BY <1>1, <2>1
  <2> QED
    BY <2>2 DEF Sums3
<1> QED
  BY <1>1, <1>3, Zenon
=============================================================================
