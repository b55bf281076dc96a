-------------------------- MODULE ComparisonsProofs --------------------------
(***************************************************************************)
(* The comparison programs, for all lists of detections: the matching is   *)
(* the one that the loop of greedy_pairs ends with, the verdicts and the   *)
(* counts follow from it, and the reports of the programs from those.      *)
(***************************************************************************)
EXTENDS Comparisons, FiniteSetTheorems, FunctionTheorems, WellFoundedInduction, TLAPS

-----------------------------------------------------------------------------
\* Numbers and finite sets.

\* Numbers have a least one among them.
LEMMA LeastIsOne ==
    ASSUME NEW T, T \subseteq Nat, T # {}
    PROVE  Min(T) \in T /\ \A y \in T : Min(T) <= y
  <1>. DEFINE R == OpToRel(<, Nat)
  <1>1. IsWellFoundedOn(R, Nat)
    BY NatLessThanWellFounded
  <1>2. \A x, y \in Nat : x < y => <<x, y>> \in R
    BY DEF OpToRel
  <1>. HIDE DEF R
  <1>3. PICK x \in T : \A y \in T : ~(<<y, x>> \in R)
    BY <1>1, WFMin
  <1>4. \A y \in T : ~(y < x)
    BY <1>2, <1>3, Zenon
  <1>5. \A y \in T : x <= y
    BY <1>4
  <1>. QED
    BY <1>3, <1>5 DEF Min

\* A set that has 0 and, with a number, the next one, has them all.
LEMMA Climb ==
    ASSUME NEW T, 0 \in T, \A n \in Nat : n \in T => n + 1 \in T
    PROVE  \A n \in Nat : n \in T
  <1>. DEFINE N == Nat \ T
  <1>1. ASSUME N # {} PROVE FALSE
    <2>1. Min(N) \in N /\ \A y \in N : Min(N) <= y
      BY <1>1, LeastIsOne
    <2>2. PICK m \in N : \A y \in N : m <= y
      BY <2>1
    <2>3. m # 0 /\ m - 1 \in Nat /\ (m - 1) + 1 = m
      BY <2>2
    <2>4. m - 1 \notin N
      BY <2>2, <2>3
    <2>. QED
      BY <2>2, <2>3, <2>4
  <1>. QED
    BY <1>1

\* A finite set of numbers has a greatest one.
LEMMA GreatestIsOne ==
    ASSUME NEW S, S \subseteq Nat, IsFiniteSet(S), S # {}
    PROVE  Max(S) \in S /\ \A y \in S : Max(S) >= y
  <1>. DEFINE Has(R) == R # {} => \E x \in R : \A y \in R : x >= y
              T == {k \in Nat : \A R \in SUBSET S : Cardinality(R) = k => Has(R)}
  <1>0. \A R \in SUBSET S : IsFiniteSet(R) /\ Cardinality(R) \in Nat
    BY FS_Subset, FS_CardinalityType
  <1>1. 0 \in T
    BY <1>0, FS_EmptySet
  <1>2. ASSUME NEW k \in Nat, k \in T PROVE k + 1 \in T
    <2>. SUFFICES ASSUME NEW R \in SUBSET S, Cardinality(R) = k + 1, R # {}
                  PROVE  \E x \in R : \A y \in R : x >= y
      OBVIOUS
    <2>1. PICK x \in R : TRUE
      OBVIOUS
    <2>2. Cardinality(R \ {x}) = k /\ R \ {x} \in SUBSET S
      <3>1. IsFiniteSet(R)
        BY <1>0
      <3>2. Cardinality(R \ {x}) = Cardinality(R) - 1
        BY <2>1, <3>1, FS_RemoveElement
      <3>. QED
        BY <3>2
    <2>3. Has(R \ {x})
      BY <1>2, <2>2
    <2>4. CASE R \ {x} = {}
      <3>1. \A y \in R : y = x /\ y \in Nat
        BY <2>4
      <3>. QED
        BY <3>1
    <2>5. CASE R \ {x} # {}
      <3>1. PICK z \in R \ {x} : \A y \in R \ {x} : z >= y
        BY <2>3, <2>5
      <3>. QED
        BY <2>1, <3>1
    <2>. QED
      BY <2>4, <2>5
  <1>. HIDE DEF T
  <1>3. \A n \in Nat : n \in T
    BY <1>1, <1>2, Climb
  <1>4. Has(S)
    <2>1. Cardinality(S) \in T
      BY <1>0, <1>3
    <2>. QED
      BY <2>1 DEF T
  <1>. QED
    BY <1>4 DEF Max

\* What a function gives for finitely many arguments is finitely many values.
LEMMA ImageIsFinite ==
    ASSUME NEW M, IsFiniteSet(M), NEW f \in [M -> Nat]
    PROVE  IsFiniteSet({f[p] : p \in M})
  <1>. DEFINE I == {f[p] : p \in M}
  <1>1. f \in Surjection(M, I)
    BY DEF Surjection
  <1>. HIDE DEF I
  <1>2. IsFiniteSet(I)
    BY <1>1, FS_Surjection
  <1>. QED
    BY <1>2 DEF I

-----------------------------------------------------------------------------
\* Boxes.

\* Four sides.
Boxes == Int \X Int \X Int \X Int

\* The area of a box is no less than nothing,
LEMMA AreaIsNatural ==
    ASSUME NEW box, box[1] \in Int, box[2] \in Int, box[3] \in Int, box[4] \in Int
    PROVE  Area(box) \in Nat
  <1>1. Larger(0, box[3] - box[1]) \in Nat /\ Larger(0, box[4] - box[2]) \in Nat
    BY DEF Larger
  <1>2. \A m, n \in Nat : m * n \in Nat
    OBVIOUS
  <1>. QED
    BY <1>1, <1>2 DEF Area

\* nor is the share of an overlap,
LEMMA ShareIsNatural ==
    ASSUME NEW common \in Nat, NEW both \in Nat
    PROVE  Share(common, both) \in Nat
  <1>1. \A m \in Nat : \A n \in Nat \ {0} : m \div n \in Nat
    OBVIOUS
  <1>2. CASE both <= common
    BY <1>2 DEF Share
  <1>3. CASE ~(both <= common)
    BY <1>1, <1>3 DEF Share
  <1>. QED
    BY <1>2, <1>3

\* and no more than all.
LEMMA IouIsNatural ==
    ASSUME NEW first \in Boxes, NEW second \in Boxes
    PROVE  BboxIou(first, second) \in Nat
  <1>. DEFINE common == Intersection(first, second)
  <1>1. Area(first) \in Nat /\ Area(second) \in Nat
    BY AreaIsNatural DEF Boxes
  <1>2. common[1] \in Int /\ common[2] \in Int /\ common[3] \in Int /\ common[4] \in Int
    BY DEF Intersection, Larger, Smaller, Boxes
  <1>. HIDE DEF common
  <1>3. Area(common) \in Nat
    BY <1>2, AreaIsNatural
  <1>4. Area(first) + Area(second) \in Nat
    BY <1>1
  <1>. QED
    BY <1>3, <1>4, ShareIsNatural DEF BboxIou, common

-----------------------------------------------------------------------------
\* The matching of two lists.

\* A pair of detections has its two places, and an overlap.
LEMMA PairFacts ==
    ASSUME NEW l \in Seq(Detections), NEW r \in Seq(Detections), NEW p \in Pairs(l, r)
    PROVE  /\ p = <<p[1], p[2]>> /\ p[1] \in DOMAIN l /\ p[2] \in DOMAIN r
           /\ p[1] \in Nat /\ p[2] \in Nat /\ p[1] <= Len(l) /\ p[2] <= Len(r)
           /\ Overlap(l, r, p) \in Nat
  <1>1. p = <<p[1], p[2]>> /\ p[1] \in DOMAIN l /\ p[2] \in DOMAIN r
    BY DEF Pairs
  <1>2. /\ DOMAIN l = 1 .. Len(l) /\ DOMAIN r = 1 .. Len(r)
        /\ Len(l) \in Nat /\ Len(r) \in Nat
    OBVIOUS
  <1>3. l[p[1]] \in Detections /\ r[p[2]] \in Detections
    BY <1>1
  <1>4. l[p[1]].box \in Boxes /\ r[p[2]].box \in Boxes
    BY <1>3 DEF Detections, Boxes
  <1>5. Overlap(l, r, p) \in Nat
    BY <1>4, IouIsNatural DEF Overlap
  <1>. QED
    BY <1>1, <1>2, <1>5

\* All pairs of two lists are finitely many.
LEMMA PairsAreFinite ==
    ASSUME NEW l \in Seq(Detections), NEW r \in Seq(Detections), NEW M \in SUBSET Pairs(l, r)
    PROVE  IsFiniteSet(M)
  <1>1. DOMAIN l = 1 .. Len(l) /\ DOMAIN r = 1 .. Len(r) /\ Len(l) \in Nat /\ Len(r) \in Nat
    OBVIOUS
  <1>2. IsFiniteSet(DOMAIN l) /\ IsFiniteSet(DOMAIN r)
    BY <1>1, FS_Interval
  <1>3. IsFiniteSet(Pairs(l, r))
    BY <1>2, FS_Product DEF Pairs
  <1>. QED
    BY <1>3, FS_Subset

\* Of two pairs one is tried before the other.
LEMMA BeforeIsTotal ==
    ASSUME NEW l \in Seq(Detections), NEW r \in Seq(Detections),
           NEW p \in Pairs(l, r), NEW q \in Pairs(l, r), p # q
    PROVE  /\ Before(l, r, p, q) \/ Before(l, r, q, p)
           /\ ~(Before(l, r, p, q) /\ Before(l, r, q, p))
  <1>1. /\ Overlap(l, r, p) \in Nat /\ Overlap(l, r, q) \in Nat
        /\ p[1] \in Nat /\ p[2] \in Nat /\ q[1] \in Nat /\ q[2] \in Nat
        /\ p[1] # q[1] \/ p[2] # q[2]
    BY PairFacts
  <1>. QED
    BY <1>1 DEF Before

\* Some pair is tried last: one of the least overlap, of these one of the greatest
\* first place, and of these the one of the greatest second place.
LEMMA OneIsLast ==
    ASSUME NEW l \in Seq(Detections), NEW r \in Seq(Detections),
           NEW C \in SUBSET Pairs(l, r), C # {}
    PROVE  \E p \in C : \A q \in C \ {p} : Before(l, r, q, p)
  <1>. DEFINE Amount(p) == Overlap(l, r, p)
              O == {Amount(p) : p \in C}
              C1 == {p \in C : Amount(p) = Min(O)}
              I == {Len(l) - p[1] : p \in C1}
              C2 == {p \in C1 : Len(l) - p[1] = Min(I)}
              J == {Len(r) - p[2] : p \in C2}
  <1>0. \A p \in C : /\ Amount(p) \in Nat /\ p[1] \in Nat /\ p[2] \in Nat
                     /\ Len(l) - p[1] \in Nat /\ Len(r) - p[2] \in Nat
                     /\ p = <<p[1], p[2]>>
    <2>. TAKE p \in C
    <2>1. p \in Pairs(l, r)
      OBVIOUS
    <2>2. Len(l) \in Nat /\ Len(r) \in Nat
      OBVIOUS
    <2>. QED
      BY <2>1, <2>2, PairFacts
  <1>. HIDE DEF Amount
  <1>1. Min(O) \in O /\ \A y \in O : Min(O) <= y
    <2>1. O \subseteq Nat /\ O # {}
      BY <1>0
    <2>. QED
      BY <2>1, LeastIsOne
  <1>2. Min(I) \in I /\ \A y \in I : Min(I) <= y
    <2>1. C1 # {}
      BY <1>1
    <2>2. \A p \in C1 : Len(l) - p[1] \in Nat
      BY <1>0, Zenon
    <2>. HIDE DEF C1
    <2>3. I \subseteq Nat /\ I # {}
      BY <2>1, <2>2
    <2>. QED
      BY <2>3, LeastIsOne
  <1>3. Min(J) \in J /\ \A y \in J : Min(J) <= y
    <2>1. J \subseteq Nat /\ J # {}
      BY <1>0, <1>2
    <2>. QED
      BY <2>1, LeastIsOne
  <1>4. PICK p \in C2 : Len(r) - p[2] = Min(J)
    BY <1>3
  <1>5. ASSUME NEW q \in C \ {p} PROVE Before(l, r, q, p)
    <2>1. p \in C /\ Amount(p) = Min(O) /\ Len(l) - p[1] = Min(I)
      BY <1>4
    <2>2. Amount(q) >= Amount(p)
      BY <1>1, <2>1, <1>0
    <2>5. /\ q \in C /\ p[1] \in Nat /\ p[2] \in Nat /\ q[1] \in Nat /\ q[2] \in Nat
          /\ Amount(q) \in Nat /\ Amount(p) \in Nat
          /\ p = <<p[1], p[2]>> /\ q = <<q[1], q[2]>>
      BY <1>0, <2>1
    <2>3. CASE Amount(q) > Amount(p)
      BY <2>3 DEF Before, Amount
    <2>4. CASE Amount(q) = Amount(p)
      <3>1. q \in C1
        BY <2>1, <2>4
      <3>2. Len(l) - p[1] <= Len(l) - q[1]
        BY <1>2, <2>1, <3>1
      <3>3. Len(l) \in Nat /\ Len(r) \in Nat
        OBVIOUS
      <3>4. q[1] <= p[1]
        BY <2>5, <3>2, <3>3
      <3>5. CASE q[1] < p[1]
        BY <2>4, <3>5 DEF Before, Amount
      <3>6. CASE q[1] = p[1]
        <4>1. q \in C2
          BY <2>1, <3>1, <3>6
        <4>2. Len(r) - p[2] <= Len(r) - q[2]
          BY <1>3, <1>4, <4>1
        <4>3. q[2] <= p[2]
          BY <2>5, <3>3, <4>2
        <4>4. q[2] # p[2]
          BY <2>5, <1>5, <3>6
        <4>5. q[2] < p[2]
          BY <2>5, <4>3, <4>4
        <4>. QED
          BY <2>4, <3>6, <4>5 DEF Before, Amount
      <3>. QED
        BY <2>5, <3>4, <3>5, <3>6
    <2>. QED
      BY <2>5, <2>2, <2>3, <2>4
  <1>. QED
    BY <1>4, <1>5

\* The loop comes to an end with some matching: what is tried last decides only
\* about itself.
LEMMA GreedyExists ==
    ASSUME NEW l \in Seq(Detections), NEW r \in Seq(Detections), NEW D \in SUBSET Pairs(l, r)
    PROVE  \E M \in SUBSET D : IsGreedy(l, r, D, M)
  <1>. DEFINE Ends(C) == \E M \in SUBSET C : IsGreedy(l, r, C, M)
              T == {k \in Nat : \A C \in SUBSET Pairs(l, r) : Cardinality(C) = k => Ends(C)}
  <1>0. \A C \in SUBSET Pairs(l, r) : IsFiniteSet(C) /\ Cardinality(C) \in Nat
    BY PairsAreFinite, FS_CardinalityType
  <1>1. 0 \in T
    <2>1. ASSUME NEW C \in SUBSET Pairs(l, r), Cardinality(C) = 0 PROVE Ends(C)
      <3>1. C = {}
        BY <1>0, <2>1, FS_EmptySet
      <3>. QED
        BY <3>1 DEF IsGreedy
    <2>. QED
      BY <2>1
  <1>2. ASSUME NEW k \in Nat, k \in T PROVE k + 1 \in T
    <2>. SUFFICES ASSUME NEW C \in SUBSET Pairs(l, r), Cardinality(C) = k + 1 PROVE Ends(C)
      OBVIOUS
    <2>1. C # {}
      <3>1. Cardinality({}) = 0
        BY FS_EmptySet
      <3>2. k + 1 # 0
        OBVIOUS
      <3>. QED
        BY <3>1, <3>2
    <2>2. PICK p \in C : \A q \in C \ {p} : Before(l, r, q, p)
      BY <2>1, OneIsLast
    <2>. DEFINE B == C \ {p}
    <2>3. Cardinality(B) = k
      <3>1. IsFiniteSet(C)
        BY <1>0
      <3>2. Cardinality(B) = Cardinality(C) - 1
        BY <3>1, FS_RemoveElement
      <3>. QED
        BY <3>2
    <2>4. PICK M \in SUBSET B : IsGreedy(l, r, B, M)
      <3>1. B \in SUBSET Pairs(l, r)
        OBVIOUS
      <3>. HIDE DEF B
      <3>. QED
        BY <1>2, <2>3, <3>1
    <2>. DEFINE N == IF Touches(M, p) THEN M ELSE M \cup {p}
    <2>5. ~Before(l, r, p, p)
      BY PairFacts DEF Before
    <2>6. \A q \in B : ~Before(l, r, p, q)
      <3>. TAKE q \in B
      <3>1. p \in Pairs(l, r) /\ q \in Pairs(l, r) /\ p # q
        OBVIOUS
      <3>. QED
        BY <2>2, <3>1, BeforeIsTotal
    <2>7. ASSUME NEW q \in B
          PROVE  q \in N <=> ~Touches({x \in N : Before(l, r, x, q)}, q)
      <3>1. \A x : x \in {y \in N : Before(l, r, y, q)} <=> x \in {y \in M : Before(l, r, y, q)}
        BY <2>6
      <3>2. {y \in N : Before(l, r, y, q)} = {y \in M : Before(l, r, y, q)}
        BY <3>1
      <3>3. q \in N <=> q \in M
        OBVIOUS
      <3>. QED
        BY <2>4, <3>2, <3>3 DEF IsGreedy
    <2>8. p \in N <=> ~Touches({x \in N : Before(l, r, x, p)}, p)
      <3>1. \A x : x \in {y \in N : Before(l, r, y, p)} <=> x \in M
        BY <2>2, <2>5
      <3>2. {y \in N : Before(l, r, y, p)} = M
        BY <3>1
      <3>3. p \in N <=> ~Touches(M, p)
        OBVIOUS
      <3>. QED
        BY <3>2, <3>3
    <2>9. N \in SUBSET C /\ IsGreedy(l, r, C, N)
      BY <2>7, <2>8 DEF IsGreedy
    <2>. QED
      BY <2>9
  <1>. HIDE DEF T
  <1>3. \A n \in Nat : n \in T
    BY <1>1, <1>2, Climb
  <1>4. Cardinality(D) \in T
    BY <1>0, <1>3
  <1>. QED
    BY <1>4 DEF T

\* No detection is in two pairs.
OneToOne(M) == \A p, q \in M : p # q => p[1] # q[1] /\ p[2] # q[2]

\* A candidate is left out only for a pair that overlaps as much.
LeftOutForBetter(l, r, C, M) ==
    \A p \in C : \E q \in M : /\ q[1] = p[1] \/ q[2] = p[2]
                              /\ Overlap(l, r, q) >= Overlap(l, r, p)

\* The greedy pairs are such a matching.
LEMMA GreedyFacts ==
    ASSUME NEW l \in Seq(Detections), NEW r \in Seq(Detections),
           NEW eligible \in SUBSET Pairs(l, r)
    PROVE  LET C == Candidates(l, r, eligible)
               M == GreedyPairs(l, r, eligible)
           IN  M \subseteq C /\ OneToOne(M) /\ LeftOutForBetter(l, r, C, M)
  <1>. DEFINE C == Candidates(l, r, eligible)
              M == GreedyPairs(l, r, eligible)
  <1>0. C \in SUBSET Pairs(l, r)
    BY DEF Candidates
  <1>1. M \in SUBSET C /\ IsGreedy(l, r, C, M)
    <2>1. M = CHOOSE m \in SUBSET C : IsGreedy(l, r, C, m)
      BY DEF GreedyPairs
    <2>. HIDE DEF C, M
    <2>. QED
      BY <1>0, <2>1, GreedyExists
  <1>. HIDE DEF C, M
  <1>2. ASSUME NEW p \in M, NEW q \in M, p # q, p[1] = q[1] \/ p[2] = q[2], Before(l, r, q, p)
        PROVE  FALSE
    <2>1. Touches({x \in M : Before(l, r, x, p)}, p)
      BY <1>2 DEF Touches
    <2>. QED
      BY <1>1, <2>1 DEF IsGreedy
  <1>3. OneToOne(M)
    <2>1. ASSUME NEW p \in M, NEW q \in M, p # q, p[1] = q[1] \/ p[2] = q[2] PROVE FALSE
      <3>1. p \in Pairs(l, r) /\ q \in Pairs(l, r)
        BY <1>0, <1>1
      <3>2. Before(l, r, p, q) \/ Before(l, r, q, p)
        BY <2>1, <3>1, BeforeIsTotal
      <3>. QED
        BY <1>2, <2>1, <3>2
    <2>. QED
      BY <2>1 DEF OneToOne
  <1>4. LeftOutForBetter(l, r, C, M)
    <2>1. ASSUME NEW p \in C
          PROVE  \E q \in M : /\ q[1] = p[1] \/ q[2] = p[2]
                              /\ Overlap(l, r, q) >= Overlap(l, r, p)
      <3>1. p \in Pairs(l, r) /\ Overlap(l, r, p) \in Nat
        BY <1>0, PairFacts
      <3>2. CASE p \in M
        BY <3>1, <3>2
      <3>3. CASE p \notin M
        <4>1. Touches({x \in M : Before(l, r, x, p)}, p)
          BY <1>1, <3>3 DEF IsGreedy
        <4>2. PICK q \in M : Before(l, r, q, p) /\ (q[1] = p[1] \/ q[2] = p[2])
          BY <4>1 DEF Touches
        <4>3. Overlap(l, r, q) \in Nat
          BY <1>0, <1>1, PairFacts
        <4>. QED
          BY <3>1, <4>2, <4>3 DEF Before
      <3>. QED
        BY <3>2, <3>3
    <2>. QED
      BY <2>1 DEF LeftOutForBetter
  <1>. QED
    BY <1>1, <1>3, <1>4 DEF C, M

\* What every program relies on of a matching.
Sound(l, r, M) ==
    /\ M \subseteq Pairs(l, r)
    /\ OneToOne(M)
    /\ \A p \in M : Overlap(l, r, p) >= MatchIou

\* The pairs of one class that overlap enough.
Alike(l, r) == {p \in Pairs(l, r) : SameClass(l, r, p) /\ Overlap(l, r, p) >= MatchIou}

\* Detections of one class are matched.
LEMMA Matched ==
    ASSUME NEW l \in Seq(Detections), NEW r \in Seq(Detections)
    PROVE  LET M == MatchDetections(l, r)
           IN  /\ Sound(l, r, M) /\ \A p \in M : SameClass(l, r, p)
               /\ LeftOutForBetter(l, r, Alike(l, r), M)
  <1>. DEFINE eligible == {p \in Pairs(l, r) : SameClass(l, r, p)}
              M == MatchDetections(l, r)
  <1>1. eligible \in SUBSET Pairs(l, r) /\ \A p \in eligible : SameClass(l, r, p)
    OBVIOUS
  <1>2. M = GreedyPairs(l, r, eligible)
    BY DEF MatchDetections
  <1>3. \A p : p \in Candidates(l, r, eligible) <=> p \in Alike(l, r)
    BY DEF Candidates, Alike
  <1>4. Candidates(l, r, eligible) = Alike(l, r)
    BY <1>3
  <1>. HIDE DEF eligible, M
  <1>5. /\ M \subseteq Alike(l, r) /\ OneToOne(M)
        /\ LeftOutForBetter(l, r, Alike(l, r), M)
    BY <1>1, <1>2, <1>4, GreedyFacts
  <1>6. Sound(l, r, M) /\ \A p \in M : SameClass(l, r, p)
    BY <1>5 DEF Sound, Alike
  <1>. QED
    BY <1>5, <1>6 DEF M

\* What is matched across classes is free after that, and of different classes even
\* where the classes are not looked at.
LEMMA Crossed ==
    ASSUME NEW l \in Seq(Detections), NEW r \in Seq(Detections)
    PROVE  LET M == MatchDetections(l, r)
               X == MatchAcrossClasses(l, r, M)
           IN  /\ Sound(l, r, X)
               /\ \A p \in X : ~Touches(M, p) /\ ~SameClass(l, r, p)
               /\ PairClassMismatches(l, r, M) = X
  <1>. DEFINE M == MatchDetections(l, r)
              free == {p \in Pairs(l, r) : ~Touches(M, p)}
              eligible == {p \in Pairs(l, r) : ~Touches(M, p) /\ ~SameClass(l, r, p)}
              X == GreedyPairs(l, r, eligible)
  <1>1. ASSUME NEW p \in free, Overlap(l, r, p) >= MatchIou, SameClass(l, r, p) PROVE FALSE
    <2>1. p \in Alike(l, r)
      BY <1>1 DEF Alike
    <2>. HIDE DEF M
    <2>2. LeftOutForBetter(l, r, Alike(l, r), M)
      BY Matched DEF M
    <2>3. Touches(M, p)
      BY <2>1, <2>2 DEF LeftOutForBetter, Touches
    <2>. QED
      BY <2>3
  <1>2. eligible \in SUBSET Pairs(l, r)
    OBVIOUS
  <1>. HIDE DEF M
  <1>3. \A p : p \in Candidates(l, r, free) <=> p \in Candidates(l, r, eligible)
    BY <1>1 DEF Candidates
  <1>4. Candidates(l, r, free) = Candidates(l, r, eligible)
    BY <1>3
  <1>5. GreedyPairs(l, r, free) = X
    BY <1>4 DEF GreedyPairs
  <1>6. X \subseteq Candidates(l, r, eligible) /\ OneToOne(X)
    <2>. HIDE DEF eligible
    <2>. QED
      BY <1>2, GreedyFacts
  <1>7. Sound(l, r, X) /\ \A p \in X : ~Touches(M, p) /\ ~SameClass(l, r, p)
    <2>. HIDE DEF X
    <2>. QED
      BY <1>6 DEF Sound, Candidates
  <1>. QED
    BY <1>5, <1>7 DEF MatchAcrossClasses, PairClassMismatches, M

\* As many detections of either side are matched as there are pairs.
LEMMA SidesMatched ==
    ASSUME NEW l \in Seq(Detections), NEW r \in Seq(Detections), NEW M, Sound(l, r, M),
           NEW side \in {1, 2}
    PROVE  LET S == {p[side] : p \in M}
           IN  /\ IsFiniteSet(M) /\ IsFiniteSet(S) /\ Cardinality(S) = Cardinality(M)
               /\ Cardinality(M) \in Nat
  <1>. DEFINE S == {p[side] : p \in M}
              f == [p \in M |-> p[side]]
  <1>1. IsFiniteSet(M) /\ Cardinality(M) \in Nat
    BY PairsAreFinite, FS_CardinalityType DEF Sound
  <1>2. \A p, q \in M : p[side] = q[side] => p = q
    BY DEF Sound, OneToOne
  <1>3. f \in [M -> S] /\ (\A p, q \in M : f[p] = f[q] => p = q) /\ \A t \in S : \E p \in M : f[p] = t
    BY <1>2
  <1>. HIDE DEF S, f
  <1>4. f \in Bijection(M, S)
    BY <1>3 DEF Bijection, Injection, Surjection, IsInjective
  <1>5. ExistsBijection(M, S)
    BY <1>4 DEF ExistsBijection
  <1>6. IsFiniteSet(S) /\ Cardinality(S) = Cardinality(M)
    BY <1>1, <1>5, FS_Bijection
  <1>. QED
    BY <1>1, <1>6 DEF S

\* The others are unmatched.
LEMMA RestUnmatched ==
    ASSUME NEW l \in Seq(Detections), NEW r \in Seq(Detections), NEW M, Sound(l, r, M)
    PROVE  /\ Cardinality(Unmatched(l, M, 1)) = Len(l) - Cardinality(M)
           /\ Cardinality(Unmatched(r, M, 2)) = Len(r) - Cardinality(M)
           /\ IsFiniteSet(Unmatched(l, M, 1)) /\ IsFiniteSet(Unmatched(r, M, 2))
           /\ Cardinality(M) = Len(l) <=> Unmatched(l, M, 1) = {}
           /\ Cardinality(M) = Len(r) <=> Unmatched(r, M, 2) = {}
           /\ Cardinality(M) \in Nat
  <1>1. ASSUME NEW side \in {1, 2}, NEW list \in {l, r},
               \A p \in M : p[side] \in DOMAIN list
        PROVE  /\ Cardinality(Unmatched(list, M, side)) = Len(list) - Cardinality(M)
               /\ IsFiniteSet(Unmatched(list, M, side))
               /\ Cardinality(M) = Len(list) <=> Unmatched(list, M, side) = {}
               /\ Cardinality(M) \in Nat
    <2>. DEFINE S == {p[side] : p \in M}  D == DOMAIN list  U == D \ S
    <2>1. IsFiniteSet(S) /\ Cardinality(S) = Cardinality(M) /\ Cardinality(M) \in Nat
      BY SidesMatched
    <2>2. D = 1 .. Len(list) /\ Len(list) \in Nat
      OBVIOUS
    <2>3. S \subseteq D
      BY <1>1
    <2>. HIDE DEF S, D
    <2>4. IsFiniteSet(D) /\ Cardinality(D) = Len(list)
      <3>1. PICK n \in Nat : n = Len(list)
        BY <2>2
      <3>2. IsFiniteSet(1 .. n) /\ Cardinality(1 .. n) = IF 1 > n THEN 0 ELSE n - 1 + 1
        BY FS_Interval
      <3>. QED
        BY <2>2, <3>1, <3>2
    <2>5. IsFiniteSet(U) /\ Cardinality(U) = Cardinality(D) - Cardinality(D \cap S)
      BY <2>4, FS_Difference
    <2>6. D \cap S = S
      BY <2>3
    <2>7. Cardinality(U) = 0 <=> U = {}
      BY <2>5, FS_EmptySet
    <2>8. Cardinality(U) = Len(list) - Cardinality(M)
      BY <2>1, <2>4, <2>5, <2>6
    <2>. QED
      BY <2>1, <2>2, <2>5, <2>7, <2>8 DEF Unmatched, S, D
  <1>2. \A p \in M : p[1] \in DOMAIN l /\ p[2] \in DOMAIN r
    BY PairFacts DEF Sound
  <1>. QED
    BY <1>1, <1>2

\* The largest of finitely many amounts, 0 if there is none.
LEMMA LargestAmount ==
    ASSUME NEW M, IsFiniteSet(M), NEW f \in [M -> Nat]
    PROVE  /\ Max({f[p] : p \in M} \cup {0}) \in Nat
           /\ \A p \in M : f[p] <= Max({f[q] : q \in M} \cup {0})
           /\ M = {} => Max({f[p] : p \in M} \cup {0}) = 0
  <1>. DEFINE S == {f[p] : p \in M}
  <1>1. IsFiniteSet(S) /\ S \subseteq Nat
    BY ImageIsFinite
  <1>2. \A p \in M : f[p] \in S
    OBVIOUS
  <1>3. M = {} => S \cup {0} = {0}
    OBVIOUS
  <1>. HIDE DEF S
  <1>4. IsFiniteSet(S \cup {0}) /\ S \cup {0} \subseteq Nat /\ S \cup {0} # {}
    BY <1>1, FS_AddElement
  <1>5. Max(S \cup {0}) \in S \cup {0} /\ \A y \in S \cup {0} : Max(S \cup {0}) >= y
    BY <1>4, GreatestIsOne
  <1>6. \A p \in M : f[p] \in Nat
    OBVIOUS
  <1>. QED
    BY <1>1, <1>2, <1>3, <1>5, <1>6 DEF S

\* The sides of two boxes lie apart by at most the largest difference.
LEMMA DiffIsLargest ==
    ASSUME NEW a \in Boxes, NEW b \in Boxes
    PROVE  /\ BboxMaxAbsDiff(a, b) \in Nat
           /\ BboxMaxAbsDiff(b, a) = BboxMaxAbsDiff(a, b)
  <1>. DEFINE f == [k \in 1 .. 4 |-> Abs(a[k] - b[k])]
              S == {f[k] : k \in 1 .. 4}
  <1>1. \A k \in 1 .. 4 : a[k] \in Int /\ b[k] \in Int
    BY DEF Boxes
  <1>2. f \in [1 .. 4 -> Nat]
    BY <1>1 DEF Abs
  <1>3. \A m, n \in Int : Abs(n - m) = Abs(m - n)
    BY DEF Abs
  <1>4. \A k \in 1 .. 4 : Abs(b[k] - a[k]) = Abs(a[k] - b[k])
    BY <1>1, <1>3
  <1>5. /\ {Abs(a[k] - b[k]) : k \in 1 .. 4} = S
        /\ {Abs(b[k] - a[k]) : k \in 1 .. 4} = {Abs(a[k] - b[k]) : k \in 1 .. 4}
    <2>1. \A k \in 1 .. 4 : f[k] = Abs(a[k] - b[k])
      OBVIOUS
    <2>. HIDE DEF f
    <2>. QED
      BY <1>4, <2>1
  <1>6. IsFiniteSet(1 .. 4) /\ 1 \in 1 .. 4
    <2>1. 1 \in Int /\ 4 \in Int /\ 1 \in 1 .. 4
      OBVIOUS
    <2>2. IsFiniteSet(1 .. 4)
      BY <2>1, FS_Interval, Zenon
    <2>. QED
      BY <2>1, <2>2
  <1>. HIDE DEF f
  <1>7. IsFiniteSet(S) /\ S \subseteq Nat /\ S # {}
    BY <1>2, <1>6, ImageIsFinite
  <1>. HIDE DEF S
  <1>8. Max(S) \in Nat
    BY <1>7, GreatestIsOne
  <1>. QED
    BY <1>5, <1>8 DEF BboxMaxAbsDiff

\* The worst difference is one that no pair exceeds.
LEMMA WorstFacts ==
    ASSUME NEW l \in Seq(Detections), NEW r \in Seq(Detections), NEW M, Sound(l, r, M)
    PROVE  LET w == Worst(l, r, M)
           IN  /\ w.confidence \in Nat /\ w.iou \in Nat /\ w.box \in Nat
               /\ \A p \in M : /\ Delta(l, r, p) <= w.confidence
                               /\ BboxMaxAbsDiff(l[p[1]].box, r[p[2]].box) <= w.box
               /\ M = {} => w.confidence = 0 /\ w.iou = 1000
  <1>. DEFINE w == Worst(l, r, M)
              f == [p \in M |-> Delta(l, r, p)]
              g == [p \in M |-> BboxMaxAbsDiff(l[p[1]].box, r[p[2]].box)]
              O == {Overlap(l, r, p) : p \in M} \cup {1000}
  <1>1. \A p \in M : /\ l[p[1]] \in Detections /\ r[p[2]] \in Detections
                     /\ Overlap(l, r, p) \in Nat
    BY PairFacts DEF Sound
  <1>2. \A p \in M : /\ Delta(l, r, p) \in Nat
                     /\ BboxMaxAbsDiff(l[p[1]].box, r[p[2]].box) \in Nat
    <2>. TAKE p \in M
    <2>1. /\ l[p[1]].confidence \in Nat /\ r[p[2]].confidence \in Nat
          /\ l[p[1]].box \in Boxes /\ r[p[2]].box \in Boxes
      BY <1>1 DEF Detections, Boxes
    <2>2. Delta(l, r, p) \in Nat
      BY <2>1 DEF Delta, Abs
    <2>3. BboxMaxAbsDiff(l[p[1]].box, r[p[2]].box) \in Nat
      BY <2>1, DiffIsLargest
    <2>. QED
      BY <2>2, <2>3, Zenon
  <1>3. IsFiniteSet(M)
    BY PairsAreFinite DEF Sound
  <1>4. f \in [M -> Nat] /\ g \in [M -> Nat]
    BY <1>2
  <1>5. /\ {f[p] : p \in M} = {Delta(l, r, p) : p \in M}
        /\ {g[p] : p \in M} = {BboxMaxAbsDiff(l[p[1]].box, r[p[2]].box) : p \in M}
    OBVIOUS
  <1>6. /\ w.confidence = Max({f[p] : p \in M} \cup {0})
        /\ w.box = Max({g[p] : p \in M} \cup {0})
        /\ w.iou = Min(O)
    BY <1>5 DEF Worst
  <1>7. \A p \in M : f[p] = Delta(l, r, p) /\ g[p] = BboxMaxAbsDiff(l[p[1]].box, r[p[2]].box)
    OBVIOUS
  <1>8. O \subseteq Nat /\ O # {} /\ (M = {} => O = {1000})
    <2>. DEFINE Amounts == {Overlap(l, r, p) : p \in M}
    <2>1. Amounts \subseteq Nat
      BY <1>1
    <2>2. M = {} => Amounts = {}
      OBVIOUS
    <2>3. O = Amounts \cup {1000}
      BY Zenon
    <2>. HIDE DEF Amounts, O
    <2>4. 1000 \in Nat
      OBVIOUS
    <2>5. O \subseteq Nat /\ O # {}
      BY <2>1, <2>3, <2>4
    <2>6. M = {} => O = {1000}
      BY <2>2, <2>3
    <2>. QED
      BY <2>5, <2>6
  <1>. HIDE DEF f, g, w, O
  <1>9. Min(O) \in O
    <2>1. O \subseteq Nat /\ O # {}
      BY <1>8, Zenon
    <2>. QED
      BY <2>1, LeastIsOne
  <1>10. w.iou \in Nat /\ (M = {} => w.iou = 1000)
    <2>1. w.iou = Min(O)
      BY <1>6, Zenon
    <2>2. w.iou \in O
      BY <1>9, <2>1, Zenon
    <2>3. O \subseteq Nat
      BY <1>8, Zenon
    <2>4. M = {} => O = {1000}
      BY <1>8, Zenon
    <2>5. w.iou \in Nat
      BY <2>2, <2>3, Zenon
    <2>6. M = {} => w.iou = 1000
      BY <2>2, <2>4
    <2>. QED
      BY <2>5, <2>6, Zenon
  <1>11. /\ w.confidence \in Nat /\ \A p \in M : f[p] <= w.confidence
         /\ M = {} => w.confidence = 0
    <2>1. /\ Max({f[p] : p \in M} \cup {0}) \in Nat
          /\ \A p \in M : f[p] <= Max({f[q] : q \in M} \cup {0})
          /\ M = {} => Max({f[p] : p \in M} \cup {0}) = 0
      BY <1>3, <1>4, LargestAmount
    <2>. QED
      BY <1>6, <2>1, Zenon
  <1>12. w.box \in Nat /\ \A p \in M : g[p] <= w.box
    <2>1. /\ Max({g[p] : p \in M} \cup {0}) \in Nat
          /\ \A p \in M : g[p] <= Max({g[q] : q \in M} \cup {0})
      BY <1>3, <1>4, LargestAmount
    <2>. QED
      BY <1>6, <2>1, Zenon
  <1>13. \A p \in M : /\ Delta(l, r, p) <= w.confidence
                       /\ BboxMaxAbsDiff(l[p[1]].box, r[p[2]].box) <= w.box
    BY <1>7, <1>11, <1>12, Zenon
  <1>. QED
    BY <1>11, <1>12, <1>10, <1>13, Zenon DEF w

-----------------------------------------------------------------------------
\* What the programs make of two lists.

\* A detection of either list is without a partner.
Alone(l, r, M) == Unmatched(l, M, 1) # {} \/ Unmatched(r, M, 2) # {}

\* What is matched across classes was alone before; if nothing is, it is alone still.
LEMMA AloneOrCrossed ==
    ASSUME NEW l \in Seq(Detections), NEW r \in Seq(Detections)
    PROVE  LET M == MatchDetections(l, r)
               X == MatchAcrossClasses(l, r, M)
           IN  /\ Alone(l, r, M) <=> X # {} \/ Alone(l, r, M \cup X)
               /\ Unmatched(l, M \cup X, 1) \subseteq Unmatched(l, M, 1)
               /\ Unmatched(r, M \cup X, 2) \subseteq Unmatched(r, M, 2)
  <1>. DEFINE M == MatchDetections(l, r)
              X == MatchAcrossClasses(l, r, M)
  <1>1. /\ \A p \in X : ~Touches(M, p)
        /\ X \subseteq Pairs(l, r)
    BY Crossed DEF Sound
  <1>. HIDE DEF M, X
  <1>2. \A p \in X : p[1] \in Unmatched(l, M, 1)
    BY <1>1 DEF Touches, Unmatched, Pairs
  <1>3. /\ Unmatched(l, M \cup X, 1) \subseteq Unmatched(l, M, 1)
        /\ Unmatched(r, M \cup X, 2) \subseteq Unmatched(r, M, 2)
    BY DEF Unmatched
  <1>4. X = {} => M \cup X = M
    OBVIOUS
  <1>5. Alone(l, r, M) <=> X # {} \/ Alone(l, r, M \cup X)
    <2>1. CASE X = {}
      BY <1>4, <2>1
    <2>2. CASE X # {}
      BY <1>2, <2>2 DEF Alone
    <2>. QED
      BY <2>1, <2>2
  <1>. QED
    BY <1>3, <1>5 DEF M, X

\* compare_all_backends.py fails what is alone after the first matching.
LEMMA ListsStatus ==
    ASSUME NEW l \in Seq(Detections), NEW r \in Seq(Detections)
    PROVE  LET M == MatchDetections(l, r)
               w == Worst(l, r, M)
               c == CompareDetectionLists(l, r)
           IN  /\ c.matched = M /\ c.mismatched = MatchAcrossClasses(l, r, M)
               /\ c.count \in Nat
               /\ c.count > 0 <=> Alone(l, r, M)
               /\ c.status = IF Alone(l, r, M) THEN "FAIL"
                             ELSE IF w.confidence > 10 \/ w.iou < 990 THEN "WARNING" ELSE "PASS"
  <1>. DEFINE M == MatchDetections(l, r)
              X == MatchAcrossClasses(l, r, M)
              A == Unmatched(l, M \cup X, 1)
              B == Unmatched(r, M \cup X, 2)
              w == Worst(l, r, M)
              count == Cardinality(X) + Cardinality(A) + Cardinality(B)
              c == CompareDetectionLists(l, r)
  <1>1. /\ c.matched = M /\ c.mismatched = X /\ c.count = count
        /\ c.status = IF count > 0 THEN "FAIL"
                      ELSE IF w.confidence > 10 \/ w.iou < 990 THEN "WARNING" ELSE "PASS"
    <2>1. PairClassMismatches(l, r, M) = X
      BY Crossed
    <2>. QED
      BY <2>1 DEF CompareDetectionLists
  <1>2. Sound(l, r, M) /\ Sound(l, r, X)
    BY Matched, Crossed
  <1>3. /\ Alone(l, r, M) <=> X # {} \/ Alone(l, r, M \cup X)
        /\ A \subseteq Unmatched(l, M, 1) /\ B \subseteq Unmatched(r, M, 2)
    BY AloneOrCrossed
  <1>. HIDE DEF M, X, c, w
  <1>4. IsFiniteSet(X) /\ IsFiniteSet(A) /\ IsFiniteSet(B)
    <2>1. IsFiniteSet(Unmatched(l, M, 1)) /\ IsFiniteSet(Unmatched(r, M, 2))
      BY <1>2, RestUnmatched
    <2>2. IsFiniteSet(X)
      BY <1>2, PairsAreFinite DEF Sound
    <2>. HIDE DEF A, B
    <2>. QED
      BY <1>3, <2>1, <2>2, FS_Subset
  <1>5. /\ Cardinality(X) \in Nat /\ Cardinality(A) \in Nat /\ Cardinality(B) \in Nat
        /\ Cardinality(X) = 0 <=> X = {}
        /\ Cardinality(A) = 0 <=> A = {}
        /\ Cardinality(B) = 0 <=> B = {}
    BY <1>4, FS_CardinalityType, FS_EmptySet
  <1>6. count \in Nat /\ (count > 0 <=> X # {} \/ A # {} \/ B # {})
    <2>1. \A x, y, z \in Nat : x + y + z \in Nat /\ (x + y + z > 0 <=> x # 0 \/ y # 0 \/ z # 0)
      OBVIOUS
    <2>. HIDE DEF A, B
    <2>. QED
      BY <1>5, <2>1
  <1>7. count > 0 <=> Alone(l, r, M)
    BY <1>3, <1>6 DEF Alone
  <1>. HIDE DEF count
  <1>8. c.status = IF Alone(l, r, M) THEN "FAIL"
                   ELSE IF w.confidence > 10 \/ w.iou < 990 THEN "WARNING" ELSE "PASS"
    BY <1>1, <1>7, Zenon
  <1>9. c.count \in Nat /\ (c.count > 0 <=> Alone(l, r, M))
    BY <1>1, <1>6, <1>7 DEF count
  <1>. QED
    BY <1>1, <1>8, <1>9 DEF M, X, w, c

\* Nothing is alone exactly if every detection of both lists is in a pair.
LEMMA NoneAlone ==
    ASSUME NEW l \in Seq(Detections), NEW r \in Seq(Detections), NEW M, Sound(l, r, M)
    PROVE  ~Alone(l, r, M) <=> Cardinality(M) = Len(l) /\ Cardinality(M) = Len(r)
  BY RestUnmatched DEF Alone

\* Two empty lists have nothing to match.
LEMMA EmptyLists ==
    ASSUME NEW M, Sound(<<>>, <<>>, M)
    PROVE  M = {} /\ ~Alone(<<>>, <<>>, M)
  BY DEF Sound, Pairs, Alone, Unmatched

\* compare_pytorch_onnx_batch.py fails the same, and warns of the same.
LEMMA SetsStatus ==
    ASSUME NEW l \in Seq(Detections), NEW r \in Seq(Detections)
    PROVE  /\ CompareDetectionSets(l, r).status = CompareDetectionLists(l, r).status
           /\ CompareDetectionSets(l, r).worst = Worst(l, r, MatchDetections(l, r))
  <1>. DEFINE M == MatchDetections(l, r)
              w == Worst(l, r, M)
              c == CompareDetectionSets(l, r)
              d == CompareDetectionLists(l, r)
  <1>1. /\ c.worst = w
        /\ c.status = IF l = <<>> /\ r = <<>> THEN "PASS" ELSE IF Alone(l, r, M) THEN "FAIL"
                      ELSE IF w.confidence > 10 \/ w.iou < 990 THEN "WARNING" ELSE "PASS"
    BY DEF CompareDetectionSets, Alone
  <1>2. d.status = IF Alone(l, r, M) THEN "FAIL"
                   ELSE IF w.confidence > 10 \/ w.iou < 990 THEN "WARNING" ELSE "PASS"
    BY ListsStatus
  <1>3. Sound(l, r, M)
    BY Matched
  <1>. HIDE DEF M, c, d
  <1>4. ASSUME l = <<>>, r = <<>> PROVE d.status = "PASS"
    <2>1. M = {} /\ ~Alone(l, r, M)
      BY <1>3, <1>4, EmptyLists
    <2>2. w.confidence = 0 /\ w.iou = 1000
      BY <1>3, <2>1, WorstFacts
    <2>3. ~(w.confidence > 10 \/ w.iou < 990)
      BY <2>2
    <2>. QED
      BY <1>2, <2>1, <2>3, Zenon
  <1>. HIDE DEF w
  <1>5. c.status = d.status
    <2>1. CASE l = <<>> /\ r = <<>>
      BY <1>1, <1>4, <2>1
    <2>2. CASE ~(l = <<>> /\ r = <<>>)
      BY <1>1, <1>2, <2>2
    <2>. QED
      BY <2>1, <2>2
  <1>. QED
    BY <1>1, <1>5 DEF M, c, d, w

\* compare_python_cpp_onnx_batch.py fails no less and passes no more.
LEMMA ResultsStatus ==
    ASSUME NEW l \in Seq(Detections), NEW r \in Seq(Detections)
    PROVE  LET c == CompareResults(l, r)
               d == CompareDetectionLists(l, r)
           IN  /\ d.status = "FAIL" => c.status = "FAIL"
               /\ c.status = "PASS" => d.status = "PASS"
               /\ c.status \in {"PASS", "WARNING", "FAIL"}
  <1>. DEFINE M == MatchDetections(l, r)
              w == Worst(l, r, M)
              c == CompareResults(l, r)
              d == CompareDetectionLists(l, r)
  <1>1. c.status = IF l = <<>> /\ r = <<>> THEN "PASS"
                   ELSE IF \/ Cardinality(M) # Len(l) \/ Cardinality(M) # Len(r)
                           \/ w.iou < 990 THEN "FAIL"
                   ELSE IF w.iou >= 999 /\ w.confidence = 0 THEN "PASS"
                   ELSE IF w.confidence <= 1 THEN "WARNING" ELSE "FAIL"
    BY DEF CompareResults
  <1>2. d.status = IF Alone(l, r, M) THEN "FAIL"
                   ELSE IF w.confidence > 10 \/ w.iou < 990 THEN "WARNING" ELSE "PASS"
    BY ListsStatus
  <1>3. Sound(l, r, M)
    BY Matched
  <1>. HIDE DEF M, c, d
  <1>4. ASSUME l = <<>>, r = <<>> PROVE d.status = "PASS"
    <2>1. CompareDetectionSets(l, r).status = "PASS"
      BY <1>4 DEF CompareDetectionSets
    <2>. QED
      BY <2>1, SetsStatus DEF d
  <1>5. Alone(l, r, M) <=> Cardinality(M) # Len(l) \/ Cardinality(M) # Len(r)
    BY <1>3, NoneAlone
  <1>6. w.confidence \in Nat /\ w.iou \in Nat
    BY <1>3, WorstFacts
  <1>. HIDE DEF w
  <1>7. d.status = "FAIL" => c.status = "FAIL"
    BY <1>1, <1>2, <1>4, <1>5
  <1>8. c.status = "PASS" => d.status = "PASS"
    BY <1>1, <1>2, <1>4, <1>5, <1>6
  <1>. QED
    BY <1>1, <1>7, <1>8 DEF c, d

\* The detections that the C++ comparison and the C++ benchmark judge.
LEMMA ImageStatus ==
    ASSUME NEW l \in Seq(Detections), NEW r \in Seq(Detections), NEW tolerance \in Nat
    PROVE  LET c == CompareImage(l, r, tolerance)
               b == JudgeStatus(l, r, tolerance)
           IN  /\ CompareDetectionLists(l, r).status = "FAIL" <=> c.alone # {} \/ c.crossed # {}
               /\ c.status = "FAIL" => b = "FAIL"
               /\ c.status = "PASS" <=> b = "PASS"
               /\ b = "FAIL" /\ c.status # "FAIL" => c.alone # {}
               /\ c.status # "FAIL" =>
                     /\ c.crossed = {} /\ \A d \in c.alone : IsThresholdBoundary(d)
                     /\ c.alone # {} => c.status = "NUMERICAL_WARNING"
  <1>. DEFINE M == MatchDetections(l, r)
              X == MatchAcrossClasses(l, r, M)
              w == Worst(l, r, M)
              c == CompareImage(l, r, tolerance)
              b == JudgeStatus(l, r, tolerance)
              alone == {l[i] : i \in Unmatched(l, M \cup X, 1)}
                       \cup {r[j] : j \in Unmatched(r, M \cup X, 2)}
              boundary == {d \in alone : IsThresholdBoundary(d)}
              large == w.confidence > tolerance \/ w.box > BoxTolerance
  <1>1. /\ c.alone = alone /\ c.crossed = X
        /\ c.status = IF alone # boundary \/ X # {} \/ large THEN "FAIL"
                      ELSE IF w.confidence > StrictTolerance \/ boundary # {}
                      THEN "NUMERICAL_WARNING" ELSE "PASS"
    BY DEF CompareImage
  <1>2. b = IF Alone(l, r, M) \/ large THEN "FAIL"
            ELSE IF w.confidence <= StrictTolerance THEN "PASS" ELSE "NUMERICAL_WARNING"
    BY DEF JudgeStatus, Alone
  <1>3. alone # {} <=> Alone(l, r, M \cup X)
    BY DEF Alone
  <1>4. Alone(l, r, M) <=> X # {} \/ Alone(l, r, M \cup X)
    BY AloneOrCrossed
  <1>5. CompareDetectionLists(l, r).status = "FAIL" <=> Alone(l, r, M)
    BY ListsStatus
  <1>6. w.confidence > StrictTolerance <=> ~(w.confidence <= StrictTolerance)
    <2>1. w.confidence \in Nat
      BY Matched, WorstFacts
    <2>2. StrictTolerance \in Nat
      BY TolerancesAreNatural
    <2>. HIDE DEF w
    <2>. QED
      BY <2>1, <2>2
  <1>7. /\ boundary # {} => alone # {}
        /\ alone = boundary => \A d \in alone : IsThresholdBoundary(d)
    OBVIOUS
  <1>. HIDE DEF M, X, w, c, b, alone, boundary, large
  <1>8. /\ c.status = "FAIL" => b = "FAIL"
        /\ c.status = "PASS" <=> b = "PASS"
        /\ b = "FAIL" /\ c.status # "FAIL" => c.alone # {}
    BY <1>1, <1>2, <1>3, <1>4, <1>6, <1>7
  <1>9. c.status # "FAIL" =>
            /\ c.crossed = {} /\ \A d \in c.alone : IsThresholdBoundary(d)
            /\ c.alone # {} => c.status = "NUMERICAL_WARNING"
    BY <1>1, <1>7
  <1>10. CompareDetectionLists(l, r).status = "FAIL" <=> c.alone # {} \/ c.crossed # {}
    BY <1>1, <1>3, <1>4, <1>5
  <1>. QED
    BY <1>8, <1>9, <1>10 DEF c, b

\* Nothing is judged yet, or the verdicts are of the two lists.
ImagesInv ==
    verdict # <<>> => left \in Lists /\ right \in Lists /\ verdict = Verdicts(left, right)

\* The verdicts follow from the lists that were drawn.
LEMMA ImagesAreJudged == Spec => []ImagesInv
  <1>1. Init => ImagesInv
    BY DEF Init, ImagesInit, ImagesInv
  <1>2. ImagesInv /\ [Next]_vars => ImagesInv'
    <2>1. ASSUME Judge PROVE ImagesInv'
      BY <2>1 DEF Judge, ImagesInv
    <2>2. ASSUME ImagesInv, UNCHANGED imagesVars PROVE ImagesInv'
      BY <2>2 DEF ImagesInv, imagesVars
    <2>. QED
      BY <2>1, <2>2 DEF Next, vars
  <1>. QED
    BY <1>1, <1>2, PTL DEF Spec

\* For all lists: a matching is one-to-one and leaves out a candidate only for one that
\* overlaps as much, and what compare_all_backends.py calls a mismatch of classes is one.
THEOREM MatchingsAlwaysSound == Spec => []MatchingsAreSound
  <1>1. ImagesInv => MatchingsAreSound
    <2>. SUFFICES ASSUME ImagesInv, Judged PROVE MatchingsAreStable /\ MismatchesDiffer
      BY DEF MatchingsAreSound, MatchingsAreStable, MismatchesDiffer
    <2>. DEFINE M == MatchDetections(left, right)
                X == MatchAcrossClasses(left, right, M)
    <2>1. /\ left \in Seq(Detections) /\ right \in Seq(Detections)
          /\ verdict = Verdicts(left, right)
      BY ListsAreRead DEF ImagesInv, Judged
    <2>2. /\ verdict.lists.matched = M /\ verdict.image.matched = M
          /\ verdict.lists.mismatched = X
      BY <2>1, ListsStatus DEF Verdicts, CompareImage
    <2>3. /\ Sound(left, right, M)
          /\ LeftOutForBetter(left, right, Alike(left, right), M)
          /\ \A p \in X : ~SameClass(left, right, p)
      BY <2>1, Matched, Crossed
    <2>. HIDE DEF M, X
    <2>4. Stable(M, LAMBDA p : SameClass(left, right, p))
      <3>1. \A p, q \in M : p # q => p[1] # q[1] /\ p[2] # q[2]
        BY <2>3 DEF Sound, OneToOne
      <3>2. ASSUME NEW p \in (DOMAIN left) \X (DOMAIN right), SameClass(left, right, p),
                   Overlap(left, right, p) >= MatchIou
            PROVE  \E q \in M : /\ q[1] = p[1] \/ q[2] = p[2]
                                /\ Overlap(left, right, q) >= Overlap(left, right, p)
        <4>1. p \in Alike(left, right)
          BY <3>2 DEF Alike, Pairs
        <4>. QED
          BY <2>3, <4>1 DEF LeftOutForBetter
      <3>. QED
        BY <3>1, <3>2 DEF Stable
    <2>5. MatchingsAreStable
      BY <2>2, <2>4, Zenon DEF MatchingsAreStable
    <2>6. MismatchesDiffer
      BY <2>2, <2>3 DEF MismatchesDiffer
    <2>. QED
      BY <2>5, <2>6
  <1>. QED
    BY <1>1, ImagesAreJudged, PTL

\* For all lists: the five programs agree on what is a failure of the detections, and a
\* detection is only excused at the threshold.
THEOREM VerdictsAlwaysSound == Spec => []VerdictsAreSound
  <1>1. ImagesInv => VerdictsAreSound
    <2>. SUFFICES ASSUME ImagesInv, Judged PROVE VerdictsAgree /\ BoundaryExcusesItself
      BY DEF VerdictsAreSound, VerdictsAgree, BoundaryExcusesItself
    <2>1. /\ left \in Seq(Detections) /\ right \in Seq(Detections)
          /\ verdict = Verdicts(left, right)
      BY ListsAreRead DEF ImagesInv, Judged
    <2>2. /\ verdict.lists = CompareDetectionLists(left, right)
          /\ verdict.sets = CompareDetectionSets(left, right)
          /\ verdict.results = CompareResults(left, right)
          /\ verdict.image = CompareImage(left, right, 2)
          /\ verdict.benchmark = JudgeStatus(left, right, 2)
      BY <2>1 DEF Verdicts
    <2>3. VerdictsAgree
      BY <2>1, <2>2, SetsStatus, ResultsStatus, ImageStatus DEF VerdictsAgree
    <2>4. BoundaryExcusesItself
      BY <2>1, <2>2, ImageStatus DEF BoundaryExcusesItself
    <2>. QED
      BY <2>3, <2>4
  <1>. QED
    BY <1>1, ImagesAreJudged, PTL

-----------------------------------------------------------------------------
\* Labels and predictions.

\* What one field of the counts comes to.
SumBy(counts, field, S) == FoldSet(LAMBDA c, sum : sum + counts[c][field], 0, S)

\* A total for the subsets of S that is nothing for no elements.
TotalsUp(total, counts, field, S) ==
    /\ total \in [SUBSET S -> Int] /\ total[{}] = 0
    /\ \A s \in SUBSET S : \A x \in s :
           /\ counts[x][field] \in Int
           /\ total[s] = total[s \ {x}] + counts[x][field]

\* A sum over a set, taken out of it element by element in whatever order, is the total
\* that loses with an element what the element counts.
LEMMA FoldAdds ==
    ASSUME NEW S, IsFiniteSet(S), NEW counts, NEW field, NEW total,
           TotalsUp(total, counts, field, S)
    PROVE  SumBy(counts, field, S) = total[S]
  <1>. DEFINE Some(s) == CHOOSE x \in s : TRUE
              Step(g) == [s \in SUBSET S |->
                             IF s = {} THEN 0 ELSE g[s \ {Some(s)}] + counts[Some(s)][field]]
              iter == CHOOSE g : g = Step(g)
  <1>0. /\ total \in [SUBSET S -> Int] /\ total[{}] = 0
        /\ \A s \in SUBSET S : \A x \in s :
               /\ counts[x][field] \in Int
               /\ total[s] = total[s \ {x}] + counts[x][field]
    BY DEF TotalsUp
  <1>1. SumBy(counts, field, S) = iter[S]
    BY DEF SumBy, FoldSet, MapThenFoldSet
  <1>2. total = Step(total)
    <2>0. DOMAIN total = SUBSET S /\ total = [s \in SUBSET S |-> total[s]]
      BY <1>0
    <2>1. \A s \in SUBSET S :
              total[s] = IF s = {} THEN 0 ELSE total[s \ {Some(s)}] + counts[Some(s)][field]
      <3>. TAKE s \in SUBSET S
      <3>1. CASE s = {}
        BY <1>0, <3>1
      <3>2. CASE s # {}
        <4>1. Some(s) \in s
          BY <3>2
        <4>. QED
          BY <1>0, <3>2, <4>1
      <3>. QED
        BY <3>1, <3>2
    <2>. QED
      BY <2>0, <2>1
  <1>3. iter = Step(iter)
    <2>. HIDE DEF Step
    <2>. QED
      BY <1>2
  <1>4. \A s \in SUBSET S :
            iter[s] = IF s = {} THEN 0 ELSE iter[s \ {Some(s)}] + counts[Some(s)][field]
    <2>. HIDE DEF iter
    <2>. TAKE s \in SUBSET S
    <2>1. Step(iter)[s] = IF s = {} THEN 0 ELSE iter[s \ {Some(s)}] + counts[Some(s)][field]
      OBVIOUS
    <2>. HIDE DEF Step
    <2>. QED
      BY <1>3, <2>1
  <1>5. \A s \in SUBSET S : IsFiniteSet(s) /\ Cardinality(s) \in Nat
    BY FS_Subset, FS_CardinalityType
  <1>. DEFINE T == {k \in Nat : \A s \in SUBSET S : Cardinality(s) = k => iter[s] = total[s]}
  <1>. HIDE DEF iter
  <1>6. 0 \in T
    <2>1. ASSUME NEW s \in SUBSET S, Cardinality(s) = 0 PROVE iter[s] = total[s]
      <3>1. s = {}
        BY <1>5, <2>1, FS_EmptySet
      <3>. QED
        BY <1>0, <1>4, <3>1
    <2>. QED
      BY <2>1
  <1>7. ASSUME NEW k \in Nat, k \in T PROVE k + 1 \in T
    <2>. SUFFICES ASSUME NEW s \in SUBSET S, Cardinality(s) = k + 1 PROVE iter[s] = total[s]
      OBVIOUS
    <2>1. s # {}
      <3>1. Cardinality({}) = 0 /\ k + 1 # 0
        BY FS_EmptySet
      <3>. QED
        BY <3>1
    <2>2. PICK x \in s : x = Some(s)
      BY <2>1
    <2>3. Cardinality(s \ {x}) = k
      <3>1. IsFiniteSet(s)
        BY <1>5
      <3>2. Cardinality(s \ {x}) = Cardinality(s) - 1
        BY <3>1, FS_RemoveElement
      <3>. QED
        BY <3>2
    <2>4. iter[s \ {x}] = total[s \ {x}]
      BY <1>7, <2>3
    <2>5. iter[s] = iter[s \ {x}] + counts[x][field]
      <3>. HIDE DEF Some
      <3>. QED
        BY <1>4, <2>1, <2>2
    <2>. QED
      BY <1>0, <2>4, <2>5
  <1>. HIDE DEF T
  <1>8. \A n \in Nat : n \in T
    BY <1>6, <1>7, Climb
  <1>9. Cardinality(S) \in T
    BY <1>5, <1>8
  <1>10. iter[S] = total[S]
    BY <1>9 DEF T
  <1>. QED
    BY <1>1, <1>10

-----------------------------------------------------------------------------
\* The recommendation of a C++ backend.

\* What two boxes have in common does not depend on which is named first.
LEMMA IouIsSymmetric ==
    ASSUME NEW a \in Boxes, NEW b \in Boxes
    PROVE  BboxIou(a, b) = BboxIou(b, a)
  <1>1. \A k \in 1 .. 4 : a[k] \in Int /\ b[k] \in Int
    BY DEF Boxes
  <1>2. \A m, n \in Int : Larger(m, n) = Larger(n, m) /\ Smaller(m, n) = Smaller(n, m)
    BY DEF Larger, Smaller
  <1>3. Intersection(a, b) = Intersection(b, a)
    BY <1>1, <1>2 DEF Intersection
  <1>4. Area(a) \in Nat /\ Area(b) \in Nat
    BY <1>1, AreaIsNatural
  <1>5. Area(a) + Area(b) = Area(b) + Area(a)
    BY <1>4
  <1>. QED
    BY <1>3, <1>5 DEF BboxIou

\* A box that overlaps another one overlaps itself wholly.
LEMMA OverlapsItself ==
    ASSUME NEW a \in Boxes, NEW b \in Boxes, BboxIou(a, b) >= MatchIou
    PROVE  BboxIou(a, a) = 1000 /\ BboxMaxAbsDiff(a, a) = 0
  <1>. DEFINE common == Intersection(a, b)
  <1>1. /\ a[1] \in Int /\ a[2] \in Int /\ a[3] \in Int /\ a[4] \in Int
        /\ b[1] \in Int /\ b[2] \in Int /\ b[3] \in Int /\ b[4] \in Int
    BY DEF Boxes
  <1>2. /\ common[1] \in Int /\ common[2] \in Int /\ common[3] \in Int /\ common[4] \in Int
        /\ common[1] >= a[1] /\ common[2] >= a[2] /\ common[3] <= a[3] /\ common[4] <= a[4]
    BY <1>1 DEF Intersection, Larger, Smaller
  <1>. HIDE DEF common
  <1>3. Area(a) \in Nat /\ Area(b) \in Nat /\ Area(common) \in Nat
    BY <1>1, <1>2, AreaIsNatural
  <1>4. Area(common) # 0
    <2>1. ASSUME Area(common) = 0 PROVE FALSE
      <3>1. Share(0, Area(a) + Area(b)) = 0
        <4>1. \A n \in Nat \ {0} : (1000 * 0) \div (n - 0) = 0
          OBVIOUS
        <4>2. Area(a) + Area(b) \in Nat
          BY <1>3
        <4>. QED
          BY <4>1, <4>2 DEF Share
      <3>2. BboxIou(a, b) = 0
        BY <2>1, <3>1 DEF BboxIou, common
      <3>. QED
        BY <3>2, MatchIouIsFraction
    <2>. QED
      BY <2>1
  <1>5. common[3] > common[1] /\ common[4] > common[2]
    <2>1. \A n \in Int : 0 * n = 0 /\ n * 0 = 0
      OBVIOUS
    <2>2. Larger(0, common[3] - common[1]) \in Int /\ Larger(0, common[4] - common[2]) \in Int
      BY <1>2 DEF Larger
    <2>3. Larger(0, common[3] - common[1]) # 0 /\ Larger(0, common[4] - common[2]) # 0
      BY <1>4, <2>1, <2>2 DEF Area
    <2>. QED
      BY <1>2, <2>3 DEF Larger
  <1>6. a[3] > a[1] /\ a[4] > a[2]
    BY <1>1, <1>2, <1>5
  <1>7. Area(a) > 0
    <2>1. \A m, n \in Nat : m > 0 /\ n > 0 => m * n > 0
      OBVIOUS
    <2>2. /\ Larger(0, a[3] - a[1]) \in Nat /\ Larger(0, a[3] - a[1]) > 0
          /\ Larger(0, a[4] - a[2]) \in Nat /\ Larger(0, a[4] - a[2]) > 0
      BY <1>1, <1>6 DEF Larger
    <2>. QED
      BY <2>1, <2>2 DEF Area
  <1>8. Intersection(a, a) = <<a[1], a[2], a[3], a[4]>>
    BY <1>1 DEF Intersection, Larger, Smaller
  <1>9. Area(Intersection(a, a)) = Area(a)
    BY <1>8 DEF Area
  <1>10. BboxIou(a, a) = 1000
    <2>1. \A n \in Nat \ {0} : (1000 * n) \div n = 1000
      OBVIOUS
    <2>2. Area(a) + Area(a) - Area(a) = Area(a) /\ ~(Area(a) + Area(a) <= Area(a))
      BY <1>3, <1>7
    <2>. QED
      BY <1>3, <1>7, <1>9, <2>1, <2>2 DEF BboxIou, Share
  <1>11. BboxMaxAbsDiff(a, a) = 0
    <2>1. \A k \in 1 .. 4 : Abs(a[k] - a[k]) = 0
      BY <1>1 DEF Abs
    <2>2. {Abs(a[k] - a[k]) : k \in 1 .. 4} = {0}
      BY <2>1
    <2>3. IsFiniteSet({0})
      BY FS_Singleton, Zenon
    <2>4. Max({0}) \in {0}
      <3>1. {0} \subseteq Nat /\ {0} # {}
        OBVIOUS
      <3>. QED
        BY <2>3, <3>1, GreatestIsOne, Zenon
    <2>. QED
      BY <2>2, <2>4 DEF BboxMaxAbsDiff
  <1>. QED
    BY <1>10, <1>11

\* What the comparison of an image does not fail, it has found in both lists.
LEMMA NotFailedAgree ==
    ASSUME NEW l \in Seq(Detections), NEW r \in Seq(Detections), NEW tolerance \in 0 .. 5,
           CompareImage(l, r, tolerance).status # "FAIL"
    PROVE  Agree(l, r) /\ Agree(r, l) /\ Agree(l, l) /\ Agree(r, r)
  <1>. DEFINE M == MatchDetections(l, r)
              w == Worst(l, r, M)
              c == CompareImage(l, r, tolerance)
              alone == {l[i] : i \in Unmatched(l, M, 1)} \cup {r[j] : j \in Unmatched(r, M, 2)}
              Close(d, e) == /\ d \in Detections /\ e \in Detections
                             /\ e.class = d.class
                             /\ BboxIou(d.box, e.box) >= MatchIou
                             /\ BboxMaxAbsDiff(d.box, e.box) <= BoxTolerance
                             /\ Abs(d.confidence - e.confidence) <= 5
  <1>1. /\ c.crossed = {} /\ \A d \in c.alone : IsThresholdBoundary(d)
    BY ImageStatus
  <1>2. c.alone = alone
    <2>1. MatchAcrossClasses(l, r, M) = {}
      BY <1>1 DEF CompareImage
    <2>2. M \cup {} = M
      OBVIOUS
    <2>. HIDE DEF M
    <2>. QED
      BY <2>1, <2>2 DEF CompareImage, M
  <1>3. ~(w.confidence > tolerance) /\ ~(w.box > BoxTolerance)
    BY DEF CompareImage
  <1>4. Sound(l, r, M) /\ \A p \in M : SameClass(l, r, p)
    BY Matched
  <1>. HIDE DEF M, w, c
  <1>5. /\ w.confidence \in Nat /\ w.box \in Nat
        /\ \A p \in M : /\ Delta(l, r, p) <= w.confidence
                        /\ BboxMaxAbsDiff(l[p[1]].box, r[p[2]].box) <= w.box
    BY <1>4, WorstFacts DEF w
  <1>6. ASSUME NEW p \in M PROVE Close(l[p[1]], r[p[2]])
    <2>1. p \in Pairs(l, r) /\ l[p[1]] \in Detections /\ r[p[2]] \in Detections
      BY <1>4, PairFacts DEF Sound
    <2>2. /\ l[p[1]].confidence \in Nat /\ r[p[2]].confidence \in Nat
          /\ l[p[1]].box \in Boxes /\ r[p[2]].box \in Boxes
      BY <2>1 DEF Detections, Boxes
    <2>3. Delta(l, r, p) <= 5
      <3>1. \A m, n \in Nat : Abs(m - n) \in Nat
        BY DEF Abs
      <3>2. Delta(l, r, p) \in Nat
        BY <2>2, <3>1 DEF Delta
      <3>. QED
        BY <1>3, <1>5, <3>2
    <2>4. BboxMaxAbsDiff(l[p[1]].box, r[p[2]].box) <= BoxTolerance
      <3>1. BboxMaxAbsDiff(l[p[1]].box, r[p[2]].box) \in Nat
        BY <2>2, DiffIsLargest
      <3>2. BoxTolerance \in Nat
        BY TolerancesAreNatural
      <3>. QED
        BY <1>3, <1>5, <3>1, <3>2
    <2>. QED
      BY <1>4, <2>1, <2>3, <2>4 DEF Sound, SameClass, Overlap, Delta
  <1>7. ASSUME NEW d, NEW e, Close(d, e) PROVE Close(e, d) /\ Close(d, d) /\ Close(e, e)
    <2>1. /\ d.box \in Boxes /\ e.box \in Boxes
          /\ d.confidence \in Nat /\ e.confidence \in Nat
      BY <1>7 DEF Detections, Boxes
    <2>2. /\ BboxIou(e.box, d.box) = BboxIou(d.box, e.box)
          /\ BboxMaxAbsDiff(e.box, d.box) = BboxMaxAbsDiff(d.box, e.box)
      BY <2>1, IouIsSymmetric, DiffIsLargest
    <2>3. /\ Abs(e.confidence - d.confidence) = Abs(d.confidence - e.confidence)
          /\ Abs(d.confidence - d.confidence) = 0 /\ Abs(e.confidence - e.confidence) = 0
      BY <2>1 DEF Abs
    <2>4. Close(e, d)
      BY <1>7, <2>2, <2>3
    <2>5. /\ BboxIou(d.box, d.box) = 1000 /\ BboxIou(e.box, e.box) = 1000
          /\ BboxMaxAbsDiff(d.box, d.box) = 0 /\ BboxMaxAbsDiff(e.box, e.box) = 0
      BY <1>7, <2>1, <2>4, OverlapsItself
    <2>6. 1000 >= MatchIou /\ 0 <= BoxTolerance
      BY MatchIouIsFraction, TolerancesAreNatural
    <2>. QED
      BY <1>7, <2>3, <2>4, <2>5, <2>6
  <1>8. ASSUME NEW d \in Range(l), ~IsThresholdBoundary(d)
        PROVE  \E e \in Range(r) : Close(d, e)
    <2>1. PICK i \in DOMAIN l : d = l[i]
      BY DEF Range
    <2>2. i \notin Unmatched(l, M, 1)
      BY <1>1, <1>2, <1>8, <2>1
    <2>3. PICK p \in M : p[1] = i
      BY <2>2 DEF Unmatched
    <2>4. r[p[2]] \in Range(r)
      BY <1>4, PairFacts DEF Sound, Range
    <2>. HIDE DEF Close
    <2>. QED
      BY <1>6, <2>1, <2>3, <2>4
  <1>9. ASSUME NEW d \in Range(r), ~IsThresholdBoundary(d)
        PROVE  \E e \in Range(l) : Close(e, d)
    <2>1. PICK i \in DOMAIN r : d = r[i]
      BY DEF Range
    <2>2. i \notin Unmatched(r, M, 2)
      BY <1>1, <1>2, <1>9, <2>1
    <2>3. PICK p \in M : p[2] = i
      BY <2>2 DEF Unmatched
    <2>4. l[p[1]] \in Range(l)
      BY <1>4, PairFacts DEF Sound, Range
    <2>. HIDE DEF Close
    <2>. QED
      BY <1>6, <2>1, <2>3, <2>4
  <1>10. \A d, e : Close(d, e) =>
            /\ e.class = d.class
            /\ BboxIou(d.box, e.box) >= MatchIou
            /\ BboxMaxAbsDiff(d.box, e.box) <= BoxTolerance
            /\ Abs(d.confidence - e.confidence) <= 5
    OBVIOUS
  <1>. HIDE DEF Close
  <1>11. /\ \A d \in Range(l) : IsThresholdBoundary(d) \/ \E e \in Range(r) : Close(d, e)
         /\ \A d \in Range(r) : IsThresholdBoundary(d) \/ \E e \in Range(l) : Close(d, e)
         /\ \A d \in Range(l) : IsThresholdBoundary(d) \/ \E e \in Range(l) : Close(d, e)
         /\ \A d \in Range(r) : IsThresholdBoundary(d) \/ \E e \in Range(r) : Close(d, e)
    BY <1>7, <1>8, <1>9
  <1>. QED
    BY <1>10, <1>11 DEF Agree

\* Nothing is read yet, or the report is the one that follows from what was read.
RecommendInv ==
    report # <<>> =>
        LET pairs == {AggregatePair(ComparePair(evidence, p)) : p \in PairSpecs}
        IN  /\ evidence \in Results[1] \X Results[2] \X Results[3]
            /\ ValidateImageSets(evidence)
            /\ report = <<AggregatePair(pairs)>> \o ChooseRecommendedBackend(evidence, pairs)

\* The recommendation follows from what was read.
LEMMA ReportsFollow == Spec => []RecommendInv
  <1>1. Init => RecommendInv
    BY DEF Init, RecommendInit, RecommendInv
  <1>2. RecommendInv /\ [Next]_vars => RecommendInv'
    <2>1. ASSUME BuildComparison PROVE RecommendInv'
      BY <2>1 DEF BuildComparison, RecommendInv
    <2>2. ASSUME RecommendInv, UNCHANGED recommendVars PROVE RecommendInv'
      BY <2>2 DEF RecommendInv, recommendVars
    <2>. QED
      BY <2>1, <2>2 DEF Next, vars
  <1>. QED
    BY <1>1, <1>2, PTL DEF Spec

\* What was read of a directory.
IsResult(result, b) ==
    /\ result.lists \in Seq(Seq(Detections))
    /\ result.failed \subseteq DOMAIN result.lists
    /\ result.latency \in Nat \cup {Unmeasured}
    /\ b # 1 => \A i \in result.failed : result.lists[i] = <<>>

\* A report that names a backend found no failure in any pair, and names one of
\* the eligible backends that no other is faster than.
LEMMA NamedIsFastest ==
    ASSUME NEW results, NEW pairs, \A b \in 1 .. 3 : IsResult(results[b], b),
           NEW first,
           (<<first>> \o ChooseRecommendedBackend(results, pairs))[2] # 0
    PROVE  LET best == (<<first>> \o ChooseRecommendedBackend(results, pairs))[2]
           IN  /\ "FAIL" \notin pairs
               /\ best \in Eligible(results)
               /\ \A c \in Eligible(results) : results[best].latency <= results[c].latency
  <1>. DEFINE choice == ChooseRecommendedBackend(results, pairs)
              eligible == Eligible(results)
              fastest == {b \in eligible : \A c \in eligible :
                              results[b].latency <= results[c].latency}
              latencies == {results[b].latency : b \in eligible}
  <1>1. \A x, y : (<<first>> \o <<x, y>>)[2] = x
    OBVIOUS
  <1>2. "FAIL" \notin pairs /\ eligible # {} /\ (<<first>> \o choice)[2] = Min(fastest)
    BY <1>1 DEF ChooseRecommendedBackend
  <1>3. \A b \in eligible : b \in 1 .. 3 /\ results[b].latency \in Nat
    BY DEF Eligible, IsResult
  <1>. HIDE DEF choice, eligible
  <1>4. fastest \subseteq Nat /\ fastest # {}
    <2>1. latencies \subseteq Nat /\ latencies # {}
      BY <1>2, <1>3
    <2>. HIDE DEF latencies
    <2>2. Min(latencies) \in latencies /\ \A y \in latencies : Min(latencies) <= y
      BY <2>1, LeastIsOne
    <2>3. PICK b \in eligible : results[b].latency = Min(latencies)
      BY <2>2 DEF latencies
    <2>4. \A c \in eligible : results[b].latency <= results[c].latency
      BY <2>2, <2>3 DEF latencies
    <2>5. 1 .. 3 \subseteq Nat
      OBVIOUS
    <2>. QED
      BY <1>3, <2>3, <2>4, <2>5
  <1>5. Min(fastest) \in fastest
    BY <1>4, LeastIsOne
  <1>. QED
    BY <1>2, <1>5 DEF choice, eligible

\* If no pair is failed every two backends found the same, on every image.
LEMMA NoPairFails ==
    ASSUME NEW results, \A b \in 1 .. 3 : IsResult(results[b], b),
           ValidateImageSets(results),
           "FAIL" \notin {AggregatePair(ComparePair(results, p)) : p \in PairSpecs},
           NEW i \in DOMAIN results[1].lists,
           NEW b \in 1 .. 3, NEW c \in 1 .. 3
    PROVE  i \in DOMAIN results[b].lists /\ Agree(results[b].lists[i], results[c].lists[i])
  <1>1. \A d \in 1 .. 3 : i \in DOMAIN results[d].lists /\ results[d].lists[i] \in Seq(Detections)
    <2>. TAKE d \in 1 .. 3
    <2>1. DOMAIN results[d].lists = DOMAIN results[1].lists
      <3>1. CASE d = 1
        BY <3>1
      <3>2. CASE d # 1
        BY <3>2 DEF ValidateImageSets, Loaded
      <3>. QED
        BY <3>1, <3>2
    <2>. QED
      BY <2>1 DEF IsResult
  <1>2. ASSUME NEW p \in PairSpecs
        PROVE  LET x == results[p[1]].lists[i]
                   y == results[p[2]].lists[i]
               IN  Agree(x, y) /\ Agree(y, x) /\ Agree(x, x) /\ Agree(y, y)
    <2>1. PracticalTolerance(p) \in 0 .. 5
      BY DEF PracticalTolerance
    <2>2. p[1] \in 1 .. 3 /\ p[2] \in 1 .. 3
      BY DEF PairSpecs
    <2>3. "FAIL" \notin ComparePair(results, p)
      BY DEF AggregatePair
    <2>4. CompareImage(results[p[1]].lists[i], results[p[2]].lists[i],
                       PracticalTolerance(p)).status # "FAIL"
      BY <1>1, <2>2, <2>3 DEF ComparePair, Loaded
    <2>. QED
      BY <1>1, <2>1, <2>2, <2>4, NotFailedAgree
  <1>3. <<1, 2>> \in PairSpecs /\ <<1, 3>> \in PairSpecs /\ <<2, 3>> \in PairSpecs
    BY DEF PairSpecs
  <1>4. \A x \in 1 .. 3 : x = 1 \/ x = 2 \/ x = 3
    OBVIOUS
  <1>. DEFINE A(x, y) == Agree(results[x].lists[i], results[y].lists[i])
  <1>5. \A p \in PairSpecs : A(p[1], p[2]) /\ A(p[2], p[1]) /\ A(p[1], p[1]) /\ A(p[2], p[2])
    BY <1>2
  <1>. HIDE DEF A
  <1>6. A(b, c)
    BY <1>3, <1>4, <1>5
  <1>. QED
    BY <1>1, <1>6 DEF A

\* For all directories: a recommended backend has failed nothing, is the fastest, and all
\* backends found the same, away from the threshold, on every image.
THEOREM RecommendationAlwaysSound == Spec => []RecommendationIsSound
  <1>1. RecommendInv => RecommendationIsSound
    <2>. SUFFICES ASSUME RecommendInv, report # <<>>, report[2] # 0
                  PROVE  RecommendationJustified /\ FailedImagesWithhold
      BY DEF RecommendationIsSound, RecommendationJustified, FailedImagesWithhold
    <2>. DEFINE pairs == {AggregatePair(ComparePair(evidence, p)) : p \in PairSpecs}
                first == AggregatePair(pairs)
    <2>1. /\ evidence \in Results[1] \X Results[2] \X Results[3]
          /\ ValidateImageSets(evidence)
          /\ report = <<first>> \o ChooseRecommendedBackend(evidence, pairs)
      BY DEF RecommendInv
    <2>2. \A b \in 1 .. 3 : IsResult(evidence[b], b)
      <3>1. \A b \in 1 .. 3 : evidence[b] \in Results[b]
        BY <2>1
      <3>. QED
        BY <3>1, ResultsAreRead DEF IsResult
    <2>. HIDE DEF pairs, first
    <2>3. /\ "FAIL" \notin pairs /\ report[2] \in Eligible(evidence)
          /\ \A c \in Eligible(evidence) : evidence[report[2]].latency <= evidence[c].latency
      BY <2>1, <2>2, NamedIsFastest
    <2>4. report[2] \in 1 .. 3
      BY <2>3 DEF Eligible
    <2>5. \A d \in 1 .. 3 : DOMAIN evidence[d].lists = DOMAIN evidence[1].lists
      <3>. TAKE d \in 1 .. 3
      <3>1. d = 1 \/ d \in 2 .. 3
        OBVIOUS
      <3>. QED
        BY <2>1, <3>1 DEF ValidateImageSets, Loaded
    <2>6. \A i \in DOMAIN evidence[1].lists : \A b, c \in 1 .. 3 :
              Agree(evidence[b].lists[i], evidence[c].lists[i])
      BY <2>1, <2>2, <2>3, NoPairFails DEF pairs
    <2>7. RecommendationJustified
      BY <2>3, <2>4, <2>5, <2>6 DEF RecommendationJustified, Eligible
    <2>8. ASSUME NEW b \in 2 .. 3, NEW c \in 2 .. 3, NEW i \in evidence[b].failed,
                 NEW d \in Range(evidence[c].lists[i]), ~IsThresholdBoundary(d)
          PROVE  FALSE
      <3>1. b \in 1 .. 3 /\ c \in 1 .. 3 /\ b # 1
        OBVIOUS
      <3>2. evidence[b].lists[i] = <<>> /\ i \in DOMAIN evidence[b].lists
        BY <2>2, <3>1 DEF IsResult
      <3>3. Agree(evidence[c].lists[i], evidence[b].lists[i])
        BY <2>5, <2>6, <3>1, <3>2
      <3>4. Range(evidence[b].lists[i]) = {}
        BY <3>2 DEF Range
      <3>. QED
        BY <2>8, <3>3, <3>4 DEF Agree
    <2>9. FailedImagesWithhold
      BY <2>8 DEF FailedImagesWithhold
    <2>. QED
      BY <2>7, <2>9
  <1>. QED
    BY <1>1, ReportsFollow, PTL

-----------------------------------------------------------------------------
\* The counts and records of compare_predictions.py.

\* Two finite sets of as many elements.
LEMMA PairedOff ==
    ASSUME NEW S, NEW T, IsFiniteSet(S), NEW f, f \in [T -> S],
           \A x, y \in T : f[x] = f[y] => x = y,
           \A z \in S : \E x \in T : f[x] = z
    PROVE  IsFiniteSet(T) /\ Cardinality(T) = Cardinality(S)
  <1>1. f \in Bijection(T, S)
    BY DEF Bijection, Injection, Surjection, IsInjective
  <1>2. ExistsBijection(T, S)
    BY <1>1 DEF ExistsBijection
  <1>3. ExistsBijection(S, T)
    BY <1>2, Fun_ExistsBijSymmetric
  <1>. QED
    BY <1>3, FS_Bijection

\* What two disjoint sets have together.
LEMMA DisjointAddUp ==
    ASSUME NEW A, NEW B, IsFiniteSet(A), IsFiniteSet(B), \A x : ~(x \in A /\ x \in B)
    PROVE  /\ IsFiniteSet(A \cup B)
           /\ Cardinality(A \cup B) = Cardinality(A) + Cardinality(B)
           /\ Cardinality(A) \in Nat /\ Cardinality(B) \in Nat
  <1>1. A \cap B = {}
    OBVIOUS
  <1>2. Cardinality(A \cap B) = 0
    BY <1>1, FS_EmptySet
  <1>3. /\ IsFiniteSet(A \cup B)
        /\ Cardinality(A \cup B) = Cardinality(A) + Cardinality(B) - Cardinality(A \cap B)
    BY FS_Union
  <1>4. Cardinality(A) \in Nat /\ Cardinality(B) \in Nat
    BY FS_CardinalityType
  <1>. QED
    BY <1>2, <1>3, <1>4

\* The elements of D that are of one kind, or of one of some.
OfKinds(D, kind, s) == {d \in D : kind[d] \in s}
OfKind(D, kind, x) == {d \in D : kind[d] = x}

\* The elements of some kinds are those of one of the kinds and of the others.
LEMMA PartsAddUp ==
    ASSUME NEW D, IsFiniteSet(D), NEW kind, NEW s, NEW x \in s
    PROVE  /\ Cardinality(OfKinds(D, kind, s))
                 = Cardinality(OfKinds(D, kind, s \ {x})) + Cardinality(OfKind(D, kind, x))
           /\ Cardinality(OfKinds(D, kind, s)) \in Nat
           /\ Cardinality(OfKinds(D, kind, s \ {x})) \in Nat
           /\ Cardinality(OfKind(D, kind, x)) \in Nat
  <1>. DEFINE A == OfKinds(D, kind, s)
              B == OfKinds(D, kind, s \ {x})
              C == OfKind(D, kind, x)
  <1>1. /\ A \subseteq D /\ B \subseteq D /\ C \subseteq D
        /\ \A d : d \in A <=> d \in B \cup C
        /\ \A d : ~(d \in B /\ d \in C)
    BY DEF OfKinds, OfKind
  <1>. HIDE DEF A, B, C
  <1>2. A = B \cup C
    BY <1>1
  <1>3. IsFiniteSet(A) /\ IsFiniteSet(B) /\ IsFiniteSet(C)
    BY <1>1, FS_Subset
  <1>4. /\ Cardinality(B \cup C) = Cardinality(B) + Cardinality(C)
        /\ Cardinality(A) \in Nat /\ Cardinality(B) \in Nat /\ Cardinality(C) \in Nat
    BY <1>1, <1>3, DisjointAddUp, FS_CardinalityType
  <1>. QED
    BY <1>2, <1>4 DEF A, B, C

\* Both matchings together are one-to-one.
LEMMA BothSound ==
    ASSUME NEW l \in Seq(Detections), NEW r \in Seq(Detections)
    PROVE  LET M == MatchDetections(l, r)
               X == MatchAcrossClasses(l, r, M)
           IN  /\ Sound(l, r, M) /\ Sound(l, r, X) /\ Sound(l, r, M \cup X)
               /\ \A p \in M : \A q \in X : p[1] # q[1] /\ p[2] # q[2]
               /\ Cardinality(M \cup X) = Cardinality(M) + Cardinality(X)
               /\ Cardinality(M) \in Nat /\ Cardinality(X) \in Nat
  <1>. DEFINE M == MatchDetections(l, r)
              X == MatchAcrossClasses(l, r, M)
  <1>1. Sound(l, r, M) /\ Sound(l, r, X) /\ \A p \in X : ~Touches(M, p)
    BY Matched, Crossed
  <1>. HIDE DEF M, X
  <1>2. \A p \in M : \A q \in X : p[1] # q[1] /\ p[2] # q[2]
    BY <1>1 DEF Touches
  <1>3. Sound(l, r, M \cup X)
    BY <1>1, <1>2 DEF Sound, OneToOne
  <1>4. IsFiniteSet(M) /\ IsFiniteSet(X)
    BY <1>1, PairsAreFinite DEF Sound
  <1>5. \A p : ~(p \in M /\ p \in X)
    BY <1>2
  <1>6. /\ Cardinality(M \cup X) = Cardinality(M) + Cardinality(X)
        /\ Cardinality(M) \in Nat /\ Cardinality(X) \in Nat
    BY <1>4, <1>5, DisjointAddUp
  <1>. QED
    BY <1>1, <1>2, <1>3, <1>6 DEF M, X

\* The pairs of a matching, and the detections, that have one class or one of some.
InClass(M, list, side, c) == {p \in M : list[p[side]].class = c}
InClasses(M, list, side, S) == {p \in M : list[p[side]].class \in S}
KnownOf(A, list, S) == {i \in A : list[i].class \in S}

\* What the image's analysis makes of the two matchings.
LEMMA AnalysisCounts ==
    ASSUME NEW l \in Seq(Detections), NEW r \in Seq(Detections), NEW classes
    PROVE  LET M == MatchDetections(l, r)
               X == MatchAcrossClasses(l, r, M)
               U == M \cup X
               a == AnalyseImage(l, r, classes)
           IN  /\ a.raises <=> \E p \in X : r[p[2]].class \notin classes
               /\ a.tp = Cardinality(M)
               /\ a.fp = Len(r) - Cardinality(M)
               /\ a.fn = Len(l) - Cardinality(M)
               /\ \A c \in classes :
                     /\ a.classes[c].tp = Cardinality(InClass(M, l, 1, c))
                     /\ a.classes[c].fn = Cardinality(Unmatched(l, U, 1) \cap OfClass(l, c))
                                          + Cardinality(InClass(X, l, 1, c))
                     /\ a.classes[c].fp = Cardinality(Unmatched(r, U, 2) \cap OfClass(r, c))
                                          + Cardinality(InClass(X, r, 2, c))
  BY DEF AnalyseImage, MatchTruth, InClass

\* The sum over the classes of what is counted by class in two sets counts what has one
\* of the classes.
LEMMA TotalOfParts ==
    ASSUME NEW S, IsFiniteSet(S), NEW counts, NEW field,
           NEW D, IsFiniteSet(D), NEW kind, NEW E, IsFiniteSet(E), NEW sort,
           \A c \in S : counts[c][field] = Cardinality(OfKind(D, kind, c))
                                           + Cardinality(OfKind(E, sort, c))
    PROVE  SumBy(counts, field, S)
               = Cardinality(OfKinds(D, kind, S)) + Cardinality(OfKinds(E, sort, S))
  <1>. DEFINE first(s) == Cardinality(OfKinds(D, kind, s))
              second(s) == Cardinality(OfKinds(E, sort, s))
              total == [s \in SUBSET S |-> first(s) + second(s)]
  <1>1. ASSUME NEW s \in SUBSET S, NEW x \in s
        PROVE  /\ counts[x][field] \in Int
               /\ first(s) + second(s)
                     = (first(s \ {x}) + second(s \ {x})) + counts[x][field]
    <2>1. /\ first(s) = first(s \ {x}) + Cardinality(OfKind(D, kind, x))
          /\ first(s \ {x}) \in Nat /\ Cardinality(OfKind(D, kind, x)) \in Nat
      BY PartsAddUp
    <2>2. /\ second(s) = second(s \ {x}) + Cardinality(OfKind(E, sort, x))
          /\ second(s \ {x}) \in Nat /\ Cardinality(OfKind(E, sort, x)) \in Nat
      BY PartsAddUp
    <2>3. counts[x][field] = Cardinality(OfKind(D, kind, x)) + Cardinality(OfKind(E, sort, x))
      OBVIOUS
    <2>. HIDE DEF first, second
    <2>. QED
      BY <2>1, <2>2, <2>3
  <1>2. \A s \in SUBSET S : first(s) \in Nat /\ second(s) \in Nat
    <2>. TAKE s \in SUBSET S
    <2>1. OfKinds(D, kind, s) \subseteq D /\ OfKinds(E, sort, s) \subseteq E
      BY DEF OfKinds
    <2>2. IsFiniteSet(OfKinds(D, kind, s)) /\ IsFiniteSet(OfKinds(E, sort, s))
      BY <2>1, FS_Subset
    <2>. QED
      BY <2>2, FS_CardinalityType
  <1>3. first({}) = 0 /\ second({}) = 0
    <2>1. OfKinds(D, kind, {}) = {} /\ OfKinds(E, sort, {}) = {}
      BY DEF OfKinds
    <2>2. Cardinality({}) = 0
      BY FS_EmptySet
    <2>. QED
      BY <2>1, <2>2
  <1>. HIDE DEF first, second
  <1>4. total \in [SUBSET S -> Int] /\ total[{}] = 0
    BY <1>2, <1>3
  <1>5. /\ total[S] = first(S) + second(S)
        /\ \A s \in SUBSET S : total[s] = first(s) + second(s)
    OBVIOUS
  <1>. HIDE DEF total
  <1>6. \A s \in SUBSET S : \A x \in s :
            /\ counts[x][field] \in Int
            /\ total[s] = total[s \ {x}] + counts[x][field]
    <2>. TAKE s \in SUBSET S
    <2>. TAKE x \in s
    <2>1. s \ {x} \in SUBSET S
      OBVIOUS
    <2>2. total[s] = first(s) + second(s) /\ total[s \ {x}] = first(s \ {x}) + second(s \ {x})
      BY <1>5, <2>1
    <2>. QED
      BY <1>1, <2>2
  <1>7. TotalsUp(total, counts, field, S)
    BY <1>4, <1>6 DEF TotalsUp
  <1>8. SumBy(counts, field, S) = total[S]
    BY <1>7, FoldAdds
  <1>. QED
    BY <1>5, <1>8 DEF first, second

\* The sum over the classes of the detections and the pairs of each class.
LEMMA ClassesAddUp ==
    ASSUME NEW S, IsFiniteSet(S), NEW counts, NEW field, NEW list, NEW A, NEW X, NEW side,
           A \subseteq DOMAIN list, IsFiniteSet(A), IsFiniteSet(X),
           \A c \in S : counts[c][field] = Cardinality(A \cap OfClass(list, c))
                                           + Cardinality(InClass(X, list, side, c))
    PROVE  SumBy(counts, field, S)
               = Cardinality(KnownOf(A, list, S))
                 + Cardinality(InClasses(X, list, side, S))
  <1>. DEFINE kind == [i \in A |-> list[i].class]
              sort == [p \in X |-> list[p[side]].class]
  <1>1. /\ OfKinds(A, kind, S) = KnownOf(A, list, S)
        /\ OfKinds(X, sort, S) = InClasses(X, list, side, S)
    BY DEF OfKinds, KnownOf, InClasses
  <1>2. ASSUME NEW c PROVE OfKind(A, kind, c) = A \cap OfClass(list, c)
    <2>1. \A i : i \in OfKind(A, kind, c) <=> i \in A \cap OfClass(list, c)
      BY DEF OfKind, OfClass
    <2>. QED
      BY <2>1
  <1>3. \A c : OfKind(X, sort, c) = InClass(X, list, side, c)
    BY DEF OfKind, InClass
  <1>. HIDE DEF kind, sort
  <1>4. \A c \in S : counts[c][field] = Cardinality(OfKind(A, kind, c))
                                        + Cardinality(OfKind(X, sort, c))
    BY <1>2, <1>3
  <1>5. SumBy(counts, field, S) = Cardinality(OfKinds(A, kind, S))
                                  + Cardinality(OfKinds(X, sort, S))
    BY <1>4, TotalOfParts
  <1>. QED
    BY <1>1, <1>5

\* All the labels of a class are found, missed, or mistaken.
LEMMA ClassIsAccountedFor ==
    ASSUME NEW l \in Seq(Detections), NEW r \in Seq(Detections), NEW c
    PROVE  LET M == MatchDetections(l, r)
               X == MatchAcrossClasses(l, r, M)
           IN  Cardinality(InClass(M, l, 1, c))
               + (Cardinality(Unmatched(l, M \cup X, 1) \cap OfClass(l, c))
                  + Cardinality(InClass(X, l, 1, c)))
                   = Cardinality(OfClass(l, c))
  <1>. DEFINE M == MatchDetections(l, r)
              X == MatchAcrossClasses(l, r, M)
              U == M \cup X
              A == InClass(M, l, 1, c)
              B == InClass(X, l, 1, c)
              C == Unmatched(l, U, 1) \cap OfClass(l, c)
              S == {p[1] : p \in A \cup B}
  <1>1. /\ Sound(l, r, M) /\ Sound(l, r, X) /\ Sound(l, r, U)
        /\ \A p \in M : \A q \in X : p[1] # q[1] /\ p[2] # q[2]
    BY BothSound
  <1>. HIDE DEF M, X
  <1>2. Sound(l, r, A \cup B)
    BY <1>1 DEF Sound, OneToOne, InClass
  <1>3. IsFiniteSet(S) /\ Cardinality(S) = Cardinality(A \cup B)
    BY <1>2, SidesMatched
  <1>4. IsFiniteSet(A) /\ IsFiniteSet(B)
    <2>1. A \in SUBSET Pairs(l, r) /\ B \in SUBSET Pairs(l, r)
      BY <1>1 DEF Sound, InClass
    <2>. QED
      BY <2>1, PairsAreFinite
  <1>5. /\ Cardinality(A \cup B) = Cardinality(A) + Cardinality(B)
        /\ Cardinality(A) \in Nat /\ Cardinality(B) \in Nat
    <2>1. \A p : ~(p \in A /\ p \in B)
      BY <1>1 DEF InClass
    <2>. HIDE DEF A, B
    <2>. QED
      BY <1>4, <2>1, DisjointAddUp
  <1>6. \A i : i \in OfClass(l, c) <=> i \in S \cup C
    <2>1. \A p \in U : p[1] \in DOMAIN l
      BY <1>1, PairFacts DEF Sound
    <2>. QED
      BY <2>1 DEF OfClass, Unmatched, InClass
  <1>7. \A i : ~(i \in S /\ i \in C)
    BY DEF Unmatched, InClass
  <1>8. IsFiniteSet(C)
    <2>1. IsFiniteSet(Unmatched(l, U, 1))
      BY <1>1, RestUnmatched
    <2>. QED
      BY <2>1, FS_Subset
  <1>. HIDE DEF A, B, C, S
  <1>9. OfClass(l, c) = S \cup C
    BY <1>6
  <1>10. Cardinality(S \cup C) = Cardinality(S) + Cardinality(C) /\ Cardinality(C) \in Nat
    BY <1>3, <1>7, <1>8, DisjointAddUp
  <1>11. Cardinality(A) + (Cardinality(C) + Cardinality(B)) = Cardinality(OfClass(l, c))
    BY <1>3, <1>5, <1>9, <1>10
  <1>. QED
    BY <1>11 DEF A, B, C, U, M, X

\* What is counted once in the totals and once with its class.
CountsRight(l, r, classes) ==
    LET a == AnalyseImage(l, r, classes)
    IN  /\ SumBy(a.classes, "tp", classes) = a.tp /\ a.tp + a.fn = Len(l)
        /\ SumBy(a.classes, "fn", classes) = a.fn /\ a.tp + a.fp = Len(r)
        /\ SumBy(a.classes, "fp", classes)
               = a.fp - Cardinality({j \in DOMAIN r : r[j].class \notin classes})
        /\ \A c \in classes :
               a.classes[c].tp + a.classes[c].fn = Cardinality(OfClass(l, c))

\* The totals of an image whose labels all have a known class.
LEMMA CountsFollow ==
    ASSUME NEW l \in Seq(Detections), NEW r \in Seq(Detections),
           NEW classes, IsFiniteSet(classes), \A i \in DOMAIN l : l[i].class \in classes,
           ~AnalyseImage(l, r, classes).raises
    PROVE  CountsRight(l, r, classes)
  <1>. DEFINE M == MatchDetections(l, r)
              X == MatchAcrossClasses(l, r, M)
              U == M \cup X
              a == AnalyseImage(l, r, classes)
              counts == a.classes
              missed == Unmatched(l, U, 1)
              wrong == Unmatched(r, U, 2)
              unknown == {j \in DOMAIN r : r[j].class \notin classes}
  <1>1. /\ a.raises <=> \E p \in X : r[p[2]].class \notin classes
        /\ a.tp = Cardinality(M)
        /\ a.fp = Len(r) - Cardinality(M)
        /\ a.fn = Len(l) - Cardinality(M)
        /\ \A c \in classes :
              /\ counts[c].tp = Cardinality(InClass(M, l, 1, c))
              /\ counts[c].fn = Cardinality(missed \cap OfClass(l, c))
                                + Cardinality(InClass(X, l, 1, c))
              /\ counts[c].fp = Cardinality(wrong \cap OfClass(r, c))
                                + Cardinality(InClass(X, r, 2, c))
    BY AnalysisCounts
  <1>2. /\ Sound(l, r, M) /\ Sound(l, r, X) /\ Sound(l, r, U)
        /\ Cardinality(U) = Cardinality(M) + Cardinality(X)
        /\ Cardinality(M) \in Nat /\ Cardinality(X) \in Nat
    BY BothSound
  <1>3. \A p \in M : SameClass(l, r, p)
    BY Matched
  <1>4. \A c \in classes :
            Cardinality(InClass(M, l, 1, c))
            + (Cardinality(missed \cap OfClass(l, c)) + Cardinality(InClass(X, l, 1, c)))
                = Cardinality(OfClass(l, c))
    BY ClassIsAccountedFor
  <1>5. ~a.raises
    OBVIOUS
  <1>. HIDE DEF M, X, a, counts
  <1>6. \A p \in U : p[1] \in DOMAIN l /\ p[2] \in DOMAIN r
    BY <1>2, PairFacts DEF Sound
  <1>7. Len(l) \in Nat /\ Len(r) \in Nat
    OBVIOUS
  <1>8. /\ IsFiniteSet(missed) /\ Cardinality(missed) = Len(l) - Cardinality(U)
        /\ IsFiniteSet(wrong) /\ Cardinality(wrong) = Len(r) - Cardinality(U)
    BY <1>2, RestUnmatched
  <1>9. IsFiniteSet(M) /\ IsFiniteSet(X)
    BY <1>2, PairsAreFinite DEF Sound
  <1>10. missed \subseteq DOMAIN l /\ wrong \subseteq DOMAIN r
    BY DEF Unmatched
  <1>11. /\ \A p \in U : l[p[1]].class \in classes
         /\ \A i \in missed : l[i].class \in classes
         /\ \A p \in X : r[p[2]].class \in classes
    BY <1>1, <1>5, <1>6, <1>10
  <1>12. wrong = KnownOf(wrong, r, classes) \cup unknown
    <2>1. \A p \in U : r[p[2]].class \in classes
      BY <1>3, <1>11 DEF SameClass
    <2>2. unknown \subseteq wrong
      BY <2>1 DEF Unmatched
    <2>3. \A j \in wrong : j \in DOMAIN r
      BY <1>10
    <2>. HIDE DEF wrong
    <2>. QED
      BY <2>2, <2>3 DEF KnownOf
  <1>. HIDE DEF missed, wrong
  <1>13. /\ Cardinality(KnownOf(wrong, r, classes))
               = Cardinality(wrong) - Cardinality(unknown)
         /\ Cardinality(unknown) \in Nat
         /\ Cardinality(KnownOf(wrong, r, classes)) \in Nat
    <2>. DEFINE known == KnownOf(wrong, r, classes)
    <2>1. known \subseteq wrong /\ unknown \subseteq wrong /\ \A j : ~(j \in known /\ j \in unknown)
      BY <1>12 DEF KnownOf
    <2>2. wrong = known \cup unknown
      BY <1>12
    <2>. HIDE DEF known, unknown
    <2>3. IsFiniteSet(known) /\ IsFiniteSet(unknown)
      BY <1>8, <2>1, FS_Subset
    <2>4. /\ Cardinality(known \cup unknown) = Cardinality(known) + Cardinality(unknown)
          /\ Cardinality(known) \in Nat /\ Cardinality(unknown) \in Nat
      BY <2>1, <2>3, DisjointAddUp
    <2>5. Cardinality(known) = Cardinality(wrong) - Cardinality(unknown)
      BY <2>2, <2>4
    <2>. QED
      BY <2>4, <2>5 DEF known, unknown
  <1>14. SumBy(counts, "tp", classes) = Cardinality(M)
    <2>. DEFINE none == {}
    <2>1. IsFiniteSet(none) /\ Cardinality(none) = 0 /\ none \subseteq DOMAIN l
      BY FS_EmptySet
    <2>2. \A c : none \cap OfClass(l, c) = none
      OBVIOUS
    <2>3. KnownOf(none, l, classes) = none
      BY DEF KnownOf
    <2>. HIDE DEF none
    <2>4. \A c \in classes : counts[c]["tp"] = Cardinality(none \cap OfClass(l, c))
                                               + Cardinality(InClass(M, l, 1, c))
      <3>. TAKE c \in classes
      <3>1. Cardinality(InClass(M, l, 1, c)) \in Nat
        <4>1. InClass(M, l, 1, c) \subseteq M
          BY DEF InClass
        <4>2. IsFiniteSet(InClass(M, l, 1, c))
          BY <1>9, <4>1, FS_Subset
        <4>. QED
          BY <4>2, FS_CardinalityType
      <3>2. Cardinality(none \cap OfClass(l, c)) = 0
        BY <2>1, <2>2
      <3>3. counts[c]["tp"] = Cardinality(InClass(M, l, 1, c))
        BY <1>1
      <3>. QED
        BY <3>1, <3>2, <3>3
    <2>5. SumBy(counts, "tp", classes)
              = Cardinality(KnownOf(none, l, classes)) + Cardinality(InClasses(M, l, 1, classes))
      BY <1>9, <2>1, <2>4, ClassesAddUp
    <2>6. InClasses(M, l, 1, classes) = M
      BY <1>11 DEF InClasses
    <2>. QED
      BY <1>2, <2>1, <2>3, <2>5, <2>6
  <1>15. SumBy(counts, "fn", classes) = Cardinality(missed) + Cardinality(X)
    <2>1. \A c \in classes : counts[c]["fn"] = Cardinality(missed \cap OfClass(l, c))
                                               + Cardinality(InClass(X, l, 1, c))
      BY <1>1
    <2>2. SumBy(counts, "fn", classes)
              = Cardinality(KnownOf(missed, l, classes))
                + Cardinality(InClasses(X, l, 1, classes))
      BY <1>8, <1>9, <1>10, <2>1, ClassesAddUp
    <2>3. KnownOf(missed, l, classes) = missed
          /\ InClasses(X, l, 1, classes) = X
      BY <1>11 DEF KnownOf, InClasses
    <2>. QED
      BY <2>2, <2>3
  <1>16. SumBy(counts, "fp", classes)
             = Cardinality(KnownOf(wrong, r, classes)) + Cardinality(X)
    <2>1. \A c \in classes : counts[c]["fp"] = Cardinality(wrong \cap OfClass(r, c))
                                               + Cardinality(InClass(X, r, 2, c))
      BY <1>1
    <2>2. SumBy(counts, "fp", classes)
              = Cardinality(KnownOf(wrong, r, classes))
                + Cardinality(InClasses(X, r, 2, classes))
      BY <1>8, <1>9, <1>10, <2>1, ClassesAddUp
    <2>3. InClasses(X, r, 2, classes) = X
      BY <1>11 DEF InClasses
    <2>. QED
      BY <2>2, <2>3
  <1>. HIDE DEF unknown, U
  <1>17. /\ SumBy(counts, "tp", classes) = a.tp /\ a.tp + a.fn = Len(l)
         /\ SumBy(counts, "fn", classes) = a.fn /\ a.tp + a.fp = Len(r)
         /\ SumBy(counts, "fp", classes) = a.fp - Cardinality(unknown)
    <2>1. Cardinality(M) \in Nat /\ Cardinality(X) \in Nat
          /\ Cardinality(missed) \in Nat /\ Cardinality(wrong) \in Nat
      BY <1>8, <1>9, FS_CardinalityType
    <2>2. /\ a.tp = Cardinality(M) /\ a.fp = Len(r) - Cardinality(M)
          /\ a.fn = Len(l) - Cardinality(M) /\ Len(l) \in Nat /\ Len(r) \in Nat
      BY <1>1
    <2>3. SumBy(counts, "tp", classes) = a.tp
      BY <1>14, <2>2
    <2>4. /\ Cardinality(missed) = Len(l) - (Cardinality(M) + Cardinality(X))
          /\ Cardinality(wrong) = Len(r) - (Cardinality(M) + Cardinality(X))
      BY <1>2, <1>8
    <2>5. SumBy(counts, "fn", classes) = a.fn
      BY <1>15, <2>1, <2>2, <2>4
    <2>6. SumBy(counts, "fp", classes) = a.fp - Cardinality(unknown)
      <3>1. SumBy(counts, "fp", classes)
                = (Cardinality(wrong) - Cardinality(unknown)) + Cardinality(X)
        BY <1>13, <1>16
      <3>2. Cardinality(unknown) \in Nat
        BY <1>13
      <3>. QED
        BY <2>1, <2>2, <2>4, <3>1, <3>2
    <2>7. a.tp + a.fn = Len(l) /\ a.tp + a.fp = Len(r)
      BY <2>1, <2>2
    <2>. QED
      BY <2>3, <2>5, <2>6, <2>7, Zenon
  <1>18. \A c \in classes : counts[c].tp + counts[c].fn = Cardinality(OfClass(l, c))
    BY <1>1, <1>4
  <1>. QED
    BY <1>17, <1>18 DEF CountsRight, counts, a, unknown

\* The records of an image, one for each label and prediction that the counts count.
LEMMA RecordsFollow ==
    ASSUME NEW l \in Seq(Detections), NEW r \in Seq(Detections)
    PROVE  LET M == MatchDetections(l, r)
               Of(type) == {x \in ErrorRecords(l, r) : x.type = type}
           IN  /\ Cardinality(Of("TP")) = Cardinality(M)
               /\ Cardinality(Of("FP")) = Len(r) - Cardinality(M)
               /\ Cardinality(Of("FN")) = Len(l) - Cardinality(M)
               /\ \A x \in Of("FN") :
                     /\ x.truth \in Unmatched(l, M, 1)
                     /\ x.best = BestSameClassIou(l[x.truth], r)
               /\ \A p \in M : \E t \in Of("TP") :
                     t.truth = p[1] /\ t.prediction = p[2] /\ t.best = Overlap(l, r, p)
  <1>. DEFINE M == MatchDetections(l, r)
              X == MatchAcrossClasses(l, r, M)
              U == M \cup X
              Missed(i) == BestSameClassIou(l[i], r)
              Wrong(j) == BestSameClassIou(r[j], l)
              Hint(j) == IF IsThresholdSensitive(r[j].confidence)
                         THEN "threshold_sensitive" ELSE "background_or_unlabeled_object"
              blank == ""
              found == {Record("TP", p[1], p[2], Overlap(l, r, p), blank) : p \in M}
              mistaken == {Record("FP", p[1], p[2], Wrong(p[2]), "class_confusion") : p \in X}
              confused == {Record("FN", p[1], p[2], Missed(p[1]), "class_confusion") : p \in X}
              wrong == {Record("FP", 0, j, Wrong(j), Hint(j)) : j \in Unmatched(r, U, 2)}
              missed == {Record("FN", i, 0, Missed(i), "missed_detection") :
                             i \in Unmatched(l, U, 1)}
              Of(type) == {x \in ErrorRecords(l, r) : x.type = type}
  <1>1. ErrorRecords(l, r) = found \cup mistaken \cup confused \cup wrong \cup missed
    BY DEF ErrorRecords, MatchTruth
  <1>2. /\ Sound(l, r, M) /\ Sound(l, r, X)
        /\ \A p \in M : \A q \in X : p[1] # q[1] /\ p[2] # q[2]
    BY BothSound
  <1>. HIDE DEF M, X, Missed, Wrong, Hint, blank
  <1>3. \A type, truth, prediction, best, hint :
            /\ Record(type, truth, prediction, best, hint).type = type
            /\ Record(type, truth, prediction, best, hint).truth = truth
            /\ Record(type, truth, prediction, best, hint).prediction = prediction
            /\ Record(type, truth, prediction, best, hint).best = best
    BY DEF Record
  <1>4. /\ \A x \in found : x.type = "TP"
        /\ \A x \in mistaken \cup wrong : x.type = "FP"
        /\ \A x \in confused \cup missed : x.type = "FN"
    <2>1. \A x \in found : x.type = "TP"
      BY <1>3
    <2>2. \A x \in mistaken : x.type = "FP"
      BY <1>3
    <2>3. \A x \in wrong : x.type = "FP"
      BY <1>3
    <2>4. \A x \in confused : x.type = "FN"
      BY <1>3
    <2>5. \A x \in missed : x.type = "FN"
      BY <1>3
    <2>. HIDE DEF found, mistaken, confused, wrong, missed
    <2>. QED
      BY <2>1, <2>2, <2>3, <2>4, <2>5
  <1>5. /\ \A x : x \in Of("TP") <=> x \in found
        /\ \A x : x \in Of("FP") <=> x \in mistaken \cup wrong
        /\ \A x : x \in Of("FN") <=> x \in confused \cup missed
    <2>. HIDE DEF found, mistaken, confused, wrong, missed
    <2>. QED
      BY <1>1, <1>4
  <1>6. Of("TP") = found /\ Of("FP") = mistaken \cup wrong /\ Of("FN") = confused \cup missed
    <2>. HIDE DEF found, mistaken, confused, wrong, missed, Of
    <2>. QED
      BY <1>5
  <1>. HIDE DEF Of
  <1>7. \A p \in M \cup X : p = <<p[1], p[2]>> /\ p[1] \in DOMAIN l /\ p[2] \in DOMAIN r
    BY <1>2, PairFacts DEF Sound
  <1>8. Cardinality(found) = Cardinality(M)
    <2>. DEFINE f == [x \in found |-> <<x.truth, x.prediction>>]
    <2>1. \A x \in found : \E p \in M : x = Record("TP", p[1], p[2], Overlap(l, r, p), blank)
      OBVIOUS
    <2>2. \A p \in M : Record("TP", p[1], p[2], Overlap(l, r, p), blank) \in found
      OBVIOUS
    <2>. HIDE DEF found
    <2>3. \A x \in found : /\ <<x.truth, x.prediction>> \in M
                           /\ x = Record("TP", x.truth, x.prediction,
                                         Overlap(l, r, <<x.truth, x.prediction>>), blank)
      BY <1>3, <1>7, <2>1
    <2>4. f \in [found -> M]
      BY <2>3
    <2>5. \A x, y \in found : f[x] = f[y] => x = y
      <3>. TAKE x, y \in found
      <3>. HAVE f[x] = f[y]
      <3>1. x.truth = y.truth /\ x.prediction = y.prediction
        OBVIOUS
      <3>. QED
        BY <2>3, <3>1
    <2>6. \A p \in M : \E x \in found : f[x] = p
      BY <1>3, <1>7, <2>2
    <2>7. IsFiniteSet(M)
      BY <1>2, PairsAreFinite DEF Sound
    <2>. HIDE DEF f
    <2>. QED
      BY <2>4, <2>5, <2>6, <2>7, PairedOff
  <1>9. /\ \A x \in mistaken \cup wrong : x.prediction \in Unmatched(r, M, 2)
        /\ \A x, y \in mistaken \cup wrong : x.prediction = y.prediction => x = y
        /\ \A j \in Unmatched(r, M, 2) : \E x \in mistaken \cup wrong : x.prediction = j
    <2>1. /\ \A x \in mistaken : \E p \in X :
                 x = Record("FP", p[1], p[2], Wrong(p[2]), "class_confusion")
          /\ \A x \in wrong : \E j \in Unmatched(r, U, 2) :
                 x = Record("FP", 0, j, Wrong(j), Hint(j))
          /\ \A p \in X : Record("FP", p[1], p[2], Wrong(p[2]), "class_confusion") \in mistaken
          /\ \A j \in Unmatched(r, U, 2) : Record("FP", 0, j, Wrong(j), Hint(j)) \in wrong
      OBVIOUS
    <2>2. /\ \A p \in X : p[2] \in Unmatched(r, M, 2) /\ p[2] \notin Unmatched(r, U, 2)
          /\ \A j \in Unmatched(r, U, 2) : j \in Unmatched(r, M, 2)
          /\ \A j \in Unmatched(r, M, 2) : j \in Unmatched(r, U, 2) \/ \E p \in X : p[2] = j
      BY <1>2, <1>7 DEF Unmatched
    <2>3. \A p, q \in X : p[2] = q[2] => p = q
      BY <1>2 DEF Sound, OneToOne
    <2>. HIDE DEF mistaken, wrong, U
    <2>4. /\ \A x \in mistaken : \E p \in X :
                 /\ x = Record("FP", p[1], p[2], Wrong(p[2]), "class_confusion")
                 /\ x.prediction = p[2]
          /\ \A x \in wrong : x.prediction \in Unmatched(r, U, 2)
                              /\ x = Record("FP", 0, x.prediction, Wrong(x.prediction),
                                            Hint(x.prediction))
      BY <1>3, <2>1
    <2>5. \A x \in mistaken \cup wrong : x.prediction \in Unmatched(r, M, 2)
      BY <2>2, <2>4
    <2>6. ASSUME NEW x \in mistaken \cup wrong, NEW y \in mistaken \cup wrong,
                 x.prediction = y.prediction
          PROVE  x = y
      <3>1. CASE x \in mistaken /\ y \in mistaken
        BY <2>3, <2>4, <2>6, <3>1
      <3>2. CASE x \in wrong /\ y \in wrong
        BY <2>4, <2>6, <3>2
      <3>3. CASE x \in mistaken /\ y \in wrong
        BY <2>2, <2>4, <2>6, <3>3
      <3>4. CASE x \in wrong /\ y \in mistaken
        BY <2>2, <2>4, <2>6, <3>4
      <3>. QED
        BY <3>1, <3>2, <3>3, <3>4
    <2>7. ASSUME NEW j \in Unmatched(r, M, 2)
          PROVE  \E x \in mistaken \cup wrong : x.prediction = j
      BY <1>3, <2>1, <2>2
    <2>. QED
      BY <2>5, <2>6, <2>7
  <1>10. /\ \A x \in confused \cup missed : /\ x.truth \in Unmatched(l, M, 1)
                                            /\ x.best = Missed(x.truth)
         /\ \A x, y \in confused \cup missed : x.truth = y.truth => x = y
         /\ \A i \in Unmatched(l, M, 1) : \E x \in confused \cup missed : x.truth = i
    <2>1. /\ \A x \in confused : \E p \in X :
                 x = Record("FN", p[1], p[2], Missed(p[1]), "class_confusion")
          /\ \A x \in missed : \E i \in Unmatched(l, U, 1) :
                 x = Record("FN", i, 0, Missed(i), "missed_detection")
          /\ \A p \in X : Record("FN", p[1], p[2], Missed(p[1]), "class_confusion") \in confused
          /\ \A i \in Unmatched(l, U, 1) :
                 Record("FN", i, 0, Missed(i), "missed_detection") \in missed
      OBVIOUS
    <2>2. /\ \A p \in X : p[1] \in Unmatched(l, M, 1) /\ p[1] \notin Unmatched(l, U, 1)
          /\ \A i \in Unmatched(l, U, 1) : i \in Unmatched(l, M, 1)
          /\ \A i \in Unmatched(l, M, 1) : i \in Unmatched(l, U, 1) \/ \E p \in X : p[1] = i
      BY <1>2, <1>7 DEF Unmatched
    <2>3. \A p, q \in X : p[1] = q[1] => p = q
      BY <1>2 DEF Sound, OneToOne
    <2>. HIDE DEF confused, missed, U
    <2>4. /\ \A x \in confused : \E p \in X :
                 /\ x = Record("FN", p[1], p[2], Missed(p[1]), "class_confusion")
                 /\ x.truth = p[1] /\ x.best = Missed(p[1])
          /\ \A x \in missed : /\ x.truth \in Unmatched(l, U, 1)
                               /\ x = Record("FN", x.truth, 0, Missed(x.truth),
                                             "missed_detection")
                               /\ x.best = Missed(x.truth)
      BY <1>3, <2>1
    <2>5. \A x \in confused \cup missed : /\ x.truth \in Unmatched(l, M, 1)
                                          /\ x.best = Missed(x.truth)
      BY <2>2, <2>4
    <2>6. ASSUME NEW x \in confused \cup missed, NEW y \in confused \cup missed,
                 x.truth = y.truth
          PROVE  x = y
      <3>1. CASE x \in confused /\ y \in confused
        BY <2>3, <2>4, <2>6, <3>1
      <3>2. CASE x \in missed /\ y \in missed
        BY <2>4, <2>6, <3>2
      <3>3. CASE x \in confused /\ y \in missed
        BY <2>2, <2>4, <2>6, <3>3
      <3>4. CASE x \in missed /\ y \in confused
        BY <2>2, <2>4, <2>6, <3>4
      <3>. QED
        BY <3>1, <3>2, <3>3, <3>4
    <2>7. ASSUME NEW i \in Unmatched(l, M, 1)
          PROVE  \E x \in confused \cup missed : x.truth = i
      BY <1>3, <2>1, <2>2
    <2>. QED
      BY <2>5, <2>6, <2>7
  <1>11. \A p \in M : \E t \in found :
             t.truth = p[1] /\ t.prediction = p[2] /\ t.best = Overlap(l, r, p)
    <2>1. \A p \in M : Record("TP", p[1], p[2], Overlap(l, r, p), blank) \in found
      OBVIOUS
    <2>. HIDE DEF found
    <2>. QED
      BY <1>3, <2>1
  <1>. HIDE DEF found, mistaken, confused, wrong, missed
  <1>12. /\ IsFiniteSet(Unmatched(l, M, 1)) /\ IsFiniteSet(Unmatched(r, M, 2))
         /\ Cardinality(Unmatched(l, M, 1)) = Len(l) - Cardinality(M)
         /\ Cardinality(Unmatched(r, M, 2)) = Len(r) - Cardinality(M)
    BY <1>2, RestUnmatched
  <1>13. Cardinality(mistaken \cup wrong) = Len(r) - Cardinality(M)
    <2>. DEFINE T == mistaken \cup wrong
                f == [x \in T |-> x.prediction]
    <2>1. /\ f \in [T -> Unmatched(r, M, 2)]
          /\ \A x, y \in T : f[x] = f[y] => x = y
          /\ \A j \in Unmatched(r, M, 2) : \E x \in T : f[x] = j
      BY <1>9
    <2>. HIDE DEF f, T
    <2>2. IsFiniteSet(Unmatched(r, M, 2))
      BY <1>12
    <2>3. Cardinality(T) = Cardinality(Unmatched(r, M, 2))
      BY <2>1, <2>2, PairedOff
    <2>. QED
      BY <1>12, <2>3 DEF T
  <1>14. Cardinality(confused \cup missed) = Len(l) - Cardinality(M)
    <2>. DEFINE T == confused \cup missed
                f == [x \in T |-> x.truth]
    <2>1. /\ f \in [T -> Unmatched(l, M, 1)]
          /\ \A x, y \in T : f[x] = f[y] => x = y
          /\ \A i \in Unmatched(l, M, 1) : \E x \in T : f[x] = i
      BY <1>10
    <2>. HIDE DEF f, T
    <2>2. IsFiniteSet(Unmatched(l, M, 1))
      BY <1>12
    <2>3. Cardinality(T) = Cardinality(Unmatched(l, M, 1))
      BY <2>1, <2>2, PairedOff
    <2>. QED
      BY <1>12, <2>3 DEF T
  <1>. QED
    BY <1>6, <1>8, <1>10, <1>11, <1>13, <1>14 DEF M, Of, Missed

\* What overlaps a label best in its class, if it does enough, is one of the predictions.
LEMMA BestIsFound ==
    ASSUME NEW l \in Seq(Detections), NEW r \in Seq(Detections), NEW i \in DOMAIN l,
           BestSameClassIou(l[i], r) >= MatchIou
    PROVE  \E j \in DOMAIN r : /\ <<i, j>> \in Alike(l, r)
                               /\ Overlap(l, r, <<i, j>>) = BestSameClassIou(l[i], r)
  <1>. DEFINE J == OfClass(r, l[i].class)
              f == [j \in J |-> BboxIou(l[i].box, r[j].box)]
              S == {f[j] : j \in J}
  <1>1. \A j \in J : /\ j \in DOMAIN r /\ l[i].class = r[j].class
                     /\ <<i, j>> \in Pairs(l, r)
                     /\ BboxIou(l[i].box, r[j].box) = Overlap(l, r, <<i, j>>)
    BY DEF OfClass, Pairs, Overlap
  <1>2. f \in [J -> Nat]
    <2>1. \A j \in J : Overlap(l, r, <<i, j>>) \in Nat
      BY <1>1, PairFacts
    <2>2. \A j \in J : BboxIou(l[i].box, r[j].box) \in Nat
      BY <1>1, <2>1
    <2>. HIDE DEF J
    <2>. QED
      BY <2>2
  <1>3. IsFiniteSet(J)
    <2>1. DOMAIN r = 1 .. Len(r) /\ Len(r) \in Nat
      OBVIOUS
    <2>2. IsFiniteSet(DOMAIN r)
      BY <2>1, FS_Interval
    <2>. QED
      BY <2>2, FS_Subset DEF OfClass
  <1>4. BestSameClassIou(l[i], r) = Max(S \cup {0})
    <2>1. \A j \in J : f[j] = BboxIou(l[i].box, r[j].box)
      OBVIOUS
    <2>2. S = {BboxIou(l[i].box, r[j].box) : j \in J}
      OBVIOUS
    <2>. QED
      BY <2>2 DEF BestSameClassIou
  <1>. HIDE DEF J
  <1>5. IsFiniteSet(S) /\ S \subseteq Nat
    <2>. HIDE DEF f
    <2>. QED
      BY <1>2, <1>3, ImageIsFinite
  <1>6. Max(S \cup {0}) \in S \cup {0}
    <2>. HIDE DEF S
    <2>1. IsFiniteSet(S \cup {0})
      BY <1>5, FS_AddElement
    <2>2. S \cup {0} \subseteq Nat /\ S \cup {0} # {}
      BY <1>5
    <2>. QED
      BY <2>1, <2>2, GreatestIsOne
  <1>7. Max(S \cup {0}) # 0
    <2>. HIDE DEF S
    <2>1. \A m \in 1 .. 1000 : ~(0 >= m)
      OBVIOUS
    <2>2. ~(0 >= MatchIou)
      BY <2>1, MatchIouIsFraction
    <2>. QED
      BY <1>4, <2>2
  <1>8. PICK j \in J : BestSameClassIou(l[i], r) = Overlap(l, r, <<i, j>>)
    BY <1>1, <1>4, <1>6, <1>7
  <1>9. <<i, j>> \in Alike(l, r)
    BY <1>1, <1>8 DEF Alike, SameClass
  <1>. QED
    BY <1>1, <1>8, <1>9

\* A label that is listed as missed lost the prediction that overlaps it best, if it does
\* enough, to a label that overlaps it no less.
LEMMA MissedLostIt ==
    ASSUME NEW l \in Seq(Detections), NEW r \in Seq(Detections),
           NEW i \in Unmatched(l, MatchDetections(l, r), 1),
           BestSameClassIou(l[i], r) >= MatchIou
    PROVE  \E q \in MatchDetections(l, r) :
               /\ Overlap(l, r, q) >= BestSameClassIou(l[i], r)
               /\ Overlap(l, r, <<i, q[2]>>) = BestSameClassIou(l[i], r)
  <1>. DEFINE M == MatchDetections(l, r)
  <1>1. i \in DOMAIN l /\ \A q \in M : q[1] # i
    BY DEF Unmatched
  <1>2. PICK j \in DOMAIN r : /\ <<i, j>> \in Alike(l, r)
                              /\ Overlap(l, r, <<i, j>>) = BestSameClassIou(l[i], r)
    BY <1>1, BestIsFound
  <1>3. LeftOutForBetter(l, r, Alike(l, r), M)
    BY Matched
  <1>. HIDE DEF M
  <1>4. PICK q \in M : /\ q[1] = i \/ q[2] = j
                       /\ Overlap(l, r, q) >= Overlap(l, r, <<i, j>>)
    BY <1>2, <1>3 DEF LeftOutForBetter
  <1>5. q[2] = j
    BY <1>1, <1>4
  <1>. QED
    BY <1>2, <1>4, <1>5 DEF M

\* For all lists and classes: the counts by class add up to the totals, the records mirror
\* them, and no label is missed that a free prediction of its class overlaps enough.
THEOREM CountsAlwaysSound == Spec => []CountsAreSound
  <1>1. ImagesInv => CountsAreSound
    <2>. SUFFICES ASSUME ImagesInv, Labelled PROVE CountsAddUp /\ RecordsMirrorCounts
      BY DEF CountsAreSound, CountsAddUp, RecordsMirrorCounts
    <2>. DEFINE analysis == AnalyseImage(left, right, Classes)
                M == MatchDetections(left, right)
                Of(type) == {x \in ErrorRecords(left, right) : x.type = type}
                unknown == {j \in DOMAIN right : right[j].class \notin Classes}
    <2>1. /\ left \in Seq(Detections) /\ right \in Seq(Detections)
          /\ verdict = Verdicts(left, right)
          /\ \A i \in DOMAIN left : left[i].class \in Classes
      BY ListsAreRead DEF ImagesInv, Labelled, Judged
    <2>2. verdict.analysis = analysis /\ verdict.records = ErrorRecords(left, right)
      BY <2>1 DEF Verdicts
    <2>3. \A field : Total(field) = SumBy(analysis.classes, field, Classes)
      <3>1. \A field : Total(field) = SumBy(verdict.analysis.classes, field, Classes)
        BY Zenon DEF Total, SumBy
      <3>. HIDE DEF analysis
      <3>. QED
        BY <2>2, <3>1
    <2>4. ~analysis.raises => CountsRight(left, right, Classes)
      BY <2>1, ClassesAreListed, CountsFollow
    <2>5. CountsAddUp
      <3>1. CountsRight(left, right, Classes) =>
                /\ SumBy(analysis.classes, "tp", Classes) = analysis.tp
                /\ analysis.tp + analysis.fn = Len(left)
                /\ SumBy(analysis.classes, "fn", Classes) = analysis.fn
                /\ analysis.tp + analysis.fp = Len(right)
                /\ SumBy(analysis.classes, "fp", Classes) = analysis.fp - Cardinality(unknown)
                /\ \A c \in Classes : analysis.classes[c].tp + analysis.classes[c].fn
                                          = Cardinality(OfClass(left, c))
        BY Zenon DEF CountsRight
      <3>. HIDE DEF analysis
      <3>. QED
        BY <2>2, <2>3, <2>4, <3>1, Zenon DEF CountsAddUp
    <2>6. /\ analysis.tp = Cardinality(M)
          /\ analysis.fp = Len(right) - Cardinality(M)
          /\ analysis.fn = Len(left) - Cardinality(M)
      BY DEF AnalyseImage, MatchTruth
    <2>7. /\ Cardinality(Of("TP")) = Cardinality(M)
          /\ Cardinality(Of("FP")) = Len(right) - Cardinality(M)
          /\ Cardinality(Of("FN")) = Len(left) - Cardinality(M)
          /\ \A x \in Of("FN") : /\ x.truth \in Unmatched(left, M, 1)
                                 /\ x.best = BestSameClassIou(left[x.truth], right)
          /\ \A p \in M : \E t \in Of("TP") :
                 t.truth = p[1] /\ t.prediction = p[2] /\ t.best = Overlap(left, right, p)
      BY <2>1, RecordsFollow
    <2>8. ASSUME NEW x \in Of("FN"), x.best >= MatchIou
          PROVE  \E t \in Of("TP") : /\ t.best >= x.best
                                     /\ Overlap(left, right, <<x.truth, t.prediction>>) = x.best
      <3>. HIDE DEF Of
      <3>1. x.truth \in Unmatched(left, M, 1) /\ x.best = BestSameClassIou(left[x.truth], right)
        BY <2>7
      <3>2. PICK i \in Unmatched(left, M, 1) :
                i = x.truth /\ BestSameClassIou(left[i], right) >= MatchIou
        BY <2>8, <3>1
      <3>3. PICK q \in M : /\ Overlap(left, right, q) >= BestSameClassIou(left[i], right)
                           /\ Overlap(left, right, <<i, q[2]>>) = BestSameClassIou(left[i], right)
        BY <2>1, <3>2, MissedLostIt
      <3>. HIDE DEF M
      <3>. QED
        BY <2>7, <3>1, <3>2, <3>3
    <2>9. RecordsMirrorCounts
      <3>1. \A type : {x \in verdict.records : x.type = type} = Of(type)
        BY <2>2
      <3>. HIDE DEF Of, M, analysis
      <3>. QED
        BY <2>2, <2>6, <2>7, <2>8, <3>1, Zenon DEF RecordsMirrorCounts
    <2>. QED
      BY <2>5, <2>9
  <1>. QED
    BY <1>1, ImagesAreJudged, PTL

-----------------------------------------------------------------------------
\* The comparison of all backends.

\* The time of image i with the k-th backend is over.
Through(k, i) ==
    \/ k < turn
    \/ k = turn /\ stage = "measure" /\ i < shown
    \/ k = turn /\ stage \notin {"create", "warmup", "measure"}

\* The row that the runs of backend b on image i give.
RowOf(results, b, i) == [backend |-> b, image |-> i, status |-> StatusOf(results[b][i])]
Rows == [backend : Names, image : Pictures, status : {"PASS", "WARNING", "FAIL"}]

\* One backend after the other; a failed baseline ends it.
BackendsInv ==
    /\ turn \in DOMAIN Backends /\ shown \in Pictures
    /\ runners \subseteq {Backend}
    /\ stage \in {"create", "compare", "report", "done"} => runners = {}
    /\ errors \in [Names -> {"none", "raised", "not_run"}]
    /\ errors["pytorch"] # "none" => turn = 1
    /\ stage = "create" => errors["pytorch"] = "none"
    /\ stage \in {"create", "warmup", "measure"} => errors[Backend] = "none"
    /\ stage \in {"create", "warmup", "measure", "close"} =>
           \A k \in DOMAIN Backends : k > turn => errors[Backends[k]] = "none"
    /\ stage \in {"compare", "report", "done"} =>
           IF errors["pytorch"] = "none" THEN turn = Len(Backends)
           ELSE \A b \in Names \ {"pytorch"} : errors[b] = "not_run"

\* The first detections are of the runs; an image not yet reached has none.
MeasuredInv ==
    /\ timings \in [Names -> [Pictures -> Seq(Runs)]]
    /\ canonical \in [Names -> [Pictures -> Seq(Detections) \cup {Absent}]]
    /\ \A b \in Names, i \in Pictures :
           canonical[b][i] = Canonical(timings[b][i]) /\ Len(timings[b][i]) <= Repeat
    /\ \A k \in DOMAIN Backends, i \in Pictures :
           ~Through(k, i) => timings[Backends[k]][i] = <<>>

\* A row for every image that a backend was measured on, and no other.
RowsInv ==
    /\ imageRows \in Seq(Rows)
    /\ \A row \in Range(imageRows) : \E k \in DOMAIN Backends, i \in Pictures :
           Through(k, i) /\ row = RowOf(timings, Backends[k], i)
    /\ \A k \in DOMAIN Backends, i \in Pictures :
           Through(k, i) /\ errors[Backends[k]] = "none" =>
               RowOf(timings, Backends[k], i) \in Range(imageRows)

\* The reports are made of what was there when they were.
ReportInv ==
    /\ stage \in {"report", "done"} =>
           comparisons = IF errors["pytorch"] # "none" THEN <<>> ELSE AllComparisons
    /\ stage = "done" =>
           \E names \in Namings :
               outcome = [final |-> FinalStatus, names |-> names, cases |-> MismatchCases(names)]

\* What holds of the program in every state.
AllInv == BackendsInv /\ MeasuredInv /\ RowsInv /\ ReportInv

\* The backends' names, the baseline's first among them.
LEMMA NamesFacts ==
    /\ DOMAIN Backends = 1 .. Len(Backends) /\ Len(Backends) \in Nat /\ 1 \in DOMAIN Backends
    /\ "pytorch" \in Names /\ Backends[1] = "pytorch"
    /\ \A k \in DOMAIN Backends : k \in Nat /\ Backends[k] \in Names
    /\ \A b \in Names : \E k \in DOMAIN Backends : b = Backends[k]
    /\ \A j, k \in DOMAIN Backends : Backends[j] = Backends[k] => j = k
    /\ Pictures = 1 .. ImageCount /\ ImageCount \in Nat /\ 1 \in Pictures
  <1>1. /\ Backends \in Seq(STRING) /\ Backends # <<>> /\ Backends[1] = "pytorch"
        /\ \A j, k \in DOMAIN Backends : Backends[j] = Backends[k] => j = k
    BY BaselineIsFirst DEF IsInjective
  <1>2. /\ DOMAIN Backends = 1 .. Len(Backends) /\ Len(Backends) \in Nat
        /\ 1 \in DOMAIN Backends
    BY <1>1
  <1>3. ImageCount \in Nat /\ 1 \in 1 .. ImageCount
    BY ImagesAreNamed
  <1>4. /\ \A k \in DOMAIN Backends : k \in Nat /\ Backends[k] \in Names
        /\ \A b \in Names : \E k \in DOMAIN Backends : b = Backends[k]
    BY <1>2 DEF Names, Range
  <1>. QED
    BY <1>1, <1>2, <1>3, <1>4 DEF Pictures

\* Every step keeps the order of the backends,
LEMMA BackendsStep ==
    ASSUME BackendsInv, AllNext
    PROVE  BackendsInv'
  <1>. USE DEF BackendsInv
  <1>1. ASSUME CreateRunner PROVE BackendsInv'
    BY <1>1, NamesFacts DEF CreateRunner, Backend, measured
  <1>2. ASSUME WarmUp PROVE BackendsInv'
    BY <1>2, NamesFacts DEF WarmUp, Backend, measured
  <1>3. ASSUME MeasureImage PROVE BackendsInv'
    BY <1>3, NamesFacts DEF MeasureImage, Backend
  <1>4. ASSUME CloseRunner PROVE BackendsInv'
    <2>1. turn' \in DOMAIN Backends
      BY <1>4, NamesFacts DEF CloseRunner, AfterBackend
    <2>2. runners' = {}
      BY <1>4 DEF CloseRunner, Closed
    <2>3. errors' \in [Names -> {"none", "raised", "not_run"}]
      BY <1>4 DEF CloseRunner
    <2>4. errors["pytorch"] = "none" <=> errors'["pytorch"] = "none"
      BY <1>4, NamesFacts DEF CloseRunner
    <2>5. CASE stage' = "create"
      <3>1. errors["pytorch"] = "none" /\ turn' = turn + 1 /\ errors' = errors
        BY <1>4, <2>5 DEF CloseRunner, AfterBackend
      <3>2. \A k \in DOMAIN Backends : k > turn => errors[Backends[k]] = "none"
        BY <1>4 DEF CloseRunner
      <3>3. \A k \in DOMAIN Backends : k >= turn' => errors[Backends[k]] = "none"
        BY <3>1, <3>2, NamesFacts
      <3>. QED
        BY <1>4, <2>1, <2>2, <2>3, <2>5, <3>1, <3>3, NamesFacts DEF CloseRunner, Backend
    <2>6. CASE stage' # "create"
      <3>1. stage' = "compare" /\ turn' = turn
            /\ (turn = Len(Backends) \/ errors["pytorch"] # "none")
        BY <1>4, <2>6, NamesFacts DEF CloseRunner, AfterBackend
      <3>2. ASSUME errors["pytorch"] # "none", NEW b \in Names \ {"pytorch"}
            PROVE  errors'[b] = "not_run"
        <4>1. PICK k \in DOMAIN Backends : b = Backends[k]
          BY NamesFacts
        <4>2. k > turn
          BY <3>2, <4>1, NamesFacts
        <4>3. errors[b] = "none"
          BY <1>4, <4>1, <4>2 DEF CloseRunner
        <4>. QED
          BY <1>4, <3>2, <4>3 DEF CloseRunner
      <3>. QED
        BY <1>4, <2>1, <2>2, <2>3, <2>4, <3>1, <3>2, NamesFacts DEF CloseRunner, Backend
    <2>. QED
      BY <2>5, <2>6
  <1>5. ASSUME CloseRaises PROVE BackendsInv'
    BY <1>5 DEF CloseRaises, Backend, measured
  <1>6. ASSUME ComparePairs PROVE BackendsInv'
    BY <1>6 DEF ComparePairs, Backend, measured
  <1>7. ASSUME WriteReports PROVE BackendsInv'
    BY <1>7 DEF WriteReports, Backend, measured
  <1>. QED
    BY <1>1, <1>2, <1>3, <1>4, <1>5, <1>6, <1>7 DEF AllNext

\* The runs on an image fail it, or give its detections.
LEMMA RunsFacts ==
    ASSUME NEW runs \in Seq(Runs)
    PROVE  /\ StatusOf(runs) \in {"PASS", "WARNING", "FAIL"}
           /\ StatusOf(runs) = "FAIL" <=> Len(runs) < Repeat
           /\ Canonical(runs) \in Seq(Detections) \cup {Absent}
           /\ Canonical(runs) = Absent <=> Len(runs) < Repeat
  <1>1. ImageRow(runs) \in {"PASS", "WARNING"}
    BY DEF ImageRow
  <1>2. StatusOf(runs) \in {"PASS", "WARNING", "FAIL"} /\ (StatusOf(runs) = "FAIL" <=> Len(runs) < Repeat)
    BY <1>1 DEF StatusOf
  <1>3. CASE Len(runs) < Repeat
    BY <1>2, <1>3 DEF Canonical
  <1>4. CASE ~(Len(runs) < Repeat)
    <2>1. Len(runs) \in Nat /\ Len(runs) > 0
      BY <1>4, RepeatIsPositive
    <2>2. runs[1] \in Runs
      BY <2>1
    <2>3. runs[1].found \in Seq(Detections)
      BY <2>2 DEF Runs
    <2>4. Canonical(runs) = runs[1].found
      BY <1>4 DEF Canonical
    <2>. QED
      BY <1>2, <1>4, <2>3, <2>4, AbsentIsNone
  <1>. QED
    BY <1>3, <1>4

\* the measurements,
LEMMA MeasuredStep ==
    ASSUME BackendsInv, MeasuredInv, AllNext
    PROVE  MeasuredInv'
  <1>1. /\ turn \in DOMAIN Backends /\ shown \in Pictures /\ Backend \in Names
        /\ turn \in Nat /\ shown \in Nat
    BY NamesFacts DEF BackendsInv, Backend
  <1>2. ASSUME UNCHANGED <<timings, canonical>>,
               \A k \in DOMAIN Backends, i \in Pictures : Through(k, i) => Through(k, i)'
        PROVE  MeasuredInv'
    BY <1>2 DEF MeasuredInv
  <1>3. ASSUME CreateRunner PROVE MeasuredInv'
    <2>1. \A k \in DOMAIN Backends, i \in Pictures : Through(k, i) => Through(k, i)'
      BY <1>3 DEF CreateRunner, Through
    <2>. QED
      BY <1>2, <1>3, <2>1 DEF CreateRunner, measured
  <1>4. ASSUME WarmUp PROVE MeasuredInv'
    <2>1. \A k \in DOMAIN Backends, i \in Pictures : Through(k, i) => Through(k, i)'
      BY <1>4 DEF WarmUp, Through
    <2>. QED
      BY <1>2, <1>4, <2>1 DEF WarmUp, measured
  <1>5. ASSUME MeasureImage PROVE MeasuredInv'
    <2>1. PICK runs \in Measurements :
              /\ canonical' = [canonical EXCEPT ![Backend][shown] = Canonical(runs)]
              /\ timings' = [timings EXCEPT ![Backend][shown] = runs]
      BY <1>5 DEF MeasureImage
    <2>2. /\ runs \in Seq(Runs) /\ Len(runs) <= Repeat
          /\ Canonical(runs) \in Seq(Detections) \cup {Absent}
      BY RunsAreRead, RunsFacts
    <2>3. /\ timings \in [Names -> [Pictures -> Seq(Runs)]]
          /\ canonical \in [Names -> [Pictures -> Seq(Detections) \cup {Absent}]]
      BY DEF MeasuredInv
    <2>4. /\ timings' \in [Names -> [Pictures -> Seq(Runs)]]
          /\ canonical' \in [Names -> [Pictures -> Seq(Detections) \cup {Absent}]]
      BY <1>1, <2>1, <2>2, <2>3
    <2>5. \A b \in Names, i \in Pictures :
              /\ timings'[b][i] = IF b = Backend /\ i = shown THEN runs ELSE timings[b][i]
              /\ canonical'[b][i] = IF b = Backend /\ i = shown THEN Canonical(runs)
                                    ELSE canonical[b][i]
      BY <1>1, <2>1, <2>3
    <2>6. \A b \in Names, i \in Pictures :
              canonical'[b][i] = Canonical(timings'[b][i]) /\ Len(timings'[b][i]) <= Repeat
      <3>1. \A b \in Names, i \in Pictures :
                canonical[b][i] = Canonical(timings[b][i]) /\ Len(timings[b][i]) <= Repeat
        BY Zenon DEF MeasuredInv
      <3>2. ASSUME NEW b \in Names, NEW i \in Pictures
            PROVE  canonical'[b][i] = Canonical(timings'[b][i]) /\ Len(timings'[b][i]) <= Repeat
        <4>1. CASE b = Backend /\ i = shown
          BY <2>2, <2>5, <4>1, Zenon
        <4>2. CASE ~(b = Backend /\ i = shown)
          BY <2>5, <3>1, <4>2, Zenon
        <4>. QED
          BY <4>1, <4>2, Zenon
      <3>. QED
        BY <3>2, Zenon
    <2>7. ASSUME NEW k \in DOMAIN Backends, NEW i \in Pictures, ~Through(k, i)'
          PROVE  timings'[Backends[k]][i] = <<>>
      <3>1. ~Through(k, i) /\ ~(k = turn /\ i = shown)
        BY <1>1, <1>5, <2>7, NamesFacts DEF MeasureImage, Through
      <3>2. ~(Backends[k] = Backend /\ i = shown)
        BY <1>1, <3>1, NamesFacts DEF Backend
      <3>3. timings'[Backends[k]][i] = timings[Backends[k]][i]
        BY <2>5, <3>2, NamesFacts
      <3>. QED
        BY <3>1, <3>3 DEF MeasuredInv
    <2>. QED
      BY <2>4, <2>6, <2>7 DEF MeasuredInv
  <1>6. ASSUME CloseRunner PROVE MeasuredInv'
    <2>1. \A k \in DOMAIN Backends, i \in Pictures : Through(k, i) => Through(k, i)'
      BY <1>1, <1>6, NamesFacts DEF CloseRunner, AfterBackend, Through
    <2>. QED
      BY <1>2, <1>6, <2>1 DEF CloseRunner, measured
  <1>7. ASSUME CloseRaises PROVE MeasuredInv'
    BY <1>2, <1>7 DEF CloseRaises, Through, measured
  <1>8. ASSUME ComparePairs PROVE MeasuredInv'
    BY <1>2, <1>8 DEF ComparePairs, Through, measured
  <1>9. ASSUME WriteReports PROVE MeasuredInv'
    BY <1>2, <1>9 DEF WriteReports, Through, measured
  <1>. QED
    BY <1>3, <1>4, <1>5, <1>6, <1>7, <1>8, <1>9 DEF AllNext

\* What is appended to a list is in it with what was.
LEMMA RangeGrows ==
    ASSUME NEW S, NEW s \in Seq(S), NEW x \in S
    PROVE  /\ Append(s, x) \in Seq(S)
           /\ \A y : y \in Range(Append(s, x)) <=> y \in Range(s) \/ y = x
  <1>1. /\ Append(s, x) \in Seq(S) /\ DOMAIN s = 1 .. Len(s) /\ Len(s) \in Nat
        /\ DOMAIN Append(s, x) = 1 .. Len(s) + 1
        /\ \A k \in 1 .. Len(s) : Append(s, x)[k] = s[k]
        /\ Append(s, x)[Len(s) + 1] = x
    OBVIOUS
  <1>2. \A k \in 1 .. Len(s) + 1 : k \in 1 .. Len(s) \/ k = Len(s) + 1
    BY <1>1
  <1>3. /\ \A k \in 1 .. Len(s) : k \in 1 .. Len(s) + 1
        /\ Len(s) + 1 \in 1 .. Len(s) + 1
    BY <1>1
  <1>. QED
    BY <1>1, <1>2, <1>3 DEF Range

\* the rows,
LEMMA RowsStep ==
    ASSUME BackendsInv, MeasuredInv, RowsInv, AllNext
    PROVE  RowsInv'
  <1>1. /\ turn \in DOMAIN Backends /\ shown \in Pictures /\ Backend \in Names
        /\ turn \in Nat /\ shown \in Nat /\ Backend = Backends[turn]
    BY NamesFacts DEF BackendsInv, Backend
  <1>2. ASSUME UNCHANGED <<imageRows, timings>>,
               \A k \in DOMAIN Backends, i \in Pictures : Through(k, i) => Through(k, i)',
               \A k \in DOMAIN Backends, i \in Pictures :
                   Through(k, i)' /\ errors'[Backends[k]] = "none" =>
                       Through(k, i) /\ errors[Backends[k]] = "none"
        PROVE  RowsInv'
    BY <1>2 DEF RowsInv
  <1>3. ASSUME CreateRunner PROVE RowsInv'
    <2>1. \A k \in DOMAIN Backends, i \in Pictures : Through(k, i) => Through(k, i)'
      BY <1>3 DEF CreateRunner, Through
    <2>2. ASSUME NEW k \in DOMAIN Backends, NEW i \in Pictures,
                 Through(k, i)', errors'[Backends[k]] = "none"
          PROVE  Through(k, i) /\ errors[Backends[k]] = "none"
      BY <1>1, <1>3, <2>2, NamesFacts DEF CreateRunner, Through, BackendsInv
    <2>. QED
      BY <1>2, <1>3, <2>1, <2>2 DEF CreateRunner, measured
  <1>4. ASSUME WarmUp PROVE RowsInv'
    <2>1. \A k \in DOMAIN Backends, i \in Pictures : Through(k, i) => Through(k, i)'
      BY <1>4 DEF WarmUp, Through
    <2>2. ASSUME NEW k \in DOMAIN Backends, NEW i \in Pictures,
                 Through(k, i)', errors'[Backends[k]] = "none"
          PROVE  Through(k, i) /\ errors[Backends[k]] = "none"
      BY <1>1, <1>4, <2>2, NamesFacts DEF WarmUp, Through, BackendsInv
    <2>. QED
      BY <1>2, <1>4, <2>1, <2>2 DEF WarmUp, measured
  <1>5. ASSUME MeasureImage PROVE RowsInv'
    <2>1. PICK runs \in Measurements :
              /\ timings' = [timings EXCEPT ![Backend][shown] = runs]
              /\ imageRows' = Append(imageRows, [backend |-> Backend, image |-> shown,
                                                 status |-> StatusOf(runs)])
      BY <1>5 DEF MeasureImage
    <2>2. StatusOf(runs) \in {"PASS", "WARNING", "FAIL"}
      BY RunsAreRead, RunsFacts
    <2>3. timings \in [Names -> [Pictures -> Seq(Runs)]]
      BY DEF MeasuredInv
    <2>4. \A b \in Names, i \in Pictures :
              timings'[b][i] = IF b = Backend /\ i = shown THEN runs ELSE timings[b][i]
      BY <1>1, <2>1, <2>3
    <2>5. /\ RowOf(timings', Backends[turn], shown)
                = [backend |-> Backend, image |-> shown, status |-> StatusOf(runs)]
          /\ \A k \in DOMAIN Backends, i \in Pictures :
                 ~(k = turn /\ i = shown) =>
                     RowOf(timings', Backends[k], i) = RowOf(timings, Backends[k], i)
      BY <1>1, <2>4, NamesFacts DEF RowOf
    <2>6. \A k \in DOMAIN Backends, i \in Pictures :
              /\ Through(k, i)' <=> Through(k, i) \/ (k = turn /\ i = shown)
              /\ ~(Through(k, i) /\ k = turn /\ i = shown)
      BY <1>1, <1>5, NamesFacts DEF MeasureImage, Through
    <2>. DEFINE new == [backend |-> Backend, image |-> shown, status |-> StatusOf(runs)]
    <2>7. new \in Rows /\ imageRows' = Append(imageRows, new) /\ imageRows \in Seq(Rows)
      BY <1>1, <2>1, <2>2 DEF Rows, RowsInv
    <2>8. new = RowOf(timings', Backends[turn], shown)
      BY <2>5
    <2>. HIDE DEF new
    <2>9. /\ imageRows' \in Seq(Rows)
          /\ \A row : row \in Range(imageRows') <=> row \in Range(imageRows) \/ row = new
      BY <2>7, RangeGrows
    <2>10. ASSUME NEW row \in Range(imageRows')
           PROVE  \E k \in DOMAIN Backends, i \in Pictures :
                      Through(k, i)' /\ row = RowOf(timings', Backends[k], i)
      <3>1. CASE row = new
        BY <1>1, <2>6, <2>8, <3>1
      <3>2. CASE row \in Range(imageRows)
        <4>1. PICK k \in DOMAIN Backends, i \in Pictures :
                  Through(k, i) /\ row = RowOf(timings, Backends[k], i)
          BY <3>2 DEF RowsInv
        <4>. QED
          BY <2>5, <2>6, <4>1
      <3>. QED
        BY <2>9, <3>1, <3>2
    <2>11. ASSUME NEW k \in DOMAIN Backends, NEW i \in Pictures,
                  Through(k, i)', errors'[Backends[k]] = "none"
           PROVE  RowOf(timings', Backends[k], i) \in Range(imageRows')
      <3>1. CASE k = turn /\ i = shown
        BY <2>8, <2>9, <3>1
      <3>2. CASE ~(k = turn /\ i = shown)
        <4>1. Through(k, i) /\ errors[Backends[k]] = "none"
          BY <1>5, <2>6, <2>11, <3>2 DEF MeasureImage
        <4>2. RowOf(timings, Backends[k], i) \in Range(imageRows)
          BY <4>1 DEF RowsInv
        <4>. QED
          BY <2>5, <2>9, <3>2, <4>2
      <3>. QED
        BY <3>1, <3>2
    <2>. QED
      BY <2>9, <2>10, <2>11 DEF RowsInv
  <1>6. ASSUME CloseRunner PROVE RowsInv'
    <2>1. \A k \in DOMAIN Backends, i \in Pictures : Through(k, i) => Through(k, i)'
      BY <1>1, <1>6, NamesFacts DEF CloseRunner, AfterBackend, Through
    <2>2. ASSUME NEW k \in DOMAIN Backends, NEW i \in Pictures,
                 Through(k, i)', errors'[Backends[k]] = "none"
          PROVE  Through(k, i) /\ errors[Backends[k]] = "none"
      <3>1. errors[Backends[k]] = "none"
        BY <1>6, <2>2, NamesFacts DEF CloseRunner, BackendsInv
      <3>2. Through(k, i)
        BY <1>1, <1>6, <2>2, NamesFacts DEF CloseRunner, AfterBackend, Through
      <3>. QED
        BY <3>1, <3>2
    <2>. QED
      BY <1>2, <1>6, <2>1, <2>2 DEF CloseRunner, measured
  <1>7. ASSUME CloseRaises PROVE RowsInv'
    BY <1>2, <1>7 DEF CloseRaises, Through, measured
  <1>8. ASSUME ComparePairs PROVE RowsInv'
    BY <1>2, <1>8 DEF ComparePairs, Through, measured
  <1>9. ASSUME WriteReports PROVE RowsInv'
    BY <1>2, <1>9 DEF WriteReports, Through, measured
  <1>. QED
    BY <1>3, <1>4, <1>5, <1>6, <1>7, <1>8, <1>9 DEF AllNext

\* and the reports.
LEMMA ReportStep ==
    ASSUME ReportInv, AllNext
    PROVE  ReportInv'
  <1>1. ASSUME stage' \notin {"report", "done"} PROVE ReportInv'
    BY <1>1 DEF ReportInv
  <1>2. ASSUME CreateRunner \/ WarmUp \/ MeasureImage \/ CloseRunner \/ CloseRaises
        PROVE  ReportInv'
    <2>1. stage' \notin {"report", "done"}
      BY <1>2 DEF CreateRunner, WarmUp, MeasureImage, CloseRunner, AfterBackend, CloseRaises
    <2>. QED
      BY <1>1, <2>1
  <1>3. ASSUME ComparePairs PROVE ReportInv'
    <2>1. AllComparisons' = AllComparisons /\ UNCHANGED errors /\ stage' = "report"
      BY <1>3 DEF ComparePairs, AllComparisons, Compare, measured
    <2>. QED
      BY <1>3, <2>1 DEF ComparePairs, ReportInv
  <1>4. ASSUME WriteReports PROVE ReportInv'
    <2>1. /\ AllComparisons' = AllComparisons /\ FinalStatus' = FinalStatus
          /\ UNCHANGED <<errors, comparisons>>
      BY <1>4 DEF WriteReports, AllComparisons, Compare, measured, FinalStatus, BackendRow
    <2>2. \A names : MismatchCases(names)' = MismatchCases(names)
      BY <1>4 DEF WriteReports, measured, MismatchCases, CaseFile, Found, Differing
    <2>3. stage = "report" /\ (stage' = "done" =>
              \E names \in Namings : outcome' = [final |-> FinalStatus, names |-> names,
                                                cases |-> MismatchCases(names)])
      BY <1>4 DEF WriteReports
    <2>. QED
      BY <2>1, <2>2, <2>3 DEF ReportInv
  <1>. QED
    BY <1>2, <1>3, <1>4 DEF AllNext

\* So they hold whatever raises.
LEMMA AllIsInvariant == Spec => []AllInv
  <1>1. Init => AllInv
    <2>. SUFFICES ASSUME AllInit PROVE AllInv
      BY DEF Init
    <2>. USE DEF AllInit
    <2>1. BackendsInv
      BY NamesFacts DEF BackendsInv, Backend
    <2>2. MeasuredInv
      <3>1. <<>> \in Seq(Runs) /\ Len(<<>>) = 0 /\ 0 < Repeat
        BY RepeatIsPositive
      <3>2. Canonical(<<>>) = Absent
        BY <3>1 DEF Canonical
      <3>. QED
        BY <3>1, <3>2, RepeatIsPositive, NamesFacts DEF MeasuredInv
    <2>3. \A k \in DOMAIN Backends, i \in Pictures : ~Through(k, i)
      BY NamesFacts DEF Through
    <2>4. RowsInv
      BY <2>3 DEF RowsInv, Range
    <2>5. ReportInv
      BY DEF ReportInv
    <2>. QED
      BY <2>1, <2>2, <2>4, <2>5 DEF AllInv
  <1>2. AllInv /\ [Next]_vars => AllInv'
    <2>1. ASSUME AllInv, AllNext PROVE AllInv'
      BY <2>1, BackendsStep, MeasuredStep, RowsStep, ReportStep DEF AllInv
    <2>2. ASSUME AllInv, UNCHANGED allVars PROVE AllInv'
      <3>1. BackendsInv'
        BY <2>2 DEF AllInv, BackendsInv, Backend, allVars
      <3>2. \A k, i : Through(k, i)' <=> Through(k, i)
        BY <2>2 DEF Through, allVars
      <3>3. MeasuredInv'
        BY <2>2, <3>2 DEF AllInv, MeasuredInv, allVars
      <3>4. RowsInv'
        BY <2>2, <3>2 DEF AllInv, RowsInv, allVars
      <3>5. AllComparisons' = AllComparisons /\ FinalStatus' = FinalStatus
        BY <2>2 DEF allVars, AllComparisons, Compare, FinalStatus, BackendRow
      <3>6. \A names : MismatchCases(names)' = MismatchCases(names)
        BY <2>2 DEF allVars, MismatchCases, CaseFile, Found, Differing
      <3>7. ReportInv'
        BY <2>2, <3>5, <3>6 DEF AllInv, ReportInv, allVars
      <3>. QED
        BY <3>1, <3>3, <3>4, <3>7 DEF AllInv
    <2>. QED
      BY <2>1, <2>2 DEF Next, vars
  <1>. QED
    BY <1>1, <1>2, PTL DEF Spec

\* A number is a multiple and a rest, in one way.
LEMMA DivFacts ==
    ASSUME NEW a \in Nat, NEW n \in Nat, n > 0
    PROVE  /\ a \div n \in Nat /\ (a % n) \in Nat /\ (a % n) < n
           /\ a = n * (a \div n) + (a % n)
  OBVIOUS

\* There is one way to put a number as rounds of n and a rest.
LEMMA OneWay ==
    ASSUME NEW n \in Nat, n > 0, NEW p \in Nat, NEW q \in Nat, NEW i \in Nat, NEW j \in Nat,
           i < n, j < n, n * p + i = n * q + j
    PROVE  p = q /\ i = j
  <1>1. \A x, y \in Nat : x < y => n * x + n <= n * y
    OBVIOUS
  <1>2. n * p \in Nat /\ n * q \in Nat
    OBVIOUS
  <1>3. ~(p < q)
    BY <1>1, <1>2
  <1>4. ~(q < p)
    BY <1>1, <1>2
  <1>5. p = q
    BY <1>3, <1>4
  <1>. QED
    BY <1>2, <1>5

\* Round after round of n: what comes as the a-th is in the round of its quotient.
LEMMA RoundsFacts ==
    ASSUME NEW n \in Nat, n > 0, NEW m \in Nat
    PROVE  /\ \A k \in 1 .. m * n : ((k - 1) \div n) + 1 \in 1 .. m /\ ((k - 1) % n) + 1 \in 1 .. n
           /\ \A p \in 1 .. m, i \in 1 .. n : \E k \in 1 .. m * n :
                  \A j \in 1 .. m * n :
                      ((j - 1) \div n) + 1 = p /\ ((j - 1) % n) + 1 = i <=> j = k
  <1>0. m * n \in Nat
    OBVIOUS
  <1>1. ASSUME NEW k \in 1 .. m * n
        PROVE  ((k - 1) \div n) + 1 \in 1 .. m /\ ((k - 1) % n) + 1 \in 1 .. n
    <2>1. k - 1 \in Nat /\ k - 1 < m * n
      BY <1>0
    <2>2. /\ (k - 1) \div n \in Nat /\ ((k - 1) % n) \in Nat /\ ((k - 1) % n) < n
          /\ k - 1 = n * ((k - 1) \div n) + ((k - 1) % n)
      BY <2>1, DivFacts
    <2>3. \A y \in Nat : y >= m => n * y >= m * n
      OBVIOUS
    <2>4. n * ((k - 1) \div n) \in Nat
      BY <2>2
    <2>5. (k - 1) \div n < m
      BY <1>0, <2>1, <2>2, <2>3, <2>4
    <2>. QED
      BY <2>2, <2>5
  <1>2. ASSUME NEW p \in 1 .. m, NEW i \in 1 .. n
        PROVE  \E k \in 1 .. m * n : \A j \in 1 .. m * n :
                   ((j - 1) \div n) + 1 = p /\ ((j - 1) % n) + 1 = i <=> j = k
    <2>. DEFINE k == n * (p - 1) + i
    <2>1. p - 1 \in Nat /\ i - 1 \in Nat /\ i - 1 < n /\ n * (p - 1) \in Nat
      OBVIOUS
    <2>2. k \in 1 .. m * n
      <3>1. n * (p - 1) + n <= m * n
        OBVIOUS
      <3>. QED
        BY <1>0, <2>1, <3>1
    <2>3. k - 1 = n * (p - 1) + (i - 1)
      BY <2>1
    <2>. HIDE DEF k
    <2>4. ASSUME NEW j \in 1 .. m * n
          PROVE  ((j - 1) \div n) + 1 = p /\ ((j - 1) % n) + 1 = i <=> j = k
      <3>1. j - 1 \in Nat /\ k - 1 \in Nat
        BY <1>0, <2>2
      <3>. DEFINE q == (j - 1) \div n
                  x == (j - 1) % n
      <3>2. q \in Nat /\ x \in Nat /\ x < n /\ j - 1 = n * q + x
        BY <3>1, DivFacts
      <3>. HIDE DEF q, x
      <3>3. ASSUME q + 1 = p, x + 1 = i PROVE j = k
        <4>1. q = p - 1 /\ x = i - 1
          BY <3>2, <3>3
        <4>2. j - 1 = k - 1
          BY <2>3, <3>2, <4>1
        <4>. QED
          BY <1>0, <2>2, <4>2
      <3>4. ASSUME j = k PROVE q + 1 = p /\ x + 1 = i
        <4>1. n * q + x = n * (p - 1) + (i - 1)
          BY <2>3, <3>2, <3>4
        <4>2. q = p - 1 /\ x = i - 1
          BY <2>1, <3>2, <4>1, OneWay
        <4>. QED
          BY <2>1, <4>2
      <3>. QED
        BY <3>3, <3>4 DEF q, x
    <2>. QED
      BY <2>2, <2>4
  <1>. QED
    BY <1>1, <1>2

\* One comparison of two results, or of none.
LEMMA CompareFacts ==
    ASSUME AllInv, NEW p \in Range(ComparedPairs), NEW i \in Pictures
    PROVE  /\ Compare(p, i).pair = p /\ Compare(p, i).image = i
           /\ p[1] \in Names /\ p[2] \in Names
           /\ Compare(p, i).status = "FAIL" <=>
                  \/ canonical[p[1]][i] = Absent \/ canonical[p[2]][i] = Absent
                  \/ CompareDetectionLists(canonical[p[1]][i], canonical[p[2]][i]).status = "FAIL"
  <1>1. p[1] \in Names /\ p[2] \in Names
    BY PairsAreOfBackends DEF Range, Names
  <1>2. CASE Absent \in {canonical[p[1]][i], canonical[p[2]][i]}
    BY <1>1, <1>2 DEF Compare
  <1>3. CASE Absent \notin {canonical[p[1]][i], canonical[p[2]][i]}
    BY <1>1, <1>3 DEF Compare
  <1>. QED
    BY <1>2, <1>3

\* If the baseline has not failed every pair is compared on every image, once.
LEMMA AllAreCompared ==
    ASSUME AllInv, stage \in {"report", "done"}, errors["pytorch"] = "none"
    PROVE  /\ \A c \in Range(comparisons) : \E p \in Range(ComparedPairs), i \in Pictures :
                  c = Compare(p, i)
           /\ \A p \in Range(ComparedPairs), i \in Pictures :
                  /\ Compare(p, i) \in Range(comparisons)
                  /\ Cardinality({k \in DOMAIN comparisons :
                         comparisons[k].pair = p /\ comparisons[k].image = i}) = 1
  <1>. DEFINE n == ImageCount
              m == Len(ComparedPairs)
              p(k) == ((k - 1) \div n) + 1
              i(k) == ((k - 1) % n) + 1
  <1>1. n \in Nat /\ n > 0 /\ Pictures = 1 .. n
    BY NamesFacts
  <1>2. /\ m \in Nat /\ DOMAIN ComparedPairs = 1 .. m
        /\ \A j, k \in 1 .. m : ComparedPairs[j] = ComparedPairs[k] => j = k
    BY PairsAreOfBackends DEF IsInjective
  <1>3. comparisons = [k \in 1 .. m * n |-> Compare(ComparedPairs[p(k)], i(k))]
    BY DEF AllInv, ReportInv, AllComparisons
  <1>. HIDE DEF n, m
  <1>4. /\ \A k \in 1 .. m * n : p(k) \in 1 .. m /\ i(k) \in 1 .. n
        /\ \A q \in 1 .. m, x \in 1 .. n : \E k \in 1 .. m * n : \A j \in 1 .. m * n :
               p(j) = q /\ i(j) = x <=> j = k
    BY <1>1, <1>2, RoundsFacts
  <1>. HIDE DEF p, i
  <1>5. \A k \in 1 .. m * n : /\ ComparedPairs[p(k)] \in Range(ComparedPairs)
                              /\ i(k) \in Pictures
    BY <1>1, <1>2, <1>4 DEF Range
  <1>6. /\ DOMAIN comparisons = 1 .. m * n
        /\ \A k \in 1 .. m * n : comparisons[k] = Compare(ComparedPairs[p(k)], i(k))
    BY <1>3
  <1>7. \A k \in 1 .. m * n : /\ comparisons[k].pair = ComparedPairs[p(k)]
                              /\ comparisons[k].image = i(k)
    BY <1>5, <1>6, CompareFacts
  <1>8. ASSUME NEW q \in Range(ComparedPairs), NEW x \in Pictures
        PROVE  /\ Compare(q, x) \in Range(comparisons)
               /\ Cardinality({k \in DOMAIN comparisons :
                      comparisons[k].pair = q /\ comparisons[k].image = x}) = 1
    <2>1. PICK y \in 1 .. m : q = ComparedPairs[y]
      BY <1>2 DEF Range
    <2>2. PICK k \in 1 .. m * n : \A j \in 1 .. m * n : p(j) = y /\ i(j) = x <=> j = k
      BY <1>1, <1>4
    <2>3. p(k) = y /\ i(k) = x
      BY <2>2
    <2>4. Compare(q, x) \in Range(comparisons)
      BY <1>6, <2>1, <2>3 DEF Range
    <2>5. \A j \in 1 .. m * n : comparisons[j].pair = q /\ comparisons[j].image = x <=> j = k
      <3>. TAKE j \in 1 .. m * n
      <3>1. comparisons[j].pair = q <=> p(j) = y
        BY <1>2, <1>4, <1>7, <2>1
      <3>. QED
        BY <1>7, <2>2, <3>1
    <2>. DEFINE S == {j \in DOMAIN comparisons :
                          comparisons[j].pair = q /\ comparisons[j].image = x}
    <2>6. \A j : j \in S <=> j = k
      BY <1>6, <2>5
    <2>. HIDE DEF S
    <2>7. S = {k}
      BY <2>6
    <2>8. Cardinality({k}) = 1
      BY FS_Singleton, Zenon
    <2>. QED
      BY <2>4, <2>7, <2>8 DEF S
  <1>9. \A c \in Range(comparisons) : \E q \in Range(ComparedPairs), x \in Pictures :
            c = Compare(q, x)
    BY <1>5, <1>6 DEF Range
  <1>. QED
    BY <1>8, <1>9

\* At most the backend of the turn has its runner.
LEMMA OneRunner ==
    ASSUME AllInv
    PROVE  OneRunnerAtATime
  <1>1. runners \subseteq {Backend}
    BY DEF AllInv, BackendsInv
  <1>2. IsFiniteSet({Backend}) /\ Cardinality({Backend}) = 1
    BY FS_Singleton, Zenon
  <1>3. Cardinality(runners) <= 1
    BY <1>1, <1>2, FS_Subset
  <1>. QED
    BY <1>3 DEF AllInv, BackendsInv, OneRunnerAtATime

\* What comes after a failed baseline is not run, everything else is compared.
LEMMA GateHolds ==
    ASSUME AllInv
    PROVE  BaselineGates
  <1>. SUFFICES ASSUME stage \in {"report", "done"}
                PROVE  IF errors["pytorch"] # "none"
                       THEN /\ comparisons = <<>>
                            /\ \A b \in Names \ {"pytorch"} :
                                   /\ errors[b] = "not_run"
                                   /\ \A i \in Pictures : canonical[b][i] = Absent
                       ELSE \A p \in Range(ComparedPairs), i \in Pictures :
                                Cardinality({k \in DOMAIN comparisons :
                                    comparisons[k].pair = p /\ comparisons[k].image = i}) = 1
    BY DEF BaselineGates
  <1>1. CASE errors["pytorch"] = "none"
    BY <1>1, AllAreCompared
  <1>2. CASE errors["pytorch"] # "none"
    <2>1. comparisons = <<>> /\ turn = 1 /\ \A b \in Names \ {"pytorch"} : errors[b] = "not_run"
      BY <1>2 DEF AllInv, ReportInv, BackendsInv
    <2>2. ASSUME NEW b \in Names \ {"pytorch"}, NEW i \in Pictures
          PROVE  canonical[b][i] = Absent
      <3>1. PICK k \in DOMAIN Backends : b = Backends[k]
        BY NamesFacts
      <3>2. ~Through(k, i)
        BY <2>1, <3>1, NamesFacts DEF Through
      <3>3. timings[b][i] = <<>>
        BY <3>1, <3>2 DEF AllInv, MeasuredInv
      <3>4. <<>> \in Seq(Runs) /\ Len(<<>>) = 0 /\ 0 < Repeat
        BY RepeatIsPositive
      <3>5. Canonical(<<>>) = Absent
        BY <3>4 DEF Canonical
      <3>. QED
        BY <3>3, <3>5 DEF AllInv, MeasuredInv
    <2>. QED
      BY <1>2, <2>1, <2>2
  <1>. QED
    BY <1>1, <1>2

\* A row is failed when there are no detections.
LEMMA RowFacts ==
    ASSUME AllInv, NEW b \in Names, NEW i \in Pictures
    PROVE  /\ RowOf(timings, b, i).backend = b /\ RowOf(timings, b, i).image = i
           /\ RowOf(timings, b, i).status = StatusOf(timings[b][i])
           /\ timings[b][i] \in Seq(Runs)
           /\ canonical[b][i] \in Seq(Detections) \cup {Absent}
           /\ RowOf(timings, b, i).status = "FAIL" <=> canonical[b][i] = Absent
  <1>1. /\ timings[b][i] \in Seq(Runs) /\ canonical[b][i] = Canonical(timings[b][i])
        /\ canonical[b][i] \in Seq(Detections) \cup {Absent}
    BY DEF AllInv, MeasuredInv
  <1>2. /\ RowOf(timings, b, i).backend = b /\ RowOf(timings, b, i).image = i
        /\ RowOf(timings, b, i).status = StatusOf(timings[b][i])
    BY DEF RowOf
  <1>3. StatusOf(timings[b][i]) = "FAIL" <=> Canonical(timings[b][i]) = Absent
    BY <1>1, RunsFacts
  <1>. QED
    BY <1>1, <1>2, <1>3

\* The rows of images are of the backends' runs, and all of them are there when
\* every backend is through.
LEMMA RowsAreTold ==
    ASSUME AllInv
    PROVE  /\ \A row \in Range(imageRows) : \E b \in Names, i \in Pictures :
                  row = RowOf(timings, b, i)
           /\ stage = "done" /\ errors["pytorch"] = "none" =>
                  \A b \in Names, i \in Pictures :
                      errors[b] = "none" => RowOf(timings, b, i) \in Range(imageRows)
  <1>1. \A row \in Range(imageRows) : \E b \in Names, i \in Pictures :
            row = RowOf(timings, b, i)
    BY NamesFacts DEF AllInv, RowsInv
  <1>2. ASSUME stage = "done", errors["pytorch"] = "none",
               NEW b \in Names, NEW i \in Pictures, errors[b] = "none"
        PROVE  RowOf(timings, b, i) \in Range(imageRows)
    <2>1. PICK k \in DOMAIN Backends : b = Backends[k]
      BY NamesFacts
    <2>2. turn = Len(Backends)
      BY <1>2 DEF AllInv, BackendsInv
    <2>3. Through(k, i)
      BY <1>2, <2>1, <2>2, NamesFacts DEF Through
    <2>. QED
      BY <1>2, <2>1, <2>3 DEF AllInv, RowsInv
  <1>. QED
    BY <1>1, <1>2

\* So a failed row has no detections to compare, and a measured one has.
LEMMA RowsTell ==
    ASSUME AllInv
    PROVE  RowsTellResults
  <1>. QED
    BY RowsAreTold, RowFacts DEF RowsTellResults

\* One failure fails the whole.
LEMMA OverallFacts ==
    ASSUME NEW S
    PROVE  /\ OverallStatus(S) = "FAIL" <=> "FAIL" \in S
           /\ OverallStatus(S) = "PASS" => "FAIL" \notin S /\ "WARNING" \notin S
           /\ OverallStatus(S) = "WARNING" => "WARNING" \in S
           /\ "WARNING" \in S => OverallStatus(S) \in {"WARNING", "FAIL"}
  BY DEF OverallStatus

\* The statuses of a backend's images, and of its comparisons.
StatusesOfImages(b) == StatusesOf({row \in Range(imageRows) : row.backend = b})
StatusesOfPairs(b) == StatusesOf({c \in Range(comparisons) : c.pair[2] = b})

\* The statuses are those of the rows.
LEMMA StatusesFacts ==
    ASSUME NEW b, NEW s
    PROVE  /\ s \in StatusesOfImages(b) <=>
                  \E row \in Range(imageRows) : row.backend = b /\ row.status = s
           /\ s \in StatusesOfPairs(b) <=>
                  \E c \in Range(comparisons) : c.pair[2] = b /\ c.status = s
           /\ s \in StatusesOf(Range(comparisons)) <=>
                  \E c \in Range(comparisons) : c.status = s
  BY DEF StatusesOfImages, StatusesOfPairs, StatusesOf

\* When a backend is failed, and when it is free of warnings.
LEMMA BackendRowFacts ==
    ASSUME NEW b
    PROVE  /\ BackendRow(b) = "FAIL" <=>
                  \/ errors[b] # "none" \/ "FAIL" \in StatusesOfImages(b)
                  \/ b # "pytorch" /\ "FAIL" \in StatusesOfPairs(b)
           /\ b # "pytorch" /\ BackendRow(b) \notin {"FAIL", "WARNING"} =>
                  /\ errors[b] = "none"
                  /\ "FAIL" \notin StatusesOfImages(b) /\ "WARNING" \notin StatusesOfImages(b)
  <1>1. BackendRow(b) =
            IF errors[b] # "none" \/ "FAIL" \in StatusesOfImages(b) THEN "FAIL"
            ELSE IF b = "pytorch" THEN "BASELINE"
            ELSE OverallStatus(StatusesOfImages(b) \cup StatusesOfPairs(b))
    BY DEF BackendRow, StatusesOfImages, StatusesOfPairs
  <1>. DEFINE S == StatusesOfImages(b) \cup StatusesOfPairs(b)
  <1>2. /\ OverallStatus(S) = "FAIL" <=> "FAIL" \in S
        /\ "WARNING" \in S => OverallStatus(S) \in {"WARNING", "FAIL"}
    BY OverallFacts
  <1>. QED
    BY <1>1, <1>2

\* What is compared tells of the results.
LEMMA ComparisonsTell ==
    ASSUME AllInv, stage = "done"
    PROVE  /\ \A c \in Range(comparisons) : c.status = "FAIL" =>
                  \E p \in Range(ComparedPairs), i \in Pictures :
                      /\ p[1] \in Names /\ p[2] \in Names
                      /\ \/ canonical[p[1]][i] = Absent \/ canonical[p[2]][i] = Absent
                         \/ CompareDetectionLists(canonical[p[1]][i],
                                                  canonical[p[2]][i]).status = "FAIL"
           /\ errors["pytorch"] = "none" =>
                  \A p \in Range(ComparedPairs), i \in Pictures :
                      CompareDetectionLists(canonical[p[1]][i],
                                            canonical[p[2]][i]).status = "FAIL" =>
                          \E c \in Range(comparisons) : c.status = "FAIL"
  <1>1. CASE errors["pytorch"] = "none"
    <2>1. /\ \A c \in Range(comparisons) : \E p \in Range(ComparedPairs), i \in Pictures :
                 c = Compare(p, i)
          /\ \A p \in Range(ComparedPairs), i \in Pictures : Compare(p, i) \in Range(comparisons)
      BY <1>1, AllAreCompared
    <2>. QED
      BY <2>1, CompareFacts
  <1>2. CASE errors["pytorch"] # "none"
    <2>1. comparisons = <<>>
      BY <1>2 DEF AllInv, ReportInv
    <2>2. \A c : c \notin Range(comparisons)
      BY <2>1 DEF Range
    <2>. QED
      BY <1>2, <2>2
  <1>. QED
    BY <1>1, <1>2

\* The final status fails for what failed, and for nothing else.
LEMMA FinalTells ==
    ASSUME AllInv
    PROVE  FinalTellsAll
  <1>. SUFFICES ASSUME stage = "done"
                PROVE  outcome.final = "FAIL" <=>
                           \/ \E b \in Names, i \in Pictures : canonical[b][i] = Absent
                           \/ \E b \in Names : errors[b] # "none"
                           \/ \E p \in Range(ComparedPairs), i \in Pictures :
                                  CompareDetectionLists(canonical[p[1]][i],
                                                        canonical[p[2]][i]).status = "FAIL"
    BY DEF FinalTellsAll
  <1>. DEFINE R == {BackendRow(b) : b \in Names}
              C == StatusesOf(Range(comparisons))
  <1>1. outcome.final = OverallStatus(R \cup C)
    BY DEF AllInv, ReportInv, FinalStatus
  <1>2. "FAIL" \in R <=> \E b \in Names : BackendRow(b) = "FAIL"
    OBVIOUS
  <1>3. "FAIL" \in C <=> \E c \in Range(comparisons) : c.status = "FAIL"
    BY StatusesFacts
  <1>. HIDE DEF R, C
  <1>4. outcome.final = "FAIL" <=> "FAIL" \in R \/ "FAIL" \in C
    BY <1>1, OverallFacts
  <1>5. ASSUME NEW b \in Names, errors[b] # "none" PROVE "FAIL" \in R
    BY <1>2, <1>5, BackendRowFacts
  <1>6. ASSUME NEW b \in Names, NEW i \in Pictures, canonical[b][i] = Absent
        PROVE  "FAIL" \in R
    <2>1. CASE errors["pytorch"] # "none" \/ errors[b] # "none"
      BY <1>5, <2>1, NamesFacts
    <2>2. CASE errors["pytorch"] = "none" /\ errors[b] = "none"
      <3>1. RowOf(timings, b, i) \in Range(imageRows)
        BY <2>2, RowsAreTold
      <3>2. RowOf(timings, b, i).backend = b /\ RowOf(timings, b, i).status = "FAIL"
        BY <1>6, RowFacts
      <3>3. "FAIL" \in StatusesOfImages(b)
        BY <3>1, <3>2, StatusesFacts
      <3>. QED
        BY <1>2, <3>3, BackendRowFacts
    <2>. QED
      BY <2>1, <2>2
  <1>7. ASSUME NEW p \in Range(ComparedPairs), NEW i \in Pictures,
               CompareDetectionLists(canonical[p[1]][i], canonical[p[2]][i]).status = "FAIL"
        PROVE  "FAIL" \in R \/ "FAIL" \in C
    <2>1. CASE errors["pytorch"] # "none"
      BY <1>5, <2>1, NamesFacts
    <2>2. CASE errors["pytorch"] = "none"
      BY <1>3, <1>7, <2>2, ComparisonsTell
    <2>. QED
      BY <2>1, <2>2
  <1>8. ASSUME NEW c \in Range(comparisons), c.status = "FAIL"
        PROVE  \/ \E b \in Names, i \in Pictures : canonical[b][i] = Absent
               \/ \E p \in Range(ComparedPairs), i \in Pictures :
                      CompareDetectionLists(canonical[p[1]][i],
                                            canonical[p[2]][i]).status = "FAIL"
    BY <1>8, ComparisonsTell
  <1>9. ASSUME NEW b \in Names, BackendRow(b) = "FAIL", errors[b] = "none"
        PROVE  \/ \E a \in Names, i \in Pictures : canonical[a][i] = Absent
               \/ \E c \in Range(comparisons) : c.status = "FAIL"
    <2>1. "FAIL" \in StatusesOfImages(b) \/ "FAIL" \in StatusesOfPairs(b)
      BY <1>9, BackendRowFacts
    <2>2. CASE "FAIL" \in StatusesOfPairs(b)
      BY <2>2, StatusesFacts
    <2>3. CASE "FAIL" \in StatusesOfImages(b)
      <3>1. PICK row \in Range(imageRows) : row.backend = b /\ row.status = "FAIL"
        BY <2>3, StatusesFacts
      <3>2. PICK a \in Names, i \in Pictures : row = RowOf(timings, a, i)
        BY RowsAreTold
      <3>3. canonical[a][i] = Absent
        BY <3>1, <3>2, RowFacts
      <3>. QED
        BY <3>3
    <2>. QED
      BY <2>1, <2>2, <2>3
  <1>. QED
    BY <1>2, <1>3, <1>4, <1>5, <1>6, <1>7, <1>8, <1>9

\* No PASS hides a backend that gave other detections in a second run.
LEMMA PassIsStable ==
    ASSUME AllInv
    PROVE  PassMeansStable
  <1>. SUFFICES ASSUME stage = "done", outcome.final = "PASS",
                       NEW b \in Names \ {"pytorch"}, NEW i \in Pictures
                PROVE  /\ Len(timings[b][i]) = Repeat /\ ~Unstable(timings[b][i])
                       /\ \A k \in 1 .. Repeat : ~timings[b][i][k].fallback
    BY DEF PassMeansStable
  <1>. DEFINE R == {BackendRow(a) : a \in Names}
              C == StatusesOf(Range(comparisons))
              runs == timings[b][i]
  <1>1. outcome.final = OverallStatus(R \cup C)
    BY DEF AllInv, ReportInv, FinalStatus
  <1>2. \A a \in Names : BackendRow(a) \in R
    OBVIOUS
  <1>. HIDE DEF R, C
  <1>3. "FAIL" \notin R /\ "WARNING" \notin R
    BY <1>1, OverallFacts
  <1>4. \A a \in Names : BackendRow(a) \notin {"FAIL", "WARNING"}
    BY <1>2, <1>3
  <1>5. errors["pytorch"] = "none" /\ errors[b] = "none"
    BY <1>4, BackendRowFacts, NamesFacts
  <1>6. RowOf(timings, b, i) \in Range(imageRows)
    BY <1>5, RowsAreTold
  <1>7. RowOf(timings, b, i).backend = b /\ RowOf(timings, b, i).status = StatusOf(runs)
        /\ runs \in Seq(Runs)
    BY RowFacts
  <1>8. StatusOf(runs) \in StatusesOfImages(b)
    BY <1>6, <1>7, StatusesFacts
  <1>9. StatusOf(runs) \notin {"FAIL", "WARNING"}
    BY <1>4, <1>8, BackendRowFacts
  <1>10. Len(runs) <= Repeat /\ Len(runs) \in Nat
    BY <1>7 DEF AllInv, MeasuredInv
  <1>. HIDE DEF runs
  <1>11. Len(runs) = Repeat /\ ImageRow(runs) # "WARNING"
    BY <1>9, <1>10, RepeatIsPositive DEF StatusOf
  <1>12. ~Unstable(runs) /\ ~(\E k \in DOMAIN runs : runs[k].fallback)
    BY <1>11, Zenon DEF ImageRow
  <1>13. DOMAIN runs = 1 .. Repeat
    BY <1>7, <1>11
  <1>14. \A k \in 1 .. Repeat : ~runs[k].fallback
    BY <1>12, <1>13, Zenon
  <1>. QED
    BY <1>11, <1>12, <1>14 DEF runs

\* The images that a comparison did not pass are some of the images.
LEMMA DifferingArePictures ==
    ASSUME AllInv, stage = "done", NEW i \in Differing
    PROVE  i \in Pictures
  <1>1. PICK c \in Range(comparisons) : i = c.image
    BY DEF Differing
  <1>2. errors["pytorch"] = "none"
    <2>1. \A x : x \notin Range(<<>>)
      BY DEF Range
    <2>. QED
      BY <1>1, <2>1 DEF AllInv, ReportInv
  <1>3. PICK p \in Range(ComparedPairs), j \in Pictures : c = Compare(p, j)
    BY <1>2, AllAreCompared
  <1>. QED
    BY <1>1, <1>3, CompareFacts

\* The image whose detections are taken for a name is the first that has any.
LEMMA FirstIsFound ==
    ASSUME NEW names, NEW n, NEW b, Found(names, n, b) # {}
    PROVE  LET first == Min(Found(names, n, b))
           IN  /\ first \in Pictures /\ names[first] = n /\ canonical[b][first] # Absent
               /\ \A j \in Pictures : names[j] = n /\ j < first => canonical[b][j] = Absent
  <1>. DEFINE S == Found(names, n, b)
  <1>1. \A j : j \in S <=> j \in Pictures /\ names[j] = n /\ canonical[b][j] # Absent
    BY DEF Found
  <1>2. S \in SUBSET Nat /\ S # {}
    BY <1>1, NamesFacts
  <1>. HIDE DEF S
  <1>3. Min(S) \in S /\ \A j \in S : Min(S) <= j
    BY <1>2, LeastIsOne
  <1>4. \A j \in Pictures : j \in Nat
    BY NamesFacts
  <1>. QED
    BY <1>1, <1>3, <1>4 DEF S

\* The names of a stem that a file is written for.
Written(names, stem, b) ==
    {n \in {names[i] : i \in Differing} : n.stem = stem /\ Found(names, n, b) # {}}

\* One of them is the last, so the file there is of that name, with the detections
\* of the first image that has it.
LEMMA FileFacts ==
    ASSUME AllInv, stage = "done", NEW names \in Namings, NEW stem, NEW b
    PROVE  IF Written(names, stem, b) = {} THEN CaseFile(names, stem, b) = Absent
           ELSE \E n \in Written(names, stem, b) :
                    CaseFile(names, stem, b)
                        = [image |-> n, of |-> Min(Found(names, n, b))]
  <1>. DEFINE W == Written(names, stem, b)
              S == {n.suffix : n \in W}
              last == CHOOSE n \in W : \A m \in W : m.suffix <= n.suffix
  <1>1. CaseFile(names, stem, b)
            = IF W = {} THEN Absent
              ELSE [image |-> last, of |-> Min(Found(names, last, b))]
    BY DEF CaseFile, Written
  <1>2. ASSUME W # {} PROVE last \in W
    <2>1. \A n \in W : \E i \in Pictures : n = names[i]
      BY DifferingArePictures DEF Written
    <2>2. \A i \in Pictures : names[i].suffix \in Nat
      BY ImagesAreNamed, NamesFacts DEF ImageNames
    <2>3. IsFiniteSet(S)
      <3>. DEFINE f == [i \in Pictures |-> names[i].suffix]
                  All == {f[i] : i \in Pictures}
      <3>1. IsFiniteSet(Pictures) /\ f \in [Pictures -> Nat]
        BY <2>2, NamesFacts, FS_Interval
      <3>2. S \subseteq All
        BY <2>1
      <3>. HIDE DEF f, S
      <3>3. IsFiniteSet(All)
        BY <3>1, ImageIsFinite
      <3>. QED
        BY <3>2, <3>3, FS_Subset
    <2>4. S \subseteq Nat /\ S # {}
      BY <1>2, <2>1, <2>2
    <2>5. PICK s \in S : \A t \in S : t <= s
      <3>. HIDE DEF S
      <3>. QED
        BY <2>3, <2>4, GreatestIsOne
    <2>6. PICK n \in W : s = n.suffix
      BY <2>5
    <2>7. \A m \in W : m.suffix <= n.suffix
      BY <2>5, <2>6
    <2>. HIDE DEF W
    <2>. QED
      BY <2>6, <2>7
  <1>. QED
    BY <1>1, <1>2

\* Every image that was not passed has its case, and what is in it is known.
LEMMA CasesAreTold ==
    ASSUME AllInv
    PROVE  CasesTell
  <1>. SUFFICES ASSUME stage = "done" PROVE CasesTell
    BY DEF CasesTell
  <1>1. PICK names \in Namings :
            outcome = [final |-> FinalStatus, names |-> names, cases |-> MismatchCases(names)]
    BY DEF AllInv, ReportInv
  <1>2. outcome.names = names /\ outcome.cases = MismatchCases(names)
    BY <1>1
  <1>. SUFFICES ASSUME NEW i \in Differing
                PROVE  LET files == MismatchCases(names)[names[i].stem]
                       IN  /\ names[i].stem \in DOMAIN MismatchCases(names)
                           /\ \A b \in Names :
                                  /\ canonical[b][i] # Absent => files[b] # Absent
                                  /\ Unmistakable(i) =>
                                         files[b] = IF canonical[b][i] = Absent THEN Absent
                                                    ELSE [image |-> names[i], of |-> i]
                                  /\ files[b] # Absent =>
                                         /\ \E j \in Differing :
                                                /\ names[j] = files[b].image
                                                /\ names[j].stem = names[i].stem
                                         /\ files[b].of \in Pictures
                                         /\ names[files[b].of] = files[b].image
                                         /\ canonical[b][files[b].of] # Absent
                                         /\ \A j \in Pictures :
                                                names[j] = files[b].image /\ j < files[b].of =>
                                                    canonical[b][j] = Absent
    BY <1>2 DEF CasesTell
  <1>3. i \in Pictures
    BY DifferingArePictures
  <1>4. /\ names[i].stem \in DOMAIN MismatchCases(names)
        /\ \A b \in Names :
               MismatchCases(names)[names[i].stem][b] = CaseFile(names, names[i].stem, b)
    BY DEF MismatchCases
  <1>. SUFFICES ASSUME NEW b \in Names
                PROVE  LET file == CaseFile(names, names[i].stem, b)
                       IN  /\ canonical[b][i] # Absent => file # Absent
                           /\ Unmistakable(i) =>
                                  file = IF canonical[b][i] = Absent THEN Absent
                                         ELSE [image |-> names[i], of |-> i]
                           /\ file # Absent =>
                                  /\ \E j \in Differing :
                                         names[j] = file.image /\ names[j].stem = names[i].stem
                                  /\ file.of \in Pictures
                                  /\ names[file.of] = file.image
                                  /\ canonical[b][file.of] # Absent
                                  /\ \A j \in Pictures :
                                         names[j] = file.image /\ j < file.of =>
                                             canonical[b][j] = Absent
    BY <1>4
  <1>. DEFINE stem == names[i].stem
              file == CaseFile(names, stem, b)
              W == Written(names, stem, b)
  <1>5. \A j \in Pictures : names[j] \in ImageNames
    BY ImagesAreNamed, NamesFacts
  <1>6. \A n : n \in W <=> /\ \E j \in Differing : n = names[j]
                           /\ n.stem = stem /\ Found(names, n, b) # {}
    BY DEF Written
  <1>7. \A n, j : j \in Found(names, n, b) <=>
                      j \in Pictures /\ names[j] = n /\ canonical[b][j] # Absent
    BY DEF Found
  <1>8. CASE W = {}
    <2>1. file = Absent
      BY <1>8, FileFacts
    <2>2. canonical[b][i] = Absent
      BY <1>3, <1>6, <1>7, <1>8
    <2>. QED
      BY <2>1, <2>2
  <1>9. CASE W # {}
    <2>1. PICK n \in W : file = [image |-> n, of |-> Min(Found(names, n, b))]
      BY <1>9, FileFacts
    <2>. DEFINE first == Min(Found(names, n, b))
    <2>2. PICK d \in Differing : n = names[d]
      BY <1>6
    <2>3. n.stem = stem /\ Found(names, n, b) # {}
      BY <1>6
    <2>4. /\ first \in Pictures /\ names[first] = n /\ canonical[b][first] # Absent
          /\ \A j \in Pictures : names[j] = n /\ j < first => canonical[b][j] = Absent
      BY <2>3, FirstIsFound
    <2>. HIDE DEF file, W, first
    <2>5. file.image = n /\ file.of = first /\ file = [image |-> n, of |-> first]
      BY <2>1 DEF first
    <2>6. file # Absent
      <3>1. first \in Nat /\ n \in ImageNames
        BY <1>5, <2>4, NamesFacts
      <3>. QED
        BY <2>5, <3>1, AbsentIsNone DEF Files
    <2>7. ASSUME Unmistakable(i) PROVE n = names[i] /\ first = i
      <3>1. d = i
        BY <1>2, <2>2, <2>3, <2>7 DEF Unmistakable
      <3>. QED
        BY <1>2, <2>2, <2>4, <2>7, <3>1 DEF Unmistakable
    <2>8. /\ \E j \in Differing : names[j] = file.image /\ names[j].stem = stem
          /\ file.of \in Pictures /\ names[file.of] = file.image
          /\ canonical[b][file.of] # Absent
          /\ \A j \in Pictures :
                 names[j] = file.image /\ j < file.of => canonical[b][j] = Absent
      BY <2>2, <2>3, <2>4, <2>5
    <2>9. Unmistakable(i) => file = IF canonical[b][i] = Absent THEN Absent
                                    ELSE [image |-> names[i], of |-> i]
      BY <2>4, <2>5, <2>7
    <2>. QED
      BY <2>6, <2>8, <2>9 DEF file
  <1>. QED
    BY <1>8, <1>9

\* The reports tell what was measured: every comparison of a finished run is
\* there, the final status is of all backends, images and pairs, and one backend
\* at a time had its runner.
THEOREM ReportsAlwaysTell == Spec => []ReportsTellMeasurements
  <1>1. AllInv => ReportsTellMeasurements
    BY OneRunner, GateHolds, RowsTell, FinalTells, PassIsStable, CasesAreTold
       DEF ReportsTellMeasurements
  <1>. QED
    BY <1>1, AllIsInvariant, PTL

-----------------------------------------------------------------------------
\* The two programs that compare a pair of backends.

\* What a result tells of image k.
Tells(row, k, which) ==
    /\ row.image = k
    /\ row.status \in {"PASS", "WARNING", "FAIL", "ERROR"}
    /\ row.timed = IF row.status = "ERROR" THEN {} ELSE {k}
    /\ which = "torch" /\ row.status \in {"PASS", "WARNING"} =>
           (row.status = "PASS" <=> row.worst.confidence <= 10 /\ row.worst.iou >= 990)

\* A result as it is kept in the list.
Worsts == {<<>>} \cup [confidence : Nat, iou : Nat, box : Nat]
BatchRows == [image : Nat, status : {"PASS", "WARNING", "FAIL", "ERROR"}, worst : Worsts,
              timed : SUBSET Nat]

\* Where the batch is.
RoundInv ==
    /\ pair \in {"torch", "cpp"}
    /\ at \in 1 .. Len(PairedStem) + 1
    /\ step \in {"compare", "rescue"} => at \in Shots
    /\ step = "compare" => answers \in PairedLists \X PairedLists
    /\ step \in {"models", "infer", "compare", "rescue", "done", "died"}

\* Every image before this one has its result,
ResultsInv ==
    step # "died" =>
        /\ imageResults \in Seq(BatchRows) /\ Len(imageResults) = at - 1
        /\ \A k \in 1 .. at - 1 : Tells(imageResults[k], k, pair)

\* the last of each stem its file, and what did not pass a copy,
FilesInv ==
    step # "died" =>
        /\ DOMAIN perImage = Range(PairedStem)
        /\ \A k \in 1 .. at - 1 :
               (\A j \in 1 .. at - 1 : PairedStem[j] = PairedStem[k] => j <= k) =>
                   perImage[PairedStem[k]] = imageResults[k]
        /\ pair = "cpp" =>
               \A k : k \in copied <=> k \in 1 .. at - 1 /\ imageResults[k].status # "PASS"

\* and what was measured its timings.  An image whose files could not be written
\* has them before it has its result.
TimingsInv ==
    step # "died" =>
        /\ timingRows \in Seq(Nat)
        /\ \A j, k \in DOMAIN timingRows : j < k => timingRows[j] < timingRows[k]
        /\ \A i \in Range(timingRows) :
               i \in 1 .. at - 1 \/ (i = at /\ step = "rescue" /\ pair = "torch")
        /\ \A k \in 1 .. at - 1 : imageResults[k].status # "ERROR" => k \in Range(timingRows)
        /\ pair = "cpp" =>
               \A k \in Range(timingRows) : k \in 1 .. at - 1 /\ imageResults[k].status # "ERROR"

\* The summary's status.
SummaryStatus ==
    IF pair = "torch" /\ WorstStatus = "PASS" /\ ~SpeedValid THEN "WARNING" ELSE WorstStatus

\* The summary follows from the results.
SummaryInv ==
    step = "done" =>
        /\ closing.exit = ExitCode(SummaryStatus)
        /\ closing.accurate <=> AccuracyValid
        /\ closing.speed <=> SpeedValid
        /\ closing.statistics = timingRows
        /\ closing.timed = UNION {row.timed : row \in Range(imageResults)}

\* What holds of the batch in every state.
BatchInv == RoundInv /\ ResultsInv /\ FilesInv /\ TimingsInv /\ SummaryInv

\* The images are numbered, and each has a stem.
LEMMA ShotsFacts ==
    /\ Shots = 1 .. Len(PairedStem) /\ Len(PairedStem) \in Nat
    /\ \A k \in Shots : PairedStem[k] \in Range(PairedStem)
  <1>1. Shots = 1 .. Len(PairedStem) /\ Len(PairedStem) \in Nat
    BY ShotsAreNamed DEF Shots
  <1>. QED
    BY <1>1 DEF Range, Shots

\* What a list gains by an element.
LEMMA ListGrows ==
    ASSUME NEW S, NEW s \in Seq(S), NEW x \in S
    PROVE  /\ Append(s, x) \in Seq(S) /\ Len(Append(s, x)) = Len(s) + 1
           /\ \A k \in 1 .. Len(s) : Append(s, x)[k] = s[k]
           /\ Append(s, x)[Len(s) + 1] = x
           /\ \A y : y \in Range(Append(s, x)) <=> y \in Range(s) \/ y = x
  <1>1. /\ Append(s, x) \in Seq(S) /\ Len(Append(s, x)) = Len(s) + 1
        /\ \A k \in 1 .. Len(s) : Append(s, x)[k] = s[k]
        /\ Append(s, x)[Len(s) + 1] = x
    OBVIOUS
  <1>. QED
    BY <1>1, RangeGrows

\* What is noted of an image tells of it.
LEMMA NotedTells ==
    ASSUME RoundInv, at \in Shots
    PROVE  /\ Failed \in BatchRows /\ Tells(Failed, at, pair) /\ Failed.status = "ERROR"
           /\ step = "compare" => /\ Measured \in BatchRows /\ Tells(Measured, at, pair)
                                  /\ Measured.status # "ERROR"
  <1>1. at \in Nat /\ pair \in {"torch", "cpp"}
    BY DEF RoundInv
  <1>. DEFINE none == {}
  <1>2. none \subseteq Nat /\ {at} \subseteq Nat
    BY <1>1
  <1>. HIDE DEF none
  <1>3. Failed = [image |-> at, status |-> "ERROR", worst |-> <<>>, timed |-> none]
    BY DEF Failed, ResultRow, none
  <1>4. Failed \in BatchRows
    BY <1>1, <1>2, <1>3 DEF BatchRows, Worsts
  <1>5. Tells(Failed, at, pair) /\ Failed.status = "ERROR"
    BY <1>3 DEF Tells, none
  <1>6. ASSUME step = "compare"
        PROVE  Measured \in BatchRows /\ Tells(Measured, at, pair) /\ Measured.status # "ERROR"
    <2>. DEFINE l == answers[1]
                r == answers[2]
                M == MatchDetections(l, r)
                w == Worst(l, r, M)
                c == Compared
    <2>1. l \in Seq(Detections) /\ r \in Seq(Detections)
      BY <1>6, PairedListsAreRead DEF RoundInv
    <2>2. w.confidence \in Nat /\ w.iou \in Nat /\ w.box \in Nat
      <3>1. Sound(l, r, M)
        BY <2>1, Matched
      <3>. HIDE DEF l, r, M
      <3>. QED
        BY <2>1, <3>1, WorstFacts
    <2>3. w = [confidence |-> w.confidence, iou |-> w.iou, box |-> w.box]
      BY DEF Worst
    <2>. HIDE DEF w
    <2>4. w \in Worsts
      BY <2>2, <2>3 DEF Worsts
    <2>5. CASE pair = "torch"
      <3>1. Compared = CompareDetectionSets(l, r)
        BY <2>5 DEF Compared
      <3>2. c.worst = w /\ c.status = CompareDetectionLists(l, r).status
        BY <2>1, <3>1, SetsStatus DEF w
      <3>3. CompareDetectionLists(l, r).status =
                IF Alone(l, r, M) THEN "FAIL"
                ELSE IF w.confidence > 10 \/ w.iou < 990 THEN "WARNING" ELSE "PASS"
        BY <2>1, ListsStatus DEF w
      <3>. HIDE DEF c, l, r, M
      <3>4. /\ c.status \in {"PASS", "WARNING", "FAIL"}
            /\ c.status \in {"PASS", "WARNING"} =>
                   (c.status = "PASS" <=> c.worst.confidence <= 10 /\ c.worst.iou >= 990)
        BY <2>2, <3>2, <3>3
      <3>5. Measured = [image |-> at, status |-> c.status, worst |-> c.worst, timed |-> {at}]
        BY <3>4 DEF Measured, ResultRow, c
      <3>6. Measured \in BatchRows
        BY <1>1, <1>2, <2>4, <3>2, <3>4, <3>5 DEF BatchRows
      <3>7. Tells(Measured, at, pair) /\ Measured.status # "ERROR"
        BY <3>4, <3>5 DEF Tells
      <3>. QED
        BY <3>6, <3>7
    <2>6. CASE pair = "cpp"
      <3>1. Compared = CompareResults(l, r)
        BY <2>6 DEF Compared
      <3>2. c.worst = w
        BY <3>1 DEF CompareResults, w
      <3>3. c.status \in {"PASS", "WARNING", "FAIL"}
        BY <2>1, <3>1, ResultsStatus
      <3>. HIDE DEF c, l, r, M
      <3>5. Measured = [image |-> at, status |-> c.status, worst |-> c.worst, timed |-> {at}]
        BY <3>3 DEF Measured, ResultRow, c
      <3>6. Measured \in BatchRows
        BY <1>1, <1>2, <2>4, <3>2, <3>3, <3>5 DEF BatchRows
      <3>7. Tells(Measured, at, pair) /\ Measured.status # "ERROR"
        BY <2>6, <3>3, <3>5 DEF Tells
      <3>. QED
        BY <3>6, <3>7
    <2>. QED
      BY <1>1, <2>5, <2>6
  <1>. QED
    BY <1>4, <1>5, <1>6

\* An image has its result, its file, and the copy it needs.
LEMMA Noted ==
    ASSUME RoundInv, ResultsInv, FilesInv, step # "died", at \in Shots,
           NEW row \in BatchRows, Tells(row, at, pair),
           imageResults' = Append(imageResults, row),
           perImage' = [perImage EXCEPT ![PairedStem[at]] = row],
           pair = "cpp" => copied' = IF ShouldCopy(row.status) THEN copied \cup {at} ELSE copied,
           at' = at + 1, step' = "infer", UNCHANGED pair
    PROVE  /\ RoundInv' /\ ResultsInv' /\ FilesInv'
           /\ \A k \in 1 .. at - 1 : imageResults'[k] = imageResults[k]
           /\ imageResults'[at] = row
  <1>1. /\ at \in Nat /\ at \in 1 .. Len(PairedStem) /\ Len(PairedStem) \in Nat
        /\ at' \in Nat /\ at' - 1 = at
    BY ShotsFacts
  <1>2. /\ imageResults \in Seq(BatchRows) /\ Len(imageResults) = at - 1
        /\ \A k \in 1 .. at - 1 : Tells(imageResults[k], k, pair)
    BY DEF ResultsInv
  <1>3. /\ imageResults' \in Seq(BatchRows) /\ Len(imageResults') = at
        /\ \A k \in 1 .. at - 1 : imageResults'[k] = imageResults[k]
        /\ imageResults'[at] = row
    BY <1>1, <1>2, ListGrows
  <1>4. \A k \in 1 .. at : k \in 1 .. at - 1 \/ k = at
    BY <1>1
  <1>5. RoundInv'
    BY <1>1 DEF RoundInv
  <1>6. ResultsInv'
    <2>1. \A k \in 1 .. at : Tells(imageResults'[k], k, pair)
      BY <1>2, <1>3, <1>4
    <2>. QED
      BY <1>1, <1>3, <2>1 DEF ResultsInv
  <1>7. FilesInv'
    <2>1. /\ DOMAIN perImage' = Range(PairedStem)
          /\ \A s \in Range(PairedStem) :
                 perImage'[s] = IF s = PairedStem[at] THEN row ELSE perImage[s]
      BY DEF FilesInv
    <2>2. ASSUME NEW k \in 1 .. at,
                 \A j \in 1 .. at : PairedStem[j] = PairedStem[k] => j <= k
          PROVE  perImage'[PairedStem[k]] = imageResults'[k]
      <3>1. PairedStem[k] \in Range(PairedStem) /\ PairedStem[at] \in Range(PairedStem)
        BY <1>1, ShotsFacts
      <3>2. CASE k = at
        BY <1>3, <2>1, <3>1, <3>2
      <3>3. CASE k # at
        <4>1. k \in 1 .. at - 1 /\ ~(at <= k)
          BY <1>1, <3>3
        <4>2. PairedStem[at] # PairedStem[k]
          BY <1>1, <2>2, <4>1
        <4>3. perImage[PairedStem[k]] = imageResults[k]
          <5>1. \A j \in 1 .. at - 1 : j \in 1 .. at
            BY <1>1
          <5>. QED
            BY <2>2, <4>1, <5>1 DEF FilesInv
        <4>. QED
          BY <1>3, <2>1, <3>1, <4>1, <4>2, <4>3
      <3>. QED
        BY <3>2, <3>3
    <2>3. ASSUME pair = "cpp", NEW k
          PROVE  k \in copied' <=> k \in 1 .. at /\ imageResults'[k].status # "PASS"
      <3>1. k \in copied <=> k \in 1 .. at - 1 /\ imageResults[k].status # "PASS"
        BY <2>3 DEF FilesInv
      <3>2. k \in copied' <=> k \in copied \/ (k = at /\ ShouldCopy(row.status))
        BY <2>3
      <3>3. ShouldCopy(row.status) <=> row.status # "PASS"
        BY DEF ShouldCopy, Tells
      <3>4. CASE k = at
        <4>1. k \notin 1 .. at - 1
          BY <1>1, <3>4
        <4>. QED
          BY <1>1, <1>3, <3>1, <3>2, <3>3, <3>4, <4>1
      <3>5. CASE k # at
        <4>1. k \in 1 .. at <=> k \in 1 .. at - 1
          BY <1>1, <3>5
        <4>. QED
          BY <1>3, <3>1, <3>2, <3>5, <4>1
      <3>. QED
        BY <3>4, <3>5
    <2>. QED
      BY <1>1, <2>1, <2>2, <2>3 DEF FilesInv
  <1>. QED
    BY <1>3, <1>5, <1>6, <1>7

\* The timings of an image follow those of the images before it.
LEMMA Timed ==
    ASSUME NEW s \in Seq(Nat), NEW i \in Nat,
           \A j, k \in DOMAIN s : j < k => s[j] < s[k],
           \A j \in Range(s) : j < i
    PROVE  /\ Append(s, i) \in Seq(Nat)
           /\ \A j, k \in DOMAIN Append(s, i) : j < k => Append(s, i)[j] < Append(s, i)[k]
           /\ \A j : j \in Range(Append(s, i)) <=> j \in Range(s) \/ j = i
  <1>. DEFINE t == Append(s, i)
  <1>1. /\ t \in Seq(Nat) /\ Len(t) = Len(s) + 1
        /\ \A k \in 1 .. Len(s) : t[k] = s[k]
        /\ t[Len(s) + 1] = i
        /\ \A y : y \in Range(t) <=> y \in Range(s) \/ y = i
    BY ListGrows
  <1>2. DOMAIN s = 1 .. Len(s) /\ Len(s) \in Nat /\ \A j \in 1 .. Len(s) : s[j] \in Range(s)
    BY DEF Range
  <1>3. DOMAIN t = 1 .. Len(s) + 1
    BY <1>1, <1>2
  <1>. HIDE DEF t
  <1>4. ASSUME NEW j \in DOMAIN t, NEW k \in DOMAIN t, j < k PROVE t[j] < t[k]
    <2>1. j \in 1 .. Len(s)
      BY <1>2, <1>3, <1>4
    <2>2. CASE k \in 1 .. Len(s)
      BY <1>1, <1>2, <1>4, <2>1, <2>2
    <2>3. CASE k = Len(s) + 1
      BY <1>1, <1>2, <2>1, <2>3
    <2>. QED
      BY <1>2, <1>3, <2>2, <2>3
  <1>. QED
    BY <1>1, <1>4 DEF t

\* A step that notes no image.
LEMMA BatchStays ==
    ASSUME BatchInv, UNCHANGED <<pair, at, imageResults, perImage, copied, timingRows>>,
           step \notin {"died", "rescue"}, step' \in {"infer", "compare", "rescue", "died", "done"},
           step' \in {"compare", "rescue"} => at \in Shots,
           step' = "compare" => answers' \in PairedLists \X PairedLists,
           SummaryInv'
    PROVE  BatchInv'
  <1>1. RoundInv'
    BY DEF BatchInv, RoundInv
  <1>2. ResultsInv'
    BY DEF BatchInv, ResultsInv
  <1>3. FilesInv'
    BY DEF BatchInv, FilesInv
  <1>4. TimingsInv'
    BY DEF BatchInv, TimingsInv
  <1>. QED
    BY <1>1, <1>2, <1>3, <1>4 DEF BatchInv

\* The program ends here.
LEMMA BatchDies ==
    ASSUME BatchInv, UNCHANGED <<pair, at>>, step' = "died"
    PROVE  BatchInv'
  BY DEF BatchInv, RoundInv, ResultsInv, FilesInv, TimingsInv, SummaryInv

\* Every step of a batch keeps all that.
LEMMA BatchStep ==
    ASSUME BatchInv, PairedNext
    PROVE  BatchInv'
  <1>1. ASSUME BuildRunners PROVE BatchInv'
    <2>1. SummaryInv' /\ step' \in {"infer", "died"}
      BY <1>1 DEF BuildRunners, SummaryInv
    <2>. QED
      BY <1>1, <2>1, BatchStays DEF BuildRunners
  <1>2. ASSUME RunBackends PROVE BatchInv'
    <2>1. SummaryInv' /\ step' \in {"compare", "rescue"}
      BY <1>2 DEF RunBackends, SummaryInv
    <2>. QED
      BY <1>2, <2>1, BatchStays DEF RunBackends
  <1>3. ASSUME CompareAndSave PROVE BatchInv'
    <2>1. /\ RoundInv /\ ResultsInv /\ FilesInv /\ TimingsInv /\ at \in Shots /\ at \in Nat
          /\ step = "compare" /\ pair = "torch"
      BY <1>3 DEF BatchInv, RoundInv, CompareAndSave
    <2>2. /\ Measured \in BatchRows /\ Tells(Measured, at, pair) /\ Measured.status # "ERROR"
      BY <2>1, NotedTells
    <2>3. /\ timingRows \in Seq(Nat)
          /\ \A i \in Range(timingRows) : i \in 1 .. at - 1 /\ i < at /\ i \in 1 .. at
          /\ \A j, k \in DOMAIN timingRows : j < k => timingRows[j] < timingRows[k]
          /\ \A k \in 1 .. at - 1 : imageResults[k].status # "ERROR" => k \in Range(timingRows)
      BY <2>1 DEF TimingsInv
    <2>4. /\ timingRows' \in Seq(Nat)
          /\ \A j, k \in DOMAIN timingRows' : j < k => timingRows'[j] < timingRows'[k]
          /\ \A j : j \in Range(timingRows') <=> j \in Range(timingRows) \/ j = at
      BY <1>3, <2>1, <2>3, Timed DEF CompareAndSave
    <2>5. CASE step' = "infer"
      <3>1. /\ imageResults' = Append(imageResults, Measured)
            /\ perImage' = [perImage EXCEPT ![PairedStem[at]] = Measured]
            /\ at' = at + 1 /\ UNCHANGED pair
        BY <1>3, <2>5 DEF CompareAndSave
      <3>2. /\ RoundInv' /\ ResultsInv' /\ FilesInv'
            /\ \A k \in 1 .. at - 1 : imageResults'[k] = imageResults[k]
            /\ imageResults'[at] = Measured
        BY <2>1, <2>2, <2>5, <3>1, Noted
      <3>3. at' \in Nat /\ at' - 1 = at /\ \A k \in 1 .. at : k \in 1 .. at - 1 \/ k = at
        BY <2>1, <3>1
      <3>4. \A i \in Range(timingRows') : i \in 1 .. at
        BY <2>1, <2>3, <2>4, ShotsFacts
      <3>5. \A k \in 1 .. at : imageResults'[k].status # "ERROR" => k \in Range(timingRows')
        BY <2>3, <2>4, <3>2, <3>3
      <3>6. TimingsInv'
        BY <2>1, <2>4, <3>1, <3>3, <3>4, <3>5 DEF TimingsInv
      <3>7. SummaryInv'
        BY <2>5 DEF SummaryInv
      <3>. QED
        BY <3>2, <3>6, <3>7 DEF BatchInv
    <2>6. CASE step' # "infer"
      <3>1. step' = "rescue" /\ UNCHANGED <<pair, at, imageResults, perImage, copied>>
        BY <1>3, <2>6 DEF CompareAndSave
      <3>2. RoundInv' /\ ResultsInv' /\ FilesInv' /\ SummaryInv'
        BY <2>1, <3>1 DEF RoundInv, ResultsInv, FilesInv, SummaryInv
      <3>3. TimingsInv'
        BY <2>1, <2>3, <2>4, <3>1 DEF TimingsInv
      <3>. QED
        BY <3>2, <3>3 DEF BatchInv
    <2>. QED
      BY <2>5, <2>6
  <1>4. ASSUME Rescued PROVE BatchInv'
    <2>1. /\ RoundInv /\ ResultsInv /\ FilesInv /\ TimingsInv /\ at \in Shots /\ at \in Nat
          /\ step = "rescue" /\ pair = "torch"
      BY <1>4 DEF BatchInv, RoundInv, Rescued
    <2>2. CASE step' = "died"
      BY <1>4, <2>2, BatchDies DEF Rescued
    <2>3. CASE step' # "died"
      <3>1. /\ imageResults' = Append(imageResults, Failed)
            /\ perImage' = [perImage EXCEPT ![PairedStem[at]] = Failed]
            /\ at' = at + 1 /\ step' = "infer" /\ UNCHANGED <<pair, timingRows>>
        BY <1>4, <2>3 DEF Rescued, ErrorRow
      <3>2. Failed \in BatchRows /\ Tells(Failed, at, pair) /\ Failed.status = "ERROR"
        BY <2>1, NotedTells
      <3>3. /\ RoundInv' /\ ResultsInv' /\ FilesInv'
            /\ \A k \in 1 .. at - 1 : imageResults'[k] = imageResults[k]
            /\ imageResults'[at] = Failed
        BY <2>1, <3>1, <3>2, Noted
      <3>4. at' \in Nat /\ at' - 1 = at /\ \A k \in 1 .. at : k \in 1 .. at - 1 \/ k = at
        BY <2>1, <3>1
      <3>5. \A i \in Range(timingRows) : i \in 1 .. at
        BY <2>1, ShotsFacts DEF TimingsInv
      <3>6. TimingsInv'
        BY <2>1, <3>1, <3>2, <3>3, <3>4, <3>5 DEF TimingsInv
      <3>7. SummaryInv'
        BY <3>1 DEF SummaryInv
      <3>. QED
        BY <3>3, <3>6, <3>7 DEF BatchInv
    <2>. QED
      BY <2>2, <2>3
  <1>5. ASSUME NoteAndSave PROVE BatchInv'
    <2>1. /\ RoundInv /\ ResultsInv /\ FilesInv /\ TimingsInv /\ at \in Shots /\ at \in Nat
          /\ step \in {"compare", "rescue"} /\ pair = "cpp"
      BY <1>5 DEF BatchInv, RoundInv, NoteAndSave
    <2>2. CASE step' = "died"
      BY <1>5, <2>2, BatchDies DEF NoteAndSave
    <2>3. CASE step' # "died"
      <3>1. PICK row \in IF step = "rescue" THEN {Failed} ELSE {Failed, Measured} :
                /\ imageResults' = Append(imageResults, row)
                /\ timingRows' = IF row.timed = {} THEN timingRows ELSE Append(timingRows, at)
                /\ perImage' = [perImage EXCEPT ![PairedStem[at]] = row]
                /\ copied' = IF ShouldCopy(row.status) THEN copied \cup {at} ELSE copied
                /\ at' = at + 1 /\ step' = "infer"
        BY <1>5, <2>3 DEF NoteAndSave
      <3>2. row \in BatchRows /\ Tells(row, at, pair) /\ UNCHANGED pair
        BY <1>5, <2>1, <3>1, NotedTells DEF NoteAndSave
      <3>3. /\ RoundInv' /\ ResultsInv' /\ FilesInv'
            /\ \A k \in 1 .. at - 1 : imageResults'[k] = imageResults[k]
            /\ imageResults'[at] = row
        BY <2>1, <3>1, <3>2, Noted
      <3>4. /\ at' \in Nat /\ at' - 1 = at /\ \A k \in 1 .. at : k \in 1 .. at - 1 \/ k = at
            /\ \A k \in 1 .. at - 1 : k < at /\ k < at' /\ k \in 1 .. at
            /\ at < at' /\ at \in 1 .. at
        BY <2>1, <3>1, ShotsFacts
      <3>5. /\ timingRows \in Seq(Nat)
            /\ \A j, k \in DOMAIN timingRows : j < k => timingRows[j] < timingRows[k]
            /\ \A k \in Range(timingRows) : k \in 1 .. at - 1 /\ imageResults[k].status # "ERROR"
            /\ \A k \in 1 .. at - 1 : imageResults[k].status # "ERROR" => k \in Range(timingRows)
        BY <2>1 DEF TimingsInv
      <3>6. row.timed = {} <=> row.status = "ERROR"
        <4>1. at \in {at} /\ at \notin {}
          OBVIOUS
        <4>. QED
          BY <3>2, <4>1 DEF Tells
      <3>7. CASE row.status = "ERROR"
        <4>1. timingRows' = timingRows
          BY <3>1, <3>6, <3>7
        <4>2. \A k \in Range(timingRows) : k < at'
          BY <2>1, <3>1, <3>4, <3>5
        <4>3. TimingsInv'
          BY <2>1, <3>1, <3>2, <3>3, <3>4, <3>5, <3>7, <4>1, <4>2 DEF TimingsInv
        <4>. QED
          BY <3>1, <3>3, <4>3 DEF BatchInv, SummaryInv
      <3>8. CASE row.status # "ERROR"
        <4>1. timingRows' = Append(timingRows, at)
          BY <3>1, <3>6, <3>8
        <4>2. \A i \in Range(timingRows) : i < at
          BY <3>4, <3>5
        <4>3. /\ timingRows' \in Seq(Nat)
              /\ \A j, k \in DOMAIN timingRows' : j < k => timingRows'[j] < timingRows'[k]
              /\ \A j : j \in Range(timingRows') <=> j \in Range(timingRows) \/ j = at
          BY <2>1, <3>5, <4>1, <4>2, Timed
        <4>4. \A k \in Range(timingRows') :
                  k < at' /\ k \in 1 .. at /\ imageResults'[k].status # "ERROR"
          <5>. SUFFICES ASSUME NEW k \in Range(timingRows')
                        PROVE  k < at' /\ k \in 1 .. at /\ imageResults'[k].status # "ERROR"
            OBVIOUS
          <5>1. CASE k \in Range(timingRows)
            BY <3>3, <3>4, <3>5, <5>1
          <5>2. CASE k = at
            BY <3>3, <3>4, <3>8, <5>2
          <5>. QED
            BY <4>3, <5>1, <5>2
        <4>5. \A k \in 1 .. at : imageResults'[k].status # "ERROR" => k \in Range(timingRows')
          BY <3>3, <3>4, <3>5, <4>3
        <4>6. TimingsInv'
          BY <2>1, <3>1, <3>2, <3>4, <4>3, <4>4, <4>5 DEF TimingsInv
        <4>. QED
          BY <3>1, <3>3, <4>6 DEF BatchInv, SummaryInv
      <3>. QED
        BY <3>7, <3>8
    <2>. QED
      BY <2>2, <2>3
  <1>6. ASSUME FinishBatch PROVE BatchInv'
    <2>1. /\ step = "infer" /\ step' = "done"
          /\ closing' = [status |-> SummaryStatus, exit |-> ExitCode(SummaryStatus),
                         accurate |-> AccuracyValid, speed |-> SpeedValid,
                         statistics |-> timingRows,
                         timed |-> UNION {row.timed : row \in Range(imageResults)}]
          /\ UNCHANGED <<pair, at, imageResults, perImage, copied, timingRows, valid>>
      BY <1>6, Zenon DEF FinishBatch, SummaryStatus
    <2>2. /\ closing'.exit = ExitCode(SummaryStatus)
          /\ closing'.accurate <=> AccuracyValid
          /\ closing'.speed <=> SpeedValid
          /\ closing'.statistics = timingRows
          /\ closing'.timed = UNION {row.timed : row \in Range(imageResults)}
      BY <2>1, Zenon
    <2>3. SummaryInv'
      <3>1. imageResults' = imageResults /\ Statuses' = Statuses
        BY <2>1 DEF Statuses
      <3>2. WorstStatus' = WorstStatus
        BY <3>1 DEF WorstStatus
      <3>3. SpeedValid' <=> SpeedValid
        BY <2>1, <3>1 DEF SpeedValid
      <3>4. AccuracyValid' <=> AccuracyValid
        BY <3>1 DEF AccuracyValid
      <3>5. SummaryStatus' = SummaryStatus
        BY <2>1, <3>2, <3>3 DEF SummaryStatus
      <3>6. ExitCode(SummaryStatus)' = ExitCode(SummaryStatus)
        BY <2>1, <3>5 DEF ExitCode
      <3>. QED
        BY <2>1, <2>2, <3>1, <3>3, <3>4, <3>6, Zenon DEF SummaryInv
    <2>. QED
      BY <2>1, <2>3, BatchStays
  <1>7. ASSUME FinishFails PROVE BatchInv'
    BY <1>7, BatchDies DEF FinishFails
  <1>. QED
    BY <1>1, <1>2, <1>3, <1>4, <1>5, <1>6, <1>7 DEF PairedNext

\* What a result tells, one by one.
LEMMA TellsFacts ==
    ASSUME NEW row, NEW k, NEW which, Tells(row, k, which)
    PROVE  /\ row.image = k
           /\ row.status \in {"PASS", "WARNING", "FAIL", "ERROR"}
           /\ row.status # "ERROR" => row.timed = {k}
           /\ row.status = "ERROR" => row.timed = {}
           /\ which = "torch" /\ row.status = "PASS" =>
                  row.worst.confidence <= 10 /\ row.worst.iou >= 990
           /\ which = "torch" /\ row.status = "WARNING" =>
                  ~(row.worst.confidence <= 10 /\ row.worst.iou >= 990)
  BY DEF Tells

\* So it holds whatever raises.
LEMMA BatchIsInvariant == Spec => []BatchInv
  <1>1. Init => BatchInv
    <2>. SUFFICES ASSUME PairedInit PROVE BatchInv
      BY DEF Init
    <2>. USE DEF PairedInit
    <2>1. RoundInv /\ SummaryInv
      BY ShotsFacts DEF RoundInv, SummaryInv
    <2>2. ResultsInv
      BY DEF ResultsInv
    <2>3. FilesInv
      BY DEF FilesInv
    <2>4. TimingsInv
      BY DEF TimingsInv, Range
    <2>. QED
      BY <2>1, <2>2, <2>3, <2>4 DEF BatchInv
  <1>2. BatchInv /\ [Next]_vars => BatchInv'
    <2>1. ASSUME BatchInv, PairedNext PROVE BatchInv'
      BY <2>1, BatchStep
    <2>2. ASSUME BatchInv, UNCHANGED pairedVars PROVE BatchInv'
      <3>. USE <2>2 DEF pairedVars
      <3>1. RoundInv' /\ ResultsInv' /\ FilesInv' /\ TimingsInv'
        BY DEF BatchInv, RoundInv, ResultsInv, FilesInv, TimingsInv
      <3>2. Statuses' = Statuses /\ imageResults' = imageResults /\ pair' = pair
            /\ closing' = closing /\ step' = step /\ timingRows' = timingRows
        BY DEF Statuses
      <3>3. WorstStatus' = WorstStatus
        BY <3>2 DEF WorstStatus
      <3>4. SpeedValid' <=> SpeedValid
        BY <3>2 DEF SpeedValid
      <3>5. AccuracyValid' <=> AccuracyValid
        BY <3>2 DEF AccuracyValid
      <3>6. SummaryStatus' = SummaryStatus
        BY <3>2, <3>3, <3>4 DEF SummaryStatus
      <3>7. ExitCode(SummaryStatus)' = ExitCode(SummaryStatus)
        BY <3>2, <3>6 DEF ExitCode
      <3>8. SummaryInv
        BY DEF BatchInv
      <3>9. SummaryInv'
        BY <3>2, <3>4, <3>5, <3>7, <3>8, Zenon DEF SummaryInv
      <3>. QED
        BY <3>1, <3>9 DEF BatchInv
    <2>. QED
      BY <2>1, <2>2 DEF Next, vars
  <1>. QED
    BY <1>1, <1>2, PTL DEF Spec

\* The results are of the images before this one.
LEMMA ResultsFacts ==
    ASSUME BatchInv, step # "died"
    PROVE  /\ at - 1 \in Nat /\ DOMAIN imageResults = 1 .. at - 1
           /\ \A k \in 1 .. at - 1 : /\ Tells(imageResults[k], k, pair)
                                     /\ imageResults[k] \in Range(imageResults)
           /\ \A row \in Range(imageResults) : \E k \in 1 .. at - 1 : row = imageResults[k]
           /\ \A s : s \in Statuses <=> \E k \in 1 .. at - 1 : s = imageResults[k].status
           /\ Statuses \subseteq {"PASS", "WARNING", "FAIL", "ERROR"}
  <1>1. /\ at - 1 \in Nat /\ DOMAIN imageResults = 1 .. at - 1
        /\ \A k \in 1 .. at - 1 : Tells(imageResults[k], k, pair)
    BY ShotsFacts DEF BatchInv, RoundInv, ResultsInv
  <1>2. /\ \A k \in 1 .. at - 1 : imageResults[k] \in Range(imageResults)
        /\ \A row \in Range(imageResults) : \E k \in 1 .. at - 1 : row = imageResults[k]
    BY <1>1 DEF Range
  <1>3. \A s : s \in Statuses <=> \E k \in 1 .. at - 1 : s = imageResults[k].status
    BY <1>2 DEF Statuses
  <1>4. Statuses \subseteq {"PASS", "WARNING", "FAIL", "ERROR"}
    BY <1>1, <1>3, TellsFacts
  <1>. QED
    BY <1>1, <1>2, <1>3, <1>4

\* Every image has one result, the last of each stem the file.
LEMMA ShotsHaveResults ==
    ASSUME BatchInv
    PROVE  EveryShotHasResult
  <1>. SUFFICES ASSUME step \in {"infer", "done"}
                PROVE  /\ [k \in DOMAIN imageResults |-> imageResults[k].image]
                              = [k \in 1 .. at - 1 |-> k]
                       /\ \A k \in 1 .. at - 1 :
                              perImage[PairedStem[k]]
                                  = imageResults[Max({j \in 1 .. at - 1 :
                                                          PairedStem[j] = PairedStem[k]})]
    BY DEF EveryShotHasResult
  <1>1. /\ at - 1 \in Nat /\ DOMAIN imageResults = 1 .. at - 1
        /\ \A k \in 1 .. at - 1 : Tells(imageResults[k], k, pair)
    BY ResultsFacts
  <1>2. [k \in DOMAIN imageResults |-> imageResults[k].image] = [k \in 1 .. at - 1 |-> k]
    BY <1>1, TellsFacts
  <1>3. ASSUME NEW k \in 1 .. at - 1
        PROVE  perImage[PairedStem[k]]
                   = imageResults[Max({j \in 1 .. at - 1 : PairedStem[j] = PairedStem[k]})]
    <2>. DEFINE J == {j \in 1 .. at - 1 : PairedStem[j] = PairedStem[k]}
    <2>1. IsFiniteSet(1 .. at - 1)
      <3>1. PICK n \in Nat : n = at - 1
        BY <1>1
      <3>. QED
        BY <3>1, FS_Interval
    <2>2. J \subseteq 1 .. at - 1 /\ J \subseteq Nat /\ k \in J
      BY <1>1
    <2>3. \A j : j \in J <=> j \in 1 .. at - 1 /\ PairedStem[j] = PairedStem[k]
      OBVIOUS
    <2>. HIDE DEF J
    <2>4. IsFiniteSet(J)
      BY <2>1, <2>2, FS_Subset
    <2>5. Max(J) \in J /\ \A j \in J : Max(J) >= j
      BY <2>2, <2>4, GreatestIsOne
    <2>6. PICK last \in J : last = Max(J) /\ \A j \in J : last >= j
      BY <2>5
    <2>7. last \in 1 .. at - 1 /\ PairedStem[last] = PairedStem[k]
      BY <2>3
    <2>8. \A j \in 1 .. at - 1 : PairedStem[j] = PairedStem[last] => j <= last
      BY <1>1, <2>2, <2>3, <2>6, <2>7
    <2>9. perImage[PairedStem[last]] = imageResults[last]
      BY <2>7, <2>8 DEF BatchInv, FilesInv
    <2>. QED
      BY <2>6, <2>7, <2>9 DEF J
  <1>. QED
    BY <1>2, <1>3

\* Exit code 0 is of images that agree.
LEMMA SuccessTells ==
    ASSUME BatchInv
    PROVE  SuccessMeansAgreement
  <1>. SUFFICES ASSUME step = "done", closing.exit = 0
                PROVE  /\ Statuses \cap {"FAIL", "ERROR"} = {}
                       /\ pair = "cpp" \/ FailOnWarning => Statuses \subseteq {"PASS"}
    BY DEF SuccessMeansAgreement
  <1>1. ExitCode(SummaryStatus) = 0
    BY DEF BatchInv, SummaryInv
  <1>2. /\ SummaryStatus \in {"PASS", "WARNING"}
        /\ pair = "cpp" \/ FailOnWarning => SummaryStatus = "PASS"
    BY <1>1 DEF ExitCode, BatchInv, RoundInv
  <1>3. /\ WorstStatus \in {"PASS", "WARNING"}
        /\ SummaryStatus = "PASS" => WorstStatus = "PASS"
    BY <1>2 DEF SummaryStatus
  <1>4. /\ "ERROR" \notin Statuses /\ "FAIL" \notin Statuses
        /\ WorstStatus = "PASS" => "WARNING" \notin Statuses
    BY <1>3 DEF WorstStatus
  <1>. QED
    BY <1>2, <1>3, <1>4, ResultsFacts

\* The totals say what the images say.
LEMMA AccuracyTells ==
    ASSUME BatchInv
    PROVE  AccuracyAgrees
  <1>. SUFFICES ASSUME step = "done", pair = "torch"
                PROVE  /\ closing.accurate <=> Statuses \subseteq {"PASS"}
                       /\ closing.speed => closing.timed = Range(closing.statistics)
    BY DEF AccuracyAgrees
  <1>1. /\ closing.accurate <=> AccuracyValid
        /\ closing.speed <=> SpeedValid
        /\ closing.statistics = timingRows
        /\ closing.timed = UNION {row.timed : row \in Range(imageResults)}
    BY Zenon DEF BatchInv, SummaryInv
  <1>2. AccuracyValid <=> Statuses \subseteq {"PASS"}
    <2>1. ASSUME Statuses \subseteq {"PASS"} PROVE AccuracyValid
      <3>1. "ERROR" \notin Statuses
        BY <2>1
      <3>2. ASSUME NEW row \in Range(imageResults)
            PROVE  row.status = "PASS" /\ row.worst.confidence <= 10 /\ row.worst.iou >= 990
        <4>1. PICK k \in 1 .. at - 1 : row = imageResults[k]
          BY ResultsFacts
        <4>2. Tells(row, k, pair) /\ row.status \in Statuses
          BY <4>1, ResultsFacts
        <4>. QED
          BY <2>1, <4>2, TellsFacts
      <3>. QED
        BY <3>1, <3>2 DEF AccuracyValid
    <2>2. ASSUME AccuracyValid PROVE Statuses \subseteq {"PASS"}
      <3>. SUFFICES ASSUME NEW s \in Statuses PROVE s = "PASS"
        OBVIOUS
      <3>1. PICK k \in 1 .. at - 1 : s = imageResults[k].status
        BY ResultsFacts
      <3>2. imageResults[k] \in Range(imageResults) /\ Tells(imageResults[k], k, pair)
        BY ResultsFacts
      <3>3. s # "ERROR"
        BY <2>2 DEF AccuracyValid
      <3>4. /\ s # "FAIL" /\ imageResults[k].worst.confidence <= 10
            /\ imageResults[k].worst.iou >= 990
        BY <2>2, <3>1, <3>2, <3>3 DEF AccuracyValid
      <3>. QED
        BY <3>1, <3>2, <3>3, <3>4, TellsFacts
    <2>. QED
      BY <2>1, <2>2
  <1>3. ASSUME SpeedValid
        PROVE  UNION {row.timed : row \in Range(imageResults)} = Range(timingRows)
    <2>1. "ERROR" \notin Statuses
      BY <1>3 DEF SpeedValid
    <2>2. \A k \in 1 .. at - 1 : imageResults[k].status # "ERROR"
      BY <2>1, ResultsFacts
    <2>3. \A i : i \in UNION {row.timed : row \in Range(imageResults)} <=> i \in 1 .. at - 1
      <3>1. \A row \in Range(imageResults) : \E k \in 1 .. at - 1 :
                row = imageResults[k] /\ row.timed = {k}
        BY <2>2, ResultsFacts, TellsFacts
      <3>2. \A k \in 1 .. at - 1 :
                imageResults[k] \in Range(imageResults) /\ imageResults[k].timed = {k}
        BY <2>2, ResultsFacts, TellsFacts
      <3>. QED
        BY <3>1, <3>2
    <2>4. \A i : i \in Range(timingRows) <=> i \in 1 .. at - 1
      <3>1. /\ \A i \in Range(timingRows) : i \in 1 .. at - 1
            /\ \A k \in 1 .. at - 1 : k \in Range(timingRows)
        BY <2>2 DEF BatchInv, TimingsInv
      <3>. QED
        BY <3>1
    <2>. QED
      BY <2>3, <2>4
  <1>. QED
    BY <1>1, <1>2, <1>3

\* The statistics are of the images in the timing file, in their order.
LEMMA TimingsTell ==
    ASSUME BatchInv
    PROVE  TimingsAreOfResults
  <1>. SUFFICES ASSUME step = "done"
                PROVE  /\ \A j, k \in DOMAIN closing.statistics :
                              j < k => closing.statistics[j] < closing.statistics[k]
                       /\ closing.timed \subseteq Range(closing.statistics)
                       /\ \A i \in Range(closing.statistics) :
                              imageResults[i].status # "ERROR" <=> i \in closing.timed
                       /\ pair = "cpp" => closing.timed = Range(closing.statistics)
    BY DEF TimingsAreOfResults
  <1>. DEFINE T == UNION {row.timed : row \in Range(imageResults)}
  <1>1. closing.statistics = timingRows /\ closing.timed = T
    BY Zenon DEF BatchInv, SummaryInv
  <1>2. /\ \A j, k \in DOMAIN timingRows : j < k => timingRows[j] < timingRows[k]
        /\ \A i \in Range(timingRows) : i \in 1 .. at - 1
        /\ \A k \in 1 .. at - 1 : imageResults[k].status # "ERROR" => k \in Range(timingRows)
        /\ pair = "cpp" => \A k \in Range(timingRows) : imageResults[k].status # "ERROR"
    BY DEF BatchInv, TimingsInv
  <1>3. \A i : i \in T <=> i \in 1 .. at - 1 /\ imageResults[i].status # "ERROR"
    <2>1. \A row \in Range(imageResults) : \A i \in row.timed :
              i \in 1 .. at - 1 /\ row = imageResults[i] /\ row.status # "ERROR"
      <3>. TAKE row \in Range(imageResults)
      <3>. TAKE i \in row.timed
      <3>1. PICK k \in 1 .. at - 1 : row = imageResults[k]
        BY ResultsFacts
      <3>2. Tells(row, k, pair)
        BY <3>1, ResultsFacts
      <3>3. row.status # "ERROR" /\ row.timed = {k}
        BY <3>2, TellsFacts
      <3>. QED
        BY <3>1, <3>3
    <2>2. \A k \in 1 .. at - 1 : imageResults[k] \in Range(imageResults) /\
              (imageResults[k].status # "ERROR" => imageResults[k].timed = {k})
      BY ResultsFacts, TellsFacts
    <2>. QED
      BY <2>1, <2>2
  <1>. HIDE DEF T
  <1>. QED
    BY <1>1, <1>2, <1>3

\* What did not pass is copied.
LEMMA CopiesTell ==
    ASSUME BatchInv
    PROVE  FailureCasesKept
  <1>. SUFFICES ASSUME step = "done", pair = "cpp"
                PROVE  copied = {row.image : row \in {r \in Range(imageResults) :
                                                          r.status # "PASS"}}
    BY DEF FailureCasesKept
  <1>1. \A k : k \in copied <=> k \in 1 .. at - 1 /\ imageResults[k].status # "PASS"
    BY DEF BatchInv, FilesInv
  <1>2. /\ \A k \in 1 .. at - 1 : /\ imageResults[k] \in Range(imageResults)
                                  /\ imageResults[k].image = k
        /\ \A row \in Range(imageResults) : \E k \in 1 .. at - 1 :
               row = imageResults[k] /\ row.image = k
    BY ResultsFacts, TellsFacts
  <1>. QED
    BY <1>1, <1>2

\* What a batch leaves tells what was measured, whatever raised in it: every image
\* has one result, the last of each stem its file, and the exit code, the
\* validity of the comparison and the timings follow from the results.
THEOREM BatchAlwaysTells == Spec => []BatchTellsResults
  <1>1. BatchInv => BatchTellsResults
    BY ShotsHaveResults, SuccessTells, AccuracyTells, TimingsTell, CopiesTell
       DEF BatchTellsResults
  <1>. QED
    BY <1>1, BatchIsInvariant, PTL
=============================================================================
