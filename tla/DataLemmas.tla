----------------------------- MODULE DataLemmas -----------------------------
(***************************************************************************)
(* What the proofs need of the data the models are built from: least       *)
(* members of sets of naturals, which the CHOOSEs of the models name;      *)
(* induction over an interval, for a set in place of a predicate; the      *)
(* existence of the function a fold of a sequence is defined by; and the   *)
(* rings of sequence numbers that several stores are kept in.              *)
(***************************************************************************)
EXTENDS Enumerations, SeqRing, SequencesExt, FiniteSetTheorems, WellFoundedInduction, TLAPS

(* A non-empty set of naturals has a least member: its initial intervals   *)
(* are well-founded under strict inclusion.                                *)
LEMMA LeastMember ==
    ASSUME NEW S \in SUBSET Nat, S # {}
    PROVE  \E m \in S : \A s \in S : m <= s
<1> DEFINE T == {0 .. s - 1 : s \in S}
<1>1. IsWellFoundedOn(StrictSubsetOrdering(Nat), FiniteSubsetsOf(Nat))
  BY FS_StrictSubsetOrderingWellFounded
<1>2. T \subseteq FiniteSubsetsOf(Nat) /\ T # {}
  <2>1. \A s \in S : IsFiniteSet(0 .. s - 1) /\ 0 .. s - 1 \subseteq Nat
    BY FS_Interval
  <2>. QED  BY <2>1 DEF FiniteSubsetsOf
<1>. HIDE DEF T
<1>3. \E x \in T : \A y \in T : ~(<<y, x>> \in StrictSubsetOrdering(Nat))
  BY <1>1, <1>2, WFMin
<1>4. PICK m \in S : \A y \in T : ~(<<y, 0 .. m - 1>> \in StrictSubsetOrdering(Nat))
  BY <1>3 DEF T
<1>5. ASSUME NEW s \in S, s < m
      PROVE  FALSE
  <2>1. 0 .. s - 1 \in T
    BY DEF T
  <2>2. /\ 0 .. s - 1 \subseteq 0 .. m - 1
        /\ 0 .. m - 1 \subseteq Nat
        /\ s \in 0 .. m - 1 /\ s \notin 0 .. s - 1
    BY <1>5
  <2>3. <<0 .. s - 1, 0 .. m - 1>> \in StrictSubsetOrdering(Nat)
    BY <2>2 DEF StrictSubsetOrdering
  <2>. QED  BY <1>4, <2>1, <2>3
<1>. QED  BY <1>5

(* What holds at 0 and passes from each point to the next holds up to n.   *)
LEMMA IntervalInduction ==
    ASSUME NEW n \in Nat, NEW S, 0 \in S, \A k \in 0 .. n - 1 : k \in S => k + 1 \in S
    PROVE  0 .. n \subseteq S
<1> SUFFICES ASSUME NEW b \in 0 .. n, b \notin S
             PROVE  FALSE
  BY Zenon
<1> DEFINE Bad == {k \in 0 .. n : k \notin S}
<1>1. Bad \in SUBSET Nat /\ Bad # {}
  OBVIOUS
<1>2. PICK m \in Bad : \A k \in Bad : m <= k
  BY <1>1, LeastMember
<1>3. m \in 1 .. n /\ m \notin S
  <2>1. m # 0
    OBVIOUS
  <2>. QED  BY <2>1
<1>4. m - 1 \in 0 .. n - 1 /\ m - 1 \in 0 .. n /\ m - 1 \notin Bad /\ (m - 1) + 1 = m
  BY <1>2, <1>3
<1>. QED  BY <1>3, <1>4

Greatest(S) == CHOOSE x \in S : \A y \in S : x >= y

(* A non-empty set of positions has a greatest one.                        *)
LEMMA GreatestMember ==
    ASSUME NEW n \in Nat, NEW S \in SUBSET (1 .. n), S # {}
    PROVE  Greatest(S) \in S /\ \A s \in S : s <= Greatest(S)
<1> DEFINE T == {n - s : s \in S}
<1>1. T \in SUBSET Nat /\ T # {}
  <2>1. \A s \in S : s \in 1 .. n /\ n - s \in Nat
    OBVIOUS
  <2>. QED  BY <2>1
<1>2. PICK t \in T : \A u \in T : t <= u
  BY <1>1, LeastMember
<1>3. PICK m \in S : t = n - m
  BY <1>2
<1>4. ASSUME NEW s \in S
      PROVE  m >= s
  <2>1. n - s \in T /\ s \in Nat /\ m \in Nat
    OBVIOUS
  <2>2. t <= n - s
    BY <1>2, <2>1
  <2>. QED  BY <1>3, <2>1, <2>2
<1>5. /\ Greatest(S) \in S /\ \A s \in S : Greatest(S) >= s
  BY <1>3, <1>4 DEF Greatest
<1>. QED  BY <1>5

(* A set of positions is finite, and without its greatest smaller by one.  *)
LEMMA PositionsCount ==
    ASSUME NEW n \in Nat, NEW S \in SUBSET (1 .. n)
    PROVE  /\ IsFiniteSet(S) /\ Cardinality(S) \in 0 .. n
           /\ S # {} => /\ S \ {Greatest(S)} \in SUBSET (1 .. n)
                        /\ Cardinality(S \ {Greatest(S)}) = Cardinality(S) - 1
                        /\ Greatest(S) \in 1 .. n
<1>1. IsFiniteSet(1 .. n) /\ Cardinality(1 .. n) = n
  BY FS_Interval
<1>2. IsFiniteSet(S) /\ Cardinality(S) <= n /\ Cardinality(S) \in Nat
  BY <1>1, FS_Subset, FS_CardinalityType
<1>3. S # {} => Cardinality(S \ {Greatest(S)}) = Cardinality(S) - 1
  BY <1>2, GreatestMember, FS_RemoveElement
<1>4. S # {} => Greatest(S) \in S
  BY GreatestMember
<1>5. Cardinality(S) \in 0 .. n
  BY <1>2
<1>6. S # {} => Greatest(S) \in 1 .. n
  BY <1>4
<1>. QED  BY <1>2, <1>3, <1>5, <1>6

-----------------------------------------------------------------------------
(***************************************************************************)
(* Folds.  FoldLeft is defined by a function on the sets of positions of   *)
(* the sequence, each of which hands its greatest position to the operator *)
(* after the others.  `step` is the operator, as a function.               *)
(***************************************************************************)
FoldBy(h, n, base, step) ==
    h = [s \in SUBSET (1 .. n) |-> IF s = {} THEN base
                                  ELSE step[<<h[s \ {Greatest(s)}], Greatest(s)>>]]

(* There is such a function, with values in the set the operator stays in. *)
LEMMA FoldExists ==
    ASSUME NEW n \in Nat, NEW V, NEW base \in V, NEW step \in [V \X (1 .. n) -> V]
    PROVE  \E h \in [SUBSET (1 .. n) -> V] : FoldBy(h, n, base, step)
<1> DEFINE Sub(k) == {s \in SUBSET (1 .. n) : Cardinality(s) <= k}
           By(h, k) == \A s \in Sub(k) :
                          h[s] = IF s = {} THEN base
                                 ELSE step[<<h[s \ {Greatest(s)}], Greatest(s)>>]
           S == {k \in 0 .. n : \E h \in [Sub(k) -> V] : By(h, k)}
<1>1. \A s \in SUBSET (1 .. n) : Cardinality(s) \in 0 .. n
  BY PositionsCount
<1>2. 0 \in S
  <2>1. \A s \in Sub(0) : s = {}
    <3> SUFFICES ASSUME NEW s \in Sub(0), s # {}
                 PROVE  FALSE
      OBVIOUS
    <3>1. s \ {Greatest(s)} \in SUBSET (1 .. n)
          /\ Cardinality(s \ {Greatest(s)}) = Cardinality(s) - 1
      BY PositionsCount
    <3>2. Cardinality(s \ {Greatest(s)}) \in 0 .. n /\ Cardinality(s) \in 0 .. n
      BY <1>1, <3>1
    <3>. QED  BY <3>1, <3>2
  <2>2. [s \in Sub(0) |-> base] \in [Sub(0) -> V] /\ By([s \in Sub(0) |-> base], 0)
    BY <2>1
  <2>3. 0 \in 0 .. n
    OBVIOUS
  <2>. HIDE DEF By, Sub
  <2>. QED  BY <2>2, <2>3
<1>3. ASSUME NEW k \in 0 .. n - 1, k \in S
      PROVE  k + 1 \in S
  <2>1. PICK h \in [Sub(k) -> V] : By(h, k)
    BY <1>3
  <2> DEFINE next == [s \in Sub(k + 1) |->
                        IF Cardinality(s) <= k THEN h[s]
                        ELSE step[<<h[s \ {Greatest(s)}], Greatest(s)>>]]
  <2>2. ASSUME NEW s \in Sub(k + 1), s # {}
        PROVE  /\ s \ {Greatest(s)} \in Sub(k) /\ Greatest(s) \in 1 .. n
               /\ s \ {Greatest(s)} \in Sub(k + 1)
               /\ Cardinality(s \ {Greatest(s)}) <= k
    BY <1>1, <2>2, PositionsCount
  <2>3. ASSUME NEW s \in Sub(k + 1), ~(Cardinality(s) <= k)
        PROVE  s # {}
    <3>1. Cardinality({}) = 0 /\ k \in Int /\ 0 <= k
      BY FS_EmptySet
    <3>. QED  BY <2>3, <3>1
  <2>4. \A s \in Sub(k + 1) : Cardinality(s) <= k => s \in Sub(k)
    OBVIOUS
  <2>. HIDE DEF Sub
  <2>5. next \in [Sub(k + 1) -> V]
    BY <2>2, <2>3, <2>4
  <2>6. By(next, k + 1)
    BY <2>1, <2>2, <2>3, <2>4
  <2>. HIDE DEF next, By
  <2>. QED  BY <2>5, <2>6
<1>. HIDE DEF S
<1>4. n \in S
  BY <1>2, <1>3, IntervalInduction
<1>. USE DEF S
<1>5. PICK h \in [Sub(n) -> V] : By(h, n)
  BY <1>4
<1>6. Sub(n) = SUBSET (1 .. n)
  BY <1>1
<1>. QED  BY <1>5, <1>6 DEF FoldBy

(* The greatest position of an initial interval is its end.                *)
LEMMA IntervalTop ==
    ASSUME NEW n \in Nat, NEW k \in 1 .. n
    PROVE  /\ 1 .. k \in SUBSET (1 .. n) /\ 1 .. k # {}
           /\ Greatest(1 .. k) = k /\ (1 .. k) \ {k} = 1 .. k - 1
<1>1. 1 .. k \in SUBSET (1 .. n) /\ k \in 1 .. k /\ k \in Nat
  OBVIOUS
<1>2. Greatest(1 .. k) \in 1 .. k /\ \A s \in 1 .. k : s <= Greatest(1 .. k)
  BY <1>1, GreatestMember
<1>. QED  BY <1>1, <1>2

(* A set of positions closed downwards is the interval of its count.       *)
LEMMA InitialPositions ==
    ASSUME NEW n \in Nat, NEW S \in SUBSET (1 .. n),
           \A i \in S : \A j \in 1 .. i : j \in S
    PROVE  Cardinality(S) \in 0 .. n /\ S = 1 .. Cardinality(S)
<1>1. CASE S = {}
  <2>1. Cardinality(S) = 0
    BY <1>1, FS_EmptySet
  <2>. QED  BY <1>1, <2>1
<1>2. CASE S # {}
  <2>1. PICK m \in S : \A s \in S : s <= m
    BY <1>2, GreatestMember
  <2>2. m \in 1 .. n /\ \A s \in S : s \in 1 .. m
    BY <2>1
  <2>5. \A j \in 1 .. m : j \in S
    OBVIOUS
  <2>4. S = 1 .. m
    BY <2>2, <2>5
  <2>3. Cardinality(1 .. m) = m
    BY <2>2, FS_Interval
  <2>. QED  BY <2>2, <2>3, <2>4
<1>. QED  BY <1>1, <1>2

-----------------------------------------------------------------------------
(* The rank of a member tells it from every other, and follows its order.  *)
LEMMA RankOrders ==
    ASSUME NEW S \in SUBSET Int, IsFiniteSet(S)
    PROVE  /\ Cardinality(S) \in Nat
           /\ \A s \in S : Rank(S, s) \in 1 .. Cardinality(S)
           /\ \A s, t \in S : s < t => Rank(S, s) < Rank(S, t)
<1> DEFINE Up(s) == {q \in S : q <= s}
<1>1. Cardinality(S) \in Nat
  BY FS_CardinalityType
<1>2. ASSUME NEW s \in S
      PROVE  /\ IsFiniteSet(Up(s)) /\ Cardinality(Up(s)) \in 1 .. Cardinality(S)
  <2>1. IsFiniteSet(Up(s)) /\ Cardinality(Up(s)) <= Cardinality(S)
    BY FS_Subset
  <2>2. s \in Up(s)
    OBVIOUS
  <2>3. Cardinality(Up(s)) \in Nat /\ Cardinality(Up(s)) # 0
    BY <2>1, <2>2, FS_CardinalityType, FS_EmptySet
  <2>. HIDE DEF Up
  <2>. QED  BY <1>1, <2>1, <2>3
<1>3. ASSUME NEW s \in S, NEW t \in S, s < t
      PROVE  Cardinality(Up(s)) < Cardinality(Up(t))
  <2>1. Up(s) \in SUBSET Up(t) /\ t \in Up(t) /\ t \notin Up(s)
    <3>1. s \in Int /\ t \in Int /\ \A q \in S : q \in Int
      OBVIOUS
    <3>2. \A q \in S : q <= s => q <= t
      BY <1>3, <3>1
    <3>3. t <= t /\ ~(t <= s)
      BY <1>3, <3>1
    <3>. QED  BY <3>2, <3>3
  <2>2. IsFiniteSet(Up(t)) /\ Cardinality(Up(s)) \in Nat /\ Cardinality(Up(t)) \in Nat
    BY <1>2
  <2>. HIDE DEF Up
  <2>3. Cardinality(Up(s)) <= Cardinality(Up(t)) /\ Cardinality(Up(t)) # Cardinality(Up(s))
    BY <2>1, <2>2, FS_Subset
  <2>. QED  BY <2>2, <2>3
<1>. QED  BY <1>1, <1>2, <1>3 DEF Rank

(* Ascending lists every member once, from the lowest up.                  *)
LEMMA AscendingEnumerates ==
    ASSUME NEW S \in SUBSET Int, IsFiniteSet(S)
    PROVE  /\ Cardinality(S) \in Nat
           /\ Ascending(S) \in [1 .. Cardinality(S) -> S]
           /\ \A i, k \in 1 .. Cardinality(S) : i < k => Ascending(S)[i] < Ascending(S)[k]
           /\ \A s \in S : \E k \in 1 .. Cardinality(S) : Ascending(S)[k] = s
           /\ \A k \in 1 .. Cardinality(S) : Rank(S, Ascending(S)[k]) = k
<1> DEFINE n == Cardinality(S)
           rank == [s \in S |-> Rank(S, s)]
<1>1. /\ n \in Nat
      /\ \A s \in S : Rank(S, s) \in 1 .. n
      /\ \A s, t \in S : s < t => Rank(S, s) < Rank(S, t)
  BY RankOrders
<1>2. rank \in Injection(S, 1 .. n)
  <2>1. \A s, t \in S : s # t => Rank(S, s) # Rank(S, t)
    <3> SUFFICES ASSUME NEW s \in S, NEW t \in S, s < t
                 PROVE  Rank(S, s) # Rank(S, t) /\ Rank(S, t) # Rank(S, s)
      OBVIOUS
    <3>. QED  BY <1>1
  <2>2. rank \in [S -> 1 .. n]
    BY <1>1
  <2>. QED  BY <2>1, <2>2 DEF Injection, IsInjective
<1>3. \A k \in 1 .. n : \E s \in S : Rank(S, s) = k
  <2>1. IsFiniteSet(1 .. n) /\ Cardinality(1 .. n) = n
    BY <1>1, FS_Interval
  <2>2. rank \in Surjection(S, 1 .. n)
    BY <1>2, <2>1, FS_Injection
  <2>. QED  BY <2>2 DEF Surjection
<1>. HIDE DEF n
<1>4. \A k \in 1 .. n : Ascending(S)[k] \in S /\ Rank(S, Ascending(S)[k]) = k
  BY <1>3 DEF Ascending, n
<1>5. Ascending(S) \in [1 .. n -> S]
  BY <1>4 DEF Ascending, n
<1>6. ASSUME NEW i \in 1 .. n, NEW k \in 1 .. n, i < k
      PROVE  Ascending(S)[i] < Ascending(S)[k]
  <2> DEFINE a == Ascending(S)[i]
             b == Ascending(S)[k]
  <2>1. a \in S /\ b \in S /\ Rank(S, a) = i /\ Rank(S, b) = k /\ a \in Int /\ b \in Int
    BY <1>4
  <2>. HIDE DEF a, b
  <2>2. ~(b < a) /\ a # b
    <3>1. b < a => k < i
      BY <1>1, <2>1
    <3>. QED  BY <1>1, <1>6, <2>1, <3>1
  <2>3. a < b
    BY <2>1, <2>2
  <2>. QED  BY <2>3 DEF a, b
<1>7. ASSUME NEW s \in S
      PROVE  \E k \in 1 .. n : Ascending(S)[k] = s
  <2>1. Rank(S, s) \in 1 .. n
    BY <1>1
  <2> DEFINE a == Ascending(S)[Rank(S, s)]
  <2>2. a \in S /\ Rank(S, a) = Rank(S, s)
    BY <1>4, <2>1
  <2>. HIDE DEF a
  <2>3. a = s
    <3>1. ~(a < s) /\ ~(s < a)
      BY <1>1, <2>1, <2>2
    <3>. QED  BY <2>2, <3>1
  <2>. QED  BY <2>1, <2>3 DEF a
<1>. QED  BY <1>1, <1>4, <1>5, <1>6, <1>7 DEF n

(* A finite set of integers has a greatest member.                         *)
LEMMA FiniteGreatest ==
    ASSUME NEW S \in SUBSET Int, IsFiniteSet(S), S # {}
    PROVE  \E m \in S : \A s \in S : s <= m
<1> DEFINE n == Cardinality(S)
<1>1. /\ n \in Nat
      /\ Ascending(S) \in [1 .. n -> S]
      /\ \A i, k \in 1 .. n : i < k => Ascending(S)[i] < Ascending(S)[k]
      /\ \A s \in S : \E k \in 1 .. n : Ascending(S)[k] = s
  BY AscendingEnumerates
<1>2. n # 0
  BY FS_EmptySet
<1>. HIDE DEF n
<1>3. n \in 1 .. n
  BY <1>1, <1>2
<1>4. ASSUME NEW s \in S
      PROVE  s <= Ascending(S)[n]
  <2>1. PICK k \in 1 .. n : Ascending(S)[k] = s
    BY <1>1
  <2>2. CASE k = n
    BY <2>1, <2>2
  <2>3. CASE k # n
    <3>1. k < n
      BY <1>1, <2>3
    <3>2. Ascending(S)[k] < Ascending(S)[n]
      BY <1>1, <1>3, <3>1
    <3>3. Ascending(S)[n] \in Int /\ s \in Int
      BY <1>1, <1>3
    <3>. QED  BY <2>1, <3>2, <3>3
  <2>. QED  BY <2>2, <2>3
<1>. QED  BY <1>1, <1>3, <1>4

-----------------------------------------------------------------------------
(* A sequence that names nothing twice.                                    *)
OneToOne(seq) == \A i, k \in DOMAIN seq : seq[i] = seq[k] => i = k

(* The ascending enumeration names every member, and nothing twice.        *)
LEMMA AscendingSeq ==
    ASSUME NEW S \in SUBSET Int, IsFiniteSet(S)
    PROVE  /\ Ascending(S) \in Seq(S) /\ Len(Ascending(S)) = Cardinality(S)
           /\ ToSet(Ascending(S)) = S /\ OneToOne(Ascending(S))
<1> DEFINE n == Cardinality(S)
           a == Ascending(S)
<1>1. /\ n \in Nat /\ a \in [1 .. n -> S]
      /\ \A i, k \in 1 .. n : i < k => a[i] < a[k]
      /\ \A s \in S : \E k \in 1 .. n : a[k] = s
  BY AscendingEnumerates
<1>. HIDE DEF n, a
<1>2. a \in Seq(S) /\ Len(a) = n /\ DOMAIN a = 1 .. n
  BY <1>1
<1>3. ToSet(a) = S
  BY <1>1, <1>2 DEF ToSet
<1>4. OneToOne(a)
  <2> SUFFICES ASSUME NEW i \in 1 .. n, NEW k \in 1 .. n, i < k
               PROVE  a[i] # a[k] /\ a[k] # a[i]
    BY <1>1, <1>2 DEF OneToOne
  <2>1. a[i] \in Int /\ a[k] \in Int
    BY <1>1
  <2>. QED  BY <1>1, <2>1
<1>. QED  BY <1>2, <1>3, <1>4 DEF n, a

(* What is kept of a sequence: its elements of S, in their order.          *)
LEMMA KeptElements ==
    ASSUME NEW T, NEW seq \in Seq(T), NEW S
    PROVE  /\ Kept(seq, S) \in Seq(T)
           /\ \E at \in [1 .. Len(Kept(seq, S)) -> {i \in 1 .. Len(seq) : seq[i] \in S}] :
                 /\ \A i, k \in 1 .. Len(Kept(seq, S)) : i < k => at[i] < at[k]
                 /\ \A k \in 1 .. Len(Kept(seq, S)) : Kept(seq, S)[k] = seq[at[k]]
                 /\ \A i \in 1 .. Len(seq) :
                       seq[i] \in S => \E k \in 1 .. Len(Kept(seq, S)) : at[k] = i
<1> DEFINE P == {i \in DOMAIN seq : seq[i] \in S}
           n == Cardinality(P)
           at == Ascending(P)
           kept == [k \in 1 .. n |-> seq[at[k]]]
<1>1. Len(seq) \in Nat /\ DOMAIN seq = 1 .. Len(seq) /\ \A i \in 1 .. Len(seq) : seq[i] \in T
  OBVIOUS
<1>2. P \in SUBSET Int /\ IsFiniteSet(P)
  <2>1. P \in SUBSET (1 .. Len(seq)) /\ IsFiniteSet(1 .. Len(seq))
    BY <1>1, FS_Interval
  <2>. QED  BY <2>1, FS_Subset
<1>3. Kept(seq, S) = kept
  BY DEF Kept, At
<1>. HIDE DEF P
<1>4. /\ n \in Nat /\ at \in [1 .. n -> P]
      /\ \A i, k \in 1 .. n : i < k => at[i] < at[k]
      /\ \A i \in P : \E k \in 1 .. n : at[k] = i
  BY <1>2, AscendingEnumerates
<1>. HIDE DEF n, at
<1>5. P = {i \in 1 .. Len(seq) : seq[i] \in S}
  BY <1>1 DEF P
<1>6. kept \in [1 .. n -> T]
  BY <1>1, <1>4, <1>5
<1>7. kept \in Seq(T) /\ Len(kept) = n /\ \A k \in 1 .. n : kept[k] = seq[at[k]]
  BY <1>4, <1>6
<1>. HIDE DEF kept
<1>8. \A i \in 1 .. Len(seq) : seq[i] \in S => \E k \in 1 .. n : at[k] = i
  BY <1>4, <1>5
<1>. QED  BY <1>3, <1>4, <1>5, <1>7, <1>8, ZenonT(40)

(* Keeping elements keeps a sequence free of repetitions.                  *)
LEMMA KeptSet ==
    ASSUME NEW T, NEW seq \in Seq(T), NEW S
    PROVE  /\ Kept(seq, S) \in Seq(T)
           /\ ToSet(Kept(seq, S)) = ToSet(seq) \cap S
           /\ OneToOne(seq) => OneToOne(Kept(seq, S))
<1> DEFINE kept == Kept(seq, S)
           n == Len(kept)
<1>1. kept \in Seq(T)
  BY KeptElements
<1>2. PICK at \in [1 .. n -> {i \in 1 .. Len(seq) : seq[i] \in S}] :
         /\ \A i, k \in 1 .. n : i < k => at[i] < at[k]
         /\ \A k \in 1 .. n : kept[k] = seq[at[k]]
         /\ \A i \in 1 .. Len(seq) : seq[i] \in S => \E k \in 1 .. n : at[k] = i
  BY KeptElements
<1>. HIDE DEF kept
<1>3. n \in Nat /\ DOMAIN kept = 1 .. n /\ DOMAIN seq = 1 .. Len(seq) /\ Len(seq) \in Nat
  BY <1>1
<1>. HIDE DEF n
<1>4. \A k \in 1 .. n : at[k] \in 1 .. Len(seq) /\ seq[at[k]] \in S
  BY <1>2
<1>5. ToSet(kept) = ToSet(seq) \cap S
  <2>1. ASSUME NEW x \in ToSet(kept)
        PROVE  x \in ToSet(seq) /\ x \in S
    BY <1>2, <1>3, <1>4 DEF ToSet
  <2>2. ASSUME NEW x \in ToSet(seq), x \in S
        PROVE  x \in ToSet(kept)
    <3>1. PICK i \in 1 .. Len(seq) : x = seq[i]
      BY <1>3 DEF ToSet
    <3>2. PICK k \in 1 .. n : at[k] = i
      BY <1>2, <2>2, <3>1
    <3>. QED  BY <1>2, <1>3, <3>1, <3>2 DEF ToSet
  <2>. QED  BY <2>1, <2>2
<1>6. ASSUME OneToOne(seq)
      PROVE  OneToOne(kept)
  <2> SUFFICES ASSUME NEW i \in 1 .. n, NEW k \in 1 .. n, i < k, kept[i] = kept[k]
               PROVE  FALSE
    BY <1>3 DEF OneToOne
  <2>1. at[i] < at[k] /\ at[i] \in Int /\ at[k] \in Int
    BY <1>2, <1>4
  <2>2. seq[at[i]] = seq[at[k]] /\ at[i] \in DOMAIN seq /\ at[k] \in DOMAIN seq
    BY <1>2, <1>3, <1>4
  <2>. QED  BY <1>6, <2>1, <2>2 DEF OneToOne
<1>. QED  BY <1>1, <1>5, <1>6 DEF kept

(* Joining two sequences that share nothing.                               *)
LEMMA JoinedSets ==
    ASSUME NEW T, NEW s \in Seq(T), NEW t \in Seq(T)
    PROVE  /\ s \o t \in Seq(T)
           /\ ToSet(s \o t) = ToSet(s) \cup ToSet(t)
           /\ OneToOne(s) /\ OneToOne(t) /\ ToSet(s) \cap ToSet(t) = {} => OneToOne(s \o t)
<1> DEFINE c == s \o t
           m == Len(s)
           n == Len(t)
<1>1. /\ c \in Seq(T) /\ Len(c) = m + n /\ m \in Nat /\ n \in Nat
      /\ \A i \in 1 .. m + n : c[i] = IF i <= m THEN s[i] ELSE t[i - m]
      /\ DOMAIN s = 1 .. m /\ DOMAIN t = 1 .. n /\ DOMAIN c = 1 .. m + n
  OBVIOUS
<1>. HIDE DEF c, m, n
<1>2. ASSUME NEW i \in 1 .. m + n
      PROVE  /\ i <= m => i \in 1 .. m /\ c[i] = s[i]
             /\ ~(i <= m) => i - m \in 1 .. n /\ c[i] = t[i - m]
  BY <1>1
<1>3. \A i \in 1 .. m : i \in 1 .. m + n /\ c[i] = s[i]
  BY <1>1
<1>4. \A i \in 1 .. n : m + i \in 1 .. m + n /\ c[m + i] = t[i]
  BY <1>1
<1>5. ToSet(c) = ToSet(s) \cup ToSet(t)
  <2>1. ASSUME NEW x \in ToSet(c)
        PROVE  x \in ToSet(s) \cup ToSet(t)
    <3>1. PICK i \in 1 .. m + n : x = c[i]
      BY <1>1 DEF ToSet
    <3>. QED  BY <1>1, <1>2, <3>1 DEF ToSet
  <2>2. ASSUME NEW x \in ToSet(s) \cup ToSet(t)
        PROVE  x \in ToSet(c)
    BY <1>1, <1>3, <1>4 DEF ToSet
  <2>. QED  BY <2>1, <2>2
<1>6. ASSUME OneToOne(s), OneToOne(t), ToSet(s) \cap ToSet(t) = {}
      PROVE  OneToOne(c)
  <2> SUFFICES ASSUME NEW i \in 1 .. m + n, NEW k \in 1 .. m + n, c[i] = c[k]
               PROVE  i = k
    BY <1>1 DEF OneToOne
  <2>1. CASE i <= m /\ k <= m
    BY <1>1, <1>2, <1>6, <2>1 DEF OneToOne
  <2>2. CASE ~(i <= m) /\ ~(k <= m)
    <3>1. i - m = k - m
      BY <1>1, <1>2, <1>6, <2>2, ZenonT(40) DEF OneToOne
    <3>. QED  BY <1>1, <3>1
  <2>3. CASE (i <= m) # (k <= m)
    <3>1. \A a \in 1 .. m, b \in 1 .. n : s[a] # t[b] /\ t[b] # s[a]
      BY <1>1, <1>6 DEF ToSet
    <3>. QED  BY <1>2, <2>3, <3>1
  <2>. QED  BY <2>1, <2>2, <2>3
<1>. QED  BY <1>1, <1>5, <1>6 DEF c

-----------------------------------------------------------------------------
(***************************************************************************)
(* Rings of sequence numbers: what the operations of SeqRing make of the   *)
(* contents, whatever holes a ring has.                                    *)
(***************************************************************************)

(* Rings with values of V.  A ring's contents are what ring_get says.      *)
Rings(V) == [base : Nat, slots : Seq(V \cup {None}), len : Int]

(* A ring's keys are the seqs ring_get finds something for.                *)
LEMMA RingContents ==
    ASSUME NEW V, NEW r \in Rings(V)
    PROVE  /\ Len(r.slots) \in Nat /\ RingEnd(r) \in Nat /\ RingEnd(r) = r.base + Len(r.slots)
           /\ \A i \in 1 .. Len(r.slots) : /\ r.slots[i] \in V \cup {None}
                                           /\ r.base + i - 1 \in Nat
                                           /\ ring_get(r, r.base + i - 1) = r.slots[i]
           /\ RingKeys(r) = {s \in Int : ring_get(r, s) # None}
           /\ RingKeys(r) \in SUBSET Nat /\ IsFiniteSet(RingKeys(r))
           /\ Cardinality(RingKeys(r)) \in Nat
           /\ \A s \in RingKeys(r) : r.base <= s /\ s < RingEnd(r) /\ ring_get(r, s) \in V
<1> DEFINE n == Len(r.slots)
<1>1. r.base \in Nat /\ r.slots \in Seq(V \cup {None}) /\ n \in Nat
  BY DEF Rings
<1>2. RingEnd(r) \in Nat /\ RingEnd(r) = r.base + n
  BY <1>1 DEF RingEnd
<1>3. \A i \in 1 .. n : /\ r.slots[i] \in V \cup {None} /\ r.base + i - 1 \in Nat
                        /\ ring_get(r, r.base + i - 1) = r.slots[i]
  <2> SUFFICES ASSUME NEW i \in 1 .. n
               PROVE  /\ r.slots[i] \in V \cup {None} /\ r.base + i - 1 \in Nat
                      /\ ring_get(r, r.base + i - 1) = r.slots[i]
    OBVIOUS
  <2>1. r.slots[i] \in V \cup {None}
    BY <1>1
  <2>2. /\ r.base + i - 1 \in Nat /\ r.base <= r.base + i - 1 /\ r.base + i - 1 < RingEnd(r)
        /\ (r.base + i - 1) - r.base + 1 = i
    BY <1>1, <1>2
  <2>. QED  BY <2>1, <2>2 DEF ring_get, Slot
<1>4. ASSUME NEW s \in Int
      PROVE  s \in RingKeys(r) <=> ring_get(r, s) # None
  <2>1. s \in r.base .. RingEnd(r) - 1 <=> r.base <= s /\ s < RingEnd(r)
    BY <1>1, <1>2
  <2>. QED  BY <2>1 DEF RingKeys, ring_get
<1>5. RingKeys(r) \in SUBSET (r.base .. RingEnd(r) - 1)
  BY DEF RingKeys
<1>6. RingKeys(r) \in SUBSET Nat
  BY <1>1, <1>2, <1>5
<1>7. IsFiniteSet(RingKeys(r))
  <2>1. IsFiniteSet(r.base .. RingEnd(r) - 1)
    <3>1. r.base \in Int /\ RingEnd(r) - 1 \in Int
      BY <1>1, <1>2
    <3>. QED  BY <3>1, FS_Interval
  <2>. QED  BY <1>5, <2>1, FS_Subset
<1>8. Cardinality(RingKeys(r)) \in Nat
  BY <1>7, FS_CardinalityType
<1>9. ASSUME NEW s \in RingKeys(r)
      PROVE  r.base <= s /\ s < RingEnd(r) /\ ring_get(r, s) \in V
  <2>1. r.base <= s /\ s < RingEnd(r) /\ s \in Int
    BY <1>1, <1>2, <1>5
  <2>2. s - r.base + 1 \in 1 .. n
    BY <1>1, <1>2, <2>1
  <2>3. r.slots[s - r.base + 1] \in V \cup {None}
    BY <1>3, <2>2
  <2>4. ring_get(r, s) = r.slots[s - r.base + 1]
    BY <2>1 DEF ring_get, Slot
  <2>5. ring_get(r, s) # None
    BY <1>4, <2>1
  <2>. QED  BY <2>1, <2>3, <2>4, <2>5
<1>10. RingKeys(r) = {s \in Int : ring_get(r, s) # None}
  BY <1>4, <1>6
<1>. QED  BY <1>1, <1>2, <1>3, <1>6, <1>7, <1>8, <1>9, <1>10

(* Counting slots counts keys.                                             *)
LEMMA SlotsCountKeys ==
    ASSUME NEW V, NEW r \in Rings(V), NEW k \in 0 .. Len(r.slots)
    PROVE  /\ Cardinality({i \in 1 .. k : r.slots[i] # None})
              = Cardinality({s \in RingKeys(r) : s < r.base + k})
<1> DEFINE I == {i \in 1 .. k : r.slots[i] # None}
           S == {s \in RingKeys(r) : s < r.base + k}
           f == [i \in I |-> r.base + i - 1]
<1>1. /\ r.base \in Nat /\ Len(r.slots) \in Nat /\ RingEnd(r) = r.base + Len(r.slots)
      /\ \A i \in 1 .. Len(r.slots) : /\ r.base + i - 1 \in Nat
                                      /\ ring_get(r, r.base + i - 1) = r.slots[i]
      /\ RingKeys(r) = {s \in Int : ring_get(r, s) # None}
      /\ \A s \in RingKeys(r) : r.base <= s /\ s < RingEnd(r) /\ s \in Int
  <2>1. r.base \in Nat
    BY DEF Rings
  <2>. QED  BY <2>1, RingContents
<1>2. I \subseteq 1 .. k /\ IsFiniteSet(I)
  <2>1. IsFiniteSet(1 .. k)
    BY <1>1, FS_Interval
  <2>. QED  BY <2>1, FS_Subset
<1>3. \A i \in I : f[i] \in S
  BY <1>1
<1>4. \A s \in S : s - r.base + 1 \in I /\ f[s - r.base + 1] = s
  <2> SUFFICES ASSUME NEW s \in S
               PROVE  s - r.base + 1 \in I /\ f[s - r.base + 1] = s
    OBVIOUS
  <2>1. s - r.base + 1 \in 1 .. k /\ r.base + (s - r.base + 1) - 1 = s
    BY <1>1
  <2>2. s - r.base + 1 \in 1 .. Len(r.slots)
    BY <1>1, <2>1
  <2>3. r.slots[s - r.base + 1] # None
    BY <1>1, <2>1, <2>2
  <2>. QED  BY <2>1, <2>3
<1>5. \A i, j \in I : f[i] = f[j] => i = j
  BY <1>1, <1>2
<1>. HIDE DEF S
<1>6. f \in Bijection(I, S)
  <2>1. f \in [I -> S]
    BY <1>3
  <2>2. \A s \in S : \E i \in I : f[i] = s
    BY <1>4
  <2>. HIDE DEF f, I
  <2>3. f \in Injection(I, S)
    BY <1>5, <2>1 DEF Injection, IsInjective
  <2>4. f \in Surjection(I, S)
    BY <2>1, <2>2 DEF Surjection
  <2>. QED  BY <2>3, <2>4 DEF Bijection
<1>. HIDE DEF I, f
<1>7. Cardinality(I) = Cardinality(S)
  BY <1>2, <1>6, FS_Bijection DEF ExistsBijection
<1>. QED  BY <1>7 DEF I, S

(* No hole at either end.                                                  *)
Trimmed(r) == r.slots # <<>> => r.slots[1] # None /\ r.slots[Len(r.slots)] # None

(* trim changes nothing but the holes at the ends.                         *)
LEMMA TrimKeeps ==
    ASSUME NEW V, NEW r \in Rings(V)
    PROVE  /\ trim(r) \in Rings(V) /\ trim(r).len = r.len /\ Trimmed(trim(r))
           /\ \A s \in Int : ring_get(trim(r), s) = ring_get(r, s)
<1> DEFINE n == Len(r.slots)
           full == {i \in DOMAIN r.slots : r.slots[i] # None}
           a == CHOOSE i \in full : \A j \in full : i <= j
           b == CHOOSE i \in full : \A j \in full : j <= i
           q == trim(r)
<1>1. /\ r.base \in Nat /\ r.slots \in Seq(V \cup {None}) /\ n \in Nat /\ r.len \in Int
      /\ DOMAIN r.slots = 1 .. n /\ RingEnd(r) = r.base + n
      /\ r = [base |-> r.base, slots |-> r.slots, len |-> r.len]
  BY DEF Rings, RingEnd
<1>2. ASSUME NEW s \in Int
      PROVE  /\ s - r.base + 1 \in 1 .. n => ring_get(r, s) = r.slots[s - r.base + 1]
             /\ s - r.base + 1 \notin 1 .. n => ring_get(r, s) = None
  BY <1>1 DEF ring_get, Slot
<1>3. CASE full = {}
  <2>1. q = [base |-> r.base + n, slots |-> <<>>, len |-> r.len]
    BY <1>1, <1>3 DEF trim
  <2>2. q \in Rings(V) /\ q.len = r.len /\ Trimmed(q)
    BY <1>1, <2>1 DEF Rings, Trimmed
  <2>3. ASSUME NEW s \in Int
        PROVE  ring_get(q, s) = ring_get(r, s)
    <3>1. ring_get(q, s) = None
      BY <1>1, <2>1 DEF ring_get, RingEnd
    <3>2. ring_get(r, s) = None
      BY <1>1, <1>2, <1>3
    <3>. QED  BY <3>1, <3>2
  <2>. QED  BY <2>2, <2>3
<1>4. CASE full # {}
  <2>1. full \in SUBSET (1 .. n) /\ full \in SUBSET Nat
    BY <1>1
  <2>2. a \in full /\ \A j \in full : a <= j
    <3>1. \E i \in full : \A j \in full : i <= j
      BY <1>4, <2>1, LeastMember
    <3>. HIDE DEF full
    <3>. QED  BY <3>1
  <2>3. b \in full /\ \A j \in full : j <= b
    <3>1. Greatest(full) \in full /\ \A j \in full : j <= Greatest(full)
      BY <1>1, <1>4, <2>1, GreatestMember
    <3>. HIDE DEF full
    <3>. QED  BY <3>1
  <2>4. q = [base |-> r.base + a - 1, slots |-> SubSeq(r.slots, a, b), len |-> r.len]
    BY <1>1, <1>4 DEF trim
  <2>5. \A i \in 1 .. n : r.slots[i] # None => i \in full
    BY <1>1
  <2>6. a \in 1 .. n /\ b \in 1 .. n /\ a <= b /\ r.slots[a] # None /\ r.slots[b] # None
    BY <2>1, <2>2, <2>3
  <2>. HIDE DEF full, a, b, q, n
  <2>7. \A i \in 1 .. n : i < a \/ i > b => r.slots[i] = None
    <3> SUFFICES ASSUME NEW i \in 1 .. n, i < a \/ i > b, r.slots[i] # None
                 PROVE  FALSE
      OBVIOUS
    <3>1. a <= i /\ i <= b
      BY <2>2, <2>3, <2>5
    <3>. QED  BY <2>6, <3>1
  <2>8. /\ q.slots \in Seq(V \cup {None}) /\ Len(q.slots) = b - a + 1
        /\ \A i \in 1 .. b - a + 1 : q.slots[i] = r.slots[a + i - 1]
    <3>1. SubSeq(r.slots, a, b) \in Seq(V \cup {None})
      BY <1>1, <2>6 DEF n
    <3>2. /\ Len(SubSeq(r.slots, a, b)) = b - a + 1
          /\ \A i \in 1 .. b - a + 1 : SubSeq(r.slots, a, b)[i] = r.slots[a + i - 1]
      BY <1>1, <2>6 DEF n
    <3>. QED  BY <2>4, <3>1, <3>2
  <2>9. q \in Rings(V) /\ q.len = r.len
    <3>1. r.base + a - 1 \in Nat
      BY <1>1, <2>6
    <3>. QED  BY <1>1, <2>4, <2>8, <3>1 DEF Rings
  <2>10. Trimmed(q)
    <3>1. /\ 1 \in 1 .. b - a + 1 /\ a + 1 - 1 = a /\ b - a + 1 \in 1 .. b - a + 1
          /\ a + (b - a + 1) - 1 = b
      BY <2>6
    <3>2. q.slots[1] = r.slots[a] /\ q.slots[b - a + 1] = r.slots[b]
      BY <2>8, <3>1
    <3>. QED  BY <2>6, <2>8, <3>2 DEF Trimmed
  <2>11. q.base = r.base + a - 1
    BY <2>4
  <2>12. ASSUME NEW s \in Int
         PROVE  ring_get(q, s) = ring_get(r, s)
    <3>1. RingEnd(q) = r.base + b
      BY <1>1, <2>6, <2>8, <2>11 DEF RingEnd
    <3>2. CASE q.base <= s /\ s < RingEnd(q)
      <4>1. /\ s - q.base + 1 \in 1 .. b - a + 1 /\ a + (s - q.base + 1) - 1 = s - r.base + 1
            /\ s - r.base + 1 \in 1 .. n
        <5>1. /\ r.base \in Int /\ a \in Int /\ b \in Int /\ n \in Int
              /\ 1 <= a /\ a <= b /\ b <= n
          BY <1>1, <2>6
        <5>2. r.base + a - 1 <= s /\ s < r.base + b
          BY <2>11, <3>1, <3>2
        <5>. QED  BY <2>11, <5>1, <5>2
      <4>2. ring_get(q, s) = q.slots[s - q.base + 1]
        BY <3>2 DEF ring_get, Slot
      <4>. QED  BY <1>2, <2>8, <4>1, <4>2
    <3>3. CASE ~(q.base <= s /\ s < RingEnd(q))
      <4>1. ring_get(q, s) = None
        BY <3>3 DEF ring_get
      <4>2. s - r.base + 1 < a \/ s - r.base + 1 > b
        BY <1>1, <2>6, <2>11, <3>1, <3>3
      <4>. QED  BY <1>2, <2>7, <4>1, <4>2
    <3>. QED  BY <3>2, <3>3
  <2>. QED  BY <2>9, <2>10, <2>12 DEF q
<1>. QED  BY <1>3, <1>4

(* A ring of values of V in the shape its operations rely on.              *)
SoundRing(V, r) == r \in Rings(V) /\ WellFormed(r)

(* q is r with seq put in.                                                 *)
PutIn(V, q, r, seq, v) ==
    /\ q \in Rings(V) /\ Trimmed(q)
    /\ \A s \in Int : ring_get(q, s) = IF s = seq THEN v ELSE ring_get(r, s)
    /\ q.len = IF ring_get(r, seq) = None THEN r.len + 1 ELSE r.len

(* What ring_get reads.                                                    *)
LEMMA RingReads ==
    ASSUME NEW V, NEW r \in Rings(V), NEW s \in Int
    PROVE  /\ s - r.base + 1 \in 1 .. Len(r.slots) => ring_get(r, s) = r.slots[s - r.base + 1]
           /\ s - r.base + 1 \notin 1 .. Len(r.slots) => ring_get(r, s) = None
<1>1. r.base \in Nat /\ Len(r.slots) \in Nat /\ RingEnd(r) = r.base + Len(r.slots)
  BY DEF Rings, RingEnd
<1>. QED  BY <1>1 DEF ring_get, Slot

(* s is x, then g holes, then y.                                           *)
Padded(s, x, g, y) ==
    /\ Len(s) = Len(x) + g + Len(y)
    /\ \A i \in 1 .. Len(x) + g + Len(y) :
          s[i] = IF i <= Len(x) THEN x[i]
                 ELSE IF i <= Len(x) + g THEN None ELSE y[i - (Len(x) + g)]

(* A sequence, a gap of free slots and another, slot by slot.              *)
LEMMA HolesBetween ==
    ASSUME NEW T, None \in T, NEW x \in Seq(T), NEW y \in Seq(T), NEW g \in Nat
    PROVE  x \o Holes(g) \o y \in Seq(T) /\ Padded(x \o Holes(g) \o y, x, g, y)
<1>1. Holes(g) \in Seq(T) /\ Len(Holes(g)) = g /\ \A i \in 1 .. g : Holes(g)[i] = None
  BY DEF Holes
<1> DEFINE h == Holes(g)
           l == x \o h
<1>. HIDE DEF h
<1>2. /\ l \in Seq(T) /\ Len(l) = Len(x) + g
      /\ \A i \in 1 .. Len(x) + g : l[i] = IF i <= Len(x) THEN x[i] ELSE h[i - Len(x)]
  BY <1>1, SMTT(20) DEF h
<1>3. \A i \in 1 .. Len(x) + g : l[i] = IF i <= Len(x) THEN x[i] ELSE None
  <2> SUFFICES ASSUME NEW i \in 1 .. Len(x) + g
               PROVE  l[i] = IF i <= Len(x) THEN x[i] ELSE None
    OBVIOUS
  <2>1. i > Len(x) => i - Len(x) \in 1 .. g
    OBVIOUS
  <2>. HIDE DEF l
  <2>. QED  BY <1>1, <1>2, <2>1 DEF h
<1>. HIDE DEF l
<1>4. /\ l \o y \in Seq(T) /\ Len(l \o y) = Len(l) + Len(y)
      /\ \A i \in 1 .. Len(l) + Len(y) :
            (l \o y)[i] = IF i <= Len(l) THEN l[i] ELSE y[i - Len(l)]
  BY <1>2
<1>5. \A i \in 1 .. Len(x) + g + Len(y) :
          (l \o y)[i] = IF i <= Len(x) THEN x[i]
                        ELSE IF i <= Len(x) + g THEN None ELSE y[i - (Len(x) + g)]
  BY <1>2, <1>3, <1>4
<1>. QED  BY <1>2, <1>4, <1>5 DEF l, h, Padded

(* ring_insert: in the empty ring, past the end, within, below the base.   *)
LEMMA InsertCases ==
    ASSUME NEW V, NEW r, SoundRing(V, r), NEW seq \in Nat, NEW v \in V, v # None
    PROVE  PutIn(V, ring_insert(r, seq, v), r, seq, v)
<1> DEFINE n == Len(r.slots)
           T == V \cup {None}
           q == ring_insert(r, seq, v)
<1>1. /\ r \in Rings(V) /\ Trimmed(r) /\ r.len = Cardinality(RingKeys(r)) /\ r.len \in Int
      /\ r.base \in Nat /\ r.slots \in Seq(T) /\ n \in Nat /\ RingEnd(r) = r.base + n
      /\ r = [base |-> r.base, slots |-> r.slots, len |-> r.len]
  BY DEF SoundRing, WellFormed, Trimmed, Rings, RingEnd
<1>2. ASSUME NEW s \in Int
      PROVE  /\ s - r.base + 1 \in 1 .. n => ring_get(r, s) = r.slots[s - r.base + 1]
             /\ s - r.base + 1 \notin 1 .. n => ring_get(r, s) = None
  BY <1>1, RingReads
<1> DEFINE one == <<v>>
<1>3. one \in Seq(T) /\ Len(one) = 1 /\ one[1] = v /\ None \in T
  OBVIOUS
<1>0. n \in Nat /\ r.base \in Nat /\ RingEnd(r) = r.base + n /\ r.slots \in Seq(T)
  BY <1>1
<1>. HIDE DEF T, one
<1>4. CASE r.slots = <<>>
  <2>1. q = [base |-> seq, slots |-> one, len |-> 1]
    BY <1>4 DEF ring_insert, one
  <2>2. q \in Rings(V) /\ Trimmed(q) /\ q.base = seq /\ Len(q.slots) = 1 /\ q.slots[1] = v
    BY <1>3, <2>1 DEF Rings, Trimmed, T, one
  <2>3. \A s \in Int : ring_get(r, s) = None
    BY <1>1, <1>2, <1>4
  <2>4. RingKeys(r) = {}
    BY <1>1, <2>3, RingContents
  <2>5. r.len = 0
    BY <1>1, <2>4, FS_EmptySet
  <2>6. ASSUME NEW s \in Int
        PROVE  ring_get(q, s) = IF s = seq THEN v ELSE None
    <3>. HIDE DEF q
    <3>1. s - q.base + 1 \in 1 .. 1 <=> s = seq
      BY <2>2
    <3>. QED  BY <2>2, <3>1, RingReads
  <2>7. q.len = 1
    BY <2>1
  <2>. HIDE DEF q
  <2>. QED  BY <2>2, <2>3, <2>5, <2>6, <2>7 DEF PutIn, q
<1>5. CASE r.slots # <<>> /\ seq >= RingEnd(r)
  <2> DEFINE g == seq - RingEnd(r)
             more == r.slots \o Holes(g) \o one
  <2>1. g \in Nat /\ seq = r.base + n + g
    BY <1>1, <1>5
  <2>2. q = [base |-> r.base, slots |-> more, len |-> r.len + 1]
    BY <1>1, <1>5 DEF ring_insert, one
  <2>. HIDE DEF g, q
  <2>3. /\ more \in Seq(T) /\ Len(more) = n + g + 1
        /\ \A i \in 1 .. n + g + 1 : more[i] = IF i <= n THEN r.slots[i]
                                               ELSE IF i <= n + g THEN None ELSE v
    <3>0. more \in Seq(T) /\ Padded(more, r.slots, g, one)
      BY <1>0, <1>3, <2>1, HolesBetween
    <3>1. /\ more \in Seq(T) /\ Len(more) = n + g + Len(one)
          /\ \A i \in 1 .. n + g + Len(one) :
                more[i] = IF i <= n THEN r.slots[i]
                          ELSE IF i <= n + g THEN None ELSE one[i - (n + g)]
      BY <3>0 DEF Padded
    <3>. HIDE DEF more, n
    <3>2. \A i \in 1 .. n + g + 1 : i <= n + g \/ i - (n + g) = 1
      BY <1>0, <2>1
    <3>. QED  BY <1>3, <3>1, <3>2
  <2>. HIDE DEF more
  <2>4. n # 0 /\ r.slots[1] # None
    BY <1>1, <1>5 DEF Trimmed
  <2>5. q \in Rings(V) /\ q.base = r.base /\ q.slots = more /\ q.len = r.len + 1
    BY <1>1, <2>2, <2>3 DEF Rings, T
  <2>. HIDE DEF n
  <2>6. Trimmed(q)
    <3>1. 1 \in 1 .. n + g + 1 /\ n + g + 1 \in 1 .. n + g + 1 /\ 1 <= n
      BY <1>1, <2>1, <2>4
    <3>2. more[1] = r.slots[1] /\ more[n + g + 1] = v
      BY <1>0, <2>1, <2>3, <3>1, SMTT(20)
    <3>. QED  BY <2>3, <2>4, <2>5, <3>2 DEF Trimmed
  <2>7. ASSUME NEW s \in Int
        PROVE  ring_get(q, s) = IF s = seq THEN v ELSE ring_get(r, s)
    <3> DEFINE i == s - r.base + 1
    <3>1. /\ i \in 1 .. n + g + 1 => ring_get(q, s) = more[i]
          /\ i \notin 1 .. n + g + 1 => ring_get(q, s) = None
      BY <2>3, <2>5, RingReads
    <3>2. i \in Int /\ (s = seq <=> i = n + g + 1)
      BY <1>0, <2>1
    <3>3. i \in 1 .. n => i \in 1 .. n + g + 1
      BY <1>0, <2>1
    <3>4. CASE i \in 1 .. n
      <4>1. i <= n /\ s # seq /\ i \in 1 .. n + g + 1
        BY <1>0, <2>1, <3>2, <3>3, <3>4
      <4>2. more[i] = r.slots[i]
        BY <2>3, <4>1
      <4>. QED  BY <1>2, <3>1, <3>4, <4>1, <4>2
    <3>5. CASE i \notin 1 .. n /\ i \in 1 .. n + g + 1
      BY <1>0, <1>2, <2>1, <2>3, <3>1, <3>2, <3>5
    <3>6. CASE i \notin 1 .. n + g + 1
      <4>1. s # seq
        BY <1>0, <2>1, <3>2, <3>6
      <4>. QED  BY <1>2, <3>1, <3>3, <3>6, <4>1
    <3>. QED  BY <3>4, <3>5, <3>6
  <2>8. ring_get(r, seq) = None
    BY <1>1, <1>2, <2>1
  <2>. QED  BY <2>5, <2>6, <2>7, <2>8 DEF PutIn, q
<1>6. CASE r.slots # <<>> /\ r.base <= seq /\ seq < RingEnd(r)
  <2> DEFINE at == seq - r.base + 1
             more == [r.slots EXCEPT ![at] = v]
  <2>1. at \in 1 .. n
    BY <1>1, <1>6
  <2>2. /\ q = [r EXCEPT !.slots = more, !.len = IF Slot(r, seq) = None THEN @ + 1 ELSE @]
    BY <1>1, <1>6 DEF ring_insert
  <2>3. q = [base |-> r.base, slots |-> more, len |-> IF Slot(r, seq) = None THEN r.len + 1 ELSE r.len]
    BY <1>1, <2>2
  <2>4. /\ more \in Seq(T) /\ Len(more) = n
        /\ \A i \in 1 .. n : more[i] = IF i = at THEN v ELSE r.slots[i]
    BY <1>1, <2>1 DEF T
  <2>5. Slot(r, seq) = ring_get(r, seq)
    BY <1>1, <1>6 DEF ring_get
  <2>. HIDE DEF q, more
  <2>6. /\ q \in Rings(V) /\ q.base = r.base /\ q.slots = more
        /\ q.len = IF ring_get(r, seq) = None THEN r.len + 1 ELSE r.len
    BY <1>1, <2>3, <2>4, <2>5 DEF Rings, T
  <2>7. Trimmed(q)
    <3>1. r.slots[1] # None /\ r.slots[n] # None /\ 1 \in 1 .. n /\ n \in 1 .. n
      BY <1>1, <1>6 DEF Trimmed
    <3>2. more[1] # None /\ more[n] # None
      BY <2>4, <3>1
    <3>. QED  BY <2>4, <2>6, <3>2 DEF Trimmed
  <2>8. ASSUME NEW s \in Int
        PROVE  ring_get(q, s) = IF s = seq THEN v ELSE ring_get(r, s)
    <3>1. /\ s - r.base + 1 \in 1 .. n => ring_get(q, s) = more[s - r.base + 1]
          /\ s - r.base + 1 \notin 1 .. n => ring_get(q, s) = None
      BY <2>4, <2>6, RingReads
    <3>2. s = seq <=> s - r.base + 1 = at
      BY <1>1
    <3>. HIDE DEF at, n
    <3>. QED  BY <1>2, <2>1, <2>4, <3>1, <3>2
  <2>. QED  BY <2>6, <2>7, <2>8 DEF PutIn, q
<1>7. CASE r.slots # <<>> /\ seq < r.base
  <2> DEFINE g == r.base - seq - 1
             more == one \o Holes(g) \o r.slots
  <2>1. g \in Nat /\ r.base = seq + g + 1 /\ ~(seq >= RingEnd(r)) /\ ~(seq >= r.base)
    BY <1>1, <1>7
  <2>2. q = [base |-> seq, slots |-> more, len |-> r.len + 1]
    BY <1>7, <2>1 DEF ring_insert, one
  <2>. HIDE DEF g, q
  <2>3. /\ more \in Seq(T) /\ Len(more) = 1 + g + n
        /\ \A i \in 1 .. 1 + g + n : more[i] = IF i = 1 THEN v
                                               ELSE IF i <= 1 + g THEN None ELSE r.slots[i - (1 + g)]
    <3>0. more \in Seq(T) /\ Padded(more, one, g, r.slots)
      BY <1>0, <1>3, <2>1, HolesBetween
    <3>1. /\ more \in Seq(T) /\ Len(more) = Len(one) + g + n
          /\ \A i \in 1 .. Len(one) + g + n :
                more[i] = IF i <= Len(one) THEN one[i]
                          ELSE IF i <= Len(one) + g THEN None ELSE r.slots[i - (Len(one) + g)]
      BY <3>0 DEF Padded
    <3>. HIDE DEF more, n
    <3>2. \A i \in 1 .. 1 + g + n : i <= 1 <=> i = 1
      BY <1>0, <2>1
    <3>. QED  BY <1>3, <3>1, <3>2
  <2>. HIDE DEF more
  <2>4. n # 0 /\ r.slots[n] # None
    BY <1>1, <1>7 DEF Trimmed
  <2>5. q \in Rings(V) /\ q.base = seq /\ q.slots = more /\ q.len = r.len + 1
    BY <1>1, <2>2, <2>3 DEF Rings, T
  <2>. HIDE DEF n
  <2>6. Trimmed(q)
    <3>1. 1 \in 1 .. 1 + g + n /\ 1 + g + n \in 1 .. 1 + g + n /\ 1 <= n
          /\ (1 + g + n) - (1 + g) = n
      BY <1>1, <2>1, <2>4
    <3>2. more[1] = v /\ more[1 + g + n] = r.slots[n]
      BY SMTT(20), <1>0, <2>1, <2>3, <3>1
    <3>. QED  BY <2>3, <2>4, <2>5, <3>2 DEF Trimmed
  <2>7. ASSUME NEW s \in Int
        PROVE  ring_get(q, s) = IF s = seq THEN v ELSE ring_get(r, s)
    <3> DEFINE i == s - seq + 1
    <3>1. /\ i \in 1 .. 1 + g + n => ring_get(q, s) = more[i]
          /\ i \notin 1 .. 1 + g + n => ring_get(q, s) = None
      BY <2>3, <2>5, RingReads
    <3>2. i \in Int /\ (s = seq <=> i = 1) /\ s - r.base + 1 = i - (1 + g)
      BY <1>0, <2>1
    <3>. HIDE DEF i
    <3>3. s - r.base + 1 \in 1 .. n <=> i \in 1 .. 1 + g + n /\ i > 1 + g
      BY <1>0, <2>1, <3>2
    <3>4. CASE i \in 1 .. 1 + g + n /\ i > 1 + g
      <4>1. i # 1 /\ ~(i <= 1 + g) /\ s # seq
        BY <1>0, <2>1, <3>2, <3>4
      <4>2. more[i] = r.slots[i - (1 + g)]
        BY <2>3, <3>4, <4>1
      <4>3. ring_get(r, s) = r.slots[i - (1 + g)]
        BY <1>2, <3>2, <3>3, <3>4
      <4>. QED  BY <3>1, <3>4, <4>1, <4>2, <4>3
    <3>5. CASE i \in 1 .. 1 + g + n /\ ~(i > 1 + g)
      BY <1>0, <1>2, <2>1, <2>3, <3>1, <3>2, <3>3, <3>5
    <3>6. CASE i \notin 1 .. 1 + g + n
      <4>1. s # seq
        BY <1>0, <2>1, <3>2, <3>6
      <4>. QED  BY <1>2, <3>1, <3>3, <3>6, <4>1
    <3>. QED  BY <3>4, <3>5, <3>6
  <2>8. ring_get(r, seq) = None
    BY <1>1, <1>2, <2>1
  <2>. QED  BY <2>5, <2>6, <2>7, <2>8 DEF PutIn, q
<1>8. (r.base <= seq /\ seq < RingEnd(r)) \/ seq >= RingEnd(r) \/ seq < r.base
  BY <1>1
<1>. QED  BY <1>4, <1>5, <1>6, <1>7, <1>8

(* ring_insert puts one value in, wherever its seq lies.                   *)
LEMMA RingInserts ==
    ASSUME NEW V, NEW r, SoundRing(V, r), NEW seq \in Nat, NEW v \in V, v # None
    PROVE  /\ SoundRing(V, ring_insert(r, seq, v))
           /\ RingKeys(ring_insert(r, seq, v)) = RingKeys(r) \cup {seq}
           /\ \A s \in Int : ring_get(ring_insert(r, seq, v), s) = IF s = seq THEN v ELSE ring_get(r, s)
<1> DEFINE q == ring_insert(r, seq, v)
<1>1. PutIn(V, q, r, seq, v)
  BY InsertCases
<1>2. r \in Rings(V) /\ r.len = Cardinality(RingKeys(r))
  BY DEF SoundRing, WellFormed
<1>. HIDE DEF q
<1>3. q \in Rings(V) /\ Trimmed(q)
      /\ \A s \in Int : ring_get(q, s) = IF s = seq THEN v ELSE ring_get(r, s)
  BY <1>1 DEF PutIn
<1>4. /\ RingKeys(r) = {s \in Int : ring_get(r, s) # None} /\ IsFiniteSet(RingKeys(r))
      /\ RingKeys(q) = {s \in Int : ring_get(q, s) # None}
  BY <1>2, <1>3, RingContents
<1>5. RingKeys(q) = RingKeys(r) \cup {seq} /\ (seq \in RingKeys(r) <=> ring_get(r, seq) # None)
  BY <1>3, <1>4
<1>6. q.len = Cardinality(RingKeys(q))
  <2>1. CASE ring_get(r, seq) = None
    <3>1. Cardinality(RingKeys(r) \cup {seq}) = Cardinality(RingKeys(r)) + 1
      BY <1>4, <1>5, <2>1, FS_AddElement
    <3>. QED  BY <1>1, <1>2, <1>5, <2>1, <3>1 DEF PutIn
  <2>2. CASE ring_get(r, seq) # None
    <3>1. RingKeys(q) = RingKeys(r)
      BY <1>5, <2>2
    <3>. QED  BY <1>1, <1>2, <2>2, <3>1 DEF PutIn
  <2>. QED  BY <2>1, <2>2
<1>7. SoundRing(V, q)
  BY <1>3, <1>6 DEF SoundRing, WellFormed, Trimmed
<1>. QED  BY <1>3, <1>5, <1>7 DEF q

(* A trimmed ring that counts what is left.                                *)
LEMMA TrimmedRing ==
    ASSUME NEW V, NEW r \in Rings(V), r.len = Cardinality(RingKeys(r))
    PROVE  /\ SoundRing(V, trim(r)) /\ RingKeys(trim(r)) = RingKeys(r)
           /\ \A s \in Int : ring_get(trim(r), s) = ring_get(r, s)
<1> DEFINE q == trim(r)
<1>1. /\ q \in Rings(V) /\ q.len = r.len /\ Trimmed(q)
      /\ \A s \in Int : ring_get(q, s) = ring_get(r, s)
  BY TrimKeeps
<1>. HIDE DEF q
<1>2. /\ RingKeys(r) = {s \in Int : ring_get(r, s) # None}
      /\ RingKeys(q) = {s \in Int : ring_get(q, s) # None}
  BY <1>1, RingContents
<1>3. RingKeys(q) = RingKeys(r)
  BY <1>1, <1>2
<1>4. SoundRing(V, q)
  BY <1>1, <1>3 DEF SoundRing, WellFormed, Trimmed
<1>. QED  BY <1>1, <1>3, <1>4 DEF q

(* ring_remove takes one seq out and trims the ends.                       *)
LEMMA RingRemoves ==
    ASSUME NEW V, NEW r, SoundRing(V, r), NEW seq \in Int
    PROVE  /\ SoundRing(V, ring_remove(r, seq))
           /\ RingKeys(ring_remove(r, seq)) = RingKeys(r) \ {seq}
           /\ \A s \in Int : ring_get(ring_remove(r, seq), s)
                                = IF s = seq THEN None ELSE ring_get(r, s)
<1>1. /\ r \in Rings(V) /\ r.len = Cardinality(RingKeys(r)) /\ r.len \in Int
      /\ r.base \in Nat /\ r.slots \in Seq(V \cup {None}) /\ Len(r.slots) \in Nat
      /\ r = [base |-> r.base, slots |-> r.slots, len |-> r.len]
  BY DEF SoundRing, WellFormed, Rings
<1>2. /\ RingKeys(r) = {s \in Int : ring_get(r, s) # None} /\ IsFiniteSet(RingKeys(r))
  BY <1>1, RingContents
<1>3. CASE ring_get(r, seq) = None
  <2>1. ring_remove(r, seq) = r
    BY <1>3 DEF ring_remove
  <2>2. RingKeys(r) \ {seq} = RingKeys(r)
    BY <1>2, <1>3
  <2>. QED  BY <1>3, <2>1, <2>2
<1>4. CASE ring_get(r, seq) # None
  <2> DEFINE at == seq - r.base + 1
             more == [r.slots EXCEPT ![at] = None]
             q == [r EXCEPT !.slots[seq - r.base + 1] = None, !.len = @ - 1]
  <2>1. ring_remove(r, seq) = trim(q)
    BY <1>4 DEF ring_remove
  <2>2. q = [base |-> r.base, slots |-> more, len |-> r.len - 1]
    <3>1. q = [[r EXCEPT !.slots = more] EXCEPT !.len = r.len - 1]
      OBVIOUS
    <3>. HIDE DEF q, more
    <3>. QED  BY <1>1, <3>1
  <2>3. at \in 1 .. Len(r.slots)
    BY <1>1, <1>4, RingReads
  <2>4. /\ more \in Seq(V \cup {None}) /\ Len(more) = Len(r.slots)
        /\ \A i \in 1 .. Len(r.slots) : more[i] = IF i = at THEN None ELSE r.slots[i]
    BY <1>1, <2>3
  <2>. HIDE DEF q, more
  <2>5. q \in Rings(V) /\ q.base = r.base /\ q.slots = more /\ q.len = r.len - 1
    BY <1>1, <2>2, <2>4 DEF Rings
  <2>6. ASSUME NEW s \in Int
        PROVE  ring_get(q, s) = IF s = seq THEN None ELSE ring_get(r, s)
    <3>1. /\ s - r.base + 1 \in 1 .. Len(r.slots) => ring_get(q, s) = more[s - r.base + 1]
          /\ s - r.base + 1 \notin 1 .. Len(r.slots) => ring_get(q, s) = None
      BY <2>4, <2>5, RingReads
    <3>2. /\ s - r.base + 1 \in 1 .. Len(r.slots) => ring_get(r, s) = r.slots[s - r.base + 1]
          /\ s - r.base + 1 \notin 1 .. Len(r.slots) => ring_get(r, s) = None
      BY <1>1, RingReads
    <3>3. s = seq <=> s - r.base + 1 = at
      BY <1>1
    <3>. HIDE DEF at
    <3>. QED  BY <2>3, <2>4, <3>1, <3>2, <3>3
  <2>7. RingKeys(q) = {s \in Int : ring_get(q, s) # None}
    BY <2>5, RingContents
  <2>8. RingKeys(q) = RingKeys(r) \ {seq} /\ seq \in RingKeys(r)
    BY <1>2, <1>4, <2>6, <2>7
  <2>9. q.len = Cardinality(RingKeys(q))
    <3>1. Cardinality(RingKeys(r) \ {seq}) = Cardinality(RingKeys(r)) - 1
      BY <1>2, <2>8, FS_RemoveElement
    <3>. QED  BY <1>1, <2>5, <2>8, <3>1
  <2>10. /\ SoundRing(V, trim(q)) /\ RingKeys(trim(q)) = RingKeys(q)
         /\ \A s \in Int : ring_get(trim(q), s) = ring_get(q, s)
    BY <2>5, <2>9, TrimmedRing
  <2>. QED  BY <2>1, <2>6, <2>8, <2>10
<1>. QED  BY <1>3, <1>4

(* prune_below forgets what is below, and only that.                       *)
LEMMA RingPrunes ==
    ASSUME NEW V, NEW r, SoundRing(V, r), NEW f \in Int
    PROVE  /\ SoundRing(V, prune_below(r, f))
           /\ RingKeys(prune_below(r, f)) = {s \in RingKeys(r) : s >= f}
           /\ \A s \in Int : ring_get(prune_below(r, f), s) = IF s < f THEN None ELSE ring_get(r, s)
<1> DEFINE len == Len(r.slots)
           n == IF f <= r.base THEN 0 ELSE IF f >= RingEnd(r) THEN len ELSE f - r.base
           rest == SubSeq(r.slots, n + 1, len)
           q == [base |-> r.base + n, slots |-> rest,
                 len |-> r.len - Cardinality({i \in 1 .. n : r.slots[i] # None})]
<1>1. /\ r \in Rings(V) /\ r.len = Cardinality(RingKeys(r)) /\ r.len \in Int
      /\ r.base \in Nat /\ r.slots \in Seq(V \cup {None}) /\ len \in Nat
      /\ RingEnd(r) = r.base + len
  BY DEF SoundRing, WellFormed, Rings, RingEnd
<1>2. /\ RingKeys(r) = {s \in Int : ring_get(r, s) # None} /\ IsFiniteSet(RingKeys(r))
      /\ \A s \in RingKeys(r) : r.base <= s /\ s < RingEnd(r) /\ s \in Int
  <2>1. RingKeys(r) \in SUBSET Nat
    BY <1>1, RingContents
  <2>. QED  BY <1>1, <2>1, RingContents
<1>3. prune_below(r, f) = trim(q)
  BY DEF prune_below
<1>4. n \in 0 .. len
  BY <1>1
<1>5. ASSUME NEW s \in Int, r.base <= s, s < RingEnd(r)
      PROVE  s < f <=> s < r.base + n
  BY <1>1, <1>5
<1>. HIDE DEF n
<1>6. /\ rest \in Seq(V \cup {None}) /\ Len(rest) = len - n
      /\ \A i \in 1 .. len - n : rest[i] = r.slots[n + i]
  <2>1. rest \in Seq(V \cup {None})
    BY <1>1, <1>4
  <2>2. Len(rest) = len - n /\ \A i \in 1 .. len - n : rest[i] = r.slots[(n + 1) + i - 1]
    BY <1>1, <1>4
  <2>3. \A i \in 1 .. len - n : (n + 1) + i - 1 = n + i
    BY <1>1, <1>4
  <2>. HIDE DEF rest, len
  <2>. QED  BY <2>1, <2>2, <2>3
<1>7. Cardinality({i \in 1 .. n : r.slots[i] # None})
          = Cardinality({s \in RingKeys(r) : s < r.base + n})
  BY <1>1, <1>4, SlotsCountKeys
<1> DEFINE low == {s \in RingKeys(r) : s < r.base + n}
<1>8. /\ IsFiniteSet(low) /\ Cardinality(low) \in Nat
      /\ Cardinality(RingKeys(r) \ low) = Cardinality(RingKeys(r)) - Cardinality(low)
  <2>1. low \subseteq RingKeys(r)
    OBVIOUS
  <2>2. IsFiniteSet(low)
    BY <1>2, <2>1, FS_Subset
  <2>3. RingKeys(r) \cap low = low
    BY <2>1
  <2>. HIDE DEF low
  <2>4. Cardinality(low) \in Nat
    BY <2>2, FS_CardinalityType
  <2>5. Cardinality(RingKeys(r) \ low) = Cardinality(RingKeys(r)) - Cardinality(RingKeys(r) \cap low)
    BY <1>2, FS_Difference
  <2>. QED  BY <2>2, <2>3, <2>4, <2>5
<1>. HIDE DEF rest
<1>9. /\ q \in Rings(V) /\ q.base = r.base + n /\ q.slots = rest
      /\ q.len = Cardinality(RingKeys(r)) - Cardinality(low)
  <2>1. r.base + n \in Nat
    BY <1>1, <1>4
  <2>2. r.len - Cardinality(low) \in Int
    BY <1>1, <1>8
  <2>. QED  BY <1>1, <1>6, <1>7, <2>1, <2>2 DEF Rings
<1>. HIDE DEF q
<1>10. ASSUME NEW s \in Int
       PROVE  ring_get(q, s) = IF s < f THEN None ELSE ring_get(r, s)
  <2>1. /\ s - q.base + 1 \in 1 .. len - n => ring_get(q, s) = rest[s - q.base + 1]
        /\ s - q.base + 1 \notin 1 .. len - n => ring_get(q, s) = None
    BY <1>6, <1>9, RingReads
  <2>2. /\ s - r.base + 1 \in 1 .. len => ring_get(r, s) = r.slots[s - r.base + 1]
        /\ s - r.base + 1 \notin 1 .. len => ring_get(r, s) = None
    BY <1>1, RingReads
  <2>3. CASE s - r.base + 1 \in 1 .. len
    <3>1. r.base <= s /\ s < RingEnd(r)
      BY <1>1, <2>3
    <3>2. CASE s < r.base + n
      <4>1. s - q.base + 1 \notin 1 .. len - n /\ s < f
        BY <1>1, <1>4, <1>5, <1>9, <3>1, <3>2
      <4>. QED  BY <2>1, <4>1
    <3>3. CASE ~(s < r.base + n)
      <4>1. /\ s - q.base + 1 \in 1 .. len - n /\ n + (s - q.base + 1) = s - r.base + 1
            /\ ~(s < f)
        <5>1. ~(s < f)
          BY <1>5, <3>1, <3>3
        <5>2. /\ n \in Int /\ 0 <= n /\ n <= len /\ len \in Int /\ r.base \in Int
              /\ r.base + n <= s /\ s < r.base + len
          BY <1>1, <1>4, <3>1, <3>3
        <5>. HIDE DEF len
        <5>3. q.base = r.base + n
          BY <1>9
        <5>. QED  BY <5>1, <5>2, <5>3
      <4>2. rest[s - q.base + 1] = r.slots[s - r.base + 1]
        BY <1>6, <4>1
      <4>. QED  BY <2>1, <2>2, <2>3, <4>1, <4>2
    <3>. QED  BY <3>2, <3>3
  <2>4. CASE s - r.base + 1 \notin 1 .. len
    <3>1. s - q.base + 1 \notin 1 .. len - n
      <4>1. /\ n \in Int /\ 0 <= n /\ n <= len /\ len \in Int /\ r.base \in Int
            /\ ~(r.base <= s /\ s < r.base + len)
        BY SMTT(20), <1>1, <1>4, <2>4
      <4>. HIDE DEF len
      <4>2. q.base = r.base + n
        BY <1>9
      <4>. QED  BY <4>1, <4>2
    <3>. QED  BY <2>1, <2>2, <2>4, <3>1
  <2>. QED  BY <2>3, <2>4
<1>11. RingKeys(q) = {s \in Int : ring_get(q, s) # None}
  BY <1>9, RingContents
<1>12. RingKeys(q) = RingKeys(r) \ low
  BY <1>2, <1>5, <1>10, <1>11
<1>13. RingKeys(q) = {s \in RingKeys(r) : s >= f}
  BY <1>2, <1>10, <1>11
<1>14. q.len = Cardinality(RingKeys(q))
  BY <1>8, <1>9, <1>12
<1>15. /\ SoundRing(V, trim(q)) /\ RingKeys(trim(q)) = RingKeys(q)
       /\ \A s \in Int : ring_get(trim(q), s) = ring_get(q, s)
  BY <1>9, <1>14, TrimmedRing
<1>. QED  BY <1>3, <1>10, <1>13, <1>15

(* The first and the last key.                                             *)
LEMMA RingEnds ==
    ASSUME NEW V, NEW r, SoundRing(V, r)
    PROVE  /\ r.slots = <<>> <=> RingKeys(r) = {}
           /\ RingKeys(r) = {} => first_key(r) = -1 /\ last_key(r) = -1 /\ r.len = 0
           /\ RingKeys(r) # {} =>
                 /\ first_key(r) \in RingKeys(r) /\ \A s \in RingKeys(r) : first_key(r) <= s
                 /\ last_key(r) \in RingKeys(r) /\ \A s \in RingKeys(r) : s <= last_key(r)
                 /\ r.len # 0
           /\ RingEnd(r) \in Nat /\ \A s \in RingKeys(r) : s < RingEnd(r)
           /\ Len(r.slots) = IF RingKeys(r) = {} THEN 0 ELSE last_key(r) - first_key(r) + 1
<1>1. /\ r \in Rings(V) /\ Trimmed(r) /\ r.len = Cardinality(RingKeys(r))
      /\ r.base \in Nat /\ r.slots \in Seq(V \cup {None}) /\ Len(r.slots) \in Nat
  BY DEF SoundRing, WellFormed, Rings, Trimmed
<1>2. /\ RingEnd(r) \in Nat /\ RingEnd(r) = r.base + Len(r.slots)
      /\ RingKeys(r) = {s \in Int : ring_get(r, s) # None} /\ IsFiniteSet(RingKeys(r))
      /\ RingKeys(r) \in SUBSET Nat
      /\ \A s \in RingKeys(r) : r.base <= s /\ s < RingEnd(r)
      /\ \A i \in 1 .. Len(r.slots) : ring_get(r, r.base + i - 1) = r.slots[i]
  BY <1>1, RingContents
<1>3. CASE r.slots = <<>>
  <2>1. RingEnd(r) = r.base
    BY <1>1, <1>2, <1>3
  <2>2. RingKeys(r) = {}
    BY <1>1, <1>2, <2>1
  <2>3. r.len = 0
    BY <1>1, <2>2, FS_EmptySet
  <2>4. first_key(r) = -1 /\ last_key(r) = -1 /\ Len(r.slots) = 0
    BY <1>3 DEF first_key, last_key
  <2>. QED  BY <1>2, <1>3, <2>2, <2>3, <2>4
<1>4. CASE r.slots # <<>>
  <2>1. /\ first_key(r) = r.base /\ last_key(r) = RingEnd(r) - 1 /\ Len(r.slots) # 0
        /\ r.slots[1] # None /\ r.slots[Len(r.slots)] # None
    BY <1>1, <1>4 DEF first_key, last_key, Trimmed
  <2>2. /\ 1 \in 1 .. Len(r.slots) /\ Len(r.slots) \in 1 .. Len(r.slots)
        /\ r.base + 1 - 1 = r.base /\ r.base + Len(r.slots) - 1 = RingEnd(r) - 1
        /\ RingEnd(r) - 1 \in Int /\ r.base \in Int
    BY <1>1, <1>2, <2>1
  <2>3. ring_get(r, r.base) # None /\ ring_get(r, RingEnd(r) - 1) # None
    BY <1>2, <2>1, <2>2
  <2>4. r.base \in RingKeys(r) /\ RingEnd(r) - 1 \in RingKeys(r)
    BY <1>2, <2>2, <2>3
  <2>5. r.len # 0
    BY <1>1, <1>2, <2>4, FS_EmptySet
  <2>6. \A s \in RingKeys(r) : r.base <= s /\ s <= RingEnd(r) - 1
    BY <1>2
  <2>7. Len(r.slots) = last_key(r) - first_key(r) + 1
    BY <1>1, <1>2, <2>1
  <2>. QED  BY <1>2, <1>4, <2>1, <2>4, <2>5, <2>6, <2>7
<1>. QED  BY <1>3, <1>4

(* count_below counts the keys below, on the fast path too.                *)
LEMMA RingCounts ==
    ASSUME NEW V, NEW r, SoundRing(V, r), NEW f \in Int
    PROVE  count_below(r, f) = Cardinality({s \in RingKeys(r) : s < f})
<1> DEFINE n == Len(r.slots)
           k == IF f - r.base < n THEN f - r.base ELSE n
           below == {s \in RingKeys(r) : s < f}
<1>1. /\ r \in Rings(V) /\ r.len = Cardinality(RingKeys(r))
      /\ r.base \in Nat /\ r.slots \in Seq(V \cup {None}) /\ n \in Nat
  BY DEF SoundRing, WellFormed, Rings
<1>2. /\ RingEnd(r) = r.base + n
      /\ RingKeys(r) = {s \in Int : ring_get(r, s) # None} /\ IsFiniteSet(RingKeys(r))
      /\ RingKeys(r) \in SUBSET Nat
      /\ \A s \in RingKeys(r) : r.base <= s /\ s < RingEnd(r)
      /\ \A i \in 1 .. n : ring_get(r, r.base + i - 1) = r.slots[i] /\ r.base + i - 1 \in Nat
  BY <1>1, RingContents
<1>3. CASE f <= r.base
  <2>1. below = {}
    BY <1>1, <1>2, <1>3
  <2>. QED  BY <1>3, <2>1, FS_EmptySet DEF count_below
<1>4. CASE ~(f <= r.base)
  <2>1. k \in 0 .. n
    BY <1>1, <1>4
  <2>2. \A s \in RingKeys(r) : s < f <=> s < r.base + k
    BY <1>1, <1>2
  <2>. HIDE DEF k
  <2>3. below = {s \in RingKeys(r) : s < r.base + k}
    BY <2>2
  <2>4. Cardinality({i \in 1 .. k : r.slots[i] # None}) = Cardinality(below)
    BY <1>1, <2>1, <2>3, SlotsCountKeys
  <2>5. count_below(r, f) = IF r.len = n THEN k ELSE Cardinality({i \in 1 .. k : r.slots[i] # None})
    BY <1>4 DEF count_below, k
  <2>6. ASSUME r.len = n
        PROVE  Cardinality({i \in 1 .. k : r.slots[i] # None}) = k
    <3> DEFINE all == r.base .. RingEnd(r) - 1
    <3>1. IsFiniteSet(all) /\ Cardinality(all) = n
      <4> DEFINE b == r.base + n - 1
      <4>1. r.base \in Int /\ b \in Int /\ all = r.base .. b
        BY <1>1, <1>2
      <4>. HIDE DEF all
      <4>2. IsFiniteSet(all) /\ Cardinality(all) = IF r.base > b THEN 0 ELSE b - r.base + 1
        <5>. HIDE DEF b
        <5>. QED  BY <4>1, FS_Interval
      <4>. QED  BY <1>1, <4>2
    <3>2. RingKeys(r) \subseteq all
      BY <1>1, <1>2
    <3>3. RingKeys(r) = all
      BY <1>1, <2>6, <3>1, <3>2, FS_Subset
    <3>4. \A i \in 1 .. k : r.slots[i] # None
      <4> SUFFICES ASSUME NEW i \in 1 .. k
                   PROVE  r.slots[i] # None
        OBVIOUS
      <4>1. i \in 1 .. n /\ r.base + i - 1 \in all
        <5>1. i \in Int /\ 1 <= i /\ i <= n
          BY <1>1, <2>1
        <5>. QED  BY <1>1, <1>2, <5>1
      <4>. HIDE DEF all
      <4>. QED  BY <1>2, <3>3, <4>1
    <3>5. {i \in 1 .. k : r.slots[i] # None} = 1 .. k
      BY <3>4
    <3>6. Cardinality(1 .. k) = k
      BY <1>1, <2>1, FS_Interval
    <3>. QED  BY <3>5, <3>6
  <2>. QED  BY <2>4, <2>5, <2>6
<1>. QED  BY <1>3, <1>4

(* ring_range finds the keys in between.                                   *)
LEMMA RingRanges ==
    ASSUME NEW V, NEW r, SoundRing(V, r), NEW lo \in Int, NEW hi \in Int
    PROVE  ring_range(r, lo, hi) = {s \in RingKeys(r) : lo <= s /\ s <= hi}
<1> DEFINE n == Len(r.slots)
           cut(x) == IF x < n THEN x ELSE n
           a == cut(IF lo > r.base THEN lo - r.base ELSE 0)
           b == IF hi < r.base \/ hi < lo THEN a
                ELSE IF cut(hi - r.base + 1) > a THEN cut(hi - r.base + 1) ELSE a
<1>1. r.base \in Nat /\ n \in Nat /\ r \in Rings(V)
  BY DEF SoundRing, Rings
<1>2. /\ RingEnd(r) = r.base + n
      /\ RingKeys(r) = {s \in Int : ring_get(r, s) # None}
      /\ RingKeys(r) \in SUBSET Nat
      /\ \A s \in RingKeys(r) : r.base <= s /\ s < RingEnd(r)
      /\ \A i \in 1 .. n : ring_get(r, r.base + i - 1) = r.slots[i] /\ r.base + i - 1 \in Nat
  BY <1>1, RingContents
<1>3. ring_range(r, lo, hi) = {r.base + i : i \in {j \in a .. b - 1 : r.slots[j + 1] # None}}
  BY DEF ring_range
<1>4. a \in 0 .. n /\ b \in 0 .. n
  BY SMTT(20), <1>1
<1>5. \A j \in 0 .. n - 1 : j \in a .. b - 1 <=> lo <= r.base + j /\ r.base + j <= hi
  <2> SUFFICES ASSUME NEW j \in 0 .. n - 1
               PROVE  j \in a .. b - 1 <=> lo <= r.base + j /\ r.base + j <= hi
    OBVIOUS
  <2>1. j \in Int /\ 0 <= j /\ j < n /\ r.base \in Int
    BY <1>1
  <2>2. a <= j <=> lo <= r.base + j
    BY <1>1, <2>1
  <2>3. CASE hi < r.base \/ hi < lo
    <3>1. b = a
      BY <2>3
    <3>2. ~(lo <= r.base + j /\ r.base + j <= hi)
      BY <2>1, <2>3
    <3>. HIDE DEF a, b
    <3>. QED  BY <1>4, <2>1, <3>1, <3>2
  <2>4. CASE ~(hi < r.base \/ hi < lo)
    <3> DEFINE c == cut(hi - r.base + 1)
    <3>1. b = IF c > a THEN c ELSE a
      BY <2>4
    <3>2. c \in Int /\ (j < c <=> r.base + j <= hi)
      BY <1>1, <2>1
    <3>. HIDE DEF a, b, c
    <3>. QED  BY <1>4, <2>1, <2>2, <3>1, <3>2
  <2>. QED  BY <2>3, <2>4
<1>. HIDE DEF a, b, n
<1>6. \A j \in 0 .. n - 1 : r.slots[j + 1] # None <=> r.base + j \in RingKeys(r)
  <2> SUFFICES ASSUME NEW j \in 0 .. n - 1
               PROVE  r.slots[j + 1] # None <=> r.base + j \in RingKeys(r)
    OBVIOUS
  <2>1. j + 1 \in 1 .. n /\ r.base + (j + 1) - 1 = r.base + j
    BY <1>1
  <2>2. ring_get(r, r.base + j) = r.slots[j + 1] /\ r.base + j \in Int
    BY <1>1, <1>2, <2>1
  <2>. QED  BY <1>2, <2>2
<1>7. ASSUME NEW s \in RingKeys(r), lo <= s, s <= hi
      PROVE  s \in ring_range(r, lo, hi)
  <2>1. s - r.base \in 0 .. n - 1 /\ r.base + (s - r.base) = s
    BY <1>1, <1>2
  <2>2. s - r.base \in a .. b - 1 /\ r.slots[(s - r.base) + 1] # None
    BY <1>5, <1>6, <1>7, <2>1
  <2>. QED  BY <1>3, <2>1, <2>2
<1>8. ASSUME NEW s \in ring_range(r, lo, hi)
      PROVE  s \in RingKeys(r) /\ lo <= s /\ s <= hi
  <2>1. PICK j \in a .. b - 1 : r.slots[j + 1] # None /\ s = r.base + j
    BY <1>3
  <2>2. j \in 0 .. n - 1
    BY <1>1, <1>4
  <2>. QED  BY <1>5, <1>6, <2>1, <2>2
<1>. QED  BY <1>7, <1>8
-----------------------------------------------------------------------------
(* Sequences joined, one after the other.                                  *)
LEMMA FlattenSteps ==
    ASSUME NEW T, NEW q \in Seq(Seq(T)), q # <<>>
    PROVE  \E st : /\ st[1] = q[1]
                   /\ \A k \in 2 .. Len(q) : st[k] = st[k - 1] \o q[k]
                   /\ FlattenSeq(q) = st[Len(q)]
<1> DEFINE n == Len(q)
           By(f, k) == f = [i \in 1 .. k |-> IF i = 1 THEN q[i] ELSE f[i - 1] \o q[i]]
           S == {k \in 0 .. n : \E f : By(f, k)}
           st == CHOOSE f : By(f, n)
<1>1. n \in Nat /\ n >= 1
  OBVIOUS
<1>2. FlattenSeq(q) = st[n]
  BY <1>1 DEF FlattenSeq
<1>. HIDE DEF n
<1>3. 0 \in S
  <2>1. By([i \in 1 .. 0 |-> q], 0)
    OBVIOUS
  <2>2. 0 \in 0 .. n
    BY <1>1
  <2>. HIDE DEF By
  <2>. QED  BY <2>1, <2>2
<1>4. ASSUME NEW k \in 0 .. n - 1, k \in S
      PROVE  k + 1 \in S
  <2>1. PICK h : By(h, k)
    BY <1>4
  <2> DEFINE more == [i \in 1 .. k + 1 |-> IF i = 1 THEN q[i] ELSE h[i - 1] \o q[i]]
  <2>2. \A i \in 1 .. k : more[i] = h[i]
    <3>1. \A i \in 1 .. k : h[i] = IF i = 1 THEN q[i] ELSE h[i - 1] \o q[i]
      BY <2>1
    <3>2. \A i \in 1 .. k : i \in 1 .. k + 1
      BY <1>1
    <3>. QED  BY <3>1, <3>2
  <2>3. \A i \in 1 .. k + 1 : i # 1 => i - 1 \in 1 .. k
    BY <1>1
  <2>4. By(more, k + 1)
    BY <2>2, <2>3
  <2>5. k + 1 \in 0 .. n
    BY <1>1
  <2>. HIDE DEF more, By
  <2>. QED  BY <2>4, <2>5
<1>. HIDE DEF S
<1>5. n \in S
  <2>1. n \in 0 .. n
    BY <1>1
  <2>2. 0 .. n \subseteq S
    BY <1>1, <1>3, <1>4, IntervalInduction
  <2>. QED  BY <2>1, <2>2
<1>6. By(st, n)
  <2>1. \E f : By(f, n)
    BY <1>5 DEF S
  <2>. HIDE DEF By
  <2>. QED  BY <2>1
<1>. HIDE DEF st
<1>7. st[1] = q[1] /\ \A k \in 2 .. n : st[k] = st[k - 1] \o q[k]
  <2>1. \A i \in 1 .. n : st[i] = IF i = 1 THEN q[i] ELSE st[i - 1] \o q[i]
    BY <1>6
  <2>2. 1 \in 1 .. n /\ \A k \in 2 .. n : k \in 1 .. n /\ k # 1
    BY <1>1
  <2>. QED  BY <2>1, <2>2
<1>. QED  BY <1>2, <1>7 DEF n

(* What is joined is made of the same elements.                            *)
LEMMA FlattenTyped ==
    ASSUME NEW T, NEW q \in Seq(Seq(T))
    PROVE  FlattenSeq(q) \in Seq(T)
<1>1. CASE q = <<>>
  <2>1. FlattenSeq(q) = <<>>
    BY <1>1 DEF FlattenSeq
  <2>. QED  BY <2>1
<1>2. CASE q # <<>>
  <2> DEFINE n == Len(q)
  <2>1. n \in Nat /\ n >= 1 /\ \A k \in 1 .. n : q[k] \in Seq(T)
    BY <1>2
  <2>2. PICK st : /\ st[1] = q[1]
                  /\ \A k \in 2 .. n : st[k] = st[k - 1] \o q[k]
                  /\ FlattenSeq(q) = st[n]
    BY <1>2, FlattenSteps
  <2>. HIDE DEF n
  <2> DEFINE S == {k \in 0 .. n - 1 : st[k + 1] \in Seq(T)}
  <2>3. 0 \in S
    <3>1. 1 \in 1 .. n /\ 0 + 1 = 1 /\ 0 \in 0 .. n - 1
      BY <2>1
    <3>. QED  BY <2>1, <2>2, <3>1
  <2>4. ASSUME NEW k \in 0 .. (n - 1) - 1, k \in S
        PROVE  k + 1 \in S
    <3> DEFINE j == k + 1
    <3>1. /\ j + 1 \in 2 .. n /\ j + 1 \in 1 .. n /\ (j + 1) - 1 = j /\ j \in 0 .. n - 1
      BY <2>1
    <3>2. st[j] \in Seq(T)
      BY <2>4
    <3>. HIDE DEF j
    <3>3. st[j + 1] = st[j] \o q[j + 1] /\ q[j + 1] \in Seq(T)
      BY <2>1, <2>2, <3>1
    <3>4. st[j + 1] \in Seq(T)
      BY <3>2, <3>3
    <3>5. j \in S
      BY <3>1, <3>4
    <3>. QED  BY <3>5 DEF j
  <2>5. st[n] \in Seq(T)
    <3>. HIDE DEF S
    <3>1. n - 1 \in Nat /\ n - 1 \in 0 .. n - 1 /\ (n - 1) + 1 = n
      BY <2>1
    <3>2. 0 .. n - 1 \subseteq S
      BY <2>3, <2>4, <3>1, IntervalInduction
    <3>. QED  BY <3>1, <3>2 DEF S
  <2>. QED  BY <2>2, <2>5
<1>. QED  BY <1>1, <1>2
=============================================================================
