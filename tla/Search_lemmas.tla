---------------------------- MODULE Search_lemmas ----------------------------
(***************************************************************************)
(* What the operators of module Search compute: orders and sums, the best  *)
(* of some documents, the descriptions of blocks, scores, windows, slices; *)
(* and those of TermPostings, definitions of terms and how they change.    *)
(***************************************************************************)
EXTENDS Search, FiniteSetTheorems, SequenceTheorems, TLAPS

-----------------------------------------------------------------------------
(* Numbers of a search. *)

\* Max and Min of the community modules choose: a witness is enough.
LEMMA MaxIs ==
  ASSUME NEW S, NEW x \in S, \A y \in S : x >= y
  PROVE  Max(S) \in S /\ \A y \in S : Max(S) >= y
BY DEF Max

LEMMA MinIs ==
  ASSUME NEW S, NEW x \in S, \A y \in S : x <= y
  PROVE  Min(S) \in S /\ \A y \in S : Min(S) <= y
BY DEF Min

\* A set of numbers up to a bound has a largest one.
LEMMA LargestUpTo ==
  ASSUME NEW n \in Nat, NEW S \in SUBSET (1..n), 1 \in S
  PROVE  Max(S) \in S
<1> DEFINE Above(x) == {y \in S : y > x}
           Aboves == {Above(x) : x \in S}
<1>1. IsFiniteSet(S)
  <2>1. IsFiniteSet(1..n)
    BY FS_Interval
  <2> QED
    BY <2>1, FS_Subset
<1>2. Aboves \subseteq FiniteSubsetsOf(S) /\ Aboves # {}
  <2>1. \A x \in S : Above(x) \in SUBSET S /\ IsFiniteSet(Above(x))
    BY <1>1, FS_Subset DEF Above
  <2> QED
    BY <2>1 DEF FiniteSubsetsOf, Aboves
<1>3. PICK U \in Aboves : \A V \in Aboves : ~ (<<V, U>> \in StrictSubsetOrdering(S))
  BY <1>1, <1>2, FS_StrictSubsetOrderingWellFounded, WFMin
<1>4. PICK x \in S : U = Above(x)
  BY <1>3 DEF Aboves
<1>5. ASSUME NEW y \in S, y > x PROVE FALSE
  <2>1. \A z \in S : z > y => z > x
    BY <1>5
  <2>2. Above(y) \subseteq Above(x)
    BY <2>1 DEF Above
  <2>3. y \in Above(x)
    BY <1>5 DEF Above
  <2>4. y \notin Above(y)
    <3>1. ~(y > y)
      BY <1>5
    <3> QED
      BY <3>1 DEF Above
  <2>5. <<Above(y), U>> \in StrictSubsetOrdering(S)
    BY <2>2, <2>3, <2>4, <1>4 DEF StrictSubsetOrdering, Above
  <2> QED
    BY <1>3, <2>5 DEF Aboves
<1>6. \A y \in S : x >= y
  BY <1>5
<1> QED
  BY <1>6, MaxIs

LEMMA ListIs ==
  ASSUME NEW n \in Nat, NEW s, s = [k \in 1..n |-> s[k]]
  PROVE  DOMAIN s = 1..n /\ Len(s) = n
<1> DEFINE S == {s[k] : k \in 1..n}
<1>1. s \in [1..n -> S]
  OBVIOUS
<1> HIDE DEF S
<1>2. s \in Seq(S)
  BY <1>1, SeqDef
<1>3. DOMAIN s = 1..Len(s) /\ Len(s) \in Nat
  BY <1>2, LenProperties
<1>4. DOMAIN s = 1..n
  BY <1>1
<1> QED
  BY <1>3, <1>4

LEMMA PartOfANumber ==
  ASSUME NEW a \in Nat, NEW b \in Nat \ {0}
  PROVE  a \div b \in 0..a
<1> DEFINE q == a \div b
<1>1. q \in Int /\ b * q <= a /\ a < b * q + b
  OBVIOUS
<1> HIDE DEF q
<1>2. q >= 0
  <2> SUFFICES ASSUME q < 0 PROVE FALSE
    BY <1>1
  <2>1. b * q <= b * (0 - 1)
    BY <1>1
  <2> QED
    BY <2>1, <1>1
<1>3. q <= b * q
  BY <1>1, <1>2
<1> QED
  BY <1>1, <1>2, <1>3 DEF q

\* The segments of a scene, the threads that take them and those of each.
LEMMA NumbersOf ==
  ASSUME scene \in Scenes
  PROVE  /\ PartsNb \in 1..MaxParts /\ PartsNb \in Nat
         /\ WorkersNb \in 1..MaxThreads + 1
         /\ Inner \in 1..MaxThreads + 1
<1>1. PartsNb \in 1..MaxParts /\ PartsNb \in Nat \ {0}
  BY ScenesAssumption DEF PartsNb
<1>2. scene.threads \in 1..MaxThreads + 1 /\ scene.threads \in Nat
  BY ScenesAssumption, MaxThreadsAssumption
<1> DEFINE least == Min({scene.threads, PartsNb})
           share == scene.threads \div PartsNb
<1>3. least \in {scene.threads, PartsNb} /\ least <= scene.threads
  <2>1. \E x \in {scene.threads, PartsNb} : \A y \in {scene.threads, PartsNb} : x <= y
    BY <1>1, <1>2
  <2> QED
    BY <2>1, MinIs
<1>4. least \in 1..MaxThreads + 1
  BY <1>1, <1>2, <1>3, MaxThreadsAssumption
<1>5. share \in 0..scene.threads
  BY <1>1, <1>2, PartOfANumber
<1> HIDE DEF least, share
<1>6. ASSUME NEW n \in 0..MaxThreads + 1 PROVE Max({1, n}) \in 1..MaxThreads + 1
  <2>1. \E x \in {1, n} : \A y \in {1, n} : x >= y
    BY MaxThreadsAssumption
  <2>2. Max({1, n}) \in {1, n} /\ Max({1, n}) >= 1
    BY <2>1, MaxIs
  <2> QED
    BY <2>2, MaxThreadsAssumption
<1>7. WorkersNb \in 1..MaxThreads + 1
  <2>1. least \in 0..MaxThreads + 1
    BY <1>4
  <2> QED
    BY <2>1, <1>6 DEF WorkersNb, least
<1>8. Inner \in 1..MaxThreads + 1
  <2>1. share \in 0..MaxThreads + 1
    BY <1>2, <1>5, MaxThreadsAssumption
  <2> QED
    BY <2>1, <1>6 DEF Inner, share
<1> QED
  BY <1>1, <1>7, <1>8

\* The segments by size are all of them, each once.
LEMMA BySizeOnce ==
  ASSUME scene \in Scenes
  PROVE  /\ \A k \in 1..PartsNb : BySize[k] \in 1..PartsNb
         /\ \A k, l \in 1..PartsNb : BySize[k] = BySize[l] => k = l
<1> DEFINE n == PartsNb
           S == 1..n
           Before(a) == {b \in S : Larger(b, a)}
           rank == [a \in S |-> Cardinality(Before(a))]
<1>1. n \in Nat /\ IsFiniteSet(S) /\ Cardinality(S) = n
  BY NumbersOf, FS_Interval
<1>2. \A a \in S : LiveNb(a) \in Nat
  <2> TAKE a \in S
  <2>1. IsFiniteSet(DOMAIN scene.parts[a].lengths)
    BY ScenesAssumption DEF PartsNb
  <2>2. IsFiniteSet(DOMAIN scene.parts[a].lengths \ scene.parts[a].deleted)
    BY <2>1, FS_Subset
  <2> QED
    BY <2>2, FS_CardinalityType DEF LiveNb
<1>3. ASSUME NEW a \in S, NEW b \in S
      PROVE  /\ a # b => Larger(a, b) \/ Larger(b, a)
             /\ ~Larger(a, a)
             /\ \A c \in S : Larger(c, a) /\ Larger(a, b) => Larger(c, b)
  <2>1. S \in SUBSET Nat
    BY <1>1
  <2> HIDE DEF S
  <2> QED
    BY <2>1, <1>2 DEF Larger
<1> HIDE DEF S
<1>4. ASSUME NEW a \in S PROVE IsFiniteSet(Before(a)) /\ Cardinality(Before(a)) \in 0..(n - 1)
  <2>1. Before(a) \in SUBSET (S \ {a})
    BY <1>3
  <2>2. IsFiniteSet(S \ {a}) /\ Cardinality(S \ {a}) = n - 1
    BY <1>1, FS_RemoveElement
  <2> HIDE DEF Before
  <2>3. IsFiniteSet(Before(a)) /\ Cardinality(Before(a)) <= n - 1
    BY <2>1, <2>2, FS_Subset
  <2> QED
    BY <2>3, <1>1, FS_CardinalityType
<1>5. ASSUME NEW a \in S, NEW b \in S, Larger(a, b) PROVE rank[a] < rank[b]
  <2>1. Before(a) \cup {a} \in SUBSET Before(b) /\ a \notin Before(a)
    BY <1>3, <1>5
  <2> HIDE DEF Before
  <2>2. Cardinality(Before(a) \cup {a}) = Cardinality(Before(a)) + 1
    BY <2>1, <1>4, FS_AddElement
  <2>3. Cardinality(Before(a) \cup {a}) <= Cardinality(Before(b))
    BY <2>1, <1>4, FS_Subset
  <2>4. Cardinality(Before(a)) \in Nat /\ Cardinality(Before(b)) \in Nat
    BY <1>4, <1>1
  <2> QED
    BY <2>2, <2>3, <2>4
<1>6. rank \in [S -> 0..(n - 1)]
  BY <1>4
<1> HIDE DEF rank
<1>7. ASSUME NEW a \in S, NEW b \in S, rank[a] = rank[b] PROVE a = b
  <2>1. rank[a] \in Nat
    BY <1>6, <1>1
  <2> QED
    BY <2>1, <1>3, <1>5, <1>7
<1>8. rank \in Injection(S, 0..(n - 1))
  BY <1>6, <1>7 DEF Injection, IsInjective
<1>9. \A k \in 0..(n - 1) : \E a \in S : rank[a] = k
  <2>1. IsFiniteSet(0..(n - 1)) /\ Cardinality(0..(n - 1)) = n
    BY <1>1, FS_Interval
  <2>2. rank \in Surjection(S, 0..(n - 1))
    BY <2>1, <1>1, <1>8, FS_Injection
  <2> QED
    BY <2>2 DEF Surjection
<1>10. ASSUME NEW k \in S PROVE BySize[k] \in S /\ rank[BySize[k]] = k - 1
  <2> DEFINE Ranked(a) == Cardinality(Before(a)) = k - 1
  <2>1. k - 1 \in 0..(n - 1)
    BY <1>1 DEF S
  <2>2. \A a \in S : rank[a] = Cardinality(Before(a))
    BY DEF rank
  <2>3. \E a \in S : Ranked(a)
    BY <2>1, <2>2, <1>9
  <2>4. BySize[k] = CHOOSE a \in S : Ranked(a)
    BY DEF BySize, S
  <2>5. (CHOOSE a \in S : Ranked(a)) \in S /\ Ranked(CHOOSE a \in S : Ranked(a))
    <3> HIDE DEF Ranked
    <3> QED
      BY <2>3
  <2> QED
    BY <2>2, <2>4, <2>5
<1>11. \A k, l \in S : BySize[k] = BySize[l] => k = l
  <2>1. \A k, l \in S : k - 1 = l - 1 => k = l
    BY <1>1 DEF S
  <2> QED
    BY <2>1, <1>10
<1> QED
  BY <1>10, <1>11 DEF S

-----------------------------------------------------------------------------
(* Orders. *)

\* R is a strict order of S.
IsOrder(R, S) ==
  /\ \A x, y \in S : x # y => <<x, y>> \in R \/ <<y, x>> \in R
  /\ \A x \in S : <<x, x>> \notin R
  /\ \A x, y, z \in S : <<x, y>> \in R /\ <<y, z>> \in R => <<x, z>> \in R

Lower(R, S, x) == {y \in S : <<y, x>> \in R}

\* A sequence of all of S, each once, in an order.
IsOrdered(s, S, R) ==
  /\ s \in [1..Cardinality(S) -> S]
  /\ \A k \in 1..Cardinality(S) : Cardinality(Lower(R, S, s[k])) = k - 1
  /\ \A k, l \in 1..Cardinality(S) : k < l => <<s[k], s[l]>> \in R
  /\ \A x \in S : \E k \in 1..Cardinality(S) : s[k] = x

\* The elements of an ordered set have ranks, from 0 on, each one of them.
LEMMA RanksAre ==
  ASSUME NEW S, IsFiniteSet(S), NEW R, IsOrder(R, S)
  PROVE  /\ Cardinality(S) \in Nat
         /\ \A x \in S : Cardinality(Lower(R, S, x)) \in 0..Cardinality(S) - 1
         /\ \A x, y \in S : <<x, y>> \in R =>
              Cardinality(Lower(R, S, x)) < Cardinality(Lower(R, S, y))
         /\ \A k \in 1..Cardinality(S) : \E x \in S : Cardinality(Lower(R, S, x)) = k - 1
<1> DEFINE n == Cardinality(S)
           Before(x) == Lower(R, S, x)
           rank == [x \in S |-> Cardinality(Before(x))]
<1>1. n \in Nat
  BY FS_CardinalityType
<1>2. ASSUME NEW x \in S PROVE IsFiniteSet(Before(x)) /\ Cardinality(Before(x)) \in 0..(n - 1)
  <2>1. Before(x) \in SUBSET (S \ {x})
    BY DEF IsOrder, Lower
  <2>2. IsFiniteSet(S \ {x}) /\ Cardinality(S \ {x}) = n - 1
    BY FS_RemoveElement
  <2> HIDE DEF Before
  <2>3. IsFiniteSet(Before(x)) /\ Cardinality(Before(x)) <= n - 1
    BY <2>1, <2>2, FS_Subset
  <2> QED
    BY <2>3, <1>1, FS_CardinalityType
<1>3. ASSUME NEW x \in S, NEW y \in S, <<x, y>> \in R PROVE rank[x] < rank[y]
  <2>1. Before(x) \cup {x} \in SUBSET Before(y) /\ x \notin Before(x)
    BY <1>3 DEF IsOrder, Lower
  <2> HIDE DEF Before
  <2>2. Cardinality(Before(x) \cup {x}) = Cardinality(Before(x)) + 1
    BY <2>1, <1>2, FS_AddElement
  <2>3. Cardinality(Before(x) \cup {x}) <= Cardinality(Before(y))
    BY <2>1, <1>2, FS_Subset
  <2>4. Cardinality(Before(x)) \in Nat /\ Cardinality(Before(y)) \in Nat
    BY <1>2, <1>1
  <2> QED
    BY <2>2, <2>3, <2>4
<1>4. rank \in [S -> 0..(n - 1)]
  BY <1>2
<1>5. \A x \in S : rank[x] = Cardinality(Before(x))
  OBVIOUS
<1> HIDE DEF rank, Before, n
<1>6. ASSUME NEW x \in S, NEW y \in S, rank[x] = rank[y] PROVE x = y
  <2>1. rank[x] \in Nat
    BY <1>4, <1>1
  <2>2. ~(<<x, y>> \in R) /\ ~(<<y, x>> \in R)
    BY <2>1, <1>3, <1>6
  <2> QED
    BY <2>2 DEF IsOrder
<1>7. rank \in Injection(S, 0..(n - 1))
  BY <1>4, <1>6 DEF Injection, IsInjective
<1>8. \A k \in 0..(n - 1) : \E x \in S : rank[x] = k
  <2>1. IsFiniteSet(0..(n - 1)) /\ Cardinality(0..(n - 1)) = n
    BY <1>1, FS_Interval
  <2>2. rank \in Surjection(S, 0..(n - 1))
    BY <2>1, <1>7, FS_Injection DEF n
  <2> QED
    BY <2>2 DEF Surjection
<1>9. \A k \in 1..n : \E x \in S : Cardinality(Before(x)) = k - 1
  <2> TAKE k \in 1..n
  <2>1. k - 1 \in 0..(n - 1)
    BY <1>1
  <2> QED
    BY <2>1, <1>5, <1>8
<1> QED
  BY <1>1, <1>2, <1>3, <1>5, <1>9 DEF n, Before

\* A sequence whose elements have the right ranks is in order.
LEMMA RankedIsOrdered ==
  ASSUME NEW S, IsFiniteSet(S), NEW R, IsOrder(R, S),
         NEW s \in [1..Cardinality(S) -> S],
         \A k \in 1..Cardinality(S) : Cardinality(Lower(R, S, s[k])) = k - 1
  PROVE  IsOrdered(s, S, R)
<1> DEFINE n == Cardinality(S)
           rank(x) == Cardinality(Lower(R, S, x))
<1>1. /\ n \in Nat
      /\ \A x \in S : rank(x) \in 0..(n - 1)
      /\ \A x, y \in S : <<x, y>> \in R => rank(x) < rank(y)
  BY RanksAre
<1>2. s \in [1..n -> S] /\ \A k \in 1..n : rank(s[k]) = k - 1
  OBVIOUS
<1> HIDE DEF n, rank
<1>3. ASSUME NEW k \in 1..n, NEW l \in 1..n, k < l PROVE <<s[k], s[l]>> \in R
  <2>1. rank(s[k]) < rank(s[l]) /\ k \in Nat /\ l \in Nat
    BY <1>1, <1>2, <1>3
  <2>2. s[k] # s[l] /\ ~(rank(s[l]) < rank(s[k]))
    BY <1>2, <1>3, <2>1
  <2>3. s[k] \in S /\ s[l] \in S
    BY <1>2
  <2> QED
    BY <2>2, <2>3, <1>1 DEF IsOrder
<1>4. ASSUME NEW x \in S PROVE \E k \in 1..n : s[k] = x
  <2> DEFINE k == rank(x) + 1
  <2>1. k \in 1..n /\ k - 1 = rank(x)
    BY <1>1
  <2>2. s[k] \in S /\ rank(s[k]) = rank(x)
    BY <1>2, <2>1
  <2>3. ~(<<s[k], x>> \in R) /\ ~(<<x, s[k]>> \in R)
    <3>1. rank(x) \in Nat
      BY <1>1
    <3> HIDE DEF k
    <3> QED
      BY <3>1, <2>2, <1>1
  <2>4. s[k] = x
    <3> HIDE DEF k
    <3> QED
      BY <2>2, <2>3 DEF IsOrder
  <2> QED
    BY <2>1, <2>4
<1> QED
  BY <1>2, <1>3, <1>4 DEF IsOrdered, n, rank

LEMMA ChosenIsOrdered ==
  ASSUME NEW S, IsFiniteSet(S), NEW R, IsOrder(R, S), NEW s,
         s = [k \in 1..Cardinality(S) |-> s[k]],
         \A k \in 1..Cardinality(S) :
           (\E x \in S : Cardinality(Lower(R, S, x)) = k - 1)
             => s[k] \in S /\ Cardinality(Lower(R, S, s[k])) = k - 1
  PROVE  IsOrdered(s, S, R)
<1>1. \A k \in 1..Cardinality(S) : \E x \in S : Cardinality(Lower(R, S, x)) = k - 1
  BY RanksAre
<1>2. \A k \in 1..Cardinality(S) : s[k] \in S /\ Cardinality(Lower(R, S, s[k])) = k - 1
  BY <1>1
<1>3. s \in [1..Cardinality(S) -> S]
  BY <1>2
<1> QED
  BY <1>2, <1>3, RankedIsOrdered

\* The orders of the model.
LEMMA NumbersOrdered ==
  ASSUME NEW S \in SUBSET Nat, IsFiniteSet(S)
  PROVE  IsOrdered(Ordered(S, <), S, {pair \in S \X S : pair[1] < pair[2]})
<1> DEFINE R == {pair \in S \X S : pair[1] < pair[2]}
           s == Ordered(S, <)
<1>1. IsOrder(R, S)
  BY DEF IsOrder
<1>2. \A x \in S : {y \in S : y < x} = Lower(R, S, x)
  BY DEF Lower
<1>3. s = [k \in 1..Cardinality(S) |->
             CHOOSE x \in S : Cardinality({y \in S : y < x}) = k - 1]
  BY DEF Ordered
<1>4. s = [k \in 1..Cardinality(S) |-> s[k]]
  BY <1>3
<1>5. ASSUME NEW k \in 1..Cardinality(S), \E x \in S : Cardinality(Lower(R, S, x)) = k - 1
      PROVE  s[k] \in S /\ Cardinality(Lower(R, S, s[k])) = k - 1
  <2>1. s[k] = CHOOSE x \in S : Cardinality({y \in S : y < x}) = k - 1
    BY <1>3
  <2>2. \E x \in S : Cardinality({y \in S : y < x}) = k - 1
    BY <1>2, <1>5
  <2> HIDE DEF s, R
  <2>3. s[k] \in S /\ Cardinality({y \in S : y < s[k]}) = k - 1
    BY <2>1, <2>2
  <2> QED
    BY <2>3, <1>2
<1> HIDE DEF s, R
<1>6. IsOrdered(s, S, R)
  BY <1>1, <1>4, <1>5, ChosenIsOrdered
<1> QED
  BY <1>6 DEF s, R

LEMMA PairsOrdered ==
  ASSUME NEW S \in SUBSET (Nat \X Nat), IsFiniteSet(S),
         \A x, y \in S : x[1] = y[1] => x = y
  PROVE  IsOrdered(Ordered(S, LAMBDA x, y : x[1] > y[1]), S,
                   {pair \in S \X S : pair[1][1] > pair[2][1]})
<1> DEFINE R == {pair \in S \X S : pair[1][1] > pair[2][1]}
           s == Ordered(S, LAMBDA x, y : x[1] > y[1])
<1>0. \A x \in S : x[1] \in Nat
  OBVIOUS
<1>1. IsOrder(R, S)
  BY <1>0 DEF IsOrder
<1>2. \A x \in S : {y \in S : y[1] > x[1]} = Lower(R, S, x)
  BY DEF Lower
<1>3. s = [k \in 1..Cardinality(S) |->
             CHOOSE x \in S : Cardinality({y \in S : y[1] > x[1]}) = k - 1]
  BY DEF Ordered
<1>4. s = [k \in 1..Cardinality(S) |-> s[k]]
  BY <1>3
<1>5. ASSUME NEW k \in 1..Cardinality(S), \E x \in S : Cardinality(Lower(R, S, x)) = k - 1
      PROVE  s[k] \in S /\ Cardinality(Lower(R, S, s[k])) = k - 1
  <2>1. s[k] = CHOOSE x \in S : Cardinality({y \in S : y[1] > x[1]}) = k - 1
    BY <1>3
  <2>2. \E x \in S : Cardinality({y \in S : y[1] > x[1]}) = k - 1
    BY <1>2, <1>5
  <2> HIDE DEF s, R
  <2>3. s[k] \in S /\ Cardinality({y \in S : y[1] > s[k][1]}) = k - 1
    BY <2>1, <2>2
  <2> QED
    BY <2>3, <1>2
<1> HIDE DEF s, R
<1>6. IsOrdered(s, S, R)
  BY <1>1, <1>4, <1>5, ChosenIsOrdered
<1> QED
  BY <1>6 DEF s, R

-----------------------------------------------------------------------------
(* Induction on finite sets, and sums.  What is proved by induction is the set of *)
(* what has it: no operator is a parameter of a lemma here.                       *)

LEMMA PartsInduction ==
  ASSUME NEW S, IsFiniteSet(S), NEW Good, {} \in Good,
         \A T \in SUBSET S : T # {} /\ (\A x \in T : T \ {x} \in Good) => T \in Good
  PROVE  \A T \in SUBSET S : T \in Good
<1> DEFINE Bad == {T \in SUBSET S : T \notin Good}
<1> SUFFICES ASSUME Bad # {} PROVE FALSE
  OBVIOUS
<1>1. Bad \subseteq FiniteSubsetsOf(S)
  BY FS_Subset DEF FiniteSubsetsOf
<1>2. PICK T \in Bad : \A U \in Bad : ~(<<U, T>> \in StrictSubsetOrdering(S))
  <2> HIDE DEF Bad
  <2> QED
    BY <1>1, FS_StrictSubsetOrderingWellFounded, WFMin
<1>3. T \in SUBSET S /\ T \notin Good /\ T # {}
  OBVIOUS
<1>4. ASSUME NEW x \in T PROVE T \ {x} \in Good
  <2>1. T \ {x} \in SUBSET S /\ T \ {x} \subseteq T /\ T \ {x} # T
    BY <1>3
  <2>2. <<T \ {x}, T>> \in StrictSubsetOrdering(S)
    BY <2>1, <1>3 DEF StrictSubsetOrdering
  <2>3. T \ {x} \notin Bad
    BY <2>2, <1>2
  <2> QED
    BY <2>1, <2>3
<1> QED
  BY <1>3, <1>4

LEMMA ExtremesAre ==
  ASSUME NEW S \in SUBSET Nat, IsFiniteSet(S), S # {}
  PROVE  /\ Min(S) \in S /\ \A y \in S : Min(S) <= y
         /\ Max(S) \in S /\ \A y \in S : Max(S) >= y
<1> DEFINE Bounded(T) == T = {} \/ ((\E x \in T : \A y \in T : x <= y) /\ \E x \in T : \A y \in T : x >= y)
           Good == {T \in SUBSET S : Bounded(T)}
<1>1. {} \in Good
  OBVIOUS
<1>2. ASSUME NEW T \in SUBSET S, T # {}, \A x \in T : T \ {x} \in Good
      PROVE  T \in Good
  <2>1. PICK z \in T : TRUE
    BY <1>2
  <2>2. Bounded(T \ {z})
    BY <1>2
  <2>3. T \subseteq Nat
    OBVIOUS
  <2>4. CASE T \ {z} = {}
    <3>1. T = {z} /\ z \in Nat
      BY <2>3, <2>4
    <3>2. \A y \in T : z <= y /\ z >= y
      BY <3>1
    <3> QED
      BY <3>2
  <2>5. CASE T \ {z} # {}
    <3>1. PICK a \in T \ {z}, b \in T \ {z} : \A y \in T \ {z} : a <= y /\ b >= y
      BY <2>2, <2>5
    <3>2. \E x \in T : \A y \in T : x <= y
      <4>1. CASE a <= z
        BY <4>1, <3>1
      <4>2. CASE ~(a <= z)
        <5>1. \A y \in T : z <= y
          BY <4>2, <3>1, <2>3
        <5> QED
          BY <5>1
      <4> QED
        BY <4>1, <4>2
    <3>3. \E x \in T : \A y \in T : x >= y
      <4>1. CASE b >= z
        BY <4>1, <3>1
      <4>2. CASE ~(b >= z)
        <5>1. \A y \in T : z >= y
          BY <4>2, <3>1, <2>3
        <5> QED
          BY <5>1
      <4> QED
        BY <4>1, <4>2
    <3> QED
      BY <3>2, <3>3
  <2> QED
    BY <2>4, <2>5
<1> HIDE DEF Good
<1>3. \A T \in SUBSET S : T \in Good
  BY <1>1, <1>2, PartsInduction
<1>4. Bounded(S)
  <2>1. S \in SUBSET S
    OBVIOUS
  <2> QED
    BY <1>3, <2>1 DEF Good
<1>5. PICK a \in S, b \in S : \A y \in S : a <= y /\ b >= y
  BY <1>4
<1> QED
  BY <1>5, MinIs, MaxIs

LEMMA NumbersInduction ==
  ASSUME NEW N \in Nat, NEW Good, 0 \in Good,
         \A n \in 1..N : n - 1 \in Good => n \in Good
  PROVE  \A n \in 0..N : n \in Good
<1> DEFINE Bad == {n \in 0..N : n \notin Good}
<1> SUFFICES ASSUME Bad # {} PROVE FALSE
  OBVIOUS
<1>1. Bad \in SUBSET Nat /\ IsFiniteSet(Bad)
  <2>1. IsFiniteSet(0..N)
    BY FS_Interval
  <2> QED
    BY <2>1, FS_Subset
<1> DEFINE n == Min(Bad)
<1>2. n \in Bad /\ \A y \in Bad : n <= y
  <2> HIDE DEF Bad
  <2> QED
    BY <1>1, ExtremesAre
<1> HIDE DEF n
<1>3. n \in 1..N
  BY <1>2
<1>4. n - 1 \in 0..N /\ n - 1 \notin Bad
  BY <1>2, <1>3
<1> QED
  BY <1>2, <1>3, <1>4

\* Sums.
First(T) == CHOOSE x \in T : TRUE
IsSum(sum, f) ==
  sum = [T \in SUBSET DOMAIN f |-> IF T = {} THEN 0 ELSE f[First(T)] + sum[T \ {First(T)}]]

LEMMA FirstIs == ASSUME NEW T, T # {} PROVE First(T) \in T
  BY DEF First

LEMMA SumExists ==
  ASSUME NEW f, IsFiniteSet(DOMAIN f)
  PROVE  \E sum : IsSum(sum, f)
<1> DEFINE S == DOMAIN f
           N == Cardinality(S)
           Upto(sum, n) == \A T \in SUBSET S : Cardinality(T) <= n =>
             sum[T] = IF T = {} THEN 0 ELSE f[First(T)] + sum[T \ {First(T)}]
           Good == {n \in Nat : \E sum : sum = [T \in SUBSET S |-> sum[T]] /\ Upto(sum, n)}
<1>1. N \in Nat
  BY FS_CardinalityType
<1>2. \A T \in SUBSET S : IsFiniteSet(T) /\ Cardinality(T) \in Nat /\ Cardinality(T) <= N
  BY FS_Subset, FS_CardinalityType
<1>3. 0 \in Good
  <2> DEFINE zero == [T \in SUBSET S |-> 0]
  <2>1. \A T \in SUBSET S : Cardinality(T) <= 0 => T = {}
    BY <1>2, FS_EmptySet
  <2>2. Upto(zero, 0)
    BY <2>1
  <2>3. zero = [T \in SUBSET S |-> zero[T]]
    OBVIOUS
  <2> HIDE DEF zero
  <2> QED
    BY <2>2, <2>3
<1>4. ASSUME NEW n \in 1..N, n - 1 \in Good PROVE n \in Good
  <2>1. PICK sum : sum = [T \in SUBSET S |-> sum[T]] /\ Upto(sum, n - 1)
    BY <1>4
  <2> DEFINE more == [T \in SUBSET S |-> IF T = {} THEN 0 ELSE f[First(T)] + sum[T \ {First(T)}]]
  <2>2. ASSUME NEW T \in SUBSET S, Cardinality(T) <= n - 1 PROVE more[T] = sum[T]
    BY <2>1, <2>2
  <2>3. ASSUME NEW T \in SUBSET S, Cardinality(T) <= n
        PROVE  more[T] = IF T = {} THEN 0 ELSE f[First(T)] + more[T \ {First(T)}]
    <3>1. CASE T = {}
      BY <3>1
    <3>2. CASE T # {}
      <4>1. First(T) \in T
        BY <3>2, FirstIs
      <4>2. T \ {First(T)} \in SUBSET S
        OBVIOUS
      <4>3. Cardinality(T \ {First(T)}) = Cardinality(T) - 1
        BY <4>1, <1>2, FS_RemoveElement
      <4>4. Cardinality(T \ {First(T)}) <= n - 1
        BY <4>3, <2>3, <1>2
      <4>5. more[T \ {First(T)}] = sum[T \ {First(T)}]
        BY <4>2, <4>4, <2>2
      <4> QED
        BY <3>2, <4>5
    <3> QED
      BY <3>1, <3>2
  <2>4. more = [T \in SUBSET S |-> more[T]]
    OBVIOUS
  <2> HIDE DEF more
  <2>5. Upto(more, n)
    BY <2>3
  <2>6. n \in Nat
    BY <1>1
  <2>7. \E s : s = [T \in SUBSET S |-> s[T]] /\ Upto(s, n)
    BY <2>4, <2>5
  <2> QED
    BY <2>6, <2>7
<1> HIDE DEF Good
<1>5. N \in Good
  <2>1. \A n \in 0..N : n \in Good
    BY <1>1, <1>3, <1>4, NumbersInduction
  <2> QED
    BY <2>1, <1>1
<1>6. PICK sum : sum = [T \in SUBSET S |-> sum[T]] /\ Upto(sum, N)
  BY <1>5 DEF Good
<1>7. \A T \in SUBSET S : sum[T] = IF T = {} THEN 0 ELSE f[First(T)] + sum[T \ {First(T)}]
  BY <1>6, <1>2
<1>8. sum = [T \in SUBSET S |-> IF T = {} THEN 0 ELSE f[First(T)] + sum[T \ {First(T)}]]
  BY <1>6, <1>7
<1> QED
  BY <1>8 DEF IsSum

LEMMA TotalIsSum ==
  ASSUME NEW f, IsFiniteSet(DOMAIN f)
  PROVE  \E sum : IsSum(sum, f) /\ Total(f) = sum[DOMAIN f]
<1> DEFINE chosen == CHOOSE sum : IsSum(sum, f)
<1>1. IsSum(chosen, f)
  BY SumExists
<1>2. Total(f) = chosen[DOMAIN f]
  BY DEF Total, FoldFunction, FoldFunctionOnSet, MapThenFoldSet, IsSum, First
<1> QED
  BY <1>1, <1>2

\* The sum over a part of a domain: any of its elements may be added last.
SumOn(f, T) == Total([x \in T |-> f[x]])

LEMMA SumOnIs ==
  ASSUME NEW S, IsFiniteSet(S), NEW f \in [S -> Nat]
  PROVE  /\ \A T \in SUBSET S : SumOn(f, T) \in Nat
         /\ SumOn(f, {}) = 0
         /\ \A T \in SUBSET S : \A x \in T : SumOn(f, T) = f[x] + SumOn(f, T \ {x})
         /\ Total(f) = SumOn(f, S)
<1>0. DOMAIN f = S
  OBVIOUS
<1>1. PICK sum : IsSum(sum, f)
  BY <1>0, SumExists
<1>2. \A T \in SUBSET S :
        sum[T] = IF T = {} THEN 0 ELSE f[First(T)] + sum[T \ {First(T)}]
  BY <1>0, <1>1 DEF IsSum
<1>3. \A T \in SUBSET S : sum[T] \in Nat
  <2> DEFINE Good == {T \in SUBSET S : sum[T] \in Nat}
  <2>1. {} \in Good
    BY <1>2
  <2>2. ASSUME NEW T \in SUBSET S, T # {}, \A x \in T : T \ {x} \in Good
        PROVE  T \in Good
    <3>1. First(T) \in T
      BY <2>2, FirstIs
    <3>2. sum[T \ {First(T)}] \in Nat
      BY <3>1, <2>2
    <3>3. f[First(T)] \in Nat
      BY <3>1
    <3>4. sum[T] = f[First(T)] + sum[T \ {First(T)}]
      BY <2>2, <1>2
    <3> QED
      BY <3>2, <3>3, <3>4
  <2> HIDE DEF Good
  <2>3. \A T \in SUBSET S : T \in Good
    BY <2>1, <2>2, PartsInduction
  <2> QED
    BY <2>3 DEF Good
<1>4. \A T \in SUBSET S : \A x \in T : sum[T] = f[x] + sum[T \ {x}]
  <2> DEFINE Good == {T \in SUBSET S : \A x \in T : sum[T] = f[x] + sum[T \ {x}]}
  <2>1. {} \in Good
    OBVIOUS
  <2>2. ASSUME NEW T \in SUBSET S, T # {}, \A x \in T : T \ {x} \in Good
        PROVE  T \in Good
    <3> SUFFICES ASSUME NEW x \in T PROVE sum[T] = f[x] + sum[T \ {x}]
      OBVIOUS
    <3>1. PICK c \in T : c = First(T)
      BY <2>2, FirstIs
    <3>2. sum[T] = f[c] + sum[T \ {c}]
      BY <3>1, <2>2, <1>2
    <3>3. CASE x = c
      BY <3>2, <3>3
    <3>4. CASE x # c
      <4>1. sum[T \ {c}] = f[x] + sum[(T \ {c}) \ {x}]
        BY <2>2, <3>4
      <4>2. sum[T \ {x}] = f[c] + sum[(T \ {x}) \ {c}]
        BY <2>2, <3>4
      <4>3. (T \ {c}) \ {x} = (T \ {x}) \ {c}
        OBVIOUS
      <4>4. f[x] \in Nat /\ f[c] \in Nat /\ sum[(T \ {x}) \ {c}] \in Nat
        BY <1>3
      <4> QED
        BY <3>2, <4>1, <4>2, <4>3, <4>4
    <3> QED
      BY <3>3, <3>4
  <2> HIDE DEF Good
  <2>3. \A T \in SUBSET S : T \in Good
    BY <2>1, <2>2, PartsInduction
  <2> QED
    BY <2>3 DEF Good
<1>5. ASSUME NEW U \in SUBSET S PROVE SumOn(f, U) = sum[U]
  <2> DEFINE g == [x \in U |-> f[x]]
             Good(other) == {T \in SUBSET U : other[T] = sum[T]}
  <2>1. DOMAIN g = U /\ IsFiniteSet(U)
    BY FS_Subset
  <2>2. PICK other : IsSum(other, g) /\ Total(g) = other[DOMAIN g]
    <3> HIDE DEF g
    <3> QED
      BY <2>1, TotalIsSum
  <2>3. \A T \in SUBSET U :
          other[T] = IF T = {} THEN 0 ELSE g[First(T)] + other[T \ {First(T)}]
    <3> HIDE DEF g
    <3> QED
      BY <2>1, <2>2 DEF IsSum
  <2>4. {} \in Good(other)
    BY <1>2, <2>3
  <2>5. ASSUME NEW T \in SUBSET U, T # {}, \A x \in T : T \ {x} \in Good(other)
        PROVE  T \in Good(other)
    <3>1. First(T) \in T
      BY <2>5, FirstIs
    <3>2. g[First(T)] = f[First(T)]
      BY <3>1
    <3>3. other[T \ {First(T)}] = sum[T \ {First(T)}]
      BY <3>1, <2>5
    <3>4. other[T] = g[First(T)] + other[T \ {First(T)}]
      BY <2>3, <2>5
    <3>5. sum[T] = f[First(T)] + sum[T \ {First(T)}]
      BY <1>2, <2>5
    <3> QED
      BY <3>2, <3>3, <3>4, <3>5
  <2> HIDE DEF Good
  <2>6. \A T \in SUBSET U : T \in Good(other)
    BY <2>1, <2>4, <2>5, PartsInduction
  <2>7. other[U] = sum[U]
    <3>1. U \in SUBSET U
      OBVIOUS
    <3> QED
      BY <2>6, <3>1 DEF Good
  <2> QED
    BY <2>1, <2>2, <2>7 DEF SumOn
<1>6. Total(f) = SumOn(f, S)
  <2>1. f = [x \in S |-> f[x]]
    OBVIOUS
  <2> QED
    BY <2>1 DEF SumOn
<1>7. \A T \in SUBSET S : SumOn(f, T) \in Nat
  BY <1>3, <1>5
<1>8. SumOn(f, {}) = 0
  BY <1>2, <1>5
<1>9. ASSUME NEW T \in SUBSET S, NEW x \in T PROVE SumOn(f, T) = f[x] + SumOn(f, T \ {x})
  <2>1. T \ {x} \in SUBSET S
    OBVIOUS
  <2> QED
    BY <2>1, <1>4, <1>5
<1> QED
  BY <1>6, <1>7, <1>8, <1>9

LEMMA SumBound ==
  ASSUME NEW S, IsFiniteSet(S), NEW f \in [S -> Nat], NEW g \in [S -> Nat],
         \A x \in S : f[x] <= g[x]
  PROVE  Total(f) \in Nat /\ Total(g) \in Nat /\ Total(f) <= Total(g)
<1>1. /\ \A T \in SUBSET S : SumOn(f, T) \in Nat
      /\ SumOn(f, {}) = 0
      /\ \A T \in SUBSET S : \A x \in T : SumOn(f, T) = f[x] + SumOn(f, T \ {x})
      /\ Total(f) = SumOn(f, S)
  BY SumOnIs
<1>2. /\ \A T \in SUBSET S : SumOn(g, T) \in Nat
      /\ SumOn(g, {}) = 0
      /\ \A T \in SUBSET S : \A x \in T : SumOn(g, T) = g[x] + SumOn(g, T \ {x})
      /\ Total(g) = SumOn(g, S)
  BY SumOnIs
<1> DEFINE Good == {T \in SUBSET S : SumOn(f, T) <= SumOn(g, T)}
<1>3. {} \in Good
  BY <1>1, <1>2
<1>4. ASSUME NEW T \in SUBSET S, T # {}, \A x \in T : T \ {x} \in Good
      PROVE  T \in Good
  <2>1. PICK x \in T : TRUE
    BY <1>4
  <2>2. T \ {x} \in SUBSET S /\ SumOn(f, T \ {x}) <= SumOn(g, T \ {x})
    BY <1>4
  <2>3. SumOn(f, T) = f[x] + SumOn(f, T \ {x})
    BY <1>1
  <2>4. SumOn(g, T) = g[x] + SumOn(g, T \ {x})
    BY <1>2
  <2>5. f[x] \in Nat /\ g[x] \in Nat /\ f[x] <= g[x]
    OBVIOUS
  <2>6. SumOn(f, T \ {x}) \in Nat /\ SumOn(g, T \ {x}) \in Nat
    BY <1>1, <1>2, <2>2
  <2> QED
    BY <2>2, <2>3, <2>4, <2>5, <2>6
<1> HIDE DEF Good
<1>5. \A T \in SUBSET S : T \in Good
  BY <1>3, <1>4, PartsInduction
<1>6. SumOn(f, S) <= SumOn(g, S)
  <2>1. S \in SUBSET S
    OBVIOUS
  <2> QED
    BY <1>5, <2>1 DEF Good
<1>7. S \in SUBSET S
  OBVIOUS
<1> QED
  BY <1>1, <1>2, <1>6, <1>7

\* A sum in two parts.
LEMMA SumSplit ==
  ASSUME NEW S, IsFiniteSet(S), NEW f \in [S -> Nat], NEW U \in SUBSET S
  PROVE  Total(f) = SumOn(f, U) + SumOn(f, S \ U)
<1>1. /\ \A T \in SUBSET S : SumOn(f, T) \in Nat
      /\ SumOn(f, {}) = 0
      /\ \A T \in SUBSET S : \A x \in T : SumOn(f, T) = f[x] + SumOn(f, T \ {x})
      /\ Total(f) = SumOn(f, S)
  BY SumOnIs
<1> DEFINE Good == {V \in SUBSET U : SumOn(f, V \cup (S \ U)) = SumOn(f, V) + SumOn(f, S \ U)}
<1>2. IsFiniteSet(U)
  BY FS_Subset
<1>3. {} \in Good
  <2>1. {} \cup (S \ U) = S \ U /\ S \ U \in SUBSET S
    OBVIOUS
  <2>2. SumOn(f, S \ U) \in Nat
    BY <1>1, <2>1
  <2> QED
    BY <1>1, <2>1, <2>2
<1>4. ASSUME NEW V \in SUBSET U, V # {}, \A x \in V : V \ {x} \in Good
      PROVE  V \in Good
  <2>1. PICK x \in V : TRUE
    BY <1>4
  <2> DEFINE W == V \cup (S \ U)
             rest == V \ {x}
  <2>2. W \in SUBSET S /\ x \in W /\ W \ {x} = rest \cup (S \ U)
    OBVIOUS
  <2>3. SumOn(f, rest \cup (S \ U)) = SumOn(f, rest) + SumOn(f, S \ U)
    BY <1>4
  <2>4. SumOn(f, W) = f[x] + SumOn(f, W \ {x})
    <3> HIDE DEF W
    <3> QED
      BY <1>1, <2>2
  <2>5. SumOn(f, V) = f[x] + SumOn(f, rest)
    BY <1>1
  <2>6. f[x] \in Nat /\ SumOn(f, rest) \in Nat /\ SumOn(f, S \ U) \in Nat
    <3>1. rest \in SUBSET S /\ S \ U \in SUBSET S /\ x \in S
      OBVIOUS
    <3> QED
      BY <3>1, <1>1
  <2>7. SumOn(f, W) = SumOn(f, V) + SumOn(f, S \ U)
    BY <2>2, <2>3, <2>4, <2>5, <2>6
  <2> QED
    BY <2>7
<1> HIDE DEF Good
<1>5. \A V \in SUBSET U : V \in Good
  BY <1>2, <1>3, <1>4, PartsInduction
<1>6. SumOn(f, U \cup (S \ U)) = SumOn(f, U) + SumOn(f, S \ U)
  <2>1. U \in SUBSET U
    OBVIOUS
  <2> QED
    BY <1>5, <2>1 DEF Good
<1>7. U \cup (S \ U) = S
  OBVIOUS
<1> QED
  BY <1>1, <1>6, <1>7

LEMMA SumZero ==
  ASSUME NEW S, IsFiniteSet(S), NEW f \in [S -> Nat], \A x \in S : f[x] = 0
  PROVE  Total(f) = 0
<1>1. /\ SumOn(f, {}) = 0
      /\ \A T \in SUBSET S : \A x \in T : SumOn(f, T) = f[x] + SumOn(f, T \ {x})
      /\ Total(f) = SumOn(f, S)
  BY SumOnIs
<1> DEFINE Good == {T \in SUBSET S : SumOn(f, T) = 0}
<1>2. {} \in Good
  BY <1>1
<1>3. ASSUME NEW T \in SUBSET S, T # {}, \A x \in T : T \ {x} \in Good
      PROVE  T \in Good
  <2>1. PICK x \in T : TRUE
    BY <1>3
  <2>2. SumOn(f, T) = f[x] + SumOn(f, T \ {x}) /\ SumOn(f, T \ {x}) = 0 /\ f[x] = 0
    BY <1>1, <1>3
  <2> QED
    BY <2>2
<1> HIDE DEF Good
<1>4. \A T \in SUBSET S : T \in Good
  BY <1>2, <1>3, PartsInduction
<1>5. S \in Good
  BY <1>4
<1> QED
  BY <1>1, <1>5 DEF Good

\* A sum by the values of a function.
Fiber(P, of, t) == {n \in P : of[n] = t}

LEMMA SumFibers ==
  ASSUME NEW Q, IsFiniteSet(Q), NEW T, IsFiniteSet(T),
         NEW of \in [Q -> T], NEW v \in [T -> Nat]
  PROVE  Total([n \in Q |-> v[of[n]]]) = Total([t \in T |-> Cardinality(Fiber(Q, of, t)) * v[t]])
<1> DEFINE f == [n \in Q |-> v[of[n]]]
           g(P) == [t \in T |-> Cardinality(Fiber(P, of, t)) * v[t]]
           Good == {P \in SUBSET Q : SumOn(f, P) = Total(g(P))}
<1>1. f \in [Q -> Nat] /\ \A n \in Q : f[n] = v[of[n]]
  OBVIOUS
<1> HIDE DEF f
<1>2. /\ \A P \in SUBSET Q : SumOn(f, P) \in Nat
      /\ SumOn(f, {}) = 0
      /\ \A P \in SUBSET Q : \A x \in P : SumOn(f, P) = f[x] + SumOn(f, P \ {x})
      /\ Total(f) = SumOn(f, Q)
  BY <1>1, SumOnIs
<1>3. ASSUME NEW P \in SUBSET Q, NEW t \in T
      PROVE  IsFiniteSet(Fiber(P, of, t)) /\ Cardinality(Fiber(P, of, t)) \in Nat
  <2>1. Fiber(P, of, t) \in SUBSET Q
    BY DEF Fiber
  <2>2. IsFiniteSet(Fiber(P, of, t))
    BY <2>1, FS_Subset
  <2> QED
    BY <2>2, FS_CardinalityType
<1>4. ASSUME NEW P \in SUBSET Q PROVE g(P) \in [T -> Nat]
  BY <1>3
<1>5. {} \in Good
  <2>1. \A t \in T : Fiber({}, of, t) = {}
    BY DEF Fiber
  <2>2. \A t \in T : g({})[t] = 0
    BY <2>1, FS_EmptySet
  <2>3. g({}) \in [T -> Nat]
    BY <1>4
  <2> HIDE DEF g
  <2>4. Total(g({})) = 0
    BY <2>2, <2>3, SumZero
  <2> QED
    BY <2>4, <1>2
<1>6. ASSUME NEW P \in SUBSET Q, P # {}, \A x \in P : P \ {x} \in Good
      PROVE  P \in Good
  <2>1. PICK x \in P : TRUE
    BY <1>6
  <2> DEFINE R == P \ {x}
             s == of[x]
  <2>2. R \in SUBSET Q /\ s \in T /\ x \in Q
    OBVIOUS
  <2>3. SumOn(f, R) = Total(g(R))
    BY <1>6
  <2>4. ASSUME NEW t \in T, t # s PROVE g(P)[t] = g(R)[t]
    <3>1. Fiber(P, of, t) = Fiber(R, of, t)
      BY <2>4 DEF Fiber
    <3> QED
      BY <3>1
  <2>5. g(P)[s] = g(R)[s] + v[s]
    <3>1. Fiber(P, of, s) = Fiber(R, of, s) \cup {x} /\ x \notin Fiber(R, of, s)
      BY DEF Fiber
    <3>2. IsFiniteSet(Fiber(R, of, s)) /\ Cardinality(Fiber(R, of, s)) \in Nat
      BY <1>3, <2>2
    <3>3. Cardinality(Fiber(P, of, s)) = Cardinality(Fiber(R, of, s)) + 1
      BY <3>1, <3>2, FS_AddElement
    <3>4. v[s] \in Nat
      BY <2>2
    <3>5. (Cardinality(Fiber(R, of, s)) + 1) * v[s] = Cardinality(Fiber(R, of, s)) * v[s] + v[s]
      <4>1. \A a, b \in Nat : (a + 1) * b = a * b + b
        OBVIOUS
      <4> HIDE DEF s, R
      <4> QED
        BY <4>1, <3>2, <3>4
    <3>6. /\ g(P)[s] = Cardinality(Fiber(P, of, s)) * v[s]
          /\ g(R)[s] = Cardinality(Fiber(R, of, s)) * v[s]
      BY <2>2
    <3> QED
      BY <3>3, <3>5, <3>6
  <2>6. g(P) \in [T -> Nat] /\ g(R) \in [T -> Nat]
    BY <1>4, <2>2
  <2>7. f[x] = v[s] /\ v[s] \in Nat
    BY <1>1, <2>2
  <2>8. SumOn(f, P) = f[x] + SumOn(f, R)
    BY <1>2
  <2>9. SumOn(f, R) \in Nat
    BY <1>2, <2>2
  <2> HIDE DEF g, s, R
  <2>10. /\ Total(g(P)) = SumOn(g(P), {s}) + SumOn(g(P), T \ {s})
         /\ Total(g(R)) = SumOn(g(R), {s}) + SumOn(g(R), T \ {s})
    <3>1. {s} \in SUBSET T
      BY <2>2
    <3> QED
      BY <3>1, <2>6, SumSplit
  <2>11. SumOn(g(P), T \ {s}) = SumOn(g(R), T \ {s})
    <3>1. [t \in T \ {s} |-> g(P)[t]] = [t \in T \ {s} |-> g(R)[t]]
      BY <2>4
    <3> QED
      BY <3>1 DEF SumOn
  <2>12. ASSUME NEW h \in [T -> Nat]
         PROVE  SumOn(h, {s}) = h[s] /\ SumOn(h, T \ {s}) \in Nat
    <3>1. /\ \A U \in SUBSET T : SumOn(h, U) \in Nat
          /\ SumOn(h, {}) = 0
          /\ \A U \in SUBSET T : \A y \in U : SumOn(h, U) = h[y] + SumOn(h, U \ {y})
      BY SumOnIs
    <3>2. {s} \in SUBSET T /\ s \in {s} /\ {s} \ {s} = {} /\ T \ {s} \in SUBSET T
      BY <2>2
    <3>3. SumOn(h, {s}) = h[s] + SumOn(h, {})
      BY <3>1, <3>2
    <3>4. h[s] \in Nat
      BY <2>2
    <3> QED
      BY <3>1, <3>2, <3>3, <3>4
  <2>13. SumOn(g(P), {s}) = g(P)[s] /\ SumOn(g(R), {s}) = g(R)[s] /\ SumOn(g(R), T \ {s}) \in Nat
    BY <2>6, <2>12
  <2>14. g(R)[s] \in Nat
    BY <2>6, <2>2
  <2>15. Total(g(P)) = v[s] + Total(g(R))
    BY <2>5, <2>7, <2>10, <2>11, <2>13, <2>14
  <2>16. SumOn(f, P) = Total(g(P))
    BY <2>3, <2>7, <2>8, <2>15 DEF R
  <2> QED
    BY <2>16
<1> HIDE DEF Good
<1>7. \A P \in SUBSET Q : P \in Good
  BY <1>5, <1>6, PartsInduction
<1>8. Q \in Good
  BY <1>7
<1>9. SumOn(f, Q) = Total(g(Q))
  BY <1>8 DEF Good
<1> QED
  BY <1>2, <1>9 DEF f

-----------------------------------------------------------------------------
(* The best documents. *)

Records == [doc : Nat, score : Nat]
ByScore(D) == {pair \in D \X D : Better(pair[1], pair[2])}

LEMMA BetterOrders ==
  ASSUME NEW D \in SUBSET Records
  PROVE  /\ IsOrder(ByScore(D), D)
         /\ \A x \in D : Lower(ByScore(D), D, x) = {y \in D : Better(y, x)}
<1>1. \A x \in D : x.doc \in Nat /\ x.score \in Nat /\ x = [doc |-> x.doc, score |-> x.score]
  BY DEF Records
<1>2. \A x, y \in D : x # y => Better(x, y) \/ Better(y, x)
  <2> SUFFICES ASSUME NEW x \in D, NEW y \in D, ~Better(x, y), ~Better(y, x) PROVE x = y
    OBVIOUS
  <2>1. x.doc = y.doc /\ x.score = y.score
    BY <1>1 DEF Better
  <2> QED
    BY <2>1, <1>1
<1>3. \A x \in D : ~Better(x, x)
  BY <1>1 DEF Better
<1>4. \A x, y, z \in D : Better(x, y) /\ Better(y, z) => Better(x, z)
  BY <1>1 DEF Better
<1>5. \A x, y \in D : <<x, y>> \in ByScore(D) <=> Better(x, y)
  BY DEF ByScore
<1>6. IsOrder(ByScore(D), D)
  BY <1>2, <1>3, <1>4, <1>5 DEF IsOrder
<1>7. \A x \in D : Lower(ByScore(D), D, x) = {y \in D : Better(y, x)}
  BY <1>5 DEF Lower
<1> QED
  BY <1>6, <1>7

LEMMA RankedIs ==
  ASSUME NEW D \in SUBSET Records, IsFiniteSet(D)
  PROVE  IsOrdered(Ordered(D, Better), D, ByScore(D))
<1> DEFINE s == Ordered(D, Better)
           R == ByScore(D)
<1>1. IsOrder(R, D) /\ \A x \in D : {y \in D : Better(y, x)} = Lower(R, D, x)
  BY BetterOrders
<1>2. s = [k \in 1..Cardinality(D) |->
             CHOOSE x \in D : Cardinality({y \in D : Better(y, x)}) = k - 1]
  BY DEF Ordered
<1>3. s = [k \in 1..Cardinality(D) |-> s[k]]
  BY <1>2
<1>4. ASSUME NEW k \in 1..Cardinality(D), \E x \in D : Cardinality(Lower(R, D, x)) = k - 1
      PROVE  s[k] \in D /\ Cardinality(Lower(R, D, s[k])) = k - 1
  <2>1. s[k] = CHOOSE x \in D : Cardinality({y \in D : Better(y, x)}) = k - 1
    BY <1>2
  <2>2. \E x \in D : Cardinality({y \in D : Better(y, x)}) = k - 1
    BY <1>1, <1>4
  <2> HIDE DEF s, R
  <2>3. s[k] \in D /\ Cardinality({y \in D : Better(y, s[k])}) = k - 1
    BY <2>1, <2>2
  <2> QED
    BY <2>3, <1>1
<1> HIDE DEF s, R
<1>5. IsOrdered(s, D, R)
  BY <1>1, <1>3, <1>4, ChosenIsOrdered
<1> QED
  BY <1>5 DEF s, R

\* The number of documents that are kept of n.
Kept(n, k) == IF k < 0 \/ n <= k THEN n ELSE k

LEMMA BestIs ==
  ASSUME NEW D \in SUBSET Records, IsFiniteSet(D), NEW k \in Int
  PROVE  /\ Cardinality(D) \in Nat /\ Kept(Cardinality(D), k) \in 0..Cardinality(D)
         /\ Best(D, k) \in [1..Kept(Cardinality(D), k) -> D]
         /\ Len(Best(D, k)) = Kept(Cardinality(D), k)
         /\ \A i \in 1..Kept(Cardinality(D), k) : Best(D, k)[i] = Ordered(D, Better)[i]
<1> DEFINE n == Cardinality(D)
           s == Ordered(D, Better)
           m == Kept(n, k)
<1>1. n \in Nat
  BY FS_CardinalityType
<1>2. s \in [1..n -> D]
  BY RankedIs DEF IsOrdered
<1>3. s = [i \in 1..n |-> s[i]]
  BY <1>2
<1> HIDE DEF n
<1>4. DOMAIN s = 1..n /\ Len(s) = n
  <2> HIDE DEF s
  <2>1. DOMAIN s = 1..n
    BY <1>3
  <2>2. s \in Seq(D)
    BY <1>1, <1>2, SeqDef
  <2>3. Len(s) \in Nat /\ DOMAIN s = 1..Len(s)
    BY <2>2, LenProperties
  <2> QED
    BY <2>1, <2>3, <1>1
<1>5. m \in 0..n /\ (~(k < 0) => m = Min({k, n}))
  <2>1. m \in 0..n
    BY <1>1 DEF Kept
  <2>2. ASSUME ~(k < 0) PROVE m = Min({k, n})
    <3>1. k \in Nat
      BY <2>2
    <3>2. \E x \in {k, n} : \A y \in {k, n} : x <= y
      BY <3>1, <1>1
    <3>3. Min({k, n}) \in {k, n} /\ Min({k, n}) <= k /\ Min({k, n}) <= n
      BY <3>2, MinIs
    <3> QED
      BY <3>1, <3>3, <1>1 DEF Kept
  <2> QED
    BY <2>1, <2>2
<1>6. Best(D, k) = IF k < 0 THEN s ELSE SubSeq(s, 1, m)
  BY <1>4, <1>5 DEF Best
<1> HIDE DEF s
<1>7. k < 0 => m = n
  BY DEF Kept
<1> HIDE DEF m
<1>8. CASE k < 0
  BY <1>1, <1>2, <1>4, <1>6, <1>7, <1>8 DEF n, m, s
<1>9. CASE ~(k < 0)
  <2> DEFINE t == SubSeq(s, 1, m)
  <2>1. m \in Int /\ \A i \in 1..m : i \in 1..n /\ s[i] \in D
    BY <1>1, <1>2, <1>5
  <2>2. /\ t \in Seq(D) /\ Len(t) = IF 1 <= m THEN m - 1 + 1 ELSE 0
        /\ \A i \in 1..(m - 1 + 1) : t[i] = s[1 + i - 1]
    BY <2>1, SubSeqProperties
  <2> HIDE DEF t
  <2>3. Len(t) = m /\ m - 1 + 1 = m
    BY <2>2, <1>5
  <2>4. \A i \in 1..m : t[i] = s[i]
    BY <2>2, <2>3
  <2>5. t \in [1..m -> D]
    BY <2>2, <2>3, LenProperties
  <2>6. Best(D, k) = t
    BY <1>6, <1>9 DEF t
  <2> QED
    BY <2>3, <2>4, <2>5, <2>6, <1>1, <1>5 DEF n, m, s
<1> QED
  BY <1>8, <1>9

\* k documents are better than x.
Outdone(D, k, x) ==
  k >= 0 /\ \E K \in SUBSET D : Cardinality(K) = k /\ \A y \in K : Better(y, x)

\* k documents have a score of h at least.
Attained(D, k, h) ==
  h > 0 => k > 0 /\ \E K \in SUBSET D : Cardinality(K) = k /\ \A y \in K : y.score >= h

Firsts(D, k) == {Ordered(D, Better)[i] : i \in 1..k}

LEMMA PlaceOfRank ==
  ASSUME NEW S, NEW R, NEW s, IsOrdered(s, S, R), Cardinality(S) \in Nat,
         NEW k \in 1..Cardinality(S), NEW x \in S, Cardinality(Lower(R, S, x)) = k - 1
  PROVE  s[k] = x
<1>1. PICK j \in 1..Cardinality(S) : s[j] = x
  BY DEF IsOrdered
<1>2. j - 1 = k - 1
  BY <1>1 DEF IsOrdered
<1> QED
  BY <1>1, <1>2

LEMMA FirstsAre ==
  ASSUME NEW D \in SUBSET Records, IsFiniteSet(D), NEW k \in 0..Cardinality(D)
  PROVE  /\ Firsts(D, k) \subseteq D /\ Cardinality(Firsts(D, k)) = k
         /\ \A i \in 1..k, j \in 1..Cardinality(D) :
              i < j => Better(Ordered(D, Better)[i], Ordered(D, Better)[j])
<1> DEFINE n == Cardinality(D)
           s == Ordered(D, Better)
           f == [i \in 1..k |-> s[i]]
<1>1. n \in Nat
  BY FS_CardinalityType
<1>2. IsOrdered(s, D, ByScore(D)) /\ IsOrder(ByScore(D), D)
  BY RankedIs, BetterOrders
<1> HIDE DEF s
<1>3. s \in [1..n -> D] /\ \A i, j \in 1..n : i < j => <<s[i], s[j]>> \in ByScore(D)
  BY <1>2 DEF IsOrdered
<1> HIDE DEF n
<1>4. \A i \in 1..k : i \in 1..n
  BY <1>1 DEF n
<1>5. \A i, j \in 1..n : i < j => Better(s[i], s[j])
  BY <1>3 DEF ByScore
<1>6. \A i, j \in 1..n : i < j => s[i] # s[j]
  BY <1>2, <1>3 DEF IsOrder
<1>7. Firsts(D, k) \subseteq D
  BY <1>3, <1>4 DEF Firsts, s
<1>8. Firsts(D, k) = {s[i] : i \in 1..k}
  BY DEF Firsts, s
<1>9. \A i, j \in 1..k : s[i] = s[j] => i = j
  <2> SUFFICES ASSUME NEW i \in 1..k, NEW j \in 1..k, i # j PROVE s[i] # s[j]
    OBVIOUS
  <2>1. i < j \/ j < i
    OBVIOUS
  <2> QED
    BY <2>1, <1>4, <1>6
<1>10. f \in Bijection(1..k, Firsts(D, k))
  <2>1. f \in [1..k -> Firsts(D, k)]
    BY <1>8
  <2>2. \A i, j \in 1..k : f[i] = f[j] => i = j
    BY <1>9
  <2>3. \A y \in Firsts(D, k) : \E i \in 1..k : f[i] = y
    BY <1>8
  <2> HIDE DEF f
  <2> QED
    BY <2>1, <2>2, <2>3 DEF Bijection, Injection, Surjection, IsInjective
<1>11. IsFiniteSet(1..k) /\ Cardinality(1..k) = k
  BY <1>1, FS_Interval DEF n
<1>12. Cardinality(Firsts(D, k)) = k
  <2>1. ExistsBijection(1..k, Firsts(D, k))
    BY <1>10 DEF ExistsBijection
  <2> QED
    BY <2>1, <1>11, FS_Bijection
<1>13. \A i \in 1..k, j \in 1..n : i < j => Better(s[i], s[j])
  BY <1>4, <1>5
<1> QED
  BY <1>7, <1>12, <1>13 DEF n, s

\* A document is among the best, or k others are better.
LEMMA BestOrOutdone ==
  ASSUME NEW D \in SUBSET Records, IsFiniteSet(D), NEW k \in Int, NEW x \in D
  PROVE  (\E i \in 1..Len(Best(D, k)) : Best(D, k)[i] = x) \/ Outdone(D, k, x)
<1> DEFINE n == Cardinality(D)
           s == Ordered(D, Better)
           m == Kept(n, k)
<1>1. /\ n \in Nat /\ m \in 0..n /\ Len(Best(D, k)) = m
      /\ \A i \in 1..m : Best(D, k)[i] = s[i]
  BY BestIs
<1>2. PICK j \in 1..n : s[j] = x
  BY RankedIs DEF IsOrdered
<1>3. CASE j <= m
  <2>1. j \in 1..m
    BY <1>1, <1>3
  <2> QED
    BY <2>1, <1>1, <1>2
<1>4. CASE ~(j <= m)
  <2>1. k >= 0 /\ m = k /\ k < j
    BY <1>1, <1>4 DEF Kept
  <2>2. k \in 0..n
    BY <2>1, <1>1
  <2>3. /\ Firsts(D, k) \subseteq D /\ Cardinality(Firsts(D, k)) = k
        /\ \A i \in 1..k : i < j => Better(s[i], s[j])
    BY <2>2, FirstsAre
  <2>4. \A y \in Firsts(D, k) : Better(y, x)
    <3> TAKE y \in Firsts(D, k)
    <3>1. PICK i \in 1..k : y = s[i]
      BY DEF Firsts
    <3>2. i < j
      BY <2>1
    <3> QED
      BY <3>1, <3>2, <2>3, <1>2
  <2> QED
    BY <2>1, <2>3, <2>4 DEF Outdone
<1> QED
  BY <1>3, <1>4

\* A document that k others of D are better than has a rank of k at least.
LEMMA OutdoneRank ==
  ASSUME NEW D \in SUBSET Records, IsFiniteSet(D), NEW x \in D, NEW K \in SUBSET D,
         \A y \in K : Better(y, x)
  PROVE  Cardinality(K) <= Cardinality(Lower(ByScore(D), D, x))
<1>1. Lower(ByScore(D), D, x) = {y \in D : Better(y, x)}
  BY BetterOrders
<1>2. K \in SUBSET Lower(ByScore(D), D, x) /\ Lower(ByScore(D), D, x) \in SUBSET D
  BY <1>1
<1>3. IsFiniteSet(Lower(ByScore(D), D, x))
  BY <1>2, FS_Subset
<1> QED
  BY <1>2, <1>3, FS_Subset

\* Documents that k others are better than may be left out.
LEMMA BestSame ==
  ASSUME NEW D \in SUBSET Records, IsFiniteSet(D), NEW k \in Int, NEW F \in SUBSET D,
         \A x \in D \ F : Outdone(D, k, x)
  PROVE  Best(F, k) = Best(D, k)
<1> DEFINE n == Cardinality(D)
           s == Ordered(D, Better)
           m == Kept(n, k)
           rank(x) == Cardinality(Lower(ByScore(D), D, x))
<1>1. CASE k < 0
  <2>1. F = D
    BY <1>1 DEF Outdone
  <2> QED
    BY <2>1
<1>2. CASE ~(k < 0)
  <2>1. n \in Nat /\ m \in 0..n /\ m <= k
    BY <1>2, FS_CardinalityType DEF Kept
  <2>2. F \in SUBSET Records /\ IsFiniteSet(F)
    BY FS_Subset
  <2>3. IsOrdered(s, D, ByScore(D))
    BY RankedIs
  <2>4. IsOrder(ByScore(D), D) /\ \A x \in D : Lower(ByScore(D), D, x) = {y \in D : Better(y, x)}
    BY BetterOrders
  <2>5. \A x \in F : Lower(ByScore(F), F, x) = {y \in F : Better(y, x)}
    BY <2>2, BetterOrders
  <2>6. /\ \A x, y \in D : <<x, y>> \in ByScore(D) => rank(x) < rank(y)
        /\ \A x \in D : rank(x) \in 0..(n - 1)
    BY <2>4, RanksAre
  <2>7. s \in [1..n -> D] /\ \A i \in 1..n : rank(s[i]) = i - 1
    BY <2>3 DEF IsOrdered
  <2>8. \A x \in D : \E i \in 1..n : s[i] = x
    BY <2>3 DEF IsOrdered
  <2> HIDE DEF s
  <2>9. ASSUME NEW i \in 1..m PROVE i \in 1..n /\ s[i] \in F
    <3>1. i \in 1..n
      BY <2>1
    <3>2. ASSUME s[i] \notin F PROVE FALSE
      <4>1. s[i] \in D
        BY <3>1, <2>7
      <4>2. Outdone(D, k, s[i])
        BY <4>1, <3>2
      <4>3. PICK K \in SUBSET D : Cardinality(K) = k /\ \A y \in K : Better(y, s[i])
        BY <4>2 DEF Outdone
      <4>4. k <= rank(s[i])
        BY <4>1, <4>3, OutdoneRank
      <4>5. rank(s[i]) = i - 1
        BY <3>1, <2>7
      <4> QED
        BY <4>4, <4>5, <2>1
    <3> QED
      BY <3>1, <3>2
  <2>10. ASSUME NEW i \in 1..m
         PROVE  Lower(ByScore(F), F, s[i]) = Lower(ByScore(D), D, s[i])
    <3>1. ASSUME NEW y \in D, Better(y, s[i]) PROVE y \in F
      <4>1. s[i] \in D /\ <<y, s[i]>> \in ByScore(D)
        BY <3>1, <2>7, <2>9 DEF ByScore
      <4>2. rank(y) < i - 1 /\ rank(y) \in Nat
        BY <4>1, <2>1, <2>6, <2>7, <2>9
      <4>3. PICK j \in 1..n : s[j] = y
        BY <2>8
      <4>4. rank(y) = j - 1
        BY <4>3, <2>7
      <4>5. j \in 1..m
        BY <4>2, <4>4, <2>1
      <4> QED
        BY <4>3, <4>5, <2>9
    <3>2. {y \in F : Better(y, s[i])} = {y \in D : Better(y, s[i])}
      BY <3>1
    <3>3. s[i] \in F /\ s[i] \in D
      BY <2>9
    <3> QED
      BY <3>2, <3>3, <2>4, <2>5
  <2> DEFINE nf == Cardinality(F)
             sf == Ordered(F, Better)
  <2>11. nf \in Nat /\ nf <= n
    BY <2>2, FS_Subset, FS_CardinalityType
  <2>12. m <= nf
    <3>1. Firsts(D, m) \subseteq D /\ Cardinality(Firsts(D, m)) = m
      BY <2>1, FirstsAre
    <3>2. Firsts(D, m) \in SUBSET F
      BY <2>9 DEF Firsts, s
    <3> QED
      BY <3>1, <3>2, <2>2, FS_Subset
  <2>13. Kept(nf, k) = m
    BY <2>1, <2>11, <2>12, <1>2 DEF Kept
  <2>14. IsOrdered(sf, F, ByScore(F))
    BY <2>2, RankedIs
  <2>15. ASSUME NEW i \in 1..m PROVE sf[i] = s[i]
    <3>1. s[i] \in F /\ i \in 1..n /\ i \in 1..nf
      BY <2>1, <2>9, <2>11, <2>12
    <3>2. Cardinality(Lower(ByScore(F), F, s[i])) = i - 1
      BY <3>1, <2>7, <2>10
    <3> HIDE DEF sf
    <3> QED
      BY <3>1, <3>2, <2>11, <2>14, PlaceOfRank
  <2>16. /\ Best(D, k) \in [1..m -> D]
         /\ \A i \in 1..m : Best(D, k)[i] = s[i]
    BY BestIs DEF s
  <2>17. /\ Best(F, k) \in [1..m -> F]
         /\ \A i \in 1..m : Best(F, k)[i] = sf[i]
    BY <2>2, <2>13, BestIs
  <2> HIDE DEF sf, m
  <2>18. \A i \in 1..m : Best(F, k)[i] = Best(D, k)[i]
    BY <2>15, <2>16, <2>17
  <2>19. Best(D, k) = [i \in 1..m |-> Best(D, k)[i]]
    BY <2>16
  <2>20. Best(F, k) = [i \in 1..m |-> Best(F, k)[i]]
    BY <2>17
  <2> QED
    BY <2>18, <2>19, <2>20
<1> QED
  BY <1>1, <1>2

\* The k-th best is reached by k documents.
LEMMA KthIs ==
  ASSUME NEW D \in SUBSET Records, IsFiniteSet(D), NEW k \in Nat \ {0}
  PROVE  KthBest(D, k) \in Nat /\ Attained(D, k, KthBest(D, k))
<1> DEFINE n == Cardinality(D)
           s == Ordered(D, Better)
<1>1. n \in Nat
  BY FS_CardinalityType
<1>2. CASE n < k
  BY <1>2 DEF KthBest, Attained
<1>3. CASE ~(n < k)
  <2>1. k \in 1..n /\ k \in 0..n
    BY <1>1, <1>3
  <2>2. Kept(n, k) = k
    BY <1>1, <1>3 DEF Kept
  <2>3. Best(D, k)[k] = s[k] /\ s[k] \in D
    <3>1. k \in 1..Kept(n, k) /\ k \in Int
      BY <2>1, <2>2
    <3> QED
      BY <3>1, BestIs
  <2>4. KthBest(D, k) = s[k].score
    BY <2>3, <1>3 DEF KthBest
  <2>5. s[k].score \in Nat
    BY <2>3 DEF Records
  <2>6. /\ Firsts(D, k) \subseteq D /\ Cardinality(Firsts(D, k)) = k
        /\ \A i \in 1..k : i < k => Better(s[i], s[k])
    BY <2>1, FirstsAre
  <2>7. \A y \in Firsts(D, k) : y.score >= s[k].score
    <3> TAKE y \in Firsts(D, k)
    <3>1. PICK i \in 1..k : y = s[i]
      BY DEF Firsts
    <3>2. CASE i = k
      BY <3>1, <3>2, <2>5
    <3>3. CASE i < k
      <4>1. Better(y, s[k])
        BY <3>1, <3>3, <2>6
      <4>2. y.score \in Nat
        BY <2>6 DEF Records
      <4>3. y.score > s[k].score \/ y.score = s[k].score
        BY <4>1 DEF Better
      <4> HIDE DEF s
      <4> QED
        BY <4>2, <4>3, <2>5
    <3> QED
      BY <3>2, <3>3
  <2> QED
    BY <2>4, <2>5, <2>6, <2>7 DEF Attained
<1> QED
  BY <1>2, <1>3

\* What is attained is reached by the last of the best.
LEMMA AttainedIs ==
  ASSUME NEW D \in SUBSET Records, IsFiniteSet(D), NEW k \in Int, NEW h \in Nat \ {0},
         Attained(D, k, h)
  PROVE  Len(Best(D, k)) = k /\ Last(Best(D, k)).score >= h
<1> DEFINE n == Cardinality(D)
           s == Ordered(D, Better)
<1>1. n \in Nat
  BY FS_CardinalityType
<1>2. PICK K \in SUBSET D : Cardinality(K) = k /\ \A y \in K : y.score >= h
  BY DEF Attained
<1>3. k > 0
  BY DEF Attained
<1>4. k <= n
  BY <1>2, FS_Subset
<1>5. Kept(n, k) = k /\ k \in 1..n
  BY <1>1, <1>3, <1>4 DEF Kept
<1>6. Len(Best(D, k)) = k /\ Best(D, k)[k] = s[k] /\ s[k] \in D
  <2>1. k \in 1..Kept(n, k)
    BY <1>5
  <2> QED
    BY <2>1, <1>5, BestIs
<1>7. s[k].score \in Nat
  BY <1>6 DEF Records
<1>8. ASSUME s[k].score < h PROVE FALSE
  <2>1. \A y \in K : Better(y, s[k])
    <3> TAKE y \in K
    <3>1. y.score \in Nat /\ y.score >= h
      BY <1>2 DEF Records
    <3> HIDE DEF s
    <3>2. y.score > s[k].score
      BY <3>1, <1>7, <1>8
    <3> QED
      BY <3>2 DEF Better
  <2>2. k <= Cardinality(Lower(ByScore(D), D, s[k]))
    BY <2>1, <1>2, <1>6, OutdoneRank
  <2>3. Cardinality(Lower(ByScore(D), D, s[k])) = k - 1
    BY <1>5, RankedIs DEF IsOrdered
  <2> QED
    BY <2>2, <2>3
<1> QED
  BY <1>6, <1>7, <1>8 DEF Last

-----------------------------------------------------------------------------
(* Contributions, and the frontier of a block. *)

LEMMA ProductUp ==
  ASSUME NEW a \in Nat, NEW b \in Nat, NEW c \in Nat, a <= b
  PROVE  c * a <= c * b /\ a * c <= b * c /\ c * a \in Nat /\ a * c \in Nat
OBVIOUS

\* More often in a shorter document is worth more.
LEMMA GivesMore ==
  ASSUME NEW idf \in Nat, NEW f \in Nat \ {0}, NEW g \in Nat \ {0}, f <= g,
         NEW l \in Nat, NEW m \in Nat, m <= l
  PROVE  /\ Contribution(idf, f, l) \in Nat /\ Contribution(idf, g, m) \in Nat
         /\ Contribution(idf, f, l) <= Contribution(idf, g, m)
<1> DEFINE q == (6 * f) \div (f + l)
           r == (6 * g) \div (g + m)
<1>1. q \in 0..(6 * f) /\ r \in 0..(6 * g)
  BY PartOfANumber
<1>2. q \in Nat /\ r \in Nat
  BY <1>1
<1>3. (f + l) * q <= 6 * f
  OBVIOUS
<1>4. 6 * g < (g + m) * r + (g + m)
  OBVIOUS
<1> HIDE DEF q, r
<1>5. f * q + l * q <= 6 * f
  BY <1>2, <1>3
<1>6. q <= 6
  <2> SUFFICES ASSUME q >= 7 PROVE FALSE
    BY <1>2
  <2>1. f * 7 <= f * q /\ l * q \in Nat /\ f * q \in Nat
    BY <1>2, ProductUp
  <2> QED
    BY <2>1, <1>5
<1>7. l * q <= (6 - q) * f
  BY <1>2, <1>5
<1>8. m * q <= l * q
  BY <1>2, ProductUp
<1>9. (6 - q) * f <= (6 - q) * g
  <2>1. 6 - q \in Nat
    BY <1>2, <1>6
  <2> QED
    BY <2>1, ProductUp
<1>10. m * q <= (6 - q) * g
  <2>1. m * q \in Nat /\ l * q \in Nat /\ (6 - q) * f \in Int /\ (6 - q) * g \in Int
    BY <1>2
  <2> QED
    BY <2>1, <1>7, <1>8, <1>9
<1>11. (g + m) * q <= 6 * g
  BY <1>2, <1>10
<1>12. q <= r
  <2> SUFFICES ASSUME q >= r + 1 PROVE FALSE
    BY <1>2
  <2>1. (g + m) * (r + 1) <= (g + m) * q
    BY <1>2, ProductUp
  <2>2. (g + m) * (r + 1) = (g + m) * r + (g + m)
    BY <1>2
  <2>3. (g + m) * r \in Int /\ (g + m) * q \in Int
    BY <1>2
  <2> QED
    BY <2>1, <2>2, <2>3, <1>4, <1>11
<1>13. idf * q <= idf * r /\ idf * q \in Nat /\ idf * r \in Nat
  BY <1>2, <1>12, ProductUp
<1> QED
  BY <1>13 DEF Contribution, q, r

LEMMA GivesSome ==
  ASSUME NEW idf \in Nat, NEW f \in Nat \ {0}, NEW l \in Nat
  PROVE  Contribution(idf, f, l) \in Nat
BY GivesMore

LEMMA ImageFinite ==
  ASSUME NEW f, IsFiniteSet(DOMAIN f), NEW T, T = {f[x] : x \in DOMAIN f}
  PROVE  IsFiniteSet(T)
<1> DEFINE g == [x \in DOMAIN f |-> f[x]]
<1>1. g \in Surjection(DOMAIN f, T)
  BY DEF Surjection
<1> QED
  BY <1>1, FS_Surjection

\* Of the pairs that are not worse than x, one has the most of the first component,
\* and the least of the second: it is not worse than x, and no other beats it.
Beats(x, y) == x[1] >= y[1] /\ x[2] <= y[2]

LEMMA SomeBeats ==
  ASSUME NEW S \in SUBSET (Nat \X Nat), IsFiniteSet(S), NEW x \in S
  PROVE  \E y \in S : Beats(y, x) /\ \A z \in S : z = y \/ z[1] < y[1] \/ z[2] > y[2]
<1> DEFINE T == {y \in S : Beats(y, x)}
           R == {pair \in T \X T : \/ pair[1][1] > pair[2][1]
                                   \/ pair[1][1] = pair[2][1] /\ pair[1][2] < pair[2][2]}
<1>1. T \in SUBSET S /\ IsFiniteSet(T) /\ x \in T
  <2>1. x[1] \in Nat /\ x[2] \in Nat
    OBVIOUS
  <2>2. x \in T
    BY <2>1 DEF Beats
  <2> QED
    BY <2>2, FS_Subset
<1>2. \A y \in S : y[1] \in Nat /\ y[2] \in Nat /\ y = <<y[1], y[2]>>
  OBVIOUS
<1> HIDE DEF T
<1>3. \A y, z \in T : <<y, z>> \in R <=> y[1] > z[1] \/ (y[1] = z[1] /\ y[2] < z[2])
  OBVIOUS
<1> HIDE DEF R
<1>4. IsOrder(R, T)
  <2>1. \A y, z \in T : y # z => <<y, z>> \in R \/ <<z, y>> \in R
    <3> SUFFICES ASSUME NEW y \in T, NEW z \in T, <<y, z>> \notin R, <<z, y>> \notin R PROVE y = z
      OBVIOUS
    <3>1. y[1] = z[1] /\ y[2] = z[2]
      <4>1. y[1] \in Nat /\ y[2] \in Nat /\ z[1] \in Nat /\ z[2] \in Nat
        BY <1>1, <1>2
      <4> QED
        BY <4>1, <1>3
    <3>2. y = <<y[1], y[2]>> /\ z = <<z[1], z[2]>>
      BY <1>1, <1>2
    <3> QED
      BY <3>1, <3>2
  <2>2. \A y \in T : <<y, y>> \notin R
    <3> TAKE y \in T
    <3>1. y[1] \in Nat /\ y[2] \in Nat
      BY <1>1, <1>2
    <3> QED
      BY <3>1, <1>3
  <2>3. \A y, z, w \in T : <<y, z>> \in R /\ <<z, w>> \in R => <<y, w>> \in R
    <3> TAKE y, z, w \in T
    <3>1. /\ y[1] \in Nat /\ y[2] \in Nat /\ z[1] \in Nat /\ z[2] \in Nat
          /\ w[1] \in Nat /\ w[2] \in Nat
      BY <1>1, <1>2
    <3> QED
      BY <3>1, <1>3
  <2> QED
    BY <2>1, <2>2, <2>3 DEF IsOrder
<1>5. PICK y \in T : Cardinality(Lower(R, T, y)) = 0
  <2>1. Cardinality(T) \in Nat /\ Cardinality(T) # 0
    BY <1>1, FS_EmptySet, FS_CardinalityType
  <2>2. 1 \in 1..Cardinality(T)
    BY <2>1
  <2>3. \A k \in 1..Cardinality(T) : \E y \in T : Cardinality(Lower(R, T, y)) = k - 1
    BY <1>1, <1>4, RanksAre
  <2> QED
    BY <2>2, <2>3
<1>6. \A z \in T : <<z, y>> \notin R
  <2>1. Lower(R, T, y) \in SUBSET T
    BY DEF Lower
  <2>2. IsFiniteSet(Lower(R, T, y))
    BY <2>1, <1>1, FS_Subset
  <2>3. Lower(R, T, y) = {}
    BY <2>2, <1>5, FS_EmptySet
  <2> QED
    BY <2>3 DEF Lower
<1>7. y \in S /\ Beats(y, x)
  BY DEF T
<1>8. ASSUME NEW z \in S, z # y, ~(z[1] < y[1]), ~(z[2] > y[2]) PROVE FALSE
  <2>1. /\ x[1] \in Nat /\ x[2] \in Nat /\ y[1] \in Nat /\ y[2] \in Nat /\ z[1] \in Nat /\ z[2] \in Nat
    BY <1>2, <1>7
  <2>2. z[1] >= x[1] /\ z[2] <= x[2]
    BY <2>1, <1>7, <1>8 DEF Beats
  <2>3. z \in T
    BY <2>2 DEF T, Beats
  <2>4. ~(z[1] > y[1] \/ (z[1] = y[1] /\ z[2] < y[2]))
    BY <2>3, <1>3, <1>6
  <2>5. z[1] = y[1] /\ z[2] = y[2]
    BY <2>1, <2>4, <1>8
  <2>6. z = <<z[1], z[2]>> /\ y = <<y[1], y[2]>>
    BY <1>2, <1>7
  <2> QED
    BY <2>5, <2>6, <1>8
<1> QED
  BY <1>7, <1>8

\* The frontier of some pairs is a sequence of them, by decreasing frequency, that
\* beats them all.
LEMMA FrontierIs ==
  ASSUME NEW S \in SUBSET (Nat \X Nat), IsFiniteSet(S), S # {}
  PROVE  \E n \in Nat \ {0} :
           /\ Frontier(S) \in [1..n -> S] /\ Len(Frontier(S)) = n
           /\ \A i, j \in 1..n : i < j => Frontier(S)[i][1] > Frontier(S)[j][1]
           /\ \A x \in S : \E i \in 1..n : Beats(Frontier(S)[i], x)
<1> DEFINE T == {pair \in S : \A other \in S :
                   other = pair \/ other[1] < pair[1] \/ other[2] > pair[2]}
           R == {pair \in T \X T : pair[1][1] > pair[2][1]}
           s == Frontier(S)
           n == Cardinality(T)
<1>1. T \in SUBSET S /\ IsFiniteSet(T) /\ n \in Nat
  <2>1. T \in SUBSET S
    OBVIOUS
  <2> HIDE DEF T
  <2>2. IsFiniteSet(T)
    BY <2>1, FS_Subset
  <2> QED
    BY <2>1, <2>2, FS_CardinalityType
<1>2. \A x \in S : \E y \in T : Beats(y, x)
  <2> TAKE x \in S
  <2>1. PICK y \in S : Beats(y, x) /\ \A z \in S : z = y \/ z[1] < y[1] \/ z[2] > y[2]
    BY SomeBeats
  <2>2. y \in T
    BY <2>1
  <2> QED
    BY <2>1, <2>2
<1>3. \A x, y \in T : x[1] = y[1] => x = y
  <2> TAKE x, y \in T
  <2>1. x[1] \in Nat /\ x[2] \in Nat /\ y[1] \in Nat /\ y[2] \in Nat
    OBVIOUS
  <2>2. (y = x \/ y[1] < x[1] \/ y[2] > x[2]) /\ (x = y \/ x[1] < y[1] \/ x[2] > y[2])
    OBVIOUS
  <2> QED
    BY <2>1, <2>2
<1>4. s = Ordered(T, LAMBDA x, y : x[1] > y[1])
  BY DEF Frontier
<1> HIDE DEF T
<1>5. IsOrdered(s, T, R)
  <2>1. T \in SUBSET (Nat \X Nat)
    BY <1>1
  <2> QED
    BY <2>1, <1>1, <1>3, <1>4, PairsOrdered
<1> HIDE DEF s
<1>6. s \in [1..n -> T]
  BY <1>5 DEF IsOrdered
<1>7. \A i, j \in 1..n : i < j => s[i][1] > s[j][1]
  <2>1. \A i, j \in 1..n : i < j => <<s[i], s[j]>> \in R
    BY <1>5 DEF IsOrdered
  <2> QED
    BY <2>1
<1>8. \A x \in T : \E i \in 1..n : s[i] = x
  BY <1>5 DEF IsOrdered
<1>9. n # 0
  <2>1. T # {}
    BY <1>2
  <2> QED
    BY <2>1, <1>1, FS_EmptySet
<1> HIDE DEF n
<1>10. Len(s) = n
  <2>1. n \in Nat
    BY <1>1 DEF n
  <2>2. s = [k \in 1..n |-> s[k]]
    BY <1>6
  <2> QED
    BY <2>1, <2>2, ListIs
<1>11. s \in [1..n -> S]
  BY <1>1, <1>6
<1>12. \A x \in S : \E i \in 1..n : Beats(s[i], x)
  BY <1>2, <1>8
<1> QED
  BY <1>1, <1>7, <1>9, <1>10, <1>11, <1>12 DEF s

\* The numbers of a category: documents once at least each.
IsDocs(docs) ==
  /\ IsFiniteSet(DOMAIN docs) /\ DOMAIN docs \in (SUBSET Nat) \ {{}}
  /\ docs \in [DOMAIN docs -> Nat \ {0}]

\* A block's description bounds what its documents hold.
Describes(block, docs, lengths) ==
  /\ block.docs = docs
  /\ block.first \in DOMAIN docs /\ block.last \in DOMAIN docs
  /\ \A d \in DOMAIN docs : block.first <= d /\ d <= block.last
  /\ block.maxFrequency \in Nat \ {0} /\ \A d \in DOMAIN docs : docs[d] <= block.maxFrequency
  /\ block.minLength \in Nat
  /\ \A d \in DOMAIN docs : block.minLength <= DocumentLength(lengths, d)
  /\ block.impacts # <<>> =>
       /\ block.minLength > 0
       /\ IsFiniteSet(Range(block.impacts))
       /\ Range(block.impacts) \in (SUBSET ((Nat \ {0}) \X Nat)) \ {{}}
       /\ \A d \in DOMAIN docs : \E impact \in Range(block.impacts) :
            Beats(impact, <<docs[d], DocumentLength(lengths, d)>>)

LEMMA LengthIs ==
  ASSUME NEW lengths, lengths \in [DOMAIN lengths -> Nat], NEW d
  PROVE  DocumentLength(lengths, d) \in Nat
BY DEF DocumentLength

\* The pairs of a block are some, and as many at most as its documents.
LEMMA PairsAre ==
  ASSUME NEW docs, IsDocs(docs), NEW lengths, lengths \in [DOMAIN lengths -> Nat],
         NEW pairs, pairs = {<<docs[d], DocumentLength(lengths, d)>> : d \in DOMAIN docs}
  PROVE  /\ IsFiniteSet(pairs) /\ pairs # {}
         /\ pairs \in SUBSET ((Nat \ {0}) \X Nat) /\ pairs \in SUBSET (Nat \X Nat)
         /\ \A d \in DOMAIN docs : <<docs[d], DocumentLength(lengths, d)>> \in pairs
<1> DEFINE f == [d \in DOMAIN docs |-> <<docs[d], DocumentLength(lengths, d)>>]
<1>1. IsFiniteSet(pairs)
  <2>1. DOMAIN f = DOMAIN docs /\ pairs = {f[x] : x \in DOMAIN f}
    OBVIOUS
  <2>2. IsFiniteSet(DOMAIN f)
    BY <2>1 DEF IsDocs
  <2> HIDE DEF f
  <2> QED
    BY <2>1, <2>2, ImageFinite
<1>2. \A d \in DOMAIN docs : docs[d] \in Nat \ {0} /\ DocumentLength(lengths, d) \in Nat
  BY LengthIs DEF IsDocs
<1>3. pairs # {}
  <2>1. PICK d \in DOMAIN docs : TRUE
    BY DEF IsDocs
  <2> QED
    BY <2>1
<1> QED
  BY <1>1, <1>2, <1>3

\* A sequence of numbers as a set.
LEMMA RangeIs ==
  ASSUME NEW n \in Nat \ {0}, NEW S, NEW s \in [1..n -> S]
  PROVE  IsFiniteSet(Range(s)) /\ Range(s) \in (SUBSET S) \ {{}} /\ \A i \in 1..n : s[i] \in Range(s)
<1>1. DOMAIN s = 1..n /\ IsFiniteSet(1..n)
  BY FS_Interval
<1>2. Range(s) = {s[x] : x \in DOMAIN s}
  BY DEF Range
<1>3. IsFiniteSet(Range(s))
  BY <1>1, <1>2, ImageFinite
<1>4. 1 \in 1..n
  OBVIOUS
<1> QED
  BY <1>1, <1>2, <1>3, <1>4

LEMMA BlockDescribed ==
  ASSUME NEW docs, IsDocs(docs), NEW lengths, lengths \in [DOMAIN lengths -> Nat]
  PROVE  Describes(DescribeBlock(docs, lengths), docs, lengths)
<1> DEFINE pairs == {<<docs[d], DocumentLength(lengths, d)>> : d \in DOMAIN docs}
           seconds == {pair[2] : pair \in pairs}
           shortest == Min(seconds)
           F == Frontier(pairs)
           cut == [SubSeq(F, 1, MaxImpacts) EXCEPT ![MaxImpacts] = <<@[1], shortest>>]
           impacts == IF shortest = 0 THEN <<>> ELSE IF Len(F) <= MaxImpacts THEN F ELSE cut
           pair(d) == <<docs[d], DocumentLength(lengths, d)>>
<1>1. DescribeBlock(docs, lengths) =
        [docs |-> docs, first |-> Min(DOMAIN docs), last |-> Max(DOMAIN docs),
         maxFrequency |-> Max(Range(docs)), minLength |-> shortest, impacts |-> impacts]
  BY DEF DescribeBlock
<1>2. /\ IsFiniteSet(pairs) /\ pairs # {}
      /\ pairs \in SUBSET ((Nat \ {0}) \X Nat) /\ pairs \in SUBSET (Nat \X Nat)
      /\ \A d \in DOMAIN docs : pair(d) \in pairs
  BY PairsAre
<1> HIDE DEF pairs
<1>3. /\ seconds \in SUBSET Nat /\ IsFiniteSet(seconds) /\ seconds # {}
      /\ \A p \in pairs : p[2] \in seconds
  <2> DEFINE g == [p \in pairs |-> p[2]]
  <2>1. DOMAIN g = pairs /\ seconds = {g[x] : x \in DOMAIN g}
    OBVIOUS
  <2>2. IsFiniteSet(DOMAIN g)
    BY <2>1, <1>2
  <2> HIDE DEF g
  <2>3. IsFiniteSet(seconds)
    BY <2>1, <2>2, ImageFinite
  <2>4. PICK p \in pairs : TRUE
    BY <1>2
  <2>5. \A q \in pairs : q[2] \in Nat
    BY <1>2
  <2> QED
    BY <2>3, <2>4, <2>5
<1>4. shortest \in Nat /\ \A p \in pairs : shortest <= p[2]
  <2>1. shortest \in seconds /\ \A y \in seconds : shortest <= y
    BY <1>3, ExtremesAre
  <2> QED
    BY <2>1, <1>3
<1> HIDE DEF seconds, shortest
<1>5. \A d \in DOMAIN docs : shortest <= DocumentLength(lengths, d)
  <2> TAKE d \in DOMAIN docs
  <2>1. shortest <= pair(d)[2]
    BY <1>2, <1>4
  <2> QED
    BY <2>1
<1>6. /\ Min(DOMAIN docs) \in DOMAIN docs /\ Max(DOMAIN docs) \in DOMAIN docs
      /\ \A d \in DOMAIN docs : Min(DOMAIN docs) <= d /\ d <= Max(DOMAIN docs)
  <2>1. DOMAIN docs \in SUBSET Nat /\ IsFiniteSet(DOMAIN docs) /\ DOMAIN docs # {}
    BY DEF IsDocs
  <2>2. DOMAIN docs \in SUBSET Nat /\ Max(DOMAIN docs) \in DOMAIN docs
        /\ \A d \in DOMAIN docs : Max(DOMAIN docs) >= d
    BY <2>1, ExtremesAre
  <2>3. \A d \in DOMAIN docs : d <= Max(DOMAIN docs)
    BY <2>2
  <2> QED
    BY <2>1, <2>2, <2>3, ExtremesAre
<1>7. /\ Max(Range(docs)) \in Nat \ {0}
      /\ \A d \in DOMAIN docs : docs[d] <= Max(Range(docs))
  <2>1. Range(docs) = {docs[d] : d \in DOMAIN docs}
    BY DEF Range
  <2>2. IsFiniteSet(Range(docs))
    BY <2>1, ImageFinite DEF IsDocs
  <2>3. Range(docs) \in SUBSET (Nat \ {0}) /\ \A d \in DOMAIN docs : docs[d] \in Range(docs)
    BY <2>1 DEF IsDocs
  <2>4. Range(docs) # {}
    BY <2>3 DEF IsDocs
  <2>5. Range(docs) \in SUBSET Nat
    BY <2>3
  <2>6. Max(Range(docs)) \in Range(docs) /\ \A y \in Range(docs) : Max(Range(docs)) >= y
    BY <2>2, <2>4, <2>5, ExtremesAre
  <2>7. \A d \in DOMAIN docs : docs[d] \in Nat /\ Max(Range(docs)) \in Nat /\ Max(Range(docs)) >= docs[d]
    BY <2>3, <2>5, <2>6
  <2> QED
    BY <2>3, <2>6, <2>7
<1>8. PICK n \in Nat \ {0} :
        /\ F \in [1..n -> pairs] /\ Len(F) = n
        /\ \A i, j \in 1..n : i < j => F[i][1] > F[j][1]
        /\ \A x \in pairs : \E i \in 1..n : Beats(F[i], x)
  BY <1>2, FrontierIs
<1> HIDE DEF F
<1>9. ASSUME impacts # <<>>
      PROVE  /\ shortest > 0
             /\ IsFiniteSet(Range(impacts))
             /\ Range(impacts) \in (SUBSET ((Nat \ {0}) \X Nat)) \ {{}}
             /\ \A d \in DOMAIN docs : \E impact \in Range(impacts) : Beats(impact, pair(d))
  <2>1. shortest > 0
    BY <1>4, <1>9
  <2>2. CASE n <= MaxImpacts
    <3>1. impacts = F
      BY <2>1, <2>2, <1>4, <1>8
    <3>2. IsFiniteSet(Range(F)) /\ Range(F) \in (SUBSET pairs) \ {{}} /\ \A i \in 1..n : F[i] \in Range(F)
      BY <1>8, RangeIs
    <3>3. \A d \in DOMAIN docs : \E impact \in Range(F) : Beats(impact, pair(d))
      <4> TAKE d \in DOMAIN docs
      <4>1. PICK i \in 1..n : Beats(F[i], pair(d))
        BY <1>2, <1>8
      <4> QED
        BY <4>1, <3>2
    <3> HIDE DEF impacts
    <3>4. Range(F) \in (SUBSET ((Nat \ {0}) \X Nat)) \ {{}}
      BY <3>2, <1>2
    <3> QED
      BY <2>1, <3>1, <3>2, <3>3, <3>4
  <2>3. CASE ~(n <= MaxImpacts)
    <3>1. impacts = cut
      <4>1. Len(F) = n /\ MaxImpacts \in Nat
        BY <1>8, MaxImpactsAssumption
      <4>2. ~(Len(F) <= MaxImpacts) /\ shortest # 0
        BY <4>1, <2>1, <2>3, <1>4
      <4> HIDE DEF cut
      <4> QED
        BY <4>2
    <3>2. MaxImpacts \in Nat \ {0} /\ MaxImpacts \in 1..n /\ MaxImpacts < n
      BY <2>3, <1>8, MaxImpactsAssumption
    <3>3. SubSeq(F, 1, MaxImpacts) \in [1..MaxImpacts -> pairs]
          /\ \A i \in 1..MaxImpacts : SubSeq(F, 1, MaxImpacts)[i] = F[i]
      <4>1. SubSeq(F, 1, MaxImpacts) = [i \in 1..MaxImpacts |-> F[i]]
        <5>1. F \in Seq(pairs) /\ Len(F) = n
          BY <1>8
        <5>2. 1 \in 1..Len(F) + 1 /\ MaxImpacts \in 0..Len(F)
          BY <5>1, <3>2
        <5>3. /\ SubSeq(F, 1, MaxImpacts) \in Seq(pairs)
              /\ Len(SubSeq(F, 1, MaxImpacts)) = MaxImpacts - 1 + 1
              /\ \A i \in 1..MaxImpacts - 1 + 1 : SubSeq(F, 1, MaxImpacts)[i] = F[1 + i - 1]
          BY <5>1, <5>2, <3>2, SubSeqProperties
        <5>4. MaxImpacts - 1 + 1 = MaxImpacts /\ \A i \in 1..MaxImpacts : 1 + i - 1 = i
          BY <3>2
        <5>5. DOMAIN SubSeq(F, 1, MaxImpacts) = 1..MaxImpacts
          BY <5>3, <5>4
        <5>6. \A i \in 1..MaxImpacts : SubSeq(F, 1, MaxImpacts)[i] = F[i]
          BY <5>3, <5>4
        <5>7. SubSeq(F, 1, MaxImpacts) = [i \in DOMAIN SubSeq(F, 1, MaxImpacts) |-> SubSeq(F, 1, MaxImpacts)[i]]
          BY <5>3
        <5> QED
          BY <5>5, <5>6, <5>7
      <4>2. \A i \in 1..MaxImpacts : i \in 1..n
        BY <3>2
      <4>3. \A i \in 1..MaxImpacts : F[i] \in pairs
        BY <4>2, <1>8
      <4> QED
        BY <4>1, <4>3
    <3>4. \A x \in pairs : x[1] \in Nat \ {0} /\ x[2] \in Nat
      BY <1>2
    <3>5. \A i \in 1..n : F[i] \in pairs
      BY <1>8
    <3>6. /\ cut = [i \in 1..MaxImpacts |-> cut[i]]
          /\ \A i \in 1..MaxImpacts : cut[i] = IF i = MaxImpacts THEN <<F[i][1], shortest>> ELSE F[i]
      BY <3>2, <3>3
    <3> HIDE DEF cut, impacts
    <3>7. cut \in [1..MaxImpacts -> (Nat \ {0}) \X Nat]
      <4>1. \A i \in 1..MaxImpacts : cut[i] \in (Nat \ {0}) \X Nat
        <5> TAKE i \in 1..MaxImpacts
        <5>1. F[i] \in pairs
          BY <3>2, <3>5
        <5>2. F[i] \in (Nat \ {0}) \X Nat /\ F[i][1] \in Nat \ {0}
          BY <5>1, <3>4, <1>2
        <5> QED
          BY <5>2, <3>6, <1>4
      <4> QED
        BY <4>1, <3>6
    <3>8. /\ IsFiniteSet(Range(cut)) /\ Range(cut) \in (SUBSET ((Nat \ {0}) \X Nat)) \ {{}}
          /\ \A i \in 1..MaxImpacts : cut[i] \in Range(cut)
      <4> DEFINE P == (Nat \ {0}) \X Nat
      <4>1. cut \in [1..MaxImpacts -> P]
        BY <3>7
      <4> HIDE DEF P
      <4>2. /\ IsFiniteSet(Range(cut)) /\ Range(cut) \in (SUBSET P) \ {{}}
            /\ \A i \in 1..MaxImpacts : cut[i] \in Range(cut)
        BY <3>2, <4>1, RangeIs
      <4> QED
        BY <4>2 DEF P
    <3>9. \A d \in DOMAIN docs : \E i \in 1..MaxImpacts : Beats(cut[i], pair(d))
      <4> TAKE d \in DOMAIN docs
      <4>1. PICK i \in 1..n : Beats(F[i], pair(d))
        BY <1>2, <1>8
      <4>2. shortest <= pair(d)[2] /\ pair(d)[2] \in Nat /\ pair(d)[1] \in Nat
        BY <1>2, <1>4, <3>4
      <4>3. CASE i < MaxImpacts
        <5>1. i \in 1..MaxImpacts /\ i # MaxImpacts
          BY <4>3, <3>2
        <5>2. cut[i] = F[i]
          BY <5>1, <3>6
        <5> QED
          BY <4>1, <5>1, <5>2
      <4>4. CASE ~(i < MaxImpacts)
        <5>1. F[i][1] \in Nat /\ F[MaxImpacts][1] \in Nat
          BY <3>2, <3>4, <3>5
        <5>2. F[MaxImpacts][1] >= F[i][1]
          <6>1. i = MaxImpacts \/ MaxImpacts < i
            BY <4>4, <3>2
          <6> QED
            BY <5>1, <6>1, <3>2, <1>8
        <5>3. F[i][1] >= pair(d)[1]
          BY <4>1 DEF Beats
        <5> HIDE DEF pair
        <5>4. F[MaxImpacts][1] >= pair(d)[1]
          BY <5>1, <5>2, <5>3, <4>2
        <5>5. MaxImpacts \in 1..MaxImpacts
          BY <3>2
        <5>6. cut[MaxImpacts] = <<F[MaxImpacts][1], shortest>>
          BY <5>5, <3>6
        <5>7. Beats(cut[MaxImpacts], pair(d))
          BY <5>4, <5>6, <4>2 DEF Beats
        <5> QED
          BY <5>5, <5>7
      <4> QED
        BY <4>3, <4>4
    <3>10. \A d \in DOMAIN docs : \E impact \in Range(cut) : Beats(impact, pair(d))
      <4> TAKE d \in DOMAIN docs
      <4>1. PICK i \in 1..MaxImpacts : Beats(cut[i], pair(d))
        BY <3>9
      <4>2. cut[i] \in Range(cut)
        BY <3>8
      <4> QED
        BY <4>1, <4>2
    <3> QED
      BY <2>1, <3>1, <3>8, <3>10
  <2> QED
    BY <2>2, <2>3
<1> HIDE DEF impacts
<1> DEFINE block == DescribeBlock(docs, lengths)
<1>10. /\ block.docs = docs /\ block.first = Min(DOMAIN docs) /\ block.last = Max(DOMAIN docs)
       /\ block.maxFrequency = Max(Range(docs)) /\ block.minLength = shortest
       /\ block.impacts = impacts
  BY <1>1
<1> HIDE DEF block
<1>11. block.impacts # <<>> =>
       /\ block.minLength > 0
       /\ IsFiniteSet(Range(block.impacts))
       /\ Range(block.impacts) \in (SUBSET ((Nat \ {0}) \X Nat)) \ {{}}
       /\ \A d \in DOMAIN docs : \E impact \in Range(block.impacts) :
            Beats(impact, <<docs[d], DocumentLength(lengths, d)>>)
  <2> SUFFICES ASSUME block.impacts # <<>> PROVE
       /\ block.minLength > 0
       /\ IsFiniteSet(Range(block.impacts))
       /\ Range(block.impacts) \in (SUBSET ((Nat \ {0}) \X Nat)) \ {{}}
       /\ \A d \in DOMAIN docs : \E impact \in Range(block.impacts) :
            Beats(impact, <<docs[d], DocumentLength(lengths, d)>>)
    OBVIOUS
  <2>1. impacts # <<>>
    BY <1>10
  <2> QED
    BY <2>1, <1>9, <1>10
<1>12. Describes(block, docs, lengths)
  BY <1>4, <1>5, <1>6, <1>7, <1>10, <1>11 DEF Describes
<1> QED
  BY <1>12 DEF block

-----------------------------------------------------------------------------
(* A category cut into blocks. *)

\* Parts of a category that hold all of it, one after the other.
IsCut(cut, docs) ==
  /\ \E n \in Nat \ {0} : DOMAIN cut = 1..n /\ cut = [b \in 1..n |-> cut[b]] /\ Len(cut) = n
  /\ \A b \in DOMAIN cut : /\ IsDocs(cut[b]) /\ DOMAIN cut[b] \subseteq DOMAIN docs
                           /\ \A d \in DOMAIN cut[b] : cut[b][d] = docs[d]
  /\ \A a, b \in DOMAIN cut : a < b => \A d \in DOMAIN cut[a], e \in DOMAIN cut[b] : d < e
  /\ \A d \in DOMAIN docs : \E b \in DOMAIN cut : d \in DOMAIN cut[b]

\* The blocks of m numbers, B in each.
LEMMA BlocksNb ==
  ASSUME NEW m \in Nat \ {0}, NEW B \in Nat \ {0}, NEW n, n = UpRounded(m, B)
  PROVE  /\ n \in Nat \ {0} /\ m <= n * B
         /\ \A b \in 1..n : (b - 1) * B + 1 \in 1..m
<1>1. n = (m + B - 1) \div B
  BY DEF UpRounded
<1>2. m + B - 1 \in Nat
  OBVIOUS
<1>3. n \in 0..(m + B - 1)
  BY <1>1, <1>2, PartOfANumber
<1>4. n \in Nat
  BY <1>2, <1>3
<1>5. B * n <= m + B - 1 /\ m + B - 1 < B * n + B
  BY <1>1, <1>2
<1>6. m <= n * B
  BY <1>4, <1>5
<1>7. n # 0
  BY <1>6
<1>8. ASSUME NEW b \in 1..n PROVE (b - 1) * B + 1 \in 1..m
  <2>1. b - 1 \in Nat /\ n - 1 \in Nat /\ b - 1 <= n - 1
    BY <1>4
  <2>2. (b - 1) * B <= (n - 1) * B /\ (b - 1) * B \in Nat
    BY <2>1, ProductUp
  <2>3. (n - 1) * B = B * n - B
    BY <1>4
  <2>4. B * n \in Nat
    BY <1>4
  <2> QED
    BY <2>2, <2>3, <2>4, <1>5
<1> QED
  BY <1>4, <1>6, <1>7, <1>8

\* A number is in one of the blocks.
LEMMA BlockOf ==
  ASSUME NEW m \in Nat \ {0}, NEW B \in Nat \ {0}, NEW n, n = UpRounded(m, B), NEW i \in 1..m
  PROVE  \E b \in 1..n : (b - 1) * B < i /\ i <= b * B
<1> DEFINE q == (i - 1) \div B
<1>1. i - 1 \in Nat
  OBVIOUS
<1>2. q \in 0..(i - 1)
  BY <1>1, PartOfANumber
<1>3. B * q <= i - 1 /\ i - 1 < B * q + B
  BY <1>1
<1>4. q \in Nat
  BY <1>1, <1>2
<1> HIDE DEF q
<1>5. n \in Nat \ {0} /\ m <= n * B
  BY BlocksNb
<1>6. q < n
  <2> SUFFICES ASSUME q >= n PROVE FALSE
    BY <1>4, <1>5
  <2>1. n * B <= q * B /\ q * B \in Nat /\ n * B \in Nat
    BY <1>4, <1>5, ProductUp
  <2> QED
    BY <2>1, <1>3, <1>4, <1>5
<1>7. q + 1 \in 1..n
  BY <1>4, <1>5, <1>6
<1>8. (q + 1) - 1 = q /\ (q + 1) * B = B * q + B /\ q * B = B * q /\ B * q \in Nat
  BY <1>4
<1>9. ((q + 1) - 1) * B < i /\ i <= (q + 1) * B
  BY <1>3, <1>8
<1> QED
  BY <1>7, <1>9

LEMMA BlocksAre ==
  ASSUME NEW docs, IsDocs(docs)
  PROVE  IsCut(Blocks(docs), docs)
<1> DEFINE D == DOMAIN docs
           B == BlockSize
           ids == Ordered(D, <)
           m == Cardinality(D)
           n == UpRounded(m, B)
           End(b) == Min({b * B, m})
           Numbers(b) == (b - 1) * B + 1 .. End(b)
           Ids(b) == {ids[i] : i \in Numbers(b)}
           cut == Blocks(docs)
<1>1. D \in SUBSET Nat /\ IsFiniteSet(D) /\ D # {} /\ docs \in [D -> Nat \ {0}]
  BY DEF IsDocs
<1>2. IsOrdered(ids, D, {pair \in D \X D : pair[1] < pair[2]})
  BY <1>1, NumbersOrdered
<1>3. m \in Nat \ {0}
  BY <1>1, FS_EmptySet, FS_CardinalityType
<1>4. ids \in [1..m -> D] /\ Len(ids) = m
  <2>1. ids \in [1..m -> D]
    BY <1>2 DEF IsOrdered
  <2>2. ids = [k \in 1..m |-> ids[k]]
    BY <2>1
  <2> HIDE DEF ids, m
  <2> QED
    BY <2>1, <2>2, <1>3, ListIs
<1>5. cut = [b \in 1..n |-> Restrict(docs, Ids(b))]
  BY <1>4 DEF Blocks
<1>6. \A i, j \in 1..m : i < j => ids[i] < ids[j]
  <2>1. \A i, j \in 1..m : i < j => <<ids[i], ids[j]>> \in {pair \in D \X D : pair[1] < pair[2]}
    BY <1>2 DEF IsOrdered
  <2> HIDE DEF ids
  <2> QED
    BY <2>1
<1>7. \A d \in D : \E i \in 1..m : ids[i] = d
  BY <1>2 DEF IsOrdered
<1> HIDE DEF ids, m, cut, D
<1>8. B \in Nat \ {0}
  BY BlockSizeAssumption
<1> HIDE DEF B
<1>9. /\ n \in Nat \ {0} /\ m <= n * B
      /\ \A b \in 1..n : (b - 1) * B + 1 \in 1..m
  BY <1>3, <1>8, BlocksNb
<1>10. \A i \in 1..m : \E b \in 1..n : (b - 1) * B < i /\ i <= b * B
  BY <1>3, <1>8, BlockOf
<1> HIDE DEF n
<1>11. ASSUME NEW b \in 1..n
       PROVE  /\ b * B \in Nat /\ (b - 1) * B \in Nat /\ (b - 1) * B + B = b * B
              /\ End(b) \in {b * B, m} /\ End(b) <= b * B /\ End(b) <= m
  <2>1. b \in Nat /\ b - 1 \in Nat
    BY <1>9
  <2>2. b * B \in Nat /\ (b - 1) * B \in Nat /\ (b - 1) * B + B = b * B
    BY <2>1, <1>8
  <2>3. CASE b * B <= m
    <3>1. \A y \in {b * B, m} : b * B <= y
      BY <2>2, <2>3
    <3>2. End(b) \in {b * B, m} /\ \A y \in {b * B, m} : End(b) <= y
      BY <3>1, MinIs
    <3> QED
      BY <2>2, <3>2
  <2>4. CASE ~(b * B <= m)
    <3>1. \A y \in {b * B, m} : m <= y
      BY <2>2, <2>4, <1>3
    <3>2. End(b) \in {b * B, m} /\ \A y \in {b * B, m} : End(b) <= y
      BY <3>1, MinIs
    <3> QED
      BY <2>2, <3>2
  <2> QED
    BY <2>3, <2>4
<1>12. ASSUME NEW b \in 1..n, NEW i \in Numbers(b)
       PROVE  i \in 1..m /\ (b - 1) * B < i /\ i <= b * B /\ i \in Nat
  <2>1. End(b) \in Nat
    BY <1>3, <1>11
  <2> HIDE DEF End
  <2> QED
    BY <2>1, <1>3, <1>11
<1>13. ASSUME NEW b \in 1..n, NEW i \in 1..m, (b - 1) * B < i, i <= b * B PROVE i \in Numbers(b)
  <2>1. End(b) \in Nat /\ i <= End(b)
    BY <1>3, <1>11, <1>13
  <2> HIDE DEF End
  <2> QED
    BY <2>1, <1>3, <1>11, <1>13
<1> HIDE DEF Numbers
<1>14. ASSUME NEW b \in 1..n PROVE Ids(b) \subseteq D /\ Ids(b) # {}
  <2>1. Ids(b) \subseteq D
    BY <1>4, <1>12
  <2>2. (b - 1) * B + 1 \in Numbers(b)
    <3>1. (b - 1) * B + 1 \in 1..m
      BY <1>9
    <3>2. (b - 1) * B < (b - 1) * B + 1 /\ (b - 1) * B + 1 <= b * B
      BY <1>8, <1>11
    <3> QED
      BY <3>1, <3>2, <1>13
  <2> QED
    BY <2>1, <2>2
<1>15. ASSUME NEW b \in 1..n
       PROVE  /\ cut[b] = [d \in Ids(b) |-> docs[d]] /\ DOMAIN cut[b] = Ids(b)
              /\ IsDocs(cut[b]) /\ DOMAIN cut[b] \subseteq DOMAIN docs
              /\ \A d \in DOMAIN cut[b] : cut[b][d] = docs[d]
  <2>1. cut[b] = [d \in Ids(b) |-> docs[d]]
    BY <1>5 DEF Restrict
  <2>2. Ids(b) \subseteq D /\ Ids(b) # {}
    BY <1>14
  <2> HIDE DEF Ids
  <2>3. DOMAIN cut[b] = Ids(b) /\ \A d \in DOMAIN cut[b] : cut[b][d] = docs[d]
    BY <2>1
  <2>4. IsFiniteSet(Ids(b))
    BY <2>2, <1>1, FS_Subset
  <2>5. \A d \in Ids(b) : docs[d] \in Nat \ {0}
    BY <2>2, <1>1
  <2>6. cut[b] \in [Ids(b) -> Nat \ {0}]
    BY <2>1, <2>5
  <2>7. Ids(b) \in (SUBSET Nat) \ {{}}
    BY <2>2, <1>1
  <2>8. IsDocs(cut[b])
    BY <2>3, <2>4, <2>6, <2>7 DEF IsDocs
  <2> QED
    BY <2>1, <2>2, <2>3, <2>8 DEF D
<1>16. DOMAIN cut = 1..n /\ cut = [b \in 1..n |-> cut[b]] /\ Len(cut) = n
  <2>1. DOMAIN cut = 1..n /\ cut = [b \in 1..n |-> cut[b]]
    BY <1>5
  <2> QED
    BY <2>1, <1>9, ListIs
<1>17. ASSUME NEW a \in 1..n, NEW b \in 1..n, a < b,
              NEW d \in DOMAIN cut[a], NEW e \in DOMAIN cut[b]
       PROVE  d < e
  <2>10. DOMAIN cut[a] = Ids(a) /\ DOMAIN cut[b] = Ids(b)
    BY <1>15
  <2>11. d \in Ids(a) /\ e \in Ids(b)
    BY <2>10
  <2>1. PICK i \in Numbers(a) : d = ids[i]
    BY <2>11
  <2>2. PICK j \in Numbers(b) : e = ids[j]
    BY <2>11
  <2>3. i \in 1..m /\ i <= a * B /\ j \in 1..m /\ (b - 1) * B < j
    BY <1>12
  <2>4. a * B <= (b - 1) * B /\ a * B \in Nat /\ (b - 1) * B \in Nat
    <3>1. a \in Nat /\ b - 1 \in Nat /\ a <= b - 1
      BY <1>9, <1>17
    <3> QED
      BY <3>1, <1>8, ProductUp
  <2>5. i < j
    BY <2>3, <2>4, <1>3
  <2> QED
    BY <2>1, <2>2, <2>3, <2>5, <1>6
<1>18. ASSUME NEW d \in DOMAIN docs PROVE \E b \in 1..n : d \in DOMAIN cut[b]
  <2>1. PICK i \in 1..m : ids[i] = d
    BY <1>7 DEF D
  <2>2. PICK b \in 1..n : (b - 1) * B < i /\ i <= b * B
    BY <1>10
  <2>3. i \in Numbers(b)
    BY <2>2, <1>13
  <2> QED
    BY <2>1, <2>3, <1>15
<1>19. \E k \in Nat \ {0} : DOMAIN cut = 1..k /\ cut = [b \in 1..k |-> cut[b]] /\ Len(cut) = k
  BY <1>9, <1>16
<1> HIDE DEF Ids
<1>20. \A b \in DOMAIN cut : /\ IsDocs(cut[b]) /\ DOMAIN cut[b] \subseteq DOMAIN docs
                             /\ \A d \in DOMAIN cut[b] : cut[b][d] = docs[d]
  BY <1>15, <1>16
<1>21. \A a, b \in DOMAIN cut : a < b => \A d \in DOMAIN cut[a], e \in DOMAIN cut[b] : d < e
  BY <1>16, <1>17
<1>22. \A d \in DOMAIN docs : \E b \in DOMAIN cut : d \in DOMAIN cut[b]
  BY <1>16, <1>18
<1>23. IsCut(cut, docs)
  BY <1>19, <1>20, <1>21, <1>22 DEF IsCut
<1> QED
  BY <1>23 DEF cut

-----------------------------------------------------------------------------
(* The definition of a word, and what a search makes of it. *)

LEMMA MaxOfTwo ==
  ASSUME NEW a \in Nat, NEW b \in Nat, NEW c \in Nat, a <= c, b <= c
  PROVE  Max({a, b}) \in Nat /\ Max({a, b}) <= c
<1>1. CASE a >= b
  <2>1. \A y \in {a, b} : a >= y
    BY <1>1
  <2>2. Max({a, b}) \in {a, b}
    BY <2>1, MaxIs
  <2> QED
    BY <2>2
<1>2. CASE ~(a >= b)
  <2>1. \A y \in {a, b} : b >= y
    BY <1>2
  <2>2. Max({a, b}) \in {a, b}
    BY <2>1, MaxIs
  <2> QED
    BY <2>2
<1> QED
  BY <1>1, <1>2

\* The largest of some numbers given by a function.
LEMMA BoundIs ==
  ASSUME NEW f, IsFiniteSet(DOMAIN f), DOMAIN f # {}, f \in [DOMAIN f -> Nat],
         NEW T, T = {f[x] : x \in DOMAIN f}
  PROVE  Max(T) \in Nat /\ \A x \in DOMAIN f : f[x] <= Max(T)
<1>1. IsFiniteSet(T) /\ T \in SUBSET Nat /\ T # {} /\ \A x \in DOMAIN f : f[x] \in T
  <2>1. IsFiniteSet(T)
    BY ImageFinite
  <2>2. T \in SUBSET Nat /\ \A x \in DOMAIN f : f[x] \in T
    OBVIOUS
  <2> QED
    BY <2>1, <2>2
<1>2. Max(T) \in T /\ \A y \in T : Max(T) >= y
  BY <1>1, ExtremesAre
<1>3. Max(T) \in Nat
  BY <1>1, <1>2
<1>4. \A x \in DOMAIN f : f[x] <= Max(T)
  <2> TAKE x \in DOMAIN f
  <2>1. f[x] \in Nat /\ Max(T) >= f[x]
    BY <1>1, <1>2
  <2>2. \A a, b \in Nat : a >= b => b <= a
    OBVIOUS
  <2> QED
    BY <2>1, <2>2, <1>3
<1> QED
  BY <1>3, <1>4

\* What the directory of a word and its blocks hold.
Defines(def, docs, lengths) ==
  IF def.blocks = <<>> THEN def.inline = docs
  ELSE /\ IsCut([b \in DOMAIN def.blocks |-> def.blocks[b].docs], docs)
       /\ \A b \in DOMAIN def.blocks : Describes(def.blocks[b], def.blocks[b].docs, lengths)

LEMMA DescribedWithout ==
  ASSUME NEW docs, NEW lengths, NEW block, NEW f, NEW l, NEW m, NEW s, NEW i,
         block = [docs |-> docs, first |-> f, last |-> l, maxFrequency |-> m, minLength |-> s,
                  impacts |-> i],
         Describes(block, docs, lengths)
  PROVE  Describes([block EXCEPT !.impacts = <<>>], docs, lengths)
<1> DEFINE new == [block EXCEPT !.impacts = <<>>]
<1>1. /\ new.docs = block.docs /\ new.first = block.first /\ new.last = block.last
      /\ new.maxFrequency = block.maxFrequency /\ new.minLength = block.minLength
      /\ new.impacts = <<>>
  OBVIOUS
<1> HIDE DEF new
<1>2. Describes(new, docs, lengths)
  BY <1>1 DEF Describes
<1> QED
  BY <1>2 DEF new

LEMMA WrittenDefines ==
  ASSUME NEW term, DOMAIN term = {1}, IsDocs(term[1].docs),
         NEW lengths, lengths \in [DOMAIN lengths -> Nat]
  PROVE  Defines(WriteTermDef(term, lengths)[1], term[1].docs, lengths)
<1> DEFINE docs == term[1].docs
           long == Cardinality(DOMAIN docs) > BlockSize
           cut == Blocks(docs)
           described == [b \in DOMAIN cut |-> DescribeBlock(cut[b], lengths)]
           same == SameImpacts(described)
           def == WriteTermDef(term, lengths)[1]
<1>1. def = [cg |-> term[1].cg, frequency |-> SumOf(docs), inline |-> IF long THEN NoDocs ELSE docs,
             blocks |-> IF ~long THEN <<>> ELSE same]
  <2>1. 1 \in DOMAIN term
    OBVIOUS
  <2> HIDE DEF same
  <2> QED
    BY <2>1 DEF WriteTermDef, same
<1>2. CASE ~long
  <2>1. def.blocks = <<>> /\ def.inline = docs
    BY <1>1, <1>2
  <2> QED
    BY <2>1 DEF Defines
<1>3. CASE long
  <2>1. def.blocks = same
    BY <1>1, <1>3
  <2>2. IsCut(cut, docs)
    BY BlocksAre
  <2> HIDE DEF cut, def, docs
  <2>3. PICK n \in Nat \ {0} : DOMAIN cut = 1..n /\ cut = [b \in 1..n |-> cut[b]]
    BY <2>2 DEF IsCut
  <2>4. /\ DOMAIN described = 1..n
        /\ \A b \in 1..n : /\ described[b] = DescribeBlock(cut[b], lengths)
                           /\ Describes(described[b], cut[b], lengths)
    <3>1. \A b \in 1..n : IsDocs(cut[b])
      BY <2>2, <2>3 DEF IsCut
    <3>2. \A b \in 1..n : Describes(DescribeBlock(cut[b], lengths), cut[b], lengths)
      BY <3>1, BlockDescribed
    <3> QED
      BY <2>3, <3>2
  <2>5. \A b \in 1..n : Describes([described[b] EXCEPT !.impacts = <<>>], cut[b], lengths)
    <3> TAKE b \in 1..n
    <3>1. \E f, l, m, s, i : described[b] = [docs |-> cut[b], first |-> f, last |-> l,
                               maxFrequency |-> m, minLength |-> s, impacts |-> i]
      BY <2>4 DEF DescribeBlock
    <3>2. Describes(described[b], cut[b], lengths)
      BY <2>4
    <3> HIDE DEF described
    <3> QED
      BY <3>1, <3>2, DescribedWithout
  <2> HIDE DEF described
  <2>6. DOMAIN same = 1..n /\ \A b \in 1..n : Describes(same[b], cut[b], lengths)
    <3>1. CASE \A b \in DOMAIN described : described[b].impacts # <<>>
      BY <3>1, <2>4 DEF SameImpacts
    <3>2. CASE ~ \A b \in DOMAIN described : described[b].impacts # <<>>
      <4>1. same = [b \in DOMAIN described |-> [described[b] EXCEPT !.impacts = <<>>]]
        BY <3>2 DEF SameImpacts
      <4>2. DOMAIN same = 1..n /\ \A b \in 1..n : same[b] = [described[b] EXCEPT !.impacts = <<>>]
        BY <4>1, <2>4
      <4> HIDE DEF same
      <4> QED
        BY <4>2, <2>5
    <3> QED
      BY <3>1, <3>2
  <2> HIDE DEF same
  <2>7. \A b \in 1..n : same[b].docs = cut[b]
    BY <2>6 DEF Describes
  <2>8. [b \in DOMAIN same |-> same[b].docs] = cut
    BY <2>3, <2>6, <2>7
  <2>9. \A b \in DOMAIN same : Describes(same[b], same[b].docs, lengths)
    BY <2>6, <2>7
  <2>10. Defines(def, docs, lengths)
    <3>1. same # <<>>
      <4>1. 1 \in DOMAIN same
        BY <2>6
      <4> QED
        BY <4>1
    <3> QED
      BY <2>1, <2>2, <2>8, <2>9, <3>1 DEF Defines
  <2> QED
    BY <2>10 DEF def, docs
<1> QED
  BY <1>2, <1>3

\* A part's lengths are numbers, of numbers.
IsPart(part) ==
  /\ IsFiniteSet(DOMAIN part.lengths) /\ DOMAIN part.lengths \subseteq Nat
  /\ part.lengths \in [DOMAIN part.lengths -> Nat]

\* What a search knows of a word: its documents, cut into blocks, and of each block
\* a bound for what its documents get.
InformsOf(block, info, docs, part) ==
  /\ block.first \in DOMAIN block.docs /\ block.last \in DOMAIN block.docs
  /\ \A d \in DOMAIN block.docs : block.first <= d /\ d <= block.last
  /\ block.bound \in Nat
  /\ \A d \in DOMAIN block.docs \cap DOMAIN part.lengths :
       info.times * Contribution(info.idf, docs[d], part.lengths[d]) <= block.bound

Informs(info, docs, part) ==
  /\ info.times \in Nat /\ info.idf \in Nat
  /\ IsCut([b \in DOMAIN info.blocks |-> info.blocks[b].docs], docs)
  /\ info.blocks = [b \in DOMAIN info.blocks |-> info.blocks[b]]
  /\ \A b \in DOMAIN info.blocks : InformsOf(info.blocks[b], info, docs, part)

\* The shortest of the documents.
Shortest(part) == IF part.lengths = NoDocs THEN 0 ELSE Min(Range(part.lengths))

LEMMA ShortestIs ==
  ASSUME NEW part, IsPart(part)
  PROVE  Shortest(part) \in Nat /\ \A d \in DOMAIN part.lengths : Shortest(part) <= part.lengths[d]
<1> DEFINE f == part.lengths
<1>1. IsFiniteSet(DOMAIN f) /\ f \in [DOMAIN f -> Nat]
  BY DEF IsPart
<1>2. CASE DOMAIN f = {}
  <2>1. f = NoDocs
    BY <1>1, <1>2 DEF NoDocs
  <2> QED
    BY <1>2, <2>1 DEF Shortest
<1>3. CASE DOMAIN f # {}
  <2>1. f # NoDocs
    BY <1>3 DEF NoDocs
  <2>2. Range(f) = {f[x] : x \in DOMAIN f}
    BY DEF Range
  <2>3. Shortest(part) = Min(Range(f))
    BY <2>1 DEF Shortest
  <2> HIDE DEF f
  <2>4. IsFiniteSet(Range(f)) /\ Range(f) \in SUBSET Nat /\ \A x \in DOMAIN f : f[x] \in Range(f)
    <3>1. IsFiniteSet(Range(f))
      BY <1>1, <2>2, ImageFinite
    <3> QED
      BY <3>1, <2>2, <1>1
  <2>5. Range(f) # {}
    BY <1>3, <2>4
  <2>6. Min(Range(f)) \in Range(f) /\ \A y \in Range(f) : Min(Range(f)) <= y
    BY <2>4, <2>5, ExtremesAre
  <2>7. Shortest(part) \in Nat /\ \A d \in DOMAIN f : Shortest(part) <= f[d]
    BY <2>3, <2>4, <2>6
  <2> QED
    BY <2>7 DEF f
<1> QED
  BY <1>2, <1>3


\* A short list: its postings are looked at.
LEMMA InlineInforms ==
  ASSUME NEW part, IsPart(part), NEW query, NEW word, NEW idf \in Nat,
         NEW docs, IsDocs(docs), NEW def, def.blocks = <<>>, def.inline = docs,
         Times(query, word) \in Nat,
         NEW info, info = TermInfo(part, query, word, idf, def)
  PROVE  Informs(info, docs, part)
<1> DEFINE D == DOMAIN docs
           times == Times(query, word)
           g == [d \in D |-> IF d \in DOMAIN part.lengths
                             THEN Contribution(idf, docs[d], part.lengths[d]) ELSE 0]
           G == {g[x] : x \in DOMAIN g}
           block == [docs |-> docs, first |-> Min(D), last |-> Max(D), bound |-> times * Max(G)]
<1>1. {IF d \in DOMAIN part.lengths THEN Contribution(idf, docs[d], part.lengths[d]) ELSE 0 : d \in D} = G
  OBVIOUS
<1>2. info.times = times /\ info.idf = idf /\ info.blocks = <<block>>
  <2>1. info.times = times /\ info.idf = idf
    BY DEF TermInfo
  <2>2. info.blocks = <<[docs |-> docs, first |-> Min(D), last |-> Max(D),
          bound |-> times * Max({IF d \in DOMAIN part.lengths
                     THEN Contribution(idf, docs[d], part.lengths[d]) ELSE 0 : d \in D})]>>
    BY DEF TermInfo
  <2> HIDE DEF G
  <2> QED
    BY <2>1, <2>2, <1>1
<1>3. D \in SUBSET Nat /\ IsFiniteSet(D) /\ D # {} /\ docs \in [D -> Nat \ {0}]
  BY DEF IsDocs
<1>4. DOMAIN g = D /\ g \in [D -> Nat]
  <2>1. \A d \in D : g[d] \in Nat
    <3> TAKE d \in D
    <3>1. CASE d \in DOMAIN part.lengths
      <4>1. part.lengths[d] \in Nat /\ docs[d] \in Nat \ {0}
        BY <1>3, <3>1 DEF IsPart
      <4>2. Contribution(idf, docs[d], part.lengths[d]) \in Nat
        BY <4>1, GivesSome
      <4> QED
        BY <3>1, <4>2
    <3>2. CASE d \notin DOMAIN part.lengths
      BY <3>2
    <3> QED
      BY <3>1, <3>2
  <2> QED
    BY <2>1
<1>5. \A d \in D : d \in DOMAIN part.lengths => g[d] = Contribution(idf, docs[d], part.lengths[d])
  OBVIOUS
<1> HIDE DEF g
<1>6. Max(G) \in Nat /\ \A x \in D : g[x] <= Max(G)
  BY <1>3, <1>4, BoundIs
<1> HIDE DEF G
<1>7. times * Max(G) \in Nat /\ \A x \in D : times * g[x] <= times * Max(G)
  <2>1. times * Max(G) \in Nat
    BY <1>6
  <2>2. \A x \in D : g[x] \in Nat /\ g[x] <= Max(G)
    BY <1>4, <1>6
  <2> HIDE DEF times
  <2>3. times \in Nat
    BY DEF times
  <2> QED
    BY <2>1, <2>2, <2>3, <1>6, ProductUp
<1>8. Min(D) \in D /\ Max(D) \in D /\ \A d \in D : Min(D) <= d /\ d <= Max(D)
  <2>1. Min(D) \in D /\ (\A y \in D : Min(D) <= y) /\ Max(D) \in D /\ \A y \in D : Max(D) >= y
    BY <1>3, ExtremesAre
  <2>2. \A d \in D : d \in Nat /\ Max(D) \in Nat /\ Max(D) >= d
    BY <2>1, <1>3
  <2>3. \A d \in D : d <= Max(D)
    BY <2>2
  <2> QED
    BY <2>1, <2>3
<1>9. InformsOf(block, info, docs, part)
  <2>1. /\ block.docs = docs /\ block.first = Min(D) /\ block.last = Max(D)
        /\ block.bound = times * Max(G)
    OBVIOUS
  <2>2. \A d \in D \cap DOMAIN part.lengths :
          info.times * Contribution(info.idf, docs[d], part.lengths[d]) <= times * Max(G)
    BY <1>2, <1>5, <1>7
  <2> HIDE DEF block, times
  <2> QED
    BY <2>1, <2>2, <1>7, <1>8 DEF InformsOf
<1>10. block.docs = docs
  OBVIOUS
<1> HIDE DEF block
<1>11. /\ DOMAIN info.blocks = {1} /\ info.blocks[1] = block
       /\ info.blocks = [b \in DOMAIN info.blocks |-> info.blocks[b]]
       /\ [b \in DOMAIN info.blocks |-> info.blocks[b].docs] = <<docs>>
  BY <1>2, <1>10
<1>12. IsCut(<<docs>>, docs)
  <2> DEFINE cut == <<docs>>
  <2>1. DOMAIN cut = {1} /\ 1..1 = {1} /\ cut = [b \in 1..1 |-> cut[b]] /\ Len(cut) = 1 /\ cut[1] = docs
    OBVIOUS
  <2>2. \E n \in Nat \ {0} : DOMAIN cut = 1..n /\ cut = [b \in 1..n |-> cut[b]] /\ Len(cut) = n
    BY <2>1
  <2> HIDE DEF cut
  <2>3. \A b \in DOMAIN cut : cut[b] = docs
    BY <2>1
  <2>4. \A a, b \in DOMAIN cut : ~(a < b)
    BY <2>1
  <2>5. IsCut(cut, docs)
    BY <2>1, <2>2, <2>3, <2>4 DEF IsCut
  <2> QED
    BY <2>5 DEF cut
<1> QED
  BY <1>2, <1>9, <1>11, <1>12 DEF Informs

\* What a frequency and a length get at most, no document being shorter than `shortest`.
Upper(idf, shortest, frequency, length) == Contribution(idf, frequency, Max({length, shortest}))

LEMMA UpperIs ==
  ASSUME NEW idf \in Nat, NEW shortest \in Nat, NEW f \in Nat \ {0}, NEW g \in Nat \ {0}, f <= g,
         NEW l \in Nat, NEW m \in Nat, m <= l, shortest <= l
  PROVE  Contribution(idf, f, l) <= Upper(idf, shortest, g, m)
<1>1. Max({m, shortest}) \in Nat /\ Max({m, shortest}) <= l
  BY MaxOfTwo
<1> QED
  BY <1>1, GivesMore DEF Upper

LEMMA UpperSome ==
  ASSUME NEW idf \in Nat, NEW shortest \in Nat, NEW f \in Nat \ {0}, NEW l \in Nat
  PROVE  Upper(idf, shortest, f, l) \in Nat
<1>1. l + shortest \in Nat /\ l <= l + shortest /\ shortest <= l + shortest
  OBVIOUS
<1>2. Max({l, shortest}) \in Nat
  BY <1>1, MaxOfTwo
<1> QED
  BY <1>2, GivesSome DEF Upper

\* What a document of a block gets at most, by its description.
BlockBound(idf, shortest, block) ==
  IF block.impacts = <<>> THEN Upper(idf, shortest, block.maxFrequency, block.minLength)
  ELSE Max({Upper(idf, shortest, impact[1], impact[2]) : impact \in Range(block.impacts)})

LEMMA BlockBoundIs ==
  ASSUME NEW part, IsPart(part), NEW idf \in Nat, NEW lengths \in {part.lengths, NoDocs},
         NEW shortest, shortest = Shortest(part),
         NEW docs, IsDocs(docs), NEW block, Describes(block, docs, lengths)
  PROVE  /\ BlockBound(idf, shortest, block) \in Nat
         /\ \A d \in DOMAIN docs \cap DOMAIN part.lengths :
              Contribution(idf, docs[d], part.lengths[d]) <= BlockBound(idf, shortest, block)
<1>1. shortest \in Nat /\ \A d \in DOMAIN part.lengths : shortest <= part.lengths[d]
  BY ShortestIs
<1>2. ASSUME NEW d \in DOMAIN docs \cap DOMAIN part.lengths
      PROVE  /\ docs[d] \in Nat \ {0} /\ part.lengths[d] \in Nat
             /\ DocumentLength(lengths, d) \in Nat
             /\ DocumentLength(lengths, d) <= part.lengths[d]
  <2>1. docs[d] \in Nat \ {0} /\ part.lengths[d] \in Nat
    BY DEF IsDocs, IsPart
  <2>2. DocumentLength(lengths, d) = part.lengths[d] \/ DocumentLength(lengths, d) = 0
    BY DEF DocumentLength, NoDocs
  <2> QED
    BY <2>1, <2>2
<1>3. CASE block.impacts = <<>>
  <2>1. BlockBound(idf, shortest, block) = Upper(idf, shortest, block.maxFrequency, block.minLength)
    BY <1>3 DEF BlockBound
  <2>2. block.maxFrequency \in Nat \ {0} /\ block.minLength \in Nat
    BY DEF Describes
  <2>3. Upper(idf, shortest, block.maxFrequency, block.minLength) \in Nat
    BY <1>1, <2>2, UpperSome
  <2>4. ASSUME NEW d \in DOMAIN docs \cap DOMAIN part.lengths
        PROVE  Contribution(idf, docs[d], part.lengths[d])
                 <= Upper(idf, shortest, block.maxFrequency, block.minLength)
    <3>1. docs[d] <= block.maxFrequency /\ block.minLength <= DocumentLength(lengths, d)
      BY DEF Describes
    <3>2. block.minLength <= part.lengths[d] /\ shortest <= part.lengths[d]
      BY <3>1, <2>2, <1>1, <1>2
    <3> QED
      BY <3>1, <3>2, <2>2, <1>1, <1>2, UpperIs
  <2> QED
    BY <2>1, <2>3, <2>4
<1>4. CASE block.impacts # <<>>
  <2> DEFINE I == Range(block.impacts)
             f == [i \in I |-> Upper(idf, shortest, i[1], i[2])]
             T == {f[x] : x \in DOMAIN f}
  <2>1. IsFiniteSet(I) /\ I \in SUBSET ((Nat \ {0}) \X Nat) /\ I # {}
    BY <1>4 DEF Describes
  <2>2. \A d \in DOMAIN docs : \E i \in I : Beats(i, <<docs[d], DocumentLength(lengths, d)>>)
    BY <1>4 DEF Describes
  <2> HIDE DEF I
  <2>3. \A i \in I : i[1] \in Nat \ {0} /\ i[2] \in Nat
    BY <2>1
  <2>4. \A i \in I : Upper(idf, shortest, i[1], i[2]) \in Nat
    BY <1>1, <2>3, UpperSome
  <2>5. DOMAIN f = I /\ f \in [I -> Nat]
    BY <2>4
  <2>6. {Upper(idf, shortest, i[1], i[2]) : i \in I} = T
    OBVIOUS
  <2>7. BlockBound(idf, shortest, block) = Max(T)
    BY <1>4, <2>6 DEF BlockBound, I
  <2>8. \A i \in I : f[i] = Upper(idf, shortest, i[1], i[2])
    OBVIOUS
  <2> HIDE DEF f
  <2>9. Max(T) \in Nat /\ \A x \in I : f[x] <= Max(T)
    BY <2>1, <2>5, BoundIs
  <2> HIDE DEF T
  <2>10. ASSUME NEW d \in DOMAIN docs \cap DOMAIN part.lengths
         PROVE  Contribution(idf, docs[d], part.lengths[d]) <= Max(T)
    <3>1. PICK i \in I : Beats(i, <<docs[d], DocumentLength(lengths, d)>>)
      BY <2>2
    <3>2. docs[d] <= i[1] /\ i[2] <= DocumentLength(lengths, d)
      <4>1. <<docs[d], DocumentLength(lengths, d)>>[1] = docs[d]
            /\ <<docs[d], DocumentLength(lengths, d)>>[2] = DocumentLength(lengths, d)
        OBVIOUS
      <4>2. i[1] >= docs[d] /\ i[2] <= DocumentLength(lengths, d)
        BY <3>1, <4>1 DEF Beats
      <4> QED
        BY <4>2, <2>3, <1>2
    <3>3. i[2] <= part.lengths[d] /\ shortest <= part.lengths[d]
      BY <3>2, <2>3, <1>1, <1>2
    <3>4. Contribution(idf, docs[d], part.lengths[d]) <= f[i]
      <4>1. i[1] \in Nat \ {0} /\ i[2] \in Nat /\ docs[d] \in Nat \ {0} /\ part.lengths[d] \in Nat
        BY <2>3, <1>2
      <4>2. Contribution(idf, docs[d], part.lengths[d]) <= Upper(idf, shortest, i[1], i[2])
        BY <4>1, <3>2, <3>3, <1>1, UpperIs
      <4> QED
        BY <4>2, <2>8
    <3>5. Contribution(idf, docs[d], part.lengths[d]) \in Nat
      BY <1>2, GivesSome
    <3>6. f[i] \in Nat /\ f[i] <= Max(T)
      BY <2>5, <2>9
    <3> QED
      BY <3>4, <3>5, <3>6, <2>9
  <2> QED
    BY <2>7, <2>9, <2>10
<1> QED
  BY <1>3, <1>4

\* A long list: the descriptions of its blocks bound what their documents get.
LEMMA BlocksInform ==
  ASSUME NEW part, IsPart(part), NEW query, NEW word, NEW idf \in Nat,
         NEW lengths \in {part.lengths, NoDocs},
         NEW docs, IsDocs(docs), NEW def, def.blocks # <<>>, Defines(def, docs, lengths),
         Times(query, word) \in Nat,
         NEW info, info = TermInfo(part, query, word, idf, def)
  PROVE  Informs(info, docs, part)
<1> DEFINE times == Times(query, word)
           shortest == Shortest(part)
           blocks == def.blocks
           Made(b) == [docs |-> blocks[b].docs, first |-> blocks[b].first, last |-> blocks[b].last,
                       bound |-> times * BlockBound(idf, shortest, blocks[b])]
           cut == [b \in DOMAIN blocks |-> blocks[b].docs]
<1>1. info.times = times /\ info.idf = idf /\ info.blocks = [b \in DOMAIN blocks |-> Made(b)]
  <2>1. info.times = times /\ info.idf = idf
    BY DEF TermInfo
  <2>2. info.blocks = [b \in DOMAIN blocks |-> Made(b)]
    BY DEF TermInfo, Shortest, BlockBound, Upper
  <2> QED
    BY <2>1, <2>2
<1>2. IsCut(cut, docs) /\ \A b \in DOMAIN blocks : Describes(blocks[b], blocks[b].docs, lengths)
  BY DEF Defines
<1> HIDE DEF blocks
<1>3. \A b \in DOMAIN blocks : IsDocs(blocks[b].docs) /\ \A d \in DOMAIN blocks[b].docs : blocks[b].docs[d] = docs[d]
  <2>1. \A b \in DOMAIN cut : IsDocs(cut[b]) /\ \A d \in DOMAIN cut[b] : cut[b][d] = docs[d]
    BY <1>2 DEF IsCut
  <2>2. DOMAIN cut = DOMAIN blocks /\ \A b \in DOMAIN blocks : cut[b] = blocks[b].docs
    OBVIOUS
  <2> HIDE DEF cut
  <2> QED
    BY <2>1, <2>2
<1>4. ASSUME NEW b \in DOMAIN blocks PROVE InformsOf(Made(b), info, docs, part)
  <2> DEFINE made == Made(b)
             most == BlockBound(idf, shortest, blocks[b])
             own == blocks[b].docs
  <2>1. /\ made.docs = own /\ made.first = blocks[b].first /\ made.last = blocks[b].last
        /\ made.bound = times * most
    OBVIOUS
  <2>2. Describes(blocks[b], own, lengths)
    BY <1>2
  <2>3. /\ most \in Nat
        /\ \A d \in DOMAIN own \cap DOMAIN part.lengths :
             Contribution(idf, own[d], part.lengths[d]) <= most
    BY <2>2, <1>3, BlockBoundIs
  <2>4. /\ blocks[b].first \in DOMAIN own /\ blocks[b].last \in DOMAIN own
        /\ \A d \in DOMAIN own : blocks[b].first <= d /\ d <= blocks[b].last
    BY <2>2 DEF Describes
  <2>5. IsDocs(own) /\ \A d \in DOMAIN own : own[d] = docs[d]
    BY <1>3
  <2> HIDE DEF made, most, own
  <2>6. ASSUME NEW d \in DOMAIN own \cap DOMAIN part.lengths
        PROVE  times * Contribution(idf, docs[d], part.lengths[d]) <= times * most
    <3>1. own[d] \in Nat \ {0} /\ own[d] = docs[d] /\ part.lengths[d] \in Nat
      BY <2>5 DEF IsDocs, IsPart
    <3>2. Contribution(idf, docs[d], part.lengths[d]) \in Nat
      BY <3>1, GivesSome
    <3>3. Contribution(idf, docs[d], part.lengths[d]) <= most
      BY <3>1, <2>3
    <3> HIDE DEF times
    <3>4. times \in Nat
      BY DEF times
    <3> QED
      BY <3>2, <3>3, <3>4, <2>3, ProductUp
  <2>7. times * most \in Nat
    BY <2>3
  <2> HIDE DEF times
  <2>8. InformsOf(made, info, docs, part)
    BY <2>1, <2>4, <2>6, <2>7, <1>1 DEF InformsOf
  <2> QED
    BY <2>8 DEF made
<1>5. \A b \in DOMAIN blocks : Made(b).docs = blocks[b].docs
  OBVIOUS
<1> HIDE DEF Made
<1>6. /\ DOMAIN info.blocks = DOMAIN blocks
      /\ \A b \in DOMAIN blocks : info.blocks[b] = Made(b)
      /\ info.blocks = [b \in DOMAIN info.blocks |-> info.blocks[b]]
  BY <1>1
<1>7. [b \in DOMAIN info.blocks |-> info.blocks[b].docs] = cut
  BY <1>5, <1>6
<1> HIDE DEF cut
<1>8. \A b \in DOMAIN info.blocks : InformsOf(info.blocks[b], info, docs, part)
  BY <1>4, <1>6
<1> QED
  BY <1>1, <1>2, <1>6, <1>7, <1>8 DEF Informs

-----------------------------------------------------------------------------
(* The indexes searched, and what a search knows of its words. *)

LEMMA TotalNat ==
  ASSUME NEW S, IsFiniteSet(S), NEW f \in [S -> Nat]
  PROVE  Total(f) \in Nat
<1>1. \A x \in S : f[x] <= f[x]
  OBVIOUS
<1> QED
  BY <1>1, SumBound

LEMMA ListDomain ==
  ASSUME NEW s, s \in Seq(Range(s))
  PROVE  Len(s) \in Nat /\ DOMAIN s = 1..Len(s) /\ IsFiniteSet(DOMAIN s)
<1>1. Len(s) \in Nat /\ DOMAIN s = 1..Len(s)
  OBVIOUS
<1>2. IsFiniteSet(1..Len(s))
  <2>1. Len(s) \in Nat
    BY <1>1
  <2> QED
    BY <2>1, FS_Interval
<1> QED
  BY <1>1, <1>2

LEMMA TermIs ==
  ASSUME NEW term, IsTerm(term)
  PROVE  /\ Len(term) \in Nat /\ DOMAIN term = 1..Len(term) /\ IsFiniteSet(DOMAIN term)
         /\ \A c \in DOMAIN term : IsDocs(term[c].docs)
         /\ term = <<>> <=> DOMAIN term = {}
<1>1. term \in Seq(Range(term))
  BY DEF IsTerm
<1>2. Len(term) \in Nat /\ DOMAIN term = 1..Len(term) /\ IsFiniteSet(DOMAIN term)
  BY <1>1, ListDomain
<1>3. \A c \in DOMAIN term : IsDocs(term[c].docs)
  BY DEF IsTerm, IsDocs
<1>4. term = <<>> <=> DOMAIN term = {}
  <2>1. term = <<>> <=> Len(term) = 0
    BY <1>1, EmptySeq
  <2>2. 1..Len(term) = {} <=> Len(term) = 0
    BY <1>2
  <2> QED
    BY <2>1, <2>2, <1>2
<1> QED
  BY <1>2, <1>3, <1>4

\* What the assumptions on scenes say of the one searched.
LEMMA SceneIs ==
  ASSUME scene \in Scenes
  PROVE  /\ scene.topK \in Int /\ DOMAIN scene.parts = 1..PartsNb /\ IsFiniteSet(1..PartsNb)
         /\ PartsNb \in Nat \ {0}
         /\ \A p \in 1..PartsNb : IsPart(scene.parts[p])
         /\ \A c \in Calls :
              /\ Len(scene.query[c]) \in Nat
              /\ DOMAIN scene.query[c] = 1..Len(scene.query[c])
              /\ IsFiniteSet(DOMAIN scene.query[c])
              /\ scene.query[c] \in Seq(Range(scene.query[c]))
              /\ \A p \in 1..PartsNb : \A n \in DOMAIN scene.query[c] :
                   IsTerm(scene.parts[p].terms[scene.query[c][n]])
<1>1. scene.topK \in Int /\ scene.parts \in Seq(Range(scene.parts))
  BY IndexesAssumption
<1>2. PartsNb \in Nat /\ DOMAIN scene.parts = 1..PartsNb /\ IsFiniteSet(1..PartsNb)
  <2>1. Len(scene.parts) \in Nat /\ DOMAIN scene.parts = 1..Len(scene.parts) /\ IsFiniteSet(DOMAIN scene.parts)
    BY <1>1, ListDomain
  <2> QED
    BY <2>1 DEF PartsNb
<1>3. PartsNb # 0
  <2>1. PartsNb \in 1..MaxParts
    BY NumbersOf
  <2> QED
    BY <2>1
<1>4. ASSUME NEW p \in 1..PartsNb PROVE IsPart(scene.parts[p])
  <2>1. IsFiniteSet(DOMAIN scene.parts[p].lengths)
    BY <1>4, ScenesAssumption DEF PartsNb
  <2>2. /\ DOMAIN scene.parts[p].lengths \subseteq Nat
        /\ scene.parts[p].lengths \in [DOMAIN scene.parts[p].lengths -> Nat]
    BY <1>4, IndexesAssumption DEF PartsNb
  <2> QED
    BY <2>1, <2>2 DEF IsPart
<1>5. ASSUME NEW c \in Calls
      PROVE  /\ Len(scene.query[c]) \in Nat
             /\ DOMAIN scene.query[c] = 1..Len(scene.query[c])
             /\ IsFiniteSet(DOMAIN scene.query[c])
             /\ scene.query[c] \in Seq(Range(scene.query[c]))
             /\ \A p \in 1..PartsNb : \A n \in DOMAIN scene.query[c] :
                   IsTerm(scene.parts[p].terms[scene.query[c][n]])
  <2>1. scene.query[c] \in Seq(Range(scene.query[c]))
    BY IndexesAssumption
  <2>2. \A p \in 1..PartsNb : \A n \in DOMAIN scene.query[c] :
          IsTerm(scene.parts[p].terms[scene.query[c][n]])
    BY IndexesAssumption DEF PartsNb
  <2> QED
    BY <2>1, <2>2, ListDomain
<1> QED
  BY <1>1, <1>2, <1>3, <1>4, <1>5

LEMMA LeftFinite ==
  ASSUME NEW S, IsFiniteSet(S), NEW T
  PROVE  IsFiniteSet(S \ T) /\ Cardinality(S \ T) \in Nat
<1>1. S \ T \in SUBSET S
  OBVIOUS
<1>2. IsFiniteSet(S \ T)
  BY <1>1, FS_Subset
<1> QED
  BY <1>2, FS_CardinalityType

LEMMA IdfIs ==
  ASSUME scene \in Scenes, NEW word,
         \A p \in 1..PartsNb : IsTerm(scene.parts[p].terms[word])
  PROVE  Idf(word) \in Nat
<1>1. DOMAIN scene.parts = 1..PartsNb /\ IsFiniteSet(1..PartsNb)
  BY SceneIs
<1>2. DocsNb \in Nat
  <2> DEFINE f == [p \in 1..PartsNb |->
                     Cardinality(DOMAIN scene.parts[p].lengths \ scene.parts[p].deleted)]
  <2>1. \A p \in 1..PartsNb : f[p] \in Nat
    <3> TAKE p \in 1..PartsNb
    <3>1. IsFiniteSet(DOMAIN scene.parts[p].lengths)
      BY SceneIs DEF IsPart
    <3>2. Cardinality(DOMAIN scene.parts[p].lengths \ scene.parts[p].deleted) \in Nat
      BY <3>1, LeftFinite
    <3> QED
      BY <3>2
  <2>2. f \in [1..PartsNb -> Nat]
    BY <2>1
  <2>3. DocsNb = Total(f)
    BY <1>1 DEF DocsNb
  <2> HIDE DEF f
  <2> QED
    BY <2>2, <2>3, <1>1, TotalNat
<1>3. DocumentFrequency(word) \in Nat
  <2> DEFINE Of(p) == [c \in DOMAIN scene.parts[p].terms[word] |->
                         Cardinality(DOMAIN scene.parts[p].terms[word][c].docs \ scene.parts[p].deleted)]
             f == [p \in 1..PartsNb |-> Total(Of(p))]
  <2>1. \A p \in 1..PartsNb : Total(Of(p)) \in Nat
    <3> TAKE p \in 1..PartsNb
    <3> DEFINE term == scene.parts[p].terms[word]
    <3>1. IsFiniteSet(DOMAIN term) /\ \A c \in DOMAIN term : IsDocs(term[c].docs)
      <4>1. IsTerm(term)
        OBVIOUS
      <4> HIDE DEF term
      <4> QED
        BY <4>1, TermIs
    <3>2. \A c \in DOMAIN term : Cardinality(DOMAIN term[c].docs \ scene.parts[p].deleted) \in Nat
      <4> TAKE c \in DOMAIN term
      <4>1. IsFiniteSet(DOMAIN term[c].docs)
        BY <3>1 DEF IsDocs
      <4> QED
        BY <4>1, LeftFinite
    <3>3. Of(p) \in [DOMAIN term -> Nat]
      BY <3>2
    <3> HIDE DEF term, Of
    <3> QED
      BY <3>1, <3>3, TotalNat
  <2>2. DocumentFrequency(word) = Total(f)
    BY <1>1 DEF DocumentFrequency
  <2> HIDE DEF Of
  <2>3. f \in [1..PartsNb -> Nat]
    BY <2>1
  <2> HIDE DEF f
  <2> QED
    BY <2>2, <2>3, <1>1, TotalNat
<1> QED
  BY <1>2, <1>3 DEF Idf

\* The documents of a word in a part, and what a part knows of the words of a query.
List(part, info) == part.terms[info.word][1].docs

InfoOf(info, part, query) ==
  /\ \E n \in DOMAIN query : query[n] = info.word
  /\ info.times = Times(query, info.word) /\ info.idf = Idf(info.word)
  /\ DOMAIN part.terms[info.word] = {1} /\ IsDocs(List(part, info))
  /\ Informs(info, List(part, info), part)

InfosOf(infos, part, query) ==
  /\ \E m \in Nat : DOMAIN infos = 1..m /\ infos = [t \in 1..m |-> infos[t]] /\ Len(infos) = m
  /\ \A t \in DOMAIN infos : InfoOf(infos[t], part, query)
  /\ \A n \in DOMAIN query : part.terms[query[n]] # <<>> =>
       \E t \in DOMAIN infos : infos[t].word = query[n]
  /\ \A s, t \in DOMAIN infos : infos[s].word = infos[t].word => s = t

LEMMA OneIs == 1..1 = {1}
OBVIOUS

LEMMA TimesIs ==
  ASSUME NEW query, IsFiniteSet(DOMAIN query), NEW word
  PROVE  Times(query, word) \in Nat
<1>1. {n \in DOMAIN query : query[n] = word} \in SUBSET DOMAIN query
  OBVIOUS
<1>2. IsFiniteSet({n \in DOMAIN query : query[n] = word})
  BY <1>1, FS_Subset
<1> QED
  BY <1>2, FS_CardinalityType DEF Times

\* The words of a query come first in a place each.
LEMMA PresentIs ==
  ASSUME NEW part, NEW query, NEW len \in Nat, DOMAIN query = 1..len
  PROVE  /\ Present(part, query) \in SUBSET Nat /\ IsFiniteSet(Present(part, query))
         /\ Present(part, query) \subseteq DOMAIN query
         /\ \A n \in Present(part, query) : part.terms[query[n]] # <<>>
         /\ \A n \in DOMAIN query : part.terms[query[n]] # <<>> =>
              \E m \in Present(part, query) : query[m] = query[n]
         /\ \A m, n \in Present(part, query) : query[m] = query[n] => m = n
<1>1. DOMAIN query \in SUBSET Nat /\ IsFiniteSet(DOMAIN query)
  <2>1. IsFiniteSet(1..len)
    BY FS_Interval
  <2> QED
    BY <2>1
<1>2. /\ Present(part, query) \subseteq DOMAIN query
      /\ \A n \in Present(part, query) : part.terms[query[n]] # <<>>
  BY DEF Present
<1>3. IsFiniteSet(Present(part, query))
  BY <1>1, <1>2, FS_Subset
<1>4. ASSUME NEW n \in DOMAIN query, part.terms[query[n]] # <<>>
      PROVE  \E m \in Present(part, query) : query[m] = query[n]
  <2> DEFINE S == {m \in DOMAIN query : query[m] = query[n]}
  <2>1. S \in SUBSET DOMAIN query /\ n \in S
    OBVIOUS
  <2>2. S \in SUBSET Nat /\ IsFiniteSet(S) /\ S # {}
    BY <2>1, <1>1, FS_Subset
  <2>3. Min(S) \in S /\ \A y \in S : Min(S) <= y
    BY <2>2, ExtremesAre
  <2>4. PICK k \in S : \A y \in S : k <= y
    BY <2>3
  <2>5. k \in DOMAIN query /\ query[k] = query[n]
    BY <2>4
  <2>6. ASSUME NEW m \in 1..k - 1, query[m] = query[k] PROVE FALSE
    <3>1. k \in 1..len
      BY <2>5
    <3>2. m \in 1..len /\ m < k
      BY <3>1
    <3>3. m \in S
      BY <3>2, <2>5, <2>6
    <3>4. k <= m
      BY <3>3, <2>4
    <3> QED
      BY <3>1, <3>2, <3>4
  <2>7. k \in Present(part, query)
    BY <2>5, <2>6, <1>4 DEF Present
  <2> QED
    BY <2>5, <2>7
<1>5. ASSUME NEW m \in Present(part, query), NEW n \in Present(part, query), query[m] = query[n]
      PROVE  m = n
  <2>1. m \in Nat /\ n \in Nat /\ m \in 1..len /\ n \in 1..len
    BY <1>2
  <2>2. (\A k \in 1..m - 1 : query[k] # query[m]) /\ (\A k \in 1..n - 1 : query[k] # query[n])
    BY DEF Present
  <2>3. ~(m < n)
    <3> SUFFICES ASSUME m < n PROVE FALSE
      OBVIOUS
    <3>1. m \in 1..n - 1
      BY <2>1
    <3> QED
      BY <3>1, <2>2, <1>5
  <2>4. ~(n < m)
    <3> SUFFICES ASSUME n < m PROVE FALSE
      OBVIOUS
    <3>1. n \in 1..m - 1
      BY <2>1
    <3> QED
      BY <3>1, <2>2, <1>5
  <2> QED
    BY <2>1, <2>3, <2>4
<1> QED
  BY <1>1, <1>2, <1>3, <1>4, <1>5

\* One of the TermInfos of a part.
LEMMA InfoIs ==
  ASSUME scene \in Scenes, NEW c \in Calls, NEW p \in 1..PartsNb, NEW n \in DOMAIN scene.query[c],
         Len(scene.parts[p].terms[scene.query[c][n]]) = 1,
         NEW lengths \in {scene.parts[p].lengths, NoDocs},
         NEW info, info = TermInfo(scene.parts[p], scene.query[c], scene.query[c][n],
                                   Idf(scene.query[c][n]),
                                   WriteTermDef(scene.parts[p].terms[scene.query[c][n]], lengths)[1])
  PROVE  InfoOf(info, scene.parts[p], scene.query[c]) /\ info.word = scene.query[c][n]
<1> DEFINE part == scene.parts[p]
           query == scene.query[c]
           word == query[n]
           term == part.terms[word]
           docs == term[1].docs
           def == WriteTermDef(term, lengths)[1]
           idf == Idf(word)
<1>1. IsPart(part) /\ IsFiniteSet(DOMAIN query) /\ IsTerm(term)
  BY SceneIs
<1>2. DOMAIN term = {1} /\ IsDocs(docs)
  <2>1. DOMAIN term = 1..Len(term) /\ \A k \in DOMAIN term : IsDocs(term[k].docs)
    <3> HIDE DEF term
    <3> QED
      BY <1>1, TermIs
  <2>2. Len(term) = 1
    OBVIOUS
  <2> HIDE DEF term
  <2>3. DOMAIN term = {1}
    BY <2>1, <2>2, OneIs
  <2> QED
    BY <2>1, <2>3
<1>3. idf \in Nat
  <2>1. \A q \in 1..PartsNb : IsTerm(scene.parts[q].terms[word])
    BY SceneIs
  <2> QED
    BY <2>1, IdfIs
<1>4. info.word = word /\ info.times = Times(query, word) /\ info.idf = idf
  BY DEF TermInfo
<1>5. lengths \in [DOMAIN lengths -> Nat]
  <2>1. part.lengths \in [DOMAIN part.lengths -> Nat]
    BY <1>1 DEF IsPart
  <2>2. NoDocs \in [DOMAIN NoDocs -> Nat]
    BY DEF NoDocs
  <2> QED
    BY <2>1, <2>2
<1>6. info = TermInfo(part, query, word, idf, def) /\ lengths \in {part.lengths, NoDocs}
  OBVIOUS
<1>7. query[n] = word /\ n \in DOMAIN query /\ docs = part.terms[word][1].docs /\ term = part.terms[word]
  OBVIOUS
<1> HIDE DEF part, query, word, idf
<1>8. Defines(def, docs, lengths)
  <2> HIDE DEF term
  <2> QED
    BY <1>2, <1>5, WrittenDefines
<1>9. Times(query, word) \in Nat
  BY <1>1, TimesIs
<1> HIDE DEF def, docs, term
<1>10. Informs(info, docs, part)
  <2>1. CASE def.blocks = <<>>
    <3>1. def.inline = docs
      BY <2>1, <1>8 DEF Defines
    <3> QED
      BY <3>1, <2>1, <1>1, <1>2, <1>3, <1>6, <1>9, InlineInforms
  <2>2. CASE def.blocks # <<>>
    BY <2>2, <1>1, <1>2, <1>3, <1>6, <1>8, <1>9, BlocksInform
  <2> QED
    BY <2>1, <2>2
<1>11. List(part, info) = docs
  BY <1>4, <1>7 DEF List
<1>12. InfoOf(info, part, query) /\ info.word = query[n]
  <2>1. \E k \in DOMAIN query : query[k] = info.word
    BY <1>4, <1>7
  <2>2. info.times = Times(query, info.word) /\ info.idf = Idf(info.word)
    BY <1>4 DEF idf
  <2>3. DOMAIN part.terms[info.word] = {1}
    BY <1>2, <1>4, <1>7
  <2> QED
    BY <2>1, <2>2, <2>3, <1>2, <1>4, <1>7, <1>10, <1>11 DEF InfoOf
<1> QED
  BY <1>12 DEF part, query, word

LEMMA InfosAre ==
  ASSUME scene \in Scenes, NEW c \in Calls, NEW p \in 1..PartsNb,
         Prunable(scene.parts[p], scene.query[c])
  PROVE  InfosOf(TermInfos(scene.parts[p], scene.query[c]), scene.parts[p], scene.query[c])
<1> DEFINE part == scene.parts[p]
           query == scene.query[c]
           lengths == IF part.known THEN part.lengths ELSE NoDocs
           S == Present(part, query)
           order == Ordered(S, <)
           Def(n) == WriteTermDef(part.terms[query[n]], lengths)[1]
           Of(n, def, idf) == TermInfo(part, query, query[n], idf, def)
           Made(n, def) == With(Idf(query[n]), LAMBDA idf : Of(n, def, idf))
           Known(n) == With(Def(n), LAMBDA def : Made(n, def))
           All(s) == [i \in DOMAIN s |-> Known(s[i])]
           infos == TermInfos(part, query)
<1>1. infos = With(order, LAMBDA s : All(s))
  BY DEF TermInfos
<1>2. ASSUME NEW n \in DOMAIN query, n \in S
      PROVE  /\ InfoOf(Of(n, Def(n), Idf(query[n])), part, query)
             /\ Of(n, Def(n), Idf(query[n])).word = query[n]
  <2>1. Len(part.terms[query[n]]) = 1
    BY <1>2 DEF Prunable
  <2>2. lengths \in {part.lengths, NoDocs}
    OBVIOUS
  <2> HIDE DEF lengths, S
  <2> QED
    BY <2>1, <2>2, InfoIs
<1>3. \E len \in Nat : DOMAIN query = 1..len
  BY SceneIs
<1>4. DOMAIN query = 1..Len(query) /\ Len(query) \in Nat
  BY SceneIs
<1> HIDE DEF All, infos, order
<1>5. infos = All(order)
  BY <1>1 DEF With
<1> HIDE DEF Made
<1>6. \A n : Known(n) = Made(n, Def(n))
  <2> HIDE DEF Def
  <2> QED
    BY DEF With
<1> HIDE DEF Of, Def, Known
<1>7. \A n, def : Made(n, def) = Of(n, def, Idf(query[n]))
  BY DEF With, Made
<1>8. \A n : Known(n) = Of(n, Def(n), Idf(query[n]))
  BY <1>6, <1>7
<1>9. infos = [i \in DOMAIN order |-> Known(order[i])]
  BY <1>5 DEF All
<1> HIDE DEF query, part
<1>10. /\ S \in SUBSET Nat /\ IsFiniteSet(S) /\ S \subseteq DOMAIN query
       /\ \A n \in DOMAIN query : part.terms[query[n]] # <<>> => \E m \in S : query[m] = query[n]
       /\ \A m, n \in S : query[m] = query[n] => m = n
  BY <1>4, PresentIs
<1> HIDE DEF S
<1> DEFINE k == Cardinality(S)
<1>11. k \in Nat
  BY <1>10, FS_CardinalityType
<1>12. /\ order \in [1..k -> S]
       /\ \A i, j \in 1..k : i < j => order[i] < order[j]
       /\ \A n \in S : \E i \in 1..k : order[i] = n
  <2>1. IsOrdered(order, S, {pair \in S \X S : pair[1] < pair[2]})
    BY <1>10, NumbersOrdered DEF order
  <2>2. \A i, j \in 1..k : i < j => <<order[i], order[j]>> \in {pair \in S \X S : pair[1] < pair[2]}
    BY <2>1 DEF IsOrdered
  <2>3. \A i, j \in 1..k : i < j => order[i] < order[j]
    BY <2>2
  <2> QED
    BY <2>1, <2>3 DEF IsOrdered
<1> HIDE DEF k
<1>13. DOMAIN infos = 1..k /\ infos = [t \in 1..k |-> infos[t]] /\ \A t \in 1..k : infos[t] = Known(order[t])
  BY <1>9, <1>12
<1>14. Len(infos) = k
  BY <1>11, <1>13, ListIs
<1>15. \A t \in 1..k : InfoOf(infos[t], part, query) /\ infos[t].word = query[order[t]]
  <2> TAKE t \in 1..k
  <2>1. order[t] \in S /\ order[t] \in DOMAIN query
    BY <1>10, <1>12
  <2>2. infos[t] = Of(order[t], Def(order[t]), Idf(query[order[t]]))
    BY <1>8, <1>13
  <2> QED
    BY <2>1, <2>2, <1>2
<1>16. \A n \in DOMAIN query : part.terms[query[n]] # <<>> => \E t \in 1..k : infos[t].word = query[n]
  <2> TAKE n \in DOMAIN query
  <2> HAVE part.terms[query[n]] # <<>>
  <2>1. PICK m \in S : query[m] = query[n]
    BY <1>10
  <2>2. PICK t \in 1..k : order[t] = m
    BY <1>12
  <2> QED
    BY <2>1, <2>2, <1>15
<1>17. ASSUME NEW s \in 1..k, NEW t \in 1..k, infos[s].word = infos[t].word PROVE s = t
  <2>1. query[order[s]] = query[order[t]]
    BY <1>15, <1>17
  <2>2. order[s] = order[t] /\ order[s] \in Nat
    BY <2>1, <1>10, <1>12
  <2>3. ~(s < t) /\ ~(t < s)
    BY <2>2, <1>12
  <2> QED
    BY <2>3, <1>11
<1>18. InfosOf(infos, part, query)
  <2>1. \E m \in Nat : DOMAIN infos = 1..m /\ infos = [t \in 1..m |-> infos[t]] /\ Len(infos) = m
    BY <1>11, <1>13, <1>14
  <2>2. \A t \in DOMAIN infos : InfoOf(infos[t], part, query)
    BY <1>13, <1>15
  <2>3. \A n \in DOMAIN query : part.terms[query[n]] # <<>> =>
          \E t \in DOMAIN infos : infos[t].word = query[n]
    BY <1>13, <1>16
  <2>4. \A s, t \in DOMAIN infos : infos[s].word = infos[t].word => s = t
    BY <1>13, <1>17
  <2> QED
    BY <2>1, <2>2, <2>3, <2>4 DEF InfosOf
<1> QED
  BY <1>18 DEF infos, part, query

-----------------------------------------------------------------------------
(* A document's score, word by word of the TermInfos. *)

LEMMA FrequencyIs ==
  ASSUME NEW term, IsTerm(term), NEW d
  PROVE  /\ Frequency(term, d) \in Nat
         /\ term = <<>> => Frequency(term, d) = 0
         /\ DOMAIN term = {1} =>
              Frequency(term, d) = IF d \in DOMAIN term[1].docs THEN term[1].docs[d] ELSE 0
<1> DEFINE with == {c \in DOMAIN term : d \in DOMAIN term[c].docs}
<1>1. /\ Len(term) \in Nat /\ DOMAIN term = 1..Len(term) /\ IsFiniteSet(DOMAIN term)
      /\ \A c \in DOMAIN term : IsDocs(term[c].docs)
      /\ term = <<>> => DOMAIN term = {}
  BY TermIs
<1>2. with \in SUBSET DOMAIN term
  OBVIOUS
<1>3. with \in SUBSET Nat /\ IsFiniteSet(with)
  <2>1. DOMAIN term \in SUBSET Nat
    BY <1>1
  <2> HIDE DEF with
  <2> QED
    BY <2>1, <1>1, <1>2, FS_Subset
<1>4. Frequency(term, d) = IF with = {} THEN 0 ELSE term[Min(with)].docs[d]
  BY DEF Frequency
<1>5. ASSUME with # {} PROVE Min(with) \in with
  <2> HIDE DEF with
  <2> QED
    BY <1>3, <1>5, ExtremesAre
<1>6. ASSUME with # {} PROVE term[Min(with)].docs[d] \in Nat
  <2>1. Min(with) \in DOMAIN term /\ d \in DOMAIN term[Min(with)].docs
    BY <1>5, <1>6
  <2> HIDE DEF with
  <2>2. IsDocs(term[Min(with)].docs)
    BY <2>1, <1>1
  <2> QED
    BY <2>1, <2>2 DEF IsDocs
<1>7. Frequency(term, d) \in Nat
  <2> HIDE DEF with
  <2> QED
    BY <1>4, <1>6
<1>8. term = <<>> => Frequency(term, d) = 0
  <2>1. term = <<>> => with = {}
    BY <1>1
  <2> HIDE DEF with
  <2> QED
    BY <2>1, <1>4
<1>9. ASSUME DOMAIN term = {1}
      PROVE  Frequency(term, d) = IF d \in DOMAIN term[1].docs THEN term[1].docs[d] ELSE 0
  <2>1. CASE d \in DOMAIN term[1].docs
    <3>1. with = {1}
      BY <2>1, <1>9
    <3>2. Min(with) = 1
      BY <3>1, <1>5
    <3> HIDE DEF with
    <3> QED
      BY <3>1, <3>2, <2>1, <1>4
  <2>2. CASE d \notin DOMAIN term[1].docs
    <3>1. with = {}
      BY <2>2, <1>9
    <3> HIDE DEF with
    <3> QED
      BY <3>1, <2>2, <1>4
  <2> QED
    BY <2>1, <2>2
<1> QED
  BY <1>7, <1>8, <1>9

\* What a word of a query gives a document, and what the word of a TermInfo does.
GivenBy(part, word, d) ==
  IF Frequency(part.terms[word], d) = 0 THEN 0
  ELSE Contribution(Idf(word), Frequency(part.terms[word], d), part.lengths[d])

Gain(part, info, d) ==
  IF d \in DOMAIN List(part, info)
  THEN info.times * Contribution(info.idf, List(part, info)[d], part.lengths[d]) ELSE 0

LEMMA GivenNat ==
  ASSUME scene \in Scenes, NEW c \in Calls, NEW p \in 1..PartsNb, NEW n \in DOMAIN scene.query[c],
         NEW d \in DOMAIN scene.parts[p].lengths
  PROVE  /\ GivenBy(scene.parts[p], scene.query[c][n], d) \in Nat
         /\ Idf(scene.query[c][n]) \in Nat
<1> DEFINE part == scene.parts[p]
           word == scene.query[c][n]
<1>1. IsPart(part) /\ IsTerm(part.terms[word])
  BY SceneIs
<1>2. Idf(word) \in Nat
  <2>1. \A q \in 1..PartsNb : IsTerm(scene.parts[q].terms[word])
    BY SceneIs
  <2> QED
    BY <2>1, IdfIs
<1>3. part.lengths[d] \in Nat
  BY <1>1 DEF IsPart
<1> HIDE DEF part, word
<1>4. Frequency(part.terms[word], d) \in Nat
  BY <1>1, FrequencyIs
<1>5. GivenBy(part, word, d) \in Nat
  BY <1>2, <1>3, <1>4, GivesSome DEF GivenBy
<1> QED
  BY <1>2, <1>5 DEF part, word

LEMMA ScoreNat ==
  ASSUME scene \in Scenes, NEW c \in Calls, NEW p \in 1..PartsNb,
         NEW d \in DOMAIN scene.parts[p].lengths
  PROVE  Score(scene.parts[p], scene.query[c], d) \in Nat
<1> DEFINE f == [n \in DOMAIN scene.query[c] |-> GivenBy(scene.parts[p], scene.query[c][n], d)]
<1>1. \A n \in DOMAIN scene.query[c] : GivenBy(scene.parts[p], scene.query[c][n], d) \in Nat
  BY GivenNat
<1>2. f \in [DOMAIN scene.query[c] -> Nat]
  BY <1>1
<1>3. Score(scene.parts[p], scene.query[c], d) = Total(f)
  BY DEF Score, GivenBy
<1>4. IsFiniteSet(DOMAIN scene.query[c])
  BY SceneIs
<1> HIDE DEF f
<1> QED
  BY <1>2, <1>3, <1>4, TotalNat

LEMMA GainNat ==
  ASSUME NEW part, IsPart(part), NEW query, IsFiniteSet(DOMAIN query),
         NEW info, InfoOf(info, part, query), NEW d \in DOMAIN part.lengths
  PROVE  Gain(part, info, d) \in Nat
<1>1. info.times \in Nat /\ info.idf \in Nat /\ IsDocs(List(part, info))
  BY DEF InfoOf, Informs
<1>2. part.lengths[d] \in Nat
  BY DEF IsPart
<1>3. ASSUME d \in DOMAIN List(part, info)
      PROVE  info.times * Contribution(info.idf, List(part, info)[d], part.lengths[d]) \in Nat
  <2>1. List(part, info)[d] \in Nat \ {0}
    BY <1>1, <1>3 DEF IsDocs
  <2>2. Contribution(info.idf, List(part, info)[d], part.lengths[d]) \in Nat
    BY <2>1, <1>1, <1>2, GivesSome
  <2> QED
    BY <2>2, <1>1
<1> QED
  BY <1>3 DEF Gain

\* A document's score is the sum of what the words of the TermInfos give it.
LEMMA ScoreIs ==
  ASSUME scene \in Scenes, NEW c \in Calls, NEW p \in 1..PartsNb, NEW infos,
         InfosOf(infos, scene.parts[p], scene.query[c]),
         NEW d \in DOMAIN scene.parts[p].lengths
  PROVE  /\ \A t \in DOMAIN infos : Gain(scene.parts[p], infos[t], d) \in Nat
         /\ Score(scene.parts[p], scene.query[c], d)
              = Total([t \in DOMAIN infos |-> Gain(scene.parts[p], infos[t], d)])
<1> DEFINE part == scene.parts[p]
           query == scene.query[c]
           N == DOMAIN query
           T == DOMAIN infos
           f == [n \in N |-> GivenBy(part, query[n], d)]
           U == {n \in N : part.terms[query[n]] # <<>>}
           of == [n \in U |-> CHOOSE t \in T : infos[t].word = query[n]]
           v == [t \in T |-> GivenBy(part, infos[t].word, d)]
           g == [t \in T |-> Gain(part, infos[t], d)]
<1>1. IsPart(part) /\ IsFiniteSet(N) /\ \A n \in N : IsTerm(part.terms[query[n]])
  BY SceneIs
<1>2. \A n \in N : GivenBy(part, query[n], d) \in Nat /\ Idf(query[n]) \in Nat
  BY GivenNat
<1>3. Score(part, query, d) = Total(f)
  BY DEF Score, GivenBy
<1>4. InfosOf(infos, part, query) /\ d \in DOMAIN part.lengths
  OBVIOUS
<1> HIDE DEF part, query
<1>5. \E m \in Nat : T = 1..m
  BY <1>4 DEF InfosOf
<1>6. IsFiniteSet(T)
  BY <1>5, FS_Interval
<1>7. \A t \in T : InfoOf(infos[t], part, query)
  BY <1>4 DEF InfosOf
<1>8. \A n \in U : \E t \in T : infos[t].word = query[n]
  BY <1>4 DEF InfosOf
<1>9. \A s, t \in T : infos[s].word = infos[t].word => s = t
  BY <1>4 DEF InfosOf
<1> HIDE DEF N, T
<1>10. f \in [N -> Nat] /\ \A n \in N : f[n] = GivenBy(part, query[n], d)
  BY <1>2
<1>11. \A n \in N \ U : f[n] = 0
  <2> TAKE n \in N \ U
  <2>1. n \in N /\ part.terms[query[n]] = <<>>
    OBVIOUS
  <2> HIDE DEF f, U
  <2>2. Frequency(part.terms[query[n]], d) = 0
    BY <2>1, <1>1, FrequencyIs
  <2> QED
    BY <2>1, <2>2, <1>10 DEF GivenBy
<1>12. U \in SUBSET N
  OBVIOUS
<1>13. of \in [U -> T] /\ \A n \in U : infos[of[n]].word = query[n]
  <2>1. \A n \in U : of[n] = CHOOSE t \in T : infos[t].word = query[n]
    OBVIOUS
  <2>2. \A n \in U : of[n] \in T /\ infos[of[n]].word = query[n]
    <3> HIDE DEF of, U
    <3> QED
      BY <2>1, <1>8
  <2> QED
    BY <2>2
<1>14. ASSUME NEW t \in T
       PROVE  /\ \E n \in N : query[n] = infos[t].word
              /\ infos[t].times = Times(query, infos[t].word) /\ infos[t].idf = Idf(infos[t].word)
              /\ DOMAIN part.terms[infos[t].word] = {1}
              /\ List(part, infos[t]) = part.terms[infos[t].word][1].docs
  BY <1>7 DEF InfoOf, List, N
<1>15. v \in [T -> Nat] /\ \A t \in T : v[t] = GivenBy(part, infos[t].word, d)
  <2>1. \A t \in T : GivenBy(part, infos[t].word, d) \in Nat
    BY <1>2, <1>14
  <2> QED
    BY <2>1
<1>16. ASSUME NEW t \in T PROVE Fiber(U, of, t) = {n \in N : query[n] = infos[t].word}
  <2>1. ASSUME NEW n \in N, query[n] = infos[t].word PROVE n \in U /\ of[n] = t
    <3>1. part.terms[query[n]] # <<>>
      <4>1. DOMAIN part.terms[query[n]] = {1}
        BY <2>1, <1>14
      <4>2. DOMAIN <<>> = {}
        OBVIOUS
      <4> QED
        BY <4>1, <4>2
    <3>2. n \in U
      BY <3>1
    <3> HIDE DEF U, of
    <3> QED
      BY <3>2, <2>1, <1>9, <1>13
  <2>2. \A n \in U : of[n] = t => n \in N /\ query[n] = infos[t].word
    <3> HIDE DEF U, of
    <3> QED
      BY <1>12, <1>13
  <2> HIDE DEF U, of
  <2> QED
    BY <2>1, <2>2 DEF Fiber
<1>17. ASSUME NEW t \in T PROVE Cardinality(Fiber(U, of, t)) * v[t] = g[t] /\ g[t] \in Nat
  <2> DEFINE info == infos[t]
             times == Times(query, info.word)
             docs == List(part, info)
  <2>1. Cardinality(Fiber(U, of, t)) = times
    BY <1>16 DEF Times, N
  <2>2. InfoOf(info, part, query) /\ info.times = times /\ info.idf = Idf(info.word)
    BY <1>7, <1>14
  <2>3. times \in Nat
    BY <1>1, TimesIs DEF N
  <2>4. v[t] = GivenBy(part, info.word, d) /\ g[t] = Gain(part, info, d)
    OBVIOUS
  <2>5. g[t] \in Nat
    BY <2>2, <2>4, <1>1, <1>4, GainNat DEF N
  <2>6. IsTerm(part.terms[info.word])
    BY <1>1, <1>14
  <2>7. Frequency(part.terms[info.word], d) = IF d \in DOMAIN docs THEN docs[d] ELSE 0
    BY <2>6, <1>14, FrequencyIs
  <2>8. d \in DOMAIN docs => docs[d] # 0
    BY <2>2 DEF InfoOf, IsDocs
  <2> HIDE DEF v, g, times, docs, info
  <2>9. times * v[t] = g[t]
    <3>1. CASE d \in DOMAIN docs
      <4>1. v[t] = Contribution(Idf(info.word), docs[d], part.lengths[d])
        BY <3>1, <2>4, <2>7, <2>8 DEF GivenBy
      <4>2. g[t] = info.times * Contribution(info.idf, docs[d], part.lengths[d])
        BY <3>1, <2>4 DEF Gain, docs
      <4> QED
        BY <4>1, <4>2, <2>2
    <3>2. CASE d \notin DOMAIN docs
      <4>1. v[t] = 0
        BY <3>2, <2>4, <2>7 DEF GivenBy
      <4>2. g[t] = 0
        BY <3>2, <2>4 DEF Gain, docs
      <4> QED
        BY <4>1, <4>2, <2>3
    <3> QED
      BY <3>1, <3>2
  <2> QED
    BY <2>1, <2>5, <2>9
<1>18. Total(f) = SumOn(f, U) + SumOn(f, N \ U)
  <2> HIDE DEF f, U
  <2> QED
    BY <1>1, <1>10, <1>12, SumSplit DEF N
<1>19. SumOn(f, N \ U) = 0
  <2> DEFINE h == [x \in N \ U |-> f[x]]
  <2>1. h \in [N \ U -> Nat] /\ \A x \in N \ U : h[x] = 0
    BY <1>10, <1>11
  <2>2. IsFiniteSet(N \ U)
    BY <1>1, LeftFinite DEF N
  <2>3. SumOn(f, N \ U) = Total(h)
    BY DEF SumOn
  <2> HIDE DEF h, U, f
  <2> QED
    BY <2>1, <2>2, <2>3, SumZero
<1>20. SumOn(f, U) = Total([n \in U |-> v[of[n]]])
  <2>1. \A n \in U : f[n] = v[of[n]]
    <3> TAKE n \in U
    <3>1. n \in N /\ of[n] \in T /\ infos[of[n]].word = query[n]
      BY <1>12, <1>13
    <3> HIDE DEF f, v, of, U
    <3> QED
      BY <3>1, <1>10, <1>15
  <2> HIDE DEF f, v, of, U
  <2>2. [n \in U |-> f[n]] = [n \in U |-> v[of[n]]]
    BY <2>1
  <2> QED
    BY <2>2 DEF SumOn
<1>21. Total([n \in U |-> v[of[n]]]) = Total([t \in T |-> Cardinality(Fiber(U, of, t)) * v[t]])
  <2>1. IsFiniteSet(U)
    BY <1>1, <1>12, FS_Subset DEF N
  <2> HIDE DEF v, of, U
  <2> QED
    BY <2>1, <1>6, <1>13, <1>15, SumFibers
<1>22. [t \in T |-> Cardinality(Fiber(U, of, t)) * v[t]] = g
  <2>1. \A t \in T : Cardinality(Fiber(U, of, t)) * v[t] = g[t]
    BY <1>17
  <2>2. g = [t \in T |-> g[t]]
    OBVIOUS
  <2> HIDE DEF v, of, U, g
  <2> QED
    BY <2>1, <2>2
<1>23. \A t \in T : g[t] \in Nat
  BY <1>17
<1>24. Score(part, query, d) = Total(g)
  <2>1. Total(g) \in Nat
    <3>1. g \in [T -> Nat]
      BY <1>23
    <3> HIDE DEF g
    <3> QED
      BY <3>1, <1>6, TotalNat
  <2> HIDE DEF g, f, U, v, of
  <2> QED
    BY <2>1, <1>3, <1>18, <1>19, <1>20, <1>21, <1>22
<1> QED
  BY <1>23, <1>24 DEF part, query, T

-----------------------------------------------------------------------------
(* Windows. *)

\* The block b of a term, the one at a document or after it, holds what comes first
\* from there on.
ComesFirst(info, docs, part, from, b) ==
  /\ b = 0 => \A d \in DOMAIN docs : d < from
  /\ b # 0 => /\ b \in DOMAIN info.blocks
              /\ InformsOf(info.blocks[b], info, docs, part)
              /\ IsDocs(info.blocks[b].docs)
              /\ info.blocks[b].last >= from
              /\ info.blocks[b].first \in Nat /\ info.blocks[b].last \in Nat
              /\ \A d \in DOMAIN info.blocks[b].docs :
                   d \in DOMAIN docs /\ info.blocks[b].docs[d] = docs[d]
              /\ \A d \in DOMAIN docs : d >= from =>
                   /\ info.blocks[b].first <= d
                   /\ d <= info.blocks[b].last => d \in DOMAIN info.blocks[b].docs

LEMMA BlockAtIs ==
  ASSUME NEW part, NEW docs, IsDocs(docs), NEW info, Informs(info, docs, part),
         NEW from \in Nat, NEW b, b = BlockAt(info, from)
  PROVE  ComesFirst(info, docs, part, from, b)
<1> DEFINE blocks == info.blocks
           cut == [x \in DOMAIN blocks |-> blocks[x].docs]
           after == {x \in DOMAIN blocks : blocks[x].last >= from}
<1>1. IsCut(cut, docs) /\ \A x \in DOMAIN blocks : InformsOf(blocks[x], info, docs, part)
  BY DEF Informs
<1>2. b = IF after = {} THEN 0 ELSE Min(after)
  BY DEF BlockAt
<1> HIDE DEF blocks
<1>3. DOMAIN cut = DOMAIN blocks /\ \A x \in DOMAIN blocks : cut[x] = blocks[x].docs
  OBVIOUS
<1> HIDE DEF cut
<1>4. PICK n \in Nat \ {0} : DOMAIN blocks = 1..n
  BY <1>1, <1>3 DEF IsCut
<1>5. /\ \A x \in DOMAIN blocks : /\ IsDocs(blocks[x].docs) /\ DOMAIN blocks[x].docs \subseteq DOMAIN docs
                                  /\ \A d \in DOMAIN blocks[x].docs : blocks[x].docs[d] = docs[d]
      /\ \A x, y \in DOMAIN blocks : x < y =>
           \A d \in DOMAIN blocks[x].docs, e \in DOMAIN blocks[y].docs : d < e
      /\ \A d \in DOMAIN docs : \E x \in DOMAIN blocks : d \in DOMAIN blocks[x].docs
  <2>1. /\ \A x \in DOMAIN cut : /\ IsDocs(cut[x]) /\ DOMAIN cut[x] \subseteq DOMAIN docs
                                 /\ \A d \in DOMAIN cut[x] : cut[x][d] = docs[d]
        /\ \A x, y \in DOMAIN cut : x < y => \A d \in DOMAIN cut[x], e \in DOMAIN cut[y] : d < e
        /\ \A d \in DOMAIN docs : \E x \in DOMAIN cut : d \in DOMAIN cut[x]
    BY <1>1 DEF IsCut
  <2>2. \A x \in DOMAIN blocks : /\ IsDocs(blocks[x].docs) /\ DOMAIN blocks[x].docs \subseteq DOMAIN docs
                                 /\ \A d \in DOMAIN blocks[x].docs : blocks[x].docs[d] = docs[d]
    <3> TAKE x \in DOMAIN blocks
    <3>1. x \in DOMAIN cut /\ cut[x] = blocks[x].docs
      BY <1>3
    <3> QED
      BY <2>1, <3>1
  <2>3. ASSUME NEW x \in DOMAIN blocks, NEW y \in DOMAIN blocks, x < y,
               NEW d \in DOMAIN blocks[x].docs, NEW e \in DOMAIN blocks[y].docs
        PROVE  d < e
    <3>1. x \in DOMAIN cut /\ cut[x] = blocks[x].docs /\ y \in DOMAIN cut /\ cut[y] = blocks[y].docs
      BY <1>3
    <3> QED
      BY <2>1, <2>3, <3>1
  <2>4. \A d \in DOMAIN docs : \E x \in DOMAIN blocks : d \in DOMAIN blocks[x].docs
    BY <2>1, <1>3
  <2> QED
    BY <2>2, <2>3, <2>4
<1>6. \A x \in DOMAIN blocks :
        /\ blocks[x].first \in DOMAIN blocks[x].docs /\ blocks[x].last \in DOMAIN blocks[x].docs
        /\ \A d \in DOMAIN blocks[x].docs : blocks[x].first <= d /\ d <= blocks[x].last
  BY <1>1 DEF InformsOf
<1>7. DOMAIN docs \subseteq Nat
  BY DEF IsDocs
<1>8. \A x \in DOMAIN blocks : blocks[x].first \in Nat /\ blocks[x].last \in Nat
  BY <1>5, <1>6, <1>7
<1>9. after \in SUBSET DOMAIN blocks
  OBVIOUS
<1>10. \A x \in DOMAIN blocks : x \in after \/ blocks[x].last < from
  BY <1>8
<1>11. \A x \in after : blocks[x].last >= from
  OBVIOUS
<1> HIDE DEF after
<1>12. CASE after = {}
  <2>1. b = 0
    BY <1>2, <1>12
  <2>2. \A d \in DOMAIN docs : d < from
    <3> TAKE d \in DOMAIN docs
    <3>1. PICK x \in DOMAIN blocks : d \in DOMAIN blocks[x].docs
      BY <1>5
    <3>2. d <= blocks[x].last /\ blocks[x].last < from /\ blocks[x].last \in Nat /\ d \in Nat
      BY <3>1, <1>6, <1>7, <1>8, <1>10, <1>12
    <3> QED
      BY <3>2
  <2> QED
    BY <2>1, <2>2 DEF ComesFirst
<1>13. CASE after # {}
  <2>1. after \in SUBSET Nat /\ IsFiniteSet(after)
    <3>1. IsFiniteSet(1..n)
      BY FS_Interval
    <3>2. IsFiniteSet(after)
      BY <3>1, <1>4, <1>9, FS_Subset
    <3> QED
      BY <3>2, <1>4, <1>9
  <2>2. b \in after /\ \A y \in after : b <= y
    <3>1. b = Min(after)
      BY <1>2, <1>13
    <3>2. Min(after) \in after /\ \A y \in after : Min(after) <= y
      BY <2>1, <1>13, ExtremesAre
    <3> QED
      BY <3>1, <3>2
  <2>3. b # 0 /\ b \in DOMAIN blocks
    BY <2>2, <1>4, <1>9
  <2>4. ASSUME NEW d \in DOMAIN docs, d >= from
        PROVE  blocks[b].first <= d /\ (d <= blocks[b].last => d \in DOMAIN blocks[b].docs)
    <3>1. PICK x \in DOMAIN blocks : d \in DOMAIN blocks[x].docs
      BY <1>5
    <3>2. d <= blocks[x].last /\ blocks[x].last \in Nat /\ d \in Nat
      BY <3>1, <1>6, <1>7, <1>8
    <3>3. x \in after
      BY <3>2, <2>4, <1>10
    <3>4. b <= x /\ b \in Nat /\ x \in Nat
      BY <3>3, <2>1, <2>2
    <3>5. CASE x = b
      BY <3>1, <3>5, <1>6
    <3>6. CASE b < x
      <4>1. blocks[b].last < d /\ blocks[b].first <= blocks[b].last
        BY <3>1, <3>6, <2>3, <1>5, <1>6
      <4>2. blocks[b].first \in Nat /\ blocks[b].last \in Nat
        BY <2>3, <1>8
      <4> QED
        BY <4>1, <4>2, <3>2
    <3> QED
      BY <3>4, <3>5, <3>6
  <2>5. InformsOf(blocks[b], info, docs, part)
    BY <2>3, <1>1
  <2>6. blocks[b].last >= from
    BY <2>2, <1>11
  <2>7. b \in DOMAIN blocks => /\ IsDocs(blocks[b].docs)
                               /\ blocks[b].first \in Nat /\ blocks[b].last \in Nat
                               /\ \A d \in DOMAIN blocks[b].docs :
                                    d \in DOMAIN docs /\ blocks[b].docs[d] = docs[d]
    BY <1>5, <1>8
  <2> QED
    BY <2>3, <2>4, <2>5, <2>6, <2>7 DEF blocks, ComesFirst
<1> QED
  BY <1>12, <1>13

\* The document completed by the terms that are not essential.
IsScore(score, e, sure, prefix, h, gives) ==
  score = [i \in 1..e + 1 |->
             IF i > e THEN sure
             ELSE IF score[i + 1] = 0 \/ score[i + 1] + prefix[i] < h THEN 0
             ELSE score[i + 1] + gives[i]]

LEMMA ScoreExists ==
  ASSUME NEW e \in Nat, NEW sure, NEW prefix, NEW h, NEW gives
  PROVE  \E score : IsScore(score, e, sure, prefix, h, gives)
<1> DEFINE Add(i, total) == IF total = 0 \/ total + prefix[i] < h THEN 0 ELSE total + gives[i]
           Body(f, n) == [i \in e + 1 - n .. e + 1 |-> IF i > e THEN sure ELSE Add(i, f[i + 1])]
           Good == {n \in 0..e : \E f : f = Body(f, n)}
<1>1. 0 \in Good
  <2> DEFINE f == [i \in e + 1 - 0 .. e + 1 |-> sure]
  <2>1. \A i \in e + 1 - 0 .. e + 1 : i > e
    OBVIOUS
  <2>2. f = Body(f, 0)
    BY <2>1
  <2>3. 0 \in 0..e
    OBVIOUS
  <2> HIDE DEF f, Body
  <2> QED
    BY <2>2, <2>3
<1>2. ASSUME NEW n \in 1..e, n - 1 \in Good PROVE n \in Good
  <2>1. PICK f : f = Body(f, n - 1)
    BY <1>2
  <2> DEFINE first == e + 1 - n
             g == [i \in first..e + 1 |-> IF i = first THEN Add(i, f[i + 1]) ELSE f[i]]
  <2>2. first \in 1..e /\ e + 1 - (n - 1) = first + 1
    OBVIOUS
  <2>3. \A i \in first + 1 .. e + 1 : f[i] = IF i > e THEN sure ELSE Add(i, f[i + 1])
    BY <2>1, <2>2
  <2> HIDE DEF Add
  <2>4. ASSUME NEW i \in first..e + 1 PROVE g[i] = IF i > e THEN sure ELSE Add(i, g[i + 1])
    <3>1. CASE i = first
      <4>1. ~(i > e) /\ i + 1 \in first..e + 1 /\ i + 1 # first
        BY <3>1, <2>2
      <4>2. g[i + 1] = f[i + 1] /\ g[i] = Add(i, f[i + 1])
        BY <4>1, <3>1
      <4> QED
        BY <4>1, <4>2
    <3>2. CASE i # first
      <4>1. i \in first + 1 .. e + 1 /\ g[i] = f[i]
        BY <3>2, <2>2
      <4>2. CASE i > e
        BY <4>1, <4>2, <2>3
      <4>3. CASE ~(i > e)
        <5>1. i + 1 \in first..e + 1 /\ i + 1 # first
          BY <4>1, <4>3, <2>2
        <5>2. g[i + 1] = f[i + 1]
          BY <5>1
        <5> QED
          BY <4>1, <4>3, <5>2, <2>3
      <4> QED
        BY <4>2, <4>3
    <3> QED
      BY <3>1, <3>2
  <2>5. g = [i \in first..e + 1 |-> g[i]]
    OBVIOUS
  <2> HIDE DEF g
  <2>6. g = Body(g, n)
    BY <2>4, <2>5
  <2>7. n \in 0..e
    OBVIOUS
  <2> HIDE DEF Body
  <2> QED
    BY <2>6, <2>7
<1> HIDE DEF Good
<1>3. e \in Good
  <2>1. \A n \in 0..e : n \in Good
    BY <1>1, <1>2, NumbersInduction
  <2> QED
    BY <2>1
<1>4. \E f : f = Body(f, e)
  BY <1>3 DEF Good
<1>5. e + 1 - e = 1
  OBVIOUS
<1> QED
  BY <1>4, <1>5 DEF IsScore

\* A document that may reach the threshold has its score; of another one it does
\* not matter.
Tells(infos, s, part, d, m, g) ==
  /\ m \in Nat /\ Len(s.order) = m
  /\ s.essential \in 0..m /\ s.theta \in Nat /\ s.prefix \in [1..m -> Nat]
  /\ g \in [1..m -> Nat] /\ \A i \in 1..m : g[i] = Gives(infos[s.order[i]], s, part, d)
  /\ \A i \in 1..m : SumOn(g, 1..i) <= s.prefix[i]
  /\ \A i \in 1..s.essential : s.prefix[i] < s.theta

LEMMA CompletedIs ==
  ASSUME NEW infos, NEW s, NEW part, NEW d, NEW m, NEW g, Tells(infos, s, part, d, m, g)
  PROVE  \/ Completed(infos, s, part, d) = Total(g)
         \/ Completed(infos, s, part, d) = 0 /\ Total(g) < s.theta
<1>0. /\ m \in Nat /\ Len(s.order) = m
      /\ s.essential \in 0..m /\ s.theta \in Nat /\ s.prefix \in [1..m -> Nat]
      /\ g \in [1..m -> Nat] /\ \A i \in 1..m : g[i] = Gives(infos[s.order[i]], s, part, d)
      /\ \A i \in 1..m : SumOn(g, 1..i) <= s.prefix[i]
      /\ \A i \in 1..s.essential : s.prefix[i] < s.theta
  BY DEF Tells
<1> USE <1>0
<1> DEFINE e == s.essential
           h == s.theta
           sure == Total([i \in e + 1 .. m |-> Gives(infos[s.order[i]], s, part, d)])
           gives == [i \in 1..e |-> Gives(infos[s.order[i]], s, part, d)]
           score == CHOOSE f : f = [i \in 1..e + 1 |->
                      IF i > e THEN sure
                      ELSE IF f[i + 1] = 0 \/ f[i + 1] + s.prefix[i] < h THEN 0
                           ELSE f[i + 1] + Gives(infos[s.order[i]], s, part, d)]
           Rest(i) == SumOn(g, i..m)
           S == Total(g)
<1>1. e \in Nat /\ e <= m /\ h \in Nat
  OBVIOUS
<1>2. Completed(infos, s, part, d) = IF score[1] < h THEN 0 ELSE score[1]
  BY DEF Completed
<1>3. score = [i \in 1..e + 1 |->
                IF i > e THEN sure
                ELSE IF score[i + 1] = 0 \/ score[i + 1] + s.prefix[i] < h THEN 0
                     ELSE score[i + 1] + Gives(infos[s.order[i]], s, part, d)]
  <2> HIDE DEF sure, h, e
  <2>1. PICK f : IsScore(f, e, sure, s.prefix, h, gives)
    BY <1>1, ScoreExists
  <2>2. \A i \in 1..e + 1 : i > e \/ i \in 1..e
    BY <1>1
  <2>3. f = [i \in 1..e + 1 |->
                IF i > e THEN sure
                ELSE IF f[i + 1] = 0 \/ f[i + 1] + s.prefix[i] < h THEN 0
                     ELSE f[i + 1] + Gives(infos[s.order[i]], s, part, d)]
    BY <2>1, <2>2 DEF IsScore
  <2> QED
    BY <2>3
<1> HIDE DEF score
<1>4. /\ score[e + 1] = sure
      /\ \A i \in 1..e : score[i] = IF score[i + 1] = 0 \/ score[i + 1] + s.prefix[i] < h THEN 0
                                    ELSE score[i + 1] + g[i]
  <2>1. e + 1 \in 1..e + 1 /\ e + 1 > e
    BY <1>1
  <2>2. \A i \in 1..e : i \in 1..e + 1 /\ ~(i > e) /\ i \in 1..m
    BY <1>1
  <2> HIDE DEF e, h, sure
  <2>3. score[e + 1] = sure
    BY <2>1, <1>3
  <2>4. \A i \in 1..e : score[i] = IF score[i + 1] = 0 \/ score[i + 1] + s.prefix[i] < h THEN 0
                                   ELSE score[i + 1] + Gives(infos[s.order[i]], s, part, d)
    BY <2>2, <1>3
  <2> QED
    BY <2>2, <2>3, <2>4
<1>5. IsFiniteSet(1..m)
  BY FS_Interval
<1>6. /\ \A T \in SUBSET (1..m) : SumOn(g, T) \in Nat
      /\ \A T \in SUBSET (1..m) : \A x \in T : SumOn(g, T) = g[x] + SumOn(g, T \ {x})
      /\ S = SumOn(g, 1..m)
  <2>1. /\ \A T \in SUBSET (1..m) : SumOn(g, T) \in Nat
        /\ \A T \in SUBSET (1..m) : \A x \in T : SumOn(g, T) = g[x] + SumOn(g, T \ {x})
        /\ Total(g) = SumOn(g, 1..m)
    <3> DEFINE M == 1..m
    <3>1. IsFiniteSet(M) /\ g \in [M -> Nat]
      BY <1>5
    <3> HIDE DEF M
    <3>2. /\ \A T \in SUBSET M : SumOn(g, T) \in Nat
          /\ SumOn(g, {}) = 0
          /\ \A T \in SUBSET M : \A x \in T : SumOn(g, T) = g[x] + SumOn(g, T \ {x})
          /\ Total(g) = SumOn(g, M)
      BY <3>1, SumOnIs
    <3> QED
      BY <3>2 DEF M
  <2> QED
    BY <2>1
<1>7. sure = Rest(e + 1)
  <2>1. \A i \in e + 1 .. m : i \in 1..m
    BY <1>1
  <2>2. [i \in e + 1 .. m |-> Gives(infos[s.order[i]], s, part, d)] = [i \in e + 1 .. m |-> g[i]]
    BY <2>1
  <2> QED
    BY <2>2 DEF SumOn
<1> HIDE DEF sure
<1>8. ASSUME NEW i \in 1..m
      PROVE  /\ Rest(i + 1) \in Nat /\ Rest(i) = g[i] + Rest(i + 1)
             /\ S = SumOn(g, 1..i) + Rest(i + 1) /\ SumOn(g, 1..i) \in Nat
             /\ S <= s.prefix[i] + Rest(i + 1)
  <2>1. i..m \in SUBSET (1..m) /\ i \in i..m /\ (i..m) \ {i} = i + 1 .. m /\ i + 1 .. m \in SUBSET (1..m)
    OBVIOUS
  <2>2. 1..i \in SUBSET (1..m) /\ (1..m) \ (1..i) = i + 1 .. m
    OBVIOUS
  <2>3. Rest(i + 1) \in Nat /\ SumOn(g, 1..i) \in Nat
    BY <2>1, <2>2, <1>6
  <2>4. Rest(i) = g[i] + Rest(i + 1)
    <3>1. PICK T \in SUBSET (1..m) : T = i..m /\ i \in T /\ T \ {i} = i + 1 .. m
      BY <2>1
    <3>2. SumOn(g, T) = g[i] + SumOn(g, T \ {i})
      BY <3>1, <1>6
    <3> QED
      BY <3>1, <3>2
  <2>5. S = SumOn(g, 1..i) + SumOn(g, (1..m) \ (1..i))
    <3> DEFINE M == 1..m
               T == 1..i
    <3>1. T \in SUBSET M /\ IsFiniteSet(M) /\ g \in [M -> Nat]
      BY <2>2, <1>5
    <3> HIDE DEF M, T
    <3>2. S = SumOn(g, T) + SumOn(g, M \ T)
      BY <3>1, SumSplit
    <3> QED
      BY <3>2 DEF M, T
  <2>6. S = SumOn(g, 1..i) + Rest(i + 1)
    BY <2>2, <2>5
  <2>7. SumOn(g, 1..i) <= s.prefix[i] /\ s.prefix[i] \in Nat
    OBVIOUS
  <2> HIDE DEF Rest, S
  <2>8. S <= s.prefix[i] + Rest(i + 1)
    <3>1. PICK x, y, z : x = SumOn(g, 1..i) /\ y = s.prefix[i] /\ z = Rest(i + 1)
      OBVIOUS
    <3>2. x \in Nat /\ y \in Nat /\ z \in Nat /\ x <= y /\ S = x + z
      BY <3>1, <2>3, <2>6, <2>7
    <3>3. x + z <= y + z
      BY <3>2
    <3> QED
      BY <3>1, <3>2, <3>3
  <2> QED
    BY <2>3, <2>4, <2>6, <2>8
<1> DEFINE Fits(i) == score[i] = Rest(i) \/ (score[i] = 0 /\ S < h)
           Good == {n \in 0..e : Fits(e + 1 - n)}
<1>9. 0 \in Good
  <2>1. e + 1 - 0 = e + 1 /\ 0 \in 0..e
    BY <1>1
  <2>2. Fits(e + 1)
    BY <1>4, <1>7
  <2> HIDE DEF Fits
  <2> QED
    BY <2>1, <2>2
<1>10. ASSUME NEW n \in 1..e, n - 1 \in Good PROVE n \in Good
  <2> DEFINE i == e + 1 - n
  <2>1. i \in 1..e /\ i \in 1..m /\ e + 1 - (n - 1) = i + 1 /\ n \in 0..e
    <3>1. e \in Nat /\ m \in Nat /\ e <= m /\ n \in 1..e
      BY <1>1
    <3> HIDE DEF e
    <3> QED
      BY ONLY <3>1
  <2>2. Fits(i + 1)
    BY <1>10, <2>1
  <2> HIDE DEF i, Rest, S
  <2>3. /\ Rest(i + 1) \in Nat /\ Rest(i) = g[i] + Rest(i + 1) /\ g[i] \in Nat
        /\ S <= s.prefix[i] + Rest(i + 1) /\ s.prefix[i] \in Nat /\ s.prefix[i] < h
    BY <2>1, <1>8
  <2>4. S \in Nat
    <3>1. 1..m \in SUBSET (1..m)
      OBVIOUS
    <3> QED
      BY <3>1, <1>6
  <2>5. score[i] = IF score[i + 1] = 0 \/ score[i + 1] + s.prefix[i] < h THEN 0
                   ELSE score[i + 1] + g[i]
    BY <2>1, <1>4
  <2>6. Fits(i)
    <3>1. CASE score[i + 1] = 0 /\ S < h
      BY <3>1, <2>5
    <3>2. CASE score[i + 1] = Rest(i + 1)
      <4>1. CASE Rest(i + 1) = 0
        <5>1. score[i] = 0
          BY <3>2, <4>1, <2>5
        <5>2. S < h
          BY <4>1, <2>3, <2>4, <1>1
        <5> QED
          BY <5>1, <5>2
      <4>2. CASE Rest(i + 1) # 0 /\ Rest(i + 1) + s.prefix[i] < h
        <5>1. score[i] = 0
          BY <3>2, <4>2, <2>5
        <5>2. S < h
          <6> DEFINE a == Rest(i + 1)
                     b == s.prefix[i]
          <6>1. a \in Nat /\ b \in Nat /\ S \in Nat /\ h \in Nat /\ S <= b + a /\ a + b < h
            BY <4>2, <2>3, <2>4, <1>1
          <6> HIDE DEF a, b, h
          <6> QED
            BY <6>1
        <5> QED
          BY <5>1, <5>2
      <4>3. CASE Rest(i + 1) # 0 /\ ~(Rest(i + 1) + s.prefix[i] < h)
        <5>1. score[i] = Rest(i + 1) + g[i]
          BY <3>2, <4>3, <2>5
        <5>2. score[i] = Rest(i)
          BY <5>1, <2>3
        <5> QED
          BY <5>2
      <4> QED
        BY <4>1, <4>2, <4>3
    <3> QED
      BY <3>1, <3>2, <2>2
  <2> HIDE DEF Fits
  <2> QED
    BY <2>1, <2>6 DEF i
<1>11. Fits(1)
  <2> HIDE DEF Good, Fits
  <2>1. \A n \in 0..e : n \in Good
    BY <1>1, <1>9, <1>10, NumbersInduction
  <2>2. e \in 0..e /\ e + 1 - e = 1
    BY <1>1
  <2>3. e \in Good
    BY <2>1, <2>2
  <2> QED
    BY <2>2, <2>3 DEF Good
<1>12. Rest(1) = S /\ S \in Nat
  <2>1. 1..m \in SUBSET (1..m)
    OBVIOUS
  <2> QED
    BY <2>1, <1>6
<1> HIDE DEF Rest, S, h
<1>13. \/ Completed(infos, s, part, d) = S
       \/ Completed(infos, s, part, d) = 0 /\ S < h
  BY <1>1, <1>2, <1>11, <1>12
<1> QED
  BY <1>13 DEF S, h

\* A sum is that of the same numbers in another order, and grows with its set.
Matched(of, Q, T, u, v) ==
  /\ IsFiniteSet(Q) /\ IsFiniteSet(T) /\ of \in [Q -> T] /\ v \in [T -> Nat] /\ u \in [Q -> Nat]
  /\ \A m, n \in Q : of[m] = of[n] => m = n
  /\ \A t \in T : \E n \in Q : of[n] = t
  /\ \A n \in Q : u[n] = v[of[n]]

LEMMA SumBijection ==
  ASSUME NEW of, NEW Q, NEW T, NEW u, NEW v, Matched(of, Q, T, u, v)
  PROVE  Total(u) = Total(v)
<1> USE DEF Matched
<1>0. u = [n \in Q |-> v[of[n]]]
  OBVIOUS
<1>1. ASSUME NEW t \in T PROVE Cardinality(Fiber(Q, of, t)) = 1
  <2>1. PICK n \in Q : of[n] = t
    OBVIOUS
  <2>2. Fiber(Q, of, t) = {n}
    BY <2>1 DEF Fiber
  <2> QED
    BY <2>2, FS_Singleton
<1>2. Total([n \in Q |-> v[of[n]]]) = Total([t \in T |-> Cardinality(Fiber(Q, of, t)) * v[t]])
  BY SumFibers
<1>3. [t \in T |-> Cardinality(Fiber(Q, of, t)) * v[t]] = v
  <2>1. \A t \in T : Cardinality(Fiber(Q, of, t)) * v[t] = v[t]
    <3> TAKE t \in T
    <3>1. v[t] \in Nat
      OBVIOUS
    <3> QED
      BY <3>1, <1>1
  <2>2. v = [t \in T |-> v[t]]
    OBVIOUS
  <2> QED
    BY <2>1, <2>2
<1> QED
  BY <1>0, <1>2, <1>3

LEMMA SumMore ==
  ASSUME NEW S, IsFiniteSet(S), NEW f \in [S -> Nat], NEW U \in SUBSET S, NEW T \in SUBSET U
  PROVE  SumOn(f, T) <= SumOn(f, U) /\ SumOn(f, T) \in Nat /\ SumOn(f, U) \in Nat
<1> DEFINE h == [x \in U |-> f[x]]
<1>1. IsFiniteSet(U) /\ T \in SUBSET U
  BY FS_Subset
<1>2. h \in [U -> Nat] /\ \A x \in U : h[x] = f[x]
  OBVIOUS
<1>3. SumOn(f, U) = Total(h)
  BY DEF SumOn
<1>4. SumOn(h, T) = SumOn(f, T)
  <2>1. [x \in T |-> h[x]] = [x \in T |-> f[x]]
    BY <1>2
  <2> QED
    BY <2>1 DEF SumOn
<1> HIDE DEF h
<1>5. Total(h) = SumOn(h, T) + SumOn(h, U \ T)
  BY <1>1, <1>2, SumSplit
<1>6. /\ \A V \in SUBSET U : SumOn(h, V) \in Nat
      /\ SumOn(h, {}) = 0
      /\ \A V \in SUBSET U : \A x \in V : SumOn(h, V) = h[x] + SumOn(h, V \ {x})
      /\ Total(h) = SumOn(h, U)
  BY <1>1, <1>2, SumOnIs
<1>7. U \ T \in SUBSET U /\ U \in SUBSET U
  OBVIOUS
<1>8. SumOn(h, T) \in Nat /\ SumOn(h, U \ T) \in Nat /\ Total(h) \in Nat
  BY <1>1, <1>6, <1>7
<1> QED
  BY <1>3, <1>4, <1>5, <1>8

\* Of the numbers 1..m, those where something that grows stays below a threshold.
LEMMA FirstOnes ==
  ASSUME NEW m \in Nat, NEW prefix \in [1..m -> Nat], NEW h \in Nat,
         \A i, j \in 1..m : i <= j => prefix[i] <= prefix[j],
         NEW e, e = Cardinality({i \in 1..m : prefix[i] < h})
  PROVE  e \in 0..m /\ \A i \in 1..e : prefix[i] < h
<1> DEFINE E == {i \in 1..m : prefix[i] < h}
<1>1. IsFiniteSet(1..m) /\ Cardinality(1..m) = m
  <2>1. m \in Nat
    OBVIOUS
  <2>2. 1 \in Int /\ m \in Int
    OBVIOUS
  <2>3. IsFiniteSet(1..m)
    BY <2>1, FS_Interval
  <2>4. Cardinality(1..m) = IF 1 > m THEN 0 ELSE m - 1 + 1
    BY <2>2, FS_Interval
  <2> QED
    BY <2>1, <2>3, <2>4
<1>2. E \in SUBSET (1..m)
  OBVIOUS
<1>3. IsFiniteSet(E) /\ e \in Nat /\ e <= m
  <2>1. IsFiniteSet(E) /\ Cardinality(E) <= Cardinality(1..m)
    BY <1>1, <1>2, FS_Subset
  <2>2. Cardinality(E) \in Nat
    BY <2>1, FS_CardinalityType
  <2> QED
    BY <2>1, <2>2, <1>1
<1>4. ASSUME NEW i \in 1..e, ~(prefix[i] < h) PROVE FALSE
  <2>1. i \in 1..m /\ i - 1 \in Nat
    BY <1>3
  <2>2. E \in SUBSET (1..i - 1)
    <3> SUFFICES ASSUME NEW j \in 1..m, prefix[j] < h, ~(j \in 1..i - 1) PROVE FALSE
      OBVIOUS
    <3>1. i <= j
      BY <2>1
    <3>2. prefix[i] <= prefix[j] /\ prefix[i] \in Nat /\ prefix[j] \in Nat
      BY <3>1, <2>1
    <3> QED
      BY <3>2, <1>4
  <2>3. IsFiniteSet(1..i - 1) /\ Cardinality(1..i - 1) = i - 1
    <3> DEFINE k == i - 1
    <3>1. k \in Nat /\ k \in Int /\ 1 \in Int
      BY <2>1
    <3> HIDE DEF k
    <3>2. IsFiniteSet(1..k)
      BY <3>1, FS_Interval
    <3>3. Cardinality(1..k) = IF 1 > k THEN 0 ELSE k - 1 + 1
      BY <3>1, FS_Interval
    <3>4. Cardinality(1..k) = k
      BY <3>1, <3>3
    <3> QED
      BY <3>2, <3>4 DEF k
  <2>4. Cardinality(E) <= Cardinality(1..i - 1)
    BY <2>2, <2>3, FS_Subset
  <2>5. e <= i - 1
    BY <2>3, <2>4
  <2> QED
    BY <2>1, <2>5, <1>3
<1> QED
  BY <1>3, <1>4

\* Numbers by a weight, and then by themselves.
Lighter(S, weight, x) == {y \in S : weight[y] < weight[x] \/ (weight[y] = weight[x] /\ y < x)}

Weighed(s, k, S, weight) ==
  /\ s = [n \in 1..k |-> s[n]]
  /\ \A n \in 1..k : (\E x \in S : Cardinality(Lighter(S, weight, x)) = n - 1)
       => s[n] \in S /\ Cardinality(Lighter(S, weight, s[n])) = n - 1

Enumerates(s, k, S) ==
  /\ k \in Nat /\ s \in [1..k -> S] /\ Len(s) = k
  /\ \A i, j \in 1..k : s[i] = s[j] => i = j
  /\ \A x \in S : \E i \in 1..k : s[i] = x

LEMMA WeightsOrdered ==
  ASSUME NEW S \in SUBSET Nat, IsFiniteSet(S), NEW k, k = Cardinality(S),
         NEW weight \in [S -> Nat], NEW s, Weighed(s, k, S, weight)
  PROVE  Enumerates(s, k, S)
<1> DEFINE R == {pair \in S \X S : \/ weight[pair[1]] < weight[pair[2]]
                                   \/ weight[pair[1]] = weight[pair[2]] /\ pair[1] < pair[2]}
<1>1. \A x \in S : x \in Nat /\ weight[x] \in Nat
  OBVIOUS
<1>2. \A x, y \in S : <<x, y>> \in R <=> weight[x] < weight[y] \/ (weight[x] = weight[y] /\ x < y)
  OBVIOUS
<1> HIDE DEF R
<1>3. IsOrder(R, S)
  <2>1. \A x, y \in S : x # y => <<x, y>> \in R \/ <<y, x>> \in R
    BY <1>1, <1>2
  <2>2. \A x \in S : <<x, x>> \notin R
    BY <1>1, <1>2
  <2>3. \A x, y, z \in S : <<x, y>> \in R /\ <<y, z>> \in R => <<x, z>> \in R
    BY <1>1, <1>2
  <2> QED
    BY <2>1, <2>2, <2>3 DEF IsOrder
<1>4. \A x \in S : Lighter(S, weight, x) = Lower(R, S, x)
  BY <1>2 DEF Lower, Lighter
<1>5. s = [n \in 1..k |-> s[n]]
  BY DEF Weighed
<1>6. k \in Nat
  BY FS_CardinalityType
<1>7. ASSUME NEW n \in 1..k, \E x \in S : Cardinality(Lower(R, S, x)) = n - 1
      PROVE  s[n] \in S /\ Cardinality(Lower(R, S, s[n])) = n - 1
  <2>1. \E x \in S : Cardinality(Lighter(S, weight, x)) = n - 1
    BY <1>4, <1>7
  <2>2. s[n] \in S /\ Cardinality(Lighter(S, weight, s[n])) = n - 1
    BY <2>1 DEF Weighed
  <2> QED
    BY <2>2, <1>4
<1>8. IsOrdered(s, S, R)
  BY <1>3, <1>5, <1>7, ChosenIsOrdered
<1>9. s \in [1..k -> S] /\ \A x \in S : \E i \in 1..k : s[i] = x
  BY <1>8 DEF IsOrdered
<1>10. Len(s) = k
  BY <1>6, <1>5, ListIs
<1>11. ASSUME NEW i \in 1..k, NEW j \in 1..k, s[i] = s[j] PROVE i = j
  <2>1. \A n \in 1..k : Cardinality(Lower(R, S, s[n])) = n - 1
    BY <1>8 DEF IsOrdered
  <2>2. i - 1 = j - 1
    BY <2>1, <1>11
  <2> QED
    BY <2>2, <1>6
<1> QED
  BY <1>6, <1>9, <1>10, <1>11 DEF Enumerates

\* A slice to scan is a record; what a window changes of it.
ScanFields ==
  {"at", "from", "hi", "theta", "candidates", "to", "order", "prefix", "essential", "todo"}
IsScan(s) == DOMAIN s = ScanFields

SameScan(s, r) ==
  /\ s.at = r.at /\ s.from = r.from /\ s.hi = r.hi /\ s.theta = r.theta
  /\ s.candidates = r.candidates

BlockOfTerm(infos, t, from) == infos[t].blocks[BlockAt(infos[t], from)]
Inside(infos, from, to) ==
  {t \in DOMAIN infos : /\ BlockAt(infos[t], from) # 0
                        /\ BlockOfTerm(infos, t, from).first <= to
                        /\ BlockOfTerm(infos, t, from).bound > 0}

\* The bounds of the k terms of a window, added up.
Bounds(infos, w, k) == [i \in 1..k |-> BlockOfTerm(infos, w.order[i], w.from).bound]
AddedUp(prefix, bounds, k) == prefix = [i \in 1..k |-> Total([j \in 1..i |-> bounds[j]])]

\* The window w of s, its k terms those of S.
CutInto(infos, s, to, w, S, k) ==
  /\ IsScan(w) /\ SameScan(w, s) /\ w.to = to
  /\ Enumerates(w.order, k, S)
  /\ AddedUp(w.prefix, Bounds(infos, w, k), k)
  /\ w.essential = Cardinality({i \in 1..k : w.prefix[i] < s.theta})
  /\ w.todo = UNION {DOMAIN BlockOfTerm(infos, w.order[i], s.from).docs \cap s.from..to :
                       i \in w.essential + 1 .. k}


LEMMA CutIs ==
  ASSUME NEW infos, NEW s, IsScan(s), NEW to, NEW w, w = Cut(infos, s, to),
         NEW S, S = Inside(infos, s.from, to), S \in SUBSET Nat, IsFiniteSet(S),
         \A t \in S : BlockOfTerm(infos, t, s.from).bound \in Nat
  PROVE  CutInto(infos, s, to, w, S, Cardinality(S))
<1> DEFINE Block(t) == BlockOfTerm(infos, t, s.from)
           weight == [t \in S |-> Block(t).bound]
           Weaker(x, y) == \/ Block(x).bound < Block(y).bound
                           \/ Block(x).bound = Block(y).bound /\ x < y
           Chosen(i) == CHOOSE x \in S : Cardinality({y \in S : Weaker(y, x)}) = i - 1
           O == Ordered(S, Weaker)
           P(o) == [i \in DOMAIN o |-> Total([j \in 1..i |-> Block(o[j]).bound])]
           Fill(o, prefix) ==
             LET essential == Cardinality({i \in DOMAIN o : prefix[i] < s.theta})
             IN [s EXCEPT !.to = to, !.order = o, !.prefix = prefix, !.essential = essential,
                          !.todo = UNION {DOMAIN Block(o[i]).docs \cap s.from..to :
                                            i \in essential + 1 .. Len(o)}]
           Then(o) == With(P(o), LAMBDA prefix : Fill(o, prefix))
           n == Cardinality(S)
<1>1. w = With(O, LAMBDA o : Then(o))
  BY DEF Cut, Inside, BlockOfTerm
<1>2. O = [i \in 1..n |-> Chosen(i)]
  BY DEF Ordered
<1>3. weight \in [S -> Nat] /\ \A x \in S : weight[x] = Block(x).bound
  OBVIOUS
<1> HIDE DEF O, weight, Then, Fill, P
<1>4. \A x \in S : {y \in S : Weaker(y, x)} = Lighter(S, weight, x)
  <2> HIDE DEF Block
  <2> QED
    BY <1>3 DEF Lighter
<1> HIDE DEF Weaker
<1>5. ASSUME NEW i \in 1..n, \E x \in S : Cardinality(Lighter(S, weight, x)) = i - 1
      PROVE  Chosen(i) \in S /\ Cardinality(Lighter(S, weight, Chosen(i))) = i - 1
  <2>1. \E x \in S : Cardinality({y \in S : Weaker(y, x)}) = i - 1
    BY <1>4, <1>5
  <2>2. Chosen(i) \in S /\ Cardinality({y \in S : Weaker(y, Chosen(i))}) = i - 1
    BY <2>1
  <2> QED
    BY <2>2, <1>4
<1> HIDE DEF Chosen
<1>6. /\ n \in Nat /\ O \in [1..n -> S] /\ Len(O) = n
      /\ \A i, j \in 1..n : O[i] = O[j] => i = j
      /\ \A x \in S : \E i \in 1..n : O[i] = x
  <2>1. O = [i \in 1..n |-> O[i]] /\ \A i \in 1..n : O[i] = Chosen(i)
    BY <1>2
  <2>2. Weighed(O, n, S, weight)
    BY <2>1, <1>5 DEF Weighed
  <2>3. n = Cardinality(S)
    OBVIOUS
  <2> HIDE DEF n
  <2>4. Enumerates(O, n, S)
    BY <2>2, <2>3, <1>3, WeightsOrdered
  <2> QED
    BY <2>4 DEF Enumerates
<1>7. w = Then(O)
  BY <1>1 DEF With
<1>8. \A o : Then(o) = Fill(o, P(o))
  BY DEF With, Then
<1>9. w = Fill(O, P(O))
  BY <1>7, <1>8
<1> HIDE DEF n
<1>10. DOMAIN O = 1..n
  BY <1>6
<1>11. P(O) = [i \in 1..n |-> Total([j \in 1..i |-> Block(O[j]).bound])]
  BY <1>10 DEF P
<1> DEFINE E == Cardinality({i \in 1..n : P(O)[i] < s.theta})
           D == UNION {DOMAIN Block(O[i]).docs \cap s.from..to : i \in E + 1 .. n}
<1>12. Fill(O, P(O)) = [s EXCEPT !.to = to, !.order = O, !.prefix = P(O), !.essential = E, !.todo = D]
  BY <1>6, <1>10 DEF Fill
<1> HIDE DEF E, D, Block
<1>13. w = [s EXCEPT !.to = to, !.order = O, !.prefix = P(O), !.essential = E, !.todo = D]
  BY <1>9, <1>12
<1>14. /\ w.at = s.at /\ w.from = s.from /\ w.hi = s.hi /\ w.theta = s.theta
       /\ w.candidates = s.candidates /\ w.to = to /\ w.order = O /\ w.prefix = P(O)
       /\ w.essential = E /\ w.todo = D
  BY <1>13 DEF IsScan, ScanFields
<1>15. IsScan(w)
  BY <1>13 DEF IsScan
<1>16. SameScan(w, s)
  BY <1>14 DEF SameScan
<1>17. E = Cardinality({i \in 1..n : w.prefix[i] < s.theta})
  BY <1>14 DEF E
<1>18. D = UNION {DOMAIN BlockOfTerm(infos, w.order[i], s.from).docs \cap s.from..to :
                              i \in w.essential + 1 .. n}
  BY <1>14 DEF D, Block
<1>19. AddedUp(w.prefix, Bounds(infos, w, n), n)
  <2> DEFINE bounds == Bounds(infos, w, n)
             X(i) == [j \in 1..i |-> Block(O[j]).bound]
             Y(i) == [j \in 1..i |-> bounds[j]]
  <2>1. \A j \in 1..n : bounds[j] = Block(O[j]).bound
    BY <1>14 DEF Bounds, Block
  <2>2. \A i \in 1..n : \A j \in 1..i : j \in 1..n
    BY <1>6
  <2> HIDE DEF bounds
  <2>3. \A i \in 1..n : X(i) = Y(i)
    BY <2>1, <2>2
  <2>4. w.prefix = [i \in 1..n |-> Total(X(i))]
    BY <1>11, <1>14
  <2> HIDE DEF X, Y
  <2>5. w.prefix = [i \in 1..n |-> Total(Y(i))]
    BY <2>3, <2>4
  <2> QED
    BY <2>5 DEF AddedUp, Y, bounds
<1>20. Enumerates(w.order, n, S)
  BY <1>6, <1>14 DEF Enumerates
<1> QED
  BY <1>14, <1>15, <1>16, <1>17, <1>18, <1>19, <1>20 DEF n, CutInto

\* In a window, what a term gives to a document is in its block there.
LEMMA GivesIs ==
  ASSUME NEW part, IsPart(part), NEW query, IsFiniteSet(DOMAIN query),
         NEW infos, NEW t, InfoOf(infos[t], part, query), NEW s, s.from \in Nat,
         NEW d \in DOMAIN part.lengths,
         d \in DOMAIN List(part, infos[t]) =>
           BlockAt(infos[t], s.from) # 0 /\ d \in DOMAIN BlockOfTerm(infos, t, s.from).docs
  PROVE  /\ Gain(part, infos[t], d) \in Nat
         /\ BlockAt(infos[t], s.from) = 0 => Gain(part, infos[t], d) = 0
         /\ BlockAt(infos[t], s.from) # 0 =>
              /\ BlockOfTerm(infos, t, s.from).bound \in Nat
              /\ Gives(infos[t], s, part, d) = Gain(part, infos[t], d)
              /\ Gain(part, infos[t], d) <= BlockOfTerm(infos, t, s.from).bound
              /\ d \notin DOMAIN BlockOfTerm(infos, t, s.from).docs => Gain(part, infos[t], d) = 0
<1> DEFINE info == infos[t]
           b == BlockAt(info, s.from)
           block == BlockOfTerm(infos, t, s.from)
           docs == List(part, info)
           gain == Gain(part, info, d)
<1>1. gain \in Nat
  BY GainNat
<1>2. IsDocs(docs) /\ Informs(info, docs, part)
  BY DEF InfoOf
<1>3. gain = IF d \in DOMAIN docs
             THEN info.times * Contribution(info.idf, docs[d], part.lengths[d]) ELSE 0
  BY DEF Gain
<1>4. b = 0 => gain = 0
  BY <1>3
<1>5. ASSUME b # 0
      PROVE  /\ InformsOf(block, info, docs, part)
             /\ \A x \in DOMAIN block.docs : x \in DOMAIN docs /\ block.docs[x] = docs[x]
  <2>1. block = info.blocks[b]
    BY DEF BlockOfTerm
  <2>2. b = BlockAt(info, s.from)
    OBVIOUS
  <2> DEFINE from == s.from
  <2>4. from \in Nat /\ b = BlockAt(info, from)
    OBVIOUS
  <2> HIDE DEF docs, info, block, b, from
  <2>3. ComesFirst(info, docs, part, from, b)
    BY <1>2, <2>4, BlockAtIs
  <2> QED
    BY <2>1, <2>3, <1>5 DEF ComesFirst
<1>6. ASSUME b # 0 PROVE Gives(info, s, part, d) = gain
  <2>1. Gives(info, s, part, d) = IF d \in DOMAIN block.docs
          THEN info.times * Contribution(info.idf, block.docs[d], part.lengths[d]) ELSE 0
    BY DEF Gives, BlockOfTerm
  <2>2. d \in DOMAIN docs => d \in DOMAIN block.docs
    OBVIOUS
  <2>3. \A x \in DOMAIN block.docs : x \in DOMAIN docs /\ block.docs[x] = docs[x]
    BY <1>5, <1>6
  <2> HIDE DEF gain, docs, info, block, b
  <2> QED
    BY <2>1, <2>2, <2>3, <1>3
<1>7. ASSUME b # 0 PROVE block.bound \in Nat /\ gain <= block.bound /\ (d \notin DOMAIN block.docs => gain = 0)
  <2>1. d \in DOMAIN docs => d \in DOMAIN block.docs
    OBVIOUS
  <2>2. InformsOf(block, info, docs, part)
    BY <1>5, <1>7
  <2> HIDE DEF gain, docs, info, block, b
  <2>3. block.bound \in Nat
    BY <2>2 DEF InformsOf
  <2>4. CASE d \in DOMAIN docs
    <3>1. d \in DOMAIN block.docs \cap DOMAIN part.lengths
      BY <2>1, <2>4
    <3>2. info.times * Contribution(info.idf, docs[d], part.lengths[d]) <= block.bound
      BY <2>2, <3>1 DEF InformsOf
    <3> QED
      BY <2>1, <2>3, <2>4, <3>1, <3>2, <1>3
  <2>5. CASE d \notin DOMAIN docs
    BY <2>3, <2>5, <1>3
  <2> QED
    BY <2>4, <2>5
<1> QED
  BY <1>1, <1>4, <1>6, <1>7

\* What a window tells: the terms in it hold every document of it, and those that
\* are not essential, altogether, cannot reach the threshold.
WindowOf(infos, part, query, s) ==
  /\ Len(s.order) \in Nat
  /\ s.essential \in 0..Len(s.order) /\ s.prefix \in [1..Len(s.order) -> Nat]
  /\ \A i \in 1..s.essential : s.prefix[i] < s.theta
  /\ \A d \in (s.from..s.to) \cap DOMAIN part.lengths :
       \E g \in [1..Len(s.order) -> Nat] :
         /\ \A i \in 1..Len(s.order) : g[i] = Gives(infos[s.order[i]], s, part, d)
         /\ \A i \in 1..Len(s.order) : SumOn(g, 1..i) <= s.prefix[i]
         /\ Total(g) = Score(part, query, d)

Reach(infos, part, from, to) ==
  \A t \in DOMAIN infos : \A d \in from..to : d \in DOMAIN List(part, infos[t]) =>
    /\ BlockAt(infos[t], from) # 0 /\ BlockOfTerm(infos, t, from).first <= to
    /\ d \in DOMAIN BlockOfTerm(infos, t, from).docs

\* A document's score, by the terms inside the window.
Shared(infos, part, query, s, d, order, k, g) ==
  /\ g \in [1..k -> Nat]
  /\ Total(g) = Score(part, query, d)
  /\ \A i \in 1..k : /\ g[i] <= BlockOfTerm(infos, order[i], s.from).bound
                     /\ d \notin DOMAIN BlockOfTerm(infos, order[i], s.from).docs => g[i] = 0

LEMMA InsideScore ==
  ASSUME scene \in Scenes, NEW c \in Calls, NEW p \in 1..PartsNb, NEW infos,
         InfosOf(infos, scene.parts[p], scene.query[c]),
         NEW s, s.from \in Nat, NEW to \in Nat, Reach(infos, scene.parts[p], s.from, to),
         NEW d \in (s.from..to) \cap DOMAIN scene.parts[p].lengths,
         NEW S, S = Inside(infos, s.from, to), NEW k, NEW order, Enumerates(order, k, S),
         NEW g, g = [i \in 1..k |-> Gives(infos[order[i]], s, scene.parts[p], d)]
  PROVE  Shared(infos, scene.parts[p], scene.query[c], s, d, order, k, g)
<1>0. /\ k \in Nat /\ order \in [1..k -> S]
      /\ \A i, j \in 1..k : order[i] = order[j] => i = j
      /\ \A x \in S : \E i \in 1..k : order[i] = x
  BY DEF Enumerates
<1> DEFINE part == scene.parts[p]
           query == scene.query[c]
           T == DOMAIN infos
           G == [t \in T |-> Gain(part, infos[t], d)]
           v == [t \in S |-> G[t]]
           bound(t) == BlockOfTerm(infos, t, s.from).bound
<1>1. IsPart(part) /\ IsFiniteSet(DOMAIN query) /\ \A t \in T : InfoOf(infos[t], part, query)
  BY SceneIs DEF InfosOf
<1>2. IsFiniteSet(T)
  <2>1. PICK m \in Nat : T = 1..m
    BY DEF InfosOf
  <2> HIDE DEF T
  <2>2. 1 \in Int /\ m \in Int
    OBVIOUS
  <2>3. IsFiniteSet(1..m)
    BY <2>2, FS_Interval
  <2> QED
    BY <2>1, <2>3
<1>3. S \in SUBSET T
  BY DEF Inside
<1>4. (\A t \in T : Gain(part, infos[t], d) \in Nat)
      /\ Score(part, query, d) = Total(G)
  BY ScoreIs
<1>5. \A t \in T : d \in DOMAIN List(part, infos[t]) =>
        /\ BlockAt(infos[t], s.from) # 0 /\ BlockOfTerm(infos, t, s.from).first <= to
        /\ d \in DOMAIN BlockOfTerm(infos, t, s.from).docs
  BY DEF Reach
<1>6. \A t \in S : BlockAt(infos[t], s.from) # 0
  BY DEF Inside
<1>7. \A t \in T : t \in S \/ BlockAt(infos[t], s.from) = 0
                   \/ ~(BlockOfTerm(infos, t, s.from).first <= to)
                   \/ ~(bound(t) > 0)
  BY DEF Inside
<1>8. d \in DOMAIN part.lengths
  OBVIOUS
<1> HIDE DEF part, query, T
<1>9. ASSUME NEW t \in T
      PROVE  /\ Gain(part, infos[t], d) \in Nat
             /\ BlockAt(infos[t], s.from) = 0 => Gain(part, infos[t], d) = 0
             /\ BlockAt(infos[t], s.from) # 0 =>
                  /\ bound(t) \in Nat
                  /\ Gives(infos[t], s, part, d) = Gain(part, infos[t], d)
                  /\ Gain(part, infos[t], d) <= bound(t)
                  /\ d \notin DOMAIN BlockOfTerm(infos, t, s.from).docs => Gain(part, infos[t], d) = 0
  <2>1. InfoOf(infos[t], part, query)
    BY <1>1
  <2>2. d \in DOMAIN List(part, infos[t]) =>
           BlockAt(infos[t], s.from) # 0 /\ d \in DOMAIN BlockOfTerm(infos, t, s.from).docs
    BY <1>5
  <2> QED
    BY <2>1, <2>2, <1>1, <1>8, GivesIs
<1>10. \A t \in T : G[t] = Gain(part, infos[t], d)
  OBVIOUS
<1>11. G \in [T -> Nat]
  BY <1>4
<1> HIDE DEF G, bound
<1>12. ASSUME NEW t \in T \ S PROVE G[t] = 0
  <2>1. CASE BlockAt(infos[t], s.from) = 0
    BY <2>1, <1>9, <1>10
  <2>2. CASE BlockAt(infos[t], s.from) # 0 /\ ~(bound(t) > 0)
    <3>1. G[t] \in Nat /\ bound(t) \in Nat /\ G[t] <= bound(t)
      BY <2>2, <1>9, <1>10
    <3> QED
      BY <3>1, <2>2
  <2>3. CASE ~(BlockOfTerm(infos, t, s.from).first <= to)
    <3>1. d \notin DOMAIN List(part, infos[t])
      BY <2>3, <1>5
    <3> QED
      BY <3>1, <1>10 DEF Gain
  <2> QED
    BY <2>1, <2>2, <2>3, <1>7
<1>13. Total(G) = SumOn(G, S) + SumOn(G, T \ S)
  BY <1>2, <1>3, <1>11, SumSplit
<1>14. SumOn(G, T \ S) = 0
  <2> DEFINE h == [x \in T \ S |-> G[x]]
  <2>1. h \in [T \ S -> Nat] /\ \A x \in T \ S : h[x] = 0
    BY <1>11, <1>12
  <2>2. IsFiniteSet(T \ S)
    BY <1>2, LeftFinite
  <2>3. SumOn(G, T \ S) = Total(h)
    BY DEF SumOn
  <2> HIDE DEF h
  <2> QED
    BY <2>1, <2>2, <2>3, SumZero
<1>15. v \in [S -> Nat] /\ SumOn(G, S) = Total(v) /\ IsFiniteSet(S)
  BY <1>2, <1>3, <1>11, FS_Subset DEF SumOn
<1>16. \A i \in 1..k : order[i] \in S /\ order[i] \in T /\ v[order[i]] = G[order[i]]
  BY <1>0, <1>3
<1>17. \A i \in 1..k : g[i] = v[order[i]]
  <2> TAKE i \in 1..k
  <2>1. g[i] = Gives(infos[order[i]], s, part, d)
    BY DEF part
  <2> HIDE DEF v
  <2>2. Gives(infos[order[i]], s, part, d) = Gain(part, infos[order[i]], d)
    BY <1>6, <1>9, <1>16
  <2> QED
    BY <2>1, <2>2, <1>10, <1>16
<1> HIDE DEF v
<1>18. g = [i \in 1..k |-> v[order[i]]]
  BY <1>17
<1>19. Total([i \in 1..k |-> v[order[i]]]) = Total(v)
  <2> DEFINE K == 1..k
  <2>1. IsFiniteSet(K)
    <3>1. 1 \in Int /\ k \in Int
      BY <1>0
    <3> QED
      BY <3>1, FS_Interval
  <2>2. order \in [K -> S] /\ (\A i, j \in K : order[i] = order[j] => i = j)
        /\ \A x \in S : \E i \in K : order[i] = x
    BY <1>0
  <2> DEFINE u == [i \in K |-> v[order[i]]]
  <2> HIDE DEF K, v
  <2>4. v \in [S -> Nat] /\ IsFiniteSet(S)
    BY <1>15
  <2>5. u \in [K -> Nat] /\ \A i \in K : u[i] = v[order[i]]
    BY <2>2, <2>4
  <2> HIDE DEF u
  <2>6. Matched(order, K, S, u, v)
    BY <2>1, <2>2, <2>4, <2>5 DEF Matched
  <2>3. Total(u) = Total(v)
    BY <2>6, SumBijection
  <2> QED
    BY <2>3 DEF K, u
<1>20. Total(v) \in Nat
  <2>1. v \in [S -> Nat] /\ IsFiniteSet(S)
    BY <1>15
  <2> QED
    BY <2>1, TotalNat
<1>21. Total(g) = Score(part, query, d)
  <2>1. Total(g) = Total(v)
    BY <1>18, <1>19, Zenon
  <2>2. SumOn(G, S) = Total(v) /\ SumOn(G, T \ S) = 0 /\ Score(part, query, d) = Total(G)
    BY <1>4, <1>14, <1>15
  <2> QED
    BY <2>1, <2>2, <1>13, <1>20
<1>22. g \in [1..k -> Nat]
  BY <1>0, <1>15, <1>18
<1>23. ASSUME NEW i \in 1..k
       PROVE  /\ g[i] <= BlockOfTerm(infos, order[i], s.from).bound
              /\ d \notin DOMAIN BlockOfTerm(infos, order[i], s.from).docs => g[i] = 0
  <2>1. g[i] = Gain(part, infos[order[i]], d) /\ order[i] \in T /\ order[i] \in S
    BY <1>10, <1>16, <1>17
  <2> QED
    BY <2>1, <1>6, <1>9 DEF bound
<1> QED
  BY <1>21, <1>22, <1>23 DEF part, query, Shared

\* Sums over the first places.
LEMMA FirstPlaces ==
  ASSUME NEW k \in Nat, NEW f \in [1..k -> Nat], NEW i \in 0..k
  PROVE  /\ IsFiniteSet(1..k) /\ 1..i \in SUBSET (1..k)
         /\ SumOn(f, 1..i) \in Nat
         /\ \A j \in 0..i : SumOn(f, 1..j) <= SumOn(f, 1..i)
         /\ (\A j \in 1..k : j > i => f[j] = 0) => Total(f) = SumOn(f, 1..i)
<1>1. IsFiniteSet(1..k)
  <2>1. 1 \in Int /\ k \in Int
    OBVIOUS
  <2> QED
    BY <2>1, FS_Interval
<1>2. \A j \in 0..i : 1..j \in SUBSET (1..i)
  OBVIOUS
<1>3. 1..i \in SUBSET (1..k)
  OBVIOUS
<1>4. \A j \in 1..k : j \notin 1..i => j > i
  OBVIOUS
<1> DEFINE K == 1..k
           I == 1..i
<1>5. f \in [K -> Nat] /\ IsFiniteSet(K) /\ I \in SUBSET K
  BY <1>1, <1>3
<1> HIDE DEF K
<1>6. ASSUME NEW j \in 0..i
      PROVE  SumOn(f, 1..j) <= SumOn(f, 1..i) /\ SumOn(f, 1..i) \in Nat
  <2> DEFINE J == 1..j
  <2>1. J \in SUBSET I
    BY <1>2
  <2> HIDE DEF I, J
  <2>2. SumOn(f, J) <= SumOn(f, I) /\ SumOn(f, I) \in Nat
    BY <2>1, <1>5, SumMore
  <2> QED
    BY <2>2 DEF I, J
<1>7. i \in 0..i
  OBVIOUS
<1>8. ASSUME \A j \in 1..k : j > i => f[j] = 0
      PROVE  Total(f) = SumOn(f, I)
  <2>1. \A j \in K \ I : f[j] = 0
    BY <1>4, <1>8 DEF K
  <2> HIDE DEF I
  <2>2. Total(f) = SumOn(f, I) + SumOn(f, K \ I)
    BY <1>5, SumSplit
  <2> DEFINE h == [x \in K \ I |-> f[x]]
             Q == K \ I
  <2>3. SumOn(f, Q) = Total(h) /\ h \in [Q -> Nat] /\ \A x \in Q : h[x] = 0
    BY <2>1, <1>5 DEF SumOn
  <2>4. IsFiniteSet(Q)
    BY <1>5, LeftFinite
  <2>5. SumOn(f, I) \in Nat
    BY <1>6, <1>7 DEF I
  <2> HIDE DEF h
  <2>6. SumOn(f, Q) = 0
    <3> HIDE DEF Q
    <3>1. Total(h) = 0
      BY <2>3, <2>4, SumZero
    <3> QED
      BY <3>1, <2>3
  <2> QED
    BY <2>2, <2>5, <2>6
<1> QED
  BY <1>1, <1>3, <1>6, <1>7, <1>8

LEMMA FirstBelow ==
  ASSUME NEW k \in Nat, NEW f \in [1..k -> Nat], NEW g \in [1..k -> Nat],
         \A j \in 1..k : f[j] <= g[j], NEW i \in 0..k
  PROVE  SumOn(f, 1..i) <= SumOn(g, 1..i)
<1> DEFINE I == 1..i
           u == [x \in I |-> f[x]]
           v == [x \in I |-> g[x]]
<1>1. IsFiniteSet(I)
  <2>1. 1 \in Int /\ i \in Int
    OBVIOUS
  <2> QED
    BY <2>1, FS_Interval
<1>2. u \in [I -> Nat] /\ v \in [I -> Nat] /\ \A x \in I : u[x] <= v[x]
  OBVIOUS
<1>3. SumOn(f, I) = Total(u) /\ SumOn(g, I) = Total(v)
  BY DEF SumOn
<1> HIDE DEF I, u, v
<1>4. Total(u) <= Total(v)
  BY <1>1, <1>2, SumBound
<1> QED
  BY <1>3, <1>4 DEF I

\* The bounds of a window's terms, added up.
LEMMA PrefixIs ==
  ASSUME NEW k \in Nat, NEW B \in [1..k -> Nat], NEW prefix, AddedUp(prefix, B, k)
  PROVE  /\ prefix \in [1..k -> Nat]
         /\ \A i \in 1..k : prefix[i] = SumOn(B, 1..i)
         /\ \A i, j \in 1..k : i <= j => prefix[i] <= prefix[j]
<1>1. \A i \in 1..k : prefix[i] = SumOn(B, 1..i)
  BY DEF SumOn, AddedUp
<1>2. \A i \in 1..k : SumOn(B, 1..i) \in Nat
  BY FirstPlaces
<1>3. \A i, j \in 1..k : i <= j => SumOn(B, 1..i) <= SumOn(B, 1..j)
  BY FirstPlaces
<1>4. prefix \in [1..k -> Nat]
  <2> DEFINE F(i) == Total([j \in 1..i |-> B[j]])
  <2>1. \A i \in 1..k : F(i) \in Nat
    BY <1>2 DEF SumOn
  <2>2. prefix = [i \in 1..k |-> F(i)]
    BY DEF AddedUp
  <2> HIDE DEF F
  <2> QED
    BY <2>1, <2>2
<1> QED
  BY <1>1, <1>3, <1>4

LEMMA BlockOfTermIs ==
  ASSUME NEW part, NEW query, NEW infos, NEW t, InfoOf(infos[t], part, query),
         NEW from \in Nat
  PROVE  ComesFirst(infos[t], List(part, infos[t]), part, from, BlockAt(infos[t], from))
<1> DEFINE info == infos[t]
           docs == List(part, info)
           b == BlockAt(info, from)
<1>1. IsDocs(docs) /\ Informs(info, docs, part)
  BY DEF InfoOf
<1>2. b = BlockAt(info, from)
  OBVIOUS
<1> HIDE DEF info, docs, b
<1>3. ComesFirst(info, docs, part, from, b)
  BY <1>1, <1>2, BlockAtIs
<1> QED
  BY <1>3 DEF info, docs, b

\* The terms inside a window, and their bounds.
LEMMA InsideIs ==
  ASSUME NEW part, NEW query, NEW infos, InfosOf(infos, part, query),
         NEW from \in Nat, NEW to, NEW S, S = Inside(infos, from, to)
  PROVE  /\ S \in SUBSET Nat /\ IsFiniteSet(S) /\ S \subseteq DOMAIN infos
         /\ \A t \in S : BlockOfTerm(infos, t, from).bound \in Nat
<1> DEFINE T == DOMAIN infos
<1>1. PICK m \in Nat : T = 1..m
  BY DEF InfosOf
<1>2. S \in SUBSET T /\ \A t \in S : BlockAt(infos[t], from) # 0
  BY DEF Inside
<1>3. \A t \in T : InfoOf(infos[t], part, query)
  BY DEF InfosOf
<1> HIDE DEF T
<1>4. IsFiniteSet(T)
  <2>1. 1 \in Int /\ m \in Int
    OBVIOUS
  <2>2. IsFiniteSet(1..m)
    BY <2>1, FS_Interval
  <2> QED
    BY <2>2, <1>1
<1>5. IsFiniteSet(S)
  BY <1>2, <1>4, FS_Subset
<1>6. S \in SUBSET Nat
  BY <1>1, <1>2
<1>7. ASSUME NEW t \in S PROVE BlockOfTerm(infos, t, from).bound \in Nat
  <2>1. InfoOf(infos[t], part, query) /\ BlockAt(infos[t], from) # 0
    BY <1>2, <1>3
  <2>2. ComesFirst(infos[t], List(part, infos[t]), part, from, BlockAt(infos[t], from))
    BY <2>1, BlockOfTermIs
  <2>3. InformsOf(BlockOfTerm(infos, t, from), infos[t], List(part, infos[t]), part)
    BY <2>1, <2>2 DEF ComesFirst, BlockOfTerm
  <2> QED
    BY <2>3 DEF InformsOf
<1> QED
  BY <1>2, <1>5, <1>6, <1>7 DEF T

\* A window is one by these fields alone.
LEMMA WindowSame ==
  ASSUME NEW infos, NEW part, NEW query, NEW s, WindowOf(infos, part, query, s),
         NEW r, r.from = s.from, r.theta = s.theta, r.to = s.to,
         r.order = s.order, r.prefix = s.prefix, r.essential = s.essential
  PROVE  WindowOf(infos, part, query, r)
<1>1. \A i, d : Gives(i, r, part, d) = Gives(i, s, part, d)
  BY DEF Gives
<1> QED
  BY <1>1 DEF WindowOf

\* A window, cut from a scan: it tells the score of each of its documents, and a document
\* left out of those to score has a score of 0, or less than the threshold.
IsCutFrom(w, infos, part, query, s, to) ==
  /\ IsScan(w) /\ SameScan(w, s) /\ w.to = to
  /\ WindowOf(infos, part, query, w)
  /\ IsFiniteSet(w.todo) /\ w.todo \subseteq s.from..to
  /\ \A d \in (s.from..to) \cap DOMAIN part.lengths : d \notin w.todo =>
       Score(part, query, d) = 0 \/ Score(part, query, d) < s.theta

LEMMA CutWindow ==
  ASSUME scene \in Scenes, NEW c \in Calls, NEW p \in 1..PartsNb, NEW infos,
         InfosOf(infos, scene.parts[p], scene.query[c]),
         NEW s, IsScan(s), s.from \in Nat, s.theta \in Nat,
         NEW to \in Nat, Reach(infos, scene.parts[p], s.from, to),
         NEW w, w = Cut(infos, s, to)
  PROVE  IsCutFrom(w, infos, scene.parts[p], scene.query[c], s, to)
<1> DEFINE part == scene.parts[p]
           query == scene.query[c]
           from == s.from
           S == Inside(infos, from, to)
           k == Cardinality(S)
           order == w.order
           Block(i) == BlockOfTerm(infos, order[i], from)
           B == Bounds(infos, w, k)
           g(d) == [i \in 1..k |-> Gives(infos[order[i]], s, part, d)]
           e == w.essential
           docs == (from..to) \cap DOMAIN part.lengths
<1>1. S \in SUBSET Nat /\ IsFiniteSet(S) /\ \A t \in S : BlockOfTerm(infos, t, from).bound \in Nat
  <2>1. InfosOf(infos, part, query) /\ from \in Nat /\ S = Inside(infos, from, to)
    OBVIOUS
  <2> HIDE DEF part, query, from, S
  <2> QED
    BY <2>1, InsideIs
<1>2. CutInto(infos, s, to, w, S, k)
  <2>1. /\ IsScan(s) /\ w = Cut(infos, s, to) /\ S = Inside(infos, s.from, to)
        /\ \A t \in S : BlockOfTerm(infos, t, s.from).bound \in Nat
    BY <1>1
  <2>2. S \in SUBSET Nat /\ IsFiniteSet(S)
    BY <1>1
  <2> HIDE DEF S
  <2> QED
    BY <2>1, <2>2, CutIs
<1>3. /\ IsScan(w) /\ SameScan(w, s) /\ w.to = to
      /\ Enumerates(order, k, S) /\ AddedUp(w.prefix, B, k)
      /\ e = Cardinality({i \in 1..k : w.prefix[i] < s.theta})
      /\ w.todo = UNION {DOMAIN Block(i).docs \cap from..to : i \in e + 1 .. k}
  BY <1>2 DEF CutInto
<1>4. k \in Nat /\ order \in [1..k -> S] /\ Len(order) = k
  BY <1>3 DEF Enumerates
<1>5. w.from = from /\ w.theta = s.theta
  BY <1>3 DEF SameScan
<1>6. B \in [1..k -> Nat] /\ \A i \in 1..k : B[i] = Block(i).bound
  <2>1. \A i \in 1..k : order[i] \in S
    BY <1>4
  <2>2. B = [i \in 1..k |-> Block(i).bound]
    BY <1>5 DEF Bounds
  <2> HIDE DEF B, k, S, order
  <2> QED
    BY <1>1, <2>1, <2>2
<1>7. /\ w.prefix \in [1..k -> Nat]
      /\ \A i \in 1..k : w.prefix[i] = SumOn(B, 1..i)
      /\ \A i, j \in 1..k : i <= j => w.prefix[i] <= w.prefix[j]
  <2> DEFINE prefix == w.prefix
  <2>1. k \in Nat /\ B \in [1..k -> Nat] /\ AddedUp(prefix, B, k)
    BY <1>3, <1>4, <1>6
  <2> HIDE DEF B, k, prefix
  <2>2. /\ prefix \in [1..k -> Nat]
        /\ \A i \in 1..k : prefix[i] = SumOn(B, 1..i)
        /\ \A i, j \in 1..k : i <= j => prefix[i] <= prefix[j]
    BY <2>1, PrefixIs
  <2> QED
    BY <2>2 DEF prefix
<1>8. e \in 0..k /\ \A i \in 1..e : w.prefix[i] < s.theta
  <2> DEFINE prefix == w.prefix
             h == s.theta
  <2>1. k \in Nat /\ prefix \in [1..k -> Nat] /\ h \in Nat
        /\ (\A i, j \in 1..k : i <= j => prefix[i] <= prefix[j])
        /\ e = Cardinality({i \in 1..k : prefix[i] < h})
    BY <1>3, <1>4, <1>7
  <2> HIDE DEF k, prefix, h, e
  <2>2. e \in 0..k /\ \A i \in 1..e : prefix[i] < h
    BY <2>1, FirstOnes
  <2> QED
    BY <2>2 DEF prefix, h
<1>9. ASSUME NEW d \in docs
      PROVE  /\ g(d) \in [1..k -> Nat]
             /\ Total(g(d)) = Score(part, query, d)
             /\ \A i \in 1..k : g(d)[i] <= B[i] /\ (d \notin DOMAIN Block(i).docs => g(d)[i] = 0)
  <2> DEFINE gd == g(d)
  <2>1. /\ gd = [i \in 1..k |-> Gives(infos[order[i]], s, scene.parts[p], d)]
        /\ S = Inside(infos, s.from, to) /\ Enumerates(order, k, S)
        /\ d \in (s.from..to) \cap DOMAIN scene.parts[p].lengths
    BY <1>3
  <2> HIDE DEF gd, order, S, k, part
  <2>2. Shared(infos, scene.parts[p], scene.query[c], s, d, order, k, gd)
    BY <2>1, InsideScore
  <2> QED
    BY <2>2, <1>6 DEF gd, part, Shared
<1>10. ASSUME NEW d \in docs, NEW i \in 1..k
      PROVE  g(d)[i] = Gives(infos[w.order[i]], w, part, d)
  BY <1>5, <1>10 DEF Gives
<1>11. ASSUME NEW d \in docs, NEW i \in 0..k
      PROVE  SumOn(g(d), 1..i) <= SumOn(B, 1..i) /\ SumOn(B, 1..i) \in Nat /\ SumOn(g(d), 1..i) \in Nat
  <2> DEFINE gd == g(d)
  <2>1. k \in Nat /\ gd \in [1..k -> Nat] /\ B \in [1..k -> Nat] /\ \A j \in 1..k : gd[j] <= B[j]
    BY <1>4, <1>6, <1>9
  <2> HIDE DEF gd, k, B
  <2>2. SumOn(gd, 1..i) <= SumOn(B, 1..i)
    BY <2>1, FirstBelow
  <2>3. SumOn(B, 1..i) \in Nat /\ SumOn(gd, 1..i) \in Nat
    BY <2>1, FirstPlaces
  <2> QED
    BY <2>2, <2>3 DEF gd
<1> HIDE DEF g, B, k, S
<1>12. WindowOf(infos, part, query, w)
  <2>1. ASSUME NEW d \in docs
        PROVE  \E f \in [1..Len(w.order) -> Nat] :
                 /\ \A i \in 1..Len(w.order) : f[i] = Gives(infos[w.order[i]], w, part, d)
                 /\ \A i \in 1..Len(w.order) : SumOn(f, 1..i) <= w.prefix[i]
                 /\ Total(f) = Score(part, query, d)
    <3>1. Len(w.order) = k /\ k \in Nat
      BY <1>4
    <3>2. g(d) \in [1..k -> Nat] /\ Total(g(d)) = Score(part, query, d)
      BY <1>9
    <3>3. \A i \in 1..k : g(d)[i] = Gives(infos[w.order[i]], w, part, d)
      BY <1>10
    <3>4. \A i \in 1..k : SumOn(g(d), 1..i) <= w.prefix[i]
      <4> TAKE i \in 1..k
      <4>1. i \in 0..k
        BY <3>1
      <4> QED
        BY <4>1, <1>7, <1>11
    <3> QED
      BY <3>1, <3>2, <3>3, <3>4
  <2>2. w.from..w.to = from..to
    BY <1>3, <1>5
  <2> HIDE DEF e, from
  <2>3. Len(w.order) = k /\ k \in Nat /\ e \in 0..k /\ w.prefix \in [1..k -> Nat]
        /\ \A i \in 1..e : w.prefix[i] < w.theta
    BY <1>4, <1>5, <1>7, <1>8
  <2> HIDE DEF part, query
  <2> QED
    BY <2>1, <2>2, <2>3 DEF WindowOf, e
<1>13. w.todo \subseteq from..to
  BY <1>3
<1>14. IsFiniteSet(w.todo)
  <2>1. from \in Int /\ to \in Int
    OBVIOUS
  <2> HIDE DEF from
  <2>2. IsFiniteSet(from..to)
    BY <2>1, FS_Interval
  <2> QED
    BY <2>2, <1>13, FS_Subset
<1>15. ASSUME NEW d \in docs, d \notin w.todo
       PROVE  Score(part, query, d) = 0 \/ Score(part, query, d) < s.theta
  <2> DEFINE gd == g(d)
  <2>1. \A i \in 1..k : i > e => gd[i] = 0
    <3> TAKE i \in 1..k
    <3> HAVE i > e
    <3>1. i \in e + 1 .. k
      BY <1>4, <1>8
    <3>2. d \in from..to
      OBVIOUS
    <3> DEFINE D(j) == DOMAIN Block(j).docs \cap from..to
    <3>4. w.todo = UNION {D(j) : j \in e + 1 .. k}
      BY <1>3
    <3> HIDE DEF D, e
    <3>5. d \notin D(i)
      BY <3>1, <3>4, <1>15
    <3>3. d \notin DOMAIN Block(i).docs
      BY <3>2, <3>5 DEF D
    <3> QED
      BY <3>3, <1>9
  <2>2. k \in Nat /\ gd \in [1..k -> Nat] /\ e \in 0..k /\ Total(gd) = Score(part, query, d)
    BY <1>4, <1>8, <1>9
  <2>3. SumOn(gd, 1..e) <= SumOn(B, 1..e) /\ SumOn(B, 1..e) \in Nat /\ SumOn(gd, 1..e) \in Nat
    BY <1>11, <2>2
  <2> HIDE DEF gd, e
  <2>4. Total(gd) = SumOn(gd, 1..e)
    <3>1. k \in Nat /\ gd \in [1..k -> Nat] /\ e \in 0..k
      BY <2>2
    <3>2. (\A j \in 1..k : j > e => gd[j] = 0) => Total(gd) = SumOn(gd, 1..e)
      BY ONLY <3>1, FirstPlaces
    <3> QED
      BY <2>1, <3>2
  <2>5. CASE e = 0
    <3>1. \A i \in 1..k : gd[i] = 0
      BY <2>1, <2>2, <2>5
    <3> DEFINE K == 1..k
    <3>2. IsFiniteSet(K)
      BY <2>2, FirstPlaces
    <3>3. gd \in [K -> Nat] /\ \A i \in K : gd[i] = 0
      BY <2>2, <3>1
    <3> HIDE DEF K
    <3>4. Total(gd) = 0
      BY <3>2, <3>3, SumZero
    <3> QED
      BY <3>4, <2>2
  <2>6. CASE e # 0
    <3>1. e \in 1..e /\ e \in 1..k
      BY <2>2, <2>6
    <3>2. SumOn(B, 1..e) = w.prefix[e] /\ w.prefix[e] < s.theta /\ w.prefix[e] \in Nat
      BY <3>1, <1>7, <1>8 DEF e
    <3> DEFINE x == SumOn(B, 1..e)
               y == SumOn(gd, 1..e)
    <3>3. x \in Nat /\ y \in Nat /\ y <= x /\ x < s.theta /\ Score(part, query, d) = y
      BY <3>2, <2>2, <2>3, <2>4
    <3> HIDE DEF x, y
    <3> QED
      BY <3>3
  <2> QED
    BY <2>5, <2>6
<1> QED
  BY <1>3, <1>12, <1>13, <1>14, <1>15 DEF IsCutFrom

\* A document of a window, completed: its score, or 0 when it is below the threshold.
LEMMA CompletedScore ==
  ASSUME NEW infos, NEW part, NEW query, NEW s, WindowOf(infos, part, query, s), s.theta \in Nat,
         NEW d \in (s.from..s.to) \cap DOMAIN part.lengths
  PROVE  \/ Completed(infos, s, part, d) = Score(part, query, d)
         \/ Completed(infos, s, part, d) = 0 /\ Score(part, query, d) < s.theta
<1> DEFINE m == Len(s.order)
<1>1. /\ m \in Nat /\ s.essential \in 0..m /\ s.prefix \in [1..m -> Nat]
      /\ \A i \in 1..s.essential : s.prefix[i] < s.theta
  BY DEF WindowOf
<1>2. PICK g \in [1..m -> Nat] :
        /\ \A i \in 1..m : g[i] = Gives(infos[s.order[i]], s, part, d)
        /\ \A i \in 1..m : SumOn(g, 1..i) <= s.prefix[i]
        /\ Total(g) = Score(part, query, d)
  BY DEF WindowOf
<1>3. m = Len(s.order)
  OBVIOUS
<1> HIDE DEF m
<1>4. m \in Nat /\ Len(s.order) = m /\ s.essential \in 0..m /\ s.theta \in Nat
  BY <1>1, <1>3
<1>5. s.prefix \in [1..m -> Nat] /\ g \in [1..m -> Nat]
  BY <1>1
<1>6. \A i \in 1..m : g[i] = Gives(infos[s.order[i]], s, part, d)
  BY <1>2
<1>7. \A i \in 1..m : SumOn(g, 1..i) <= s.prefix[i]
  BY <1>2
<1>8. \A i \in 1..s.essential : s.prefix[i] < s.theta
  BY <1>1
<1>9. \/ Completed(infos, s, part, d) = Total(g)
      \/ Completed(infos, s, part, d) = 0 /\ Total(g) < s.theta
  <2>1. Tells(infos, s, part, d, m, g)
    BY <1>4, <1>5, <1>6, <1>7, <1>8 DEF Tells
  <2> QED
    BY <2>1, CompletedIs
<1> QED
  BY <1>2, <1>9

\* No term has a block left: no document from there on has a score.
LEMMA NoneLeft ==
  ASSUME scene \in Scenes, NEW c \in Calls, NEW p \in 1..PartsNb, NEW infos,
         InfosOf(infos, scene.parts[p], scene.query[c]),
         NEW from \in Nat, \A t \in DOMAIN infos : BlockAt(infos[t], from) = 0,
         NEW d \in DOMAIN scene.parts[p].lengths, d >= from
  PROVE  Score(scene.parts[p], scene.query[c], d) = 0
<1> DEFINE part == scene.parts[p]
           query == scene.query[c]
           T == DOMAIN infos
           G == [t \in T |-> Gain(part, infos[t], d)]
<1>1. Score(part, query, d) = Total(G)
  BY ScoreIs
<1>2. d \in Nat
  BY SceneIs DEF IsPart
<1>3. ASSUME NEW t \in T PROVE Gain(part, infos[t], d) = 0
  <2>1. InfoOf(infos[t], part, query)
    BY DEF InfosOf
  <2>2. ComesFirst(infos[t], List(part, infos[t]), part, from, BlockAt(infos[t], from))
    BY <2>1, BlockOfTermIs
  <2>3. \A e \in DOMAIN List(part, infos[t]) : e < from
    BY <2>2 DEF ComesFirst
  <2>4. d \notin DOMAIN List(part, infos[t])
    BY <2>3, <1>2
  <2> QED
    BY <2>4 DEF Gain
<1>4. IsFiniteSet(T)
  <2>1. PICK m \in Nat : T = 1..m
    BY DEF InfosOf
  <2> HIDE DEF T
  <2>2. 1 \in Int /\ m \in Int
    OBVIOUS
  <2>3. IsFiniteSet(1..m)
    BY <2>2, FS_Interval
  <2> QED
    BY <2>1, <2>3
<1>5. G \in [T -> Nat] /\ \A t \in T : G[t] = 0
  BY <1>3
<1> HIDE DEF T, G
<1>6. Total(G) = 0
  BY <1>4, <1>5, SumZero
<1> QED
  BY <1>1, <1>6

\* A window w that goes on from s.
AheadOf(infos, part, query, s, w) ==
  /\ IsScan(w) /\ SameScan(w, s) /\ w.to \in s.from..s.hi
  /\ WindowOf(infos, part, query, w)
  /\ IsFiniteSet(w.todo) /\ w.todo \subseteq s.from..w.to
  /\ \A d \in (s.from..w.to) \cap DOMAIN part.lengths : d \notin w.todo =>
       Score(part, query, d) = 0 \/ Score(part, query, d) < s.theta

\* Every term has at most one block in the window.
LEMMA WindowIs ==
  ASSUME scene \in Scenes, NEW c \in Calls, NEW p \in 1..PartsNb, NEW infos,
         InfosOf(infos, scene.parts[p], scene.query[c]),
         NEW s, IsScan(s), s.from \in Nat, s.theta \in Nat, s.hi \in Nat, s.from <= s.hi,
         NEW w, w = Window(infos, s)
  PROVE  AheadOf(infos, scene.parts[p], scene.query[c], s, w)
<1> DEFINE part == scene.parts[p]
           query == scene.query[c]
           from == s.from
           T == DOMAIN infos
           b(t) == BlockAt(infos[t], from)
           live == {t \in T : b(t) # 0}
           Block(t) == infos[t].blocks[b(t)]
           End(t) == IF Block(t).first > from THEN Block(t).first - 1 ELSE Block(t).last
           Ends == {s.hi} \cup {End(t) : t \in live}
           to == Min(Ends)
<1>1. w = Cut(infos, s, to)
  <2>1. w = With(to, LAMBDA x : Cut(infos, s, x))
    BY DEF Window
  <2> HIDE DEF to
  <2> QED
    BY <2>1 DEF With
<1>2. ASSUME NEW t \in T
      PROVE  ComesFirst(infos[t], List(part, infos[t]), part, from, b(t))
  <2>1. InfoOf(infos[t], part, query) /\ from \in Nat
    BY DEF InfosOf
  <2> HIDE DEF from, part, query
  <2> QED
    BY <2>1, BlockOfTermIs
<1>3. ASSUME NEW t \in live
      PROVE  /\ Block(t).first \in Nat /\ Block(t).last \in Nat /\ Block(t).last >= from
             /\ End(t) \in Nat /\ End(t) >= from
  <2>1. Block(t).first \in Nat /\ Block(t).last \in Nat /\ Block(t).last >= from
    BY <1>2, <1>3 DEF ComesFirst
  <2> HIDE DEF Block
  <2> QED
    BY <2>1
<1>4. IsFiniteSet(live)
  <2>1. PICK m \in Nat : T = 1..m
    BY DEF InfosOf
  <2>4. live \subseteq T
    OBVIOUS
  <2> HIDE DEF T, live
  <2>2. 1 \in Int /\ m \in Int
    OBVIOUS
  <2>3. IsFiniteSet(1..m)
    BY <2>2, FS_Interval
  <2> QED
    BY <2>1, <2>3, <2>4, FS_Subset
<1> HIDE DEF End, live
<1>5. IsFiniteSet(Ends)
  <2>1. IsFiniteSet({End(t) : t \in live})
    <3> DEFINE f == [t \in live |-> End(t)]
               R == {f[t] : t \in DOMAIN f}
    <3>1. DOMAIN f = live /\ R = {End(t) : t \in live}
      OBVIOUS
    <3>2. R = {f[t] : t \in DOMAIN f}
      OBVIOUS
    <3> HIDE DEF f, R
    <3>3. IsFiniteSet(R)
      BY <3>1, <3>2, <1>4, ImageFinite
    <3> QED
      BY <3>1, <3>3
  <2>2. IsFiniteSet({s.hi})
    BY FS_Singleton
  <2> QED
    BY <2>1, <2>2, FS_Union
<1>6. Ends \in SUBSET Nat /\ Ends # {} /\ (\A x \in Ends : x >= from) /\ s.hi \in Ends
      /\ \A t \in live : End(t) \in Ends
  BY <1>3
<1> HIDE DEF Ends
<1>7. to \in Ends /\ \A x \in Ends : to <= x
  BY <1>5, <1>6, ExtremesAre
<1> HIDE DEF to
<1>8. to \in Nat /\ to \in from..s.hi
  <2>1. to \in Nat /\ to >= from /\ to <= s.hi
    BY <1>6, <1>7
  <2>2. from \in Nat /\ s.hi \in Nat
    OBVIOUS
  <2> HIDE DEF from
  <2> QED
    BY <2>1, <2>2
<1>9. Reach(infos, part, from, to)
  <2> SUFFICES ASSUME NEW t \in T, NEW d \in from..to, d \in DOMAIN List(part, infos[t])
               PROVE  /\ b(t) # 0 /\ BlockOfTerm(infos, t, from).first <= to
                      /\ d \in DOMAIN BlockOfTerm(infos, t, from).docs
    BY DEF Reach
  <2>1. d \in Nat /\ from <= d /\ d <= to
    BY <1>8
  <2>2. b(t) # 0
    BY <2>1, <1>2 DEF ComesFirst
  <2>3. t \in live
    BY <2>2 DEF live
  <2>4. to <= End(t) /\ End(t) \in Nat
    BY <2>3, <1>3, <1>6, <1>7
  <2>5. Block(t).first <= d /\ (d <= Block(t).last => d \in DOMAIN Block(t).docs)
    BY <2>1, <2>2, <1>2 DEF ComesFirst
  <2>6. Block(t).first \in Nat /\ Block(t).last \in Nat
    BY <2>3, <1>3
  <2>7. Block(t) = BlockOfTerm(infos, t, from)
    BY DEF BlockOfTerm
  <2> HIDE DEF Block, b
  <2>8. d <= Block(t).last
    BY <2>1, <2>4, <2>5, <2>6, <1>8 DEF End
  <2>9. Block(t).first <= to
    BY <2>1, <2>5, <2>6, <1>8
  <2> QED
    BY <2>2, <2>5, <2>7, <2>8, <2>9
<1>10. /\ IsScan(w) /\ SameScan(w, s) /\ w.to = to
       /\ WindowOf(infos, scene.parts[p], scene.query[c], w)
       /\ IsFiniteSet(w.todo) /\ w.todo \subseteq s.from..to
       /\ \A d \in (s.from..to) \cap DOMAIN scene.parts[p].lengths : d \notin w.todo =>
            \/ Score(scene.parts[p], scene.query[c], d) = 0
            \/ Score(scene.parts[p], scene.query[c], d) < s.theta
  <2>1. IsCutFrom(w, infos, part, query, s, to)
    BY <1>1, <1>8, <1>9, CutWindow
  <2> QED
    BY <2>1 DEF IsCutFrom
<1> QED
  BY <1>8, <1>10 DEF AheadOf

-----------------------------------------------------------------------------
(* What is wanted, and what may be left out. *)

\* The documents of a segment with a score, and those of the index.
Exact(c, p) ==
  {[doc |-> d, score |-> Score(scene.parts[p], scene.query[c], d)] :
     d \in {d \in DOMAIN scene.parts[p].lengths \ scene.parts[p].deleted :
              Score(scene.parts[p], scene.query[c], d) > 0}}
All(c) == UNION {Exact(c, p) : p \in 1..PartsNb}

LEMMA ExactIs ==
  ASSUME scene \in Scenes, NEW c \in Calls, NEW p \in 1..PartsNb
  PROVE  /\ Exact(c, p) \in SUBSET Records /\ IsFiniteSet(Exact(c, p))
         /\ \A x \in Exact(c, p) :
              /\ x.doc \in DOMAIN scene.parts[p].lengths \ scene.parts[p].deleted
              /\ x.score = Score(scene.parts[p], scene.query[c], x.doc) /\ x.score > 0
              /\ x = [doc |-> x.doc, score |-> x.score]
         /\ \A d \in DOMAIN scene.parts[p].lengths \ scene.parts[p].deleted :
              Score(scene.parts[p], scene.query[c], d) > 0 =>
                [doc |-> d, score |-> Score(scene.parts[p], scene.query[c], d)] \in Exact(c, p)
<1> DEFINE part == scene.parts[p]
           S(d) == Score(part, scene.query[c], d)
           L == {d \in DOMAIN part.lengths \ part.deleted : S(d) > 0}
           f == [d \in L |-> [doc |-> d, score |-> S(d)]]
           E == Exact(c, p)
<1>1. IsPart(part)
  BY SceneIs
<1>2. \A d \in L : d \in Nat /\ S(d) \in Nat
  <2>1. \A d \in DOMAIN part.lengths : S(d) \in Nat
    BY ScoreNat
  <2> QED
    BY <2>1, <1>1 DEF IsPart
<1>3. IsFiniteSet(L)
  <2>1. L \in SUBSET DOMAIN part.lengths
    OBVIOUS
  <2>2. IsFiniteSet(DOMAIN part.lengths)
    BY <1>1 DEF IsPart
  <2> HIDE DEF L, part
  <2> QED
    BY <2>1, <2>2, FS_Subset
<1>4. E = {[doc |-> d, score |-> S(d)] : d \in L}
  BY DEF Exact
<1>5. E = {f[d] : d \in DOMAIN f} /\ DOMAIN f = L
  BY <1>4
<1>6. \A d \in L : /\ d \in DOMAIN part.lengths \ part.deleted /\ S(d) > 0
  OBVIOUS
<1>7. \A d \in DOMAIN part.lengths \ part.deleted : S(d) > 0 => d \in L
  OBVIOUS
<1> HIDE DEF f, L, S, E
<1>8. IsFiniteSet(E)
  BY <1>3, <1>5, ImageFinite
<1>9. E \in SUBSET Records
  BY <1>2, <1>4 DEF Records
<1>10. ASSUME NEW x \in E
       PROVE  /\ x.doc \in DOMAIN part.lengths \ part.deleted
              /\ x.score = S(x.doc) /\ x.score > 0
              /\ x = [doc |-> x.doc, score |-> x.score]
  <2>1. PICK d \in L : x = [doc |-> d, score |-> S(d)]
    BY <1>4
  <2>2. x.doc = d /\ x.score = S(d)
    BY <2>1
  <2> QED
    BY <2>1, <2>2, <1>6
<1>11. ASSUME NEW d \in DOMAIN part.lengths \ part.deleted, S(d) > 0
       PROVE  [doc |-> d, score |-> S(d)] \in E
  BY <1>4, <1>7, <1>11
<1> QED
  BY <1>8, <1>9, <1>10, <1>11 DEF E, S, part

LEMMA AllIs ==
  ASSUME scene \in Scenes, NEW c \in Calls
  PROVE  /\ All(c) \in SUBSET Records /\ IsFiniteSet(All(c))
         /\ \A p \in 1..PartsNb : Exact(c, p) \subseteq All(c)
<1> DEFINE P == 1..PartsNb
           f == [p \in P |-> Exact(c, p)]
           F == {f[p] : p \in DOMAIN f}
<1>1. \A p \in P : Exact(c, p) \in SUBSET Records /\ IsFiniteSet(Exact(c, p))
  BY ExactIs
<1>2. IsFiniteSet(P)
  BY SceneIs
<1>3. DOMAIN f = P /\ F = {f[p] : p \in DOMAIN f} /\ \A p \in P : f[p] = Exact(c, p)
  OBVIOUS
<1>4. All(c) = UNION F
  BY DEF All
<1> HIDE DEF P, f, F
<1>5. IsFiniteSet(F)
  BY <1>2, <1>3, ImageFinite
<1>6. \A T \in F : IsFiniteSet(T) /\ T \in SUBSET Records
  BY <1>1, <1>3
<1>7. IsFiniteSet(UNION F)
  BY <1>5, <1>6, FS_UNION
<1>8. \A p \in P : Exact(c, p) \in F
  BY <1>3
<1> QED
  BY <1>4, <1>6, <1>7, <1>8 DEF P

\* A document below an attained threshold is not among the best.
LEMMA BelowOutdone ==
  ASSUME NEW D \in SUBSET Records, NEW k \in Int, NEW h \in Nat, Attained(D, k, h),
         NEW x \in Records, x.score < h
  PROVE  Outdone(D, k, x)
<1>1. x.score \in Nat
  BY DEF Records
<1>2. h > 0
  BY <1>1
<1>3. PICK K \in SUBSET D : Cardinality(K) = k /\ \A y \in K : y.score >= h
  BY <1>2 DEF Attained
<1>4. k > 0
  BY <1>2 DEF Attained
<1>5. ASSUME NEW y \in K PROVE Better(y, x)
  <2>1. y \in Records
    BY <1>3
  <2>2. y.score \in Nat /\ y.score >= h
    BY <2>1, <1>3 DEF Records
  <2> QED
    BY <2>2, <1>1 DEF Better
<1> QED
  BY <1>3, <1>4, <1>5 DEF Outdone

LEMMA AttainedMore ==
  ASSUME NEW D, NEW E \in SUBSET D, NEW k, NEW h, Attained(E, k, h)
  PROVE  Attained(D, k, h)
  BY DEF Attained

LEMMA OutdoneMore ==
  ASSUME NEW D, NEW E \in SUBSET D, NEW k, NEW x, Outdone(E, k, x)
  PROVE  Outdone(D, k, x)
  BY DEF Outdone

LEMMA HigherAttained ==
  ASSUME NEW D, NEW k, NEW a \in Nat, Attained(D, k, a), NEW b \in Nat, Attained(D, k, b),
         NEW m, m = Max({a, b})
  PROVE  m \in Nat /\ m >= a /\ m >= b /\ Attained(D, k, m)
<1> DEFINE S == {a, b}
<1>1. S \in SUBSET Nat /\ S # {} /\ a \in S /\ b \in S
  OBVIOUS
<1>2. IsFiniteSet(S)
  <2>1. IsFiniteSet({a}) /\ IsFiniteSet({b}) /\ S = {a} \cup {b}
    BY FS_Singleton
  <2> HIDE DEF S
  <2>2. IsFiniteSet({a} \cup {b})
    BY <2>1, FS_Union
  <2> QED
    BY <2>1, <2>2
<1>3. \A x \in S : x = a \/ x = b
  OBVIOUS
<1>4. m = Max(S)
  OBVIOUS
<1> HIDE DEF S
<1>5. m \in S /\ \A y \in S : m >= y
  <2>1. Max(S) \in S /\ \A y \in S : Max(S) >= y
    BY <1>1, <1>2, ExtremesAre
  <2> QED
    BY <2>1, <1>4
<1> QED
  BY <1>1, <1>3, <1>5

-----------------------------------------------------------------------------
(* Slices. *)

LEMMA MinOfTwo ==
  ASSUME NEW a \in Nat, NEW b \in Nat, NEW m, m = Min({a, b})
  PROVE  m = IF a <= b THEN a ELSE b
<1> DEFINE S == {a, b}
<1>1. S \in SUBSET Nat /\ S # {} /\ a \in S /\ b \in S
  OBVIOUS
<1>2. IsFiniteSet(S)
  <2>1. IsFiniteSet({a}) /\ IsFiniteSet({b}) /\ S = {a} \cup {b}
    BY FS_Singleton
  <2> HIDE DEF S
  <2>2. IsFiniteSet({a} \cup {b})
    BY <2>1, FS_Union
  <2> QED
    BY <2>1, <2>2
<1>3. \A x \in S : x = a \/ x = b
  OBVIOUS
<1>4. m = Min(S)
  OBVIOUS
<1> HIDE DEF S
<1>5. m \in S /\ \A y \in S : m <= y
  <2>1. Min(S) \in S /\ \A y \in S : Min(S) <= y
    BY <1>1, <1>2, ExtremesAre
  <2> QED
    BY <2>1, <1>4
<1> QED
  BY <1>1, <1>3, <1>5

\* The slices of a range of ids, none of them empty, hold all of them.
LEMMA SlicesCover ==
  ASSUME NEW first \in Nat, NEW last \in Nat, first <= last,
         NEW k \in Nat \ {0}, k <= last - first + 1
  PROVE  /\ \A s \in 1..k : /\ SliceOf(first, last, k, s).lo \in Nat
                            /\ SliceOf(first, last, k, s).hi \in Nat
                            /\ SliceOf(first, last, k, s).lo <= SliceOf(first, last, k, s).hi
         /\ \A d \in first..last : \E s \in 1..k :
              SliceOf(first, last, k, s).lo <= d /\ d <= SliceOf(first, last, k, s).hi
<1> DEFINE span == last - first
           q == span \div k
           r == span % k
           low(n) == Min({n, r})
           begins(n) == first + n * q + low(n)
<1>1. span \in Nat /\ k \in Nat /\ k > 0
  OBVIOUS
<1>2. q \in 0..span
  <2> HIDE DEF span
  <2> QED
    BY <1>1, PartOfANumber
<1>3. q \in Nat
  BY <1>1, <1>2
<1>4. span = k * q + r /\ r \in Nat /\ r < k
  <2> HIDE DEF span
  <2> QED
    BY <1>1
<1>5. \A n \in Nat : low(n) = IF n <= r THEN n ELSE r
  BY <1>4, MinOfTwo
<1>6. \A s \in 1..k : /\ SliceOf(first, last, k, s).lo = begins(s - 1)
                      /\ SliceOf(first, last, k, s).hi = IF s = k THEN last ELSE begins(s) - 1
  BY DEF SliceOf
<1>7. last = first + span
  OBVIOUS
<1> HIDE DEF span, q, r, low
<1>8. \A n \in Nat : n * q \in Nat /\ low(n) \in Nat /\ begins(n) \in Nat
  <2> TAKE n \in Nat
  <2>1. n * q \in Nat
    BY <1>3
  <2>2. low(n) \in Nat
    BY <1>4, <1>5
  <2> QED
    BY <2>1, <2>2
<1>9. ASSUME NEW n \in Nat, n + 1 < k
      PROVE  begins(n) < begins(n + 1)
  <2>1. (n + 1) * q = n * q + q
    BY <1>3
  <2>2. n * q \in Nat /\ n + 1 \in Nat
    BY <1>8
  <2>3. low(n) = (IF n <= r THEN n ELSE r) /\ low(n + 1) = IF n + 1 <= r THEN n + 1 ELSE r
    BY <1>5, <2>2
  <2>4. low(n) <= low(n + 1) /\ low(n) \in Nat /\ low(n + 1) \in Nat
    BY <2>3, <1>4
  <2>5. CASE q # 0
    <3> DEFINE a == n * q
               b == (n + 1) * q
    <3>1. a \in Nat /\ b = a + q
      BY <2>1, <2>2
    <3> HIDE DEF a, b
    <3>2. first + a + low(n) < first + b + low(n + 1)
      BY <3>1, <2>4, <2>5, <1>3
    <3> QED
      BY <3>2 DEF a, b
  <2>6. CASE q = 0
    <3>1. k * q = 0 /\ n * q = 0 /\ (n + 1) * q = 0
      BY <2>6
    <3>2. r = span
      BY <3>1, <1>1, <1>4
    <3>3. n + 1 <= r
      BY <3>2, <1>1, <1>7, <1>9
    <3>4. low(n) = n /\ low(n + 1) = n + 1
      BY <3>3, <2>3, <1>4
    <3> QED
      BY <3>1, <3>4
  <2> QED
    BY <2>5, <2>6
<1>10. begins(k - 1) <= last /\ begins(0) = first
  <2>1. k - 1 \in Nat /\ (k - 1) * q = k * q - q /\ k * q \in Nat /\ 0 * q = 0
    BY <1>3
  <2>2. low(k - 1) = r
    BY <2>1, <1>4, <1>5
  <2>3. low(0) = 0
    BY <1>4, <1>5
  <2> DEFINE a == k * q
             b == (k - 1) * q
             z == 0 * q
  <2>4. a \in Nat /\ b = a - q /\ span = a + r /\ z = 0
    BY <2>1, <1>4
  <2> HIDE DEF a, b, z
  <2>5. first + b + r <= last /\ first + z + 0 = first
    BY <2>4, <1>3, <1>4, <1>7
  <2> QED
    BY <2>2, <2>3, <2>5 DEF a, b, z
<1>11. ASSUME NEW s \in 1..k
       PROVE  /\ SliceOf(first, last, k, s).lo \in Nat
              /\ SliceOf(first, last, k, s).hi \in Nat
              /\ SliceOf(first, last, k, s).lo <= SliceOf(first, last, k, s).hi
  <2>1. s - 1 \in Nat /\ s \in Nat
    OBVIOUS
  <2>2. begins(s - 1) \in Nat /\ begins(s) \in Nat
    BY <2>1, <1>8
  <2>3. CASE s = k
    BY <2>2, <2>3, <1>6, <1>10
  <2>4. CASE s # k
    <3>1. s - 1 + 1 < k /\ s - 1 + 1 = s
      BY <2>4
    <3>2. begins(s - 1) < begins(s)
      BY <3>1, <2>1, <1>9
    <3> HIDE DEF begins
    <3>3. begins(s) - 1 \in Nat /\ begins(s - 1) <= begins(s) - 1
      BY <3>2, <2>2
    <3> QED
      BY <3>3, <2>2, <2>4, <1>6
  <2> QED
    BY <2>3, <2>4
<1>12. ASSUME NEW d \in first..last
       PROVE  \E s \in 1..k : SliceOf(first, last, k, s).lo <= d /\ d <= SliceOf(first, last, k, s).hi
  <2> DEFINE S == {s \in 1..k : begins(s - 1) <= d}
             m == Max(S)
  <2>1. S \in SUBSET Nat
    OBVIOUS
  <2>2. IsFiniteSet(S)
    <3>1. 1 \in Int /\ k \in Int
      OBVIOUS
    <3>2. IsFiniteSet(1..k)
      BY <3>1, FS_Interval
    <3>3. S \in SUBSET (1..k)
      OBVIOUS
    <3> HIDE DEF S
    <3> QED
      BY <3>2, <3>3, FS_Subset
  <2>3. 1 \in S
    <3>1. 1 \in 1..k /\ 1 - 1 = 0
      OBVIOUS
    <3>2. begins(0) <= d
      BY <1>10
    <3> HIDE DEF begins
    <3> QED
      BY <3>1, <3>2
  <2>4. \A s \in S : s \in 1..k /\ begins(s - 1) <= d
    OBVIOUS
  <2>5. \A s \in 1..k : s \in S \/ ~(begins(s - 1) <= d)
    OBVIOUS
  <2> HIDE DEF S
  <2>6. Max(S) \in S /\ \A y \in S : Max(S) >= y
    BY <2>1, <2>2, <2>3, ExtremesAre
  <2>7. m \in S /\ m \in 1..k /\ (\A y \in S : m >= y) /\ begins(m - 1) <= d
    BY <2>4, <2>6
  <2> HIDE DEF m, begins
  <2>8. CASE m = k
    BY <2>7, <2>8, <1>6
  <2>9. CASE m # k
    <3>1. m + 1 \in 1..k /\ m + 1 - 1 = m /\ m \in Nat /\ ~(m >= m + 1)
      BY <2>7, <2>9
    <3>2. ~(begins(m) <= d)
      BY <3>1, <2>5, <2>7
    <3>3. begins(m) \in Nat /\ d \in Nat
      BY <3>1, <1>8
    <3>4. d <= begins(m) - 1
      BY <3>2, <3>3
    <3> QED
      BY <3>4, <2>7, <2>9, <1>6
  <2> QED
    BY <2>8, <2>9
<1> QED
  BY <1>11, <1>12

\* The first and the last document of a term.
LEMMA EndsOfTerm ==
  ASSUME NEW part, NEW query, NEW info, InfoOf(info, part, query)
  PROVE  /\ info.blocks[1].first \in Nat /\ Last(info.blocks).last \in Nat
         /\ info.blocks[1].first <= Last(info.blocks).last
         /\ \A d \in DOMAIN List(part, info) :
              info.blocks[1].first <= d /\ d <= Last(info.blocks).last
<1> DEFINE blocks == info.blocks
           docs == List(part, info)
           cut == [b \in DOMAIN blocks |-> blocks[b].docs]
<1>1. IsDocs(docs) /\ Informs(info, docs, part)
  BY DEF InfoOf
<1>2. /\ IsCut(cut, docs) /\ blocks = [b \in DOMAIN blocks |-> blocks[b]]
      /\ \A b \in DOMAIN blocks : InformsOf(blocks[b], info, docs, part)
  BY <1>1 DEF Informs
<1>3. DOMAIN cut = DOMAIN blocks /\ \A b \in DOMAIN blocks : cut[b] = blocks[b].docs
  OBVIOUS
<1> HIDE DEF cut, blocks, docs
<1>4. PICK n \in Nat \ {0} : DOMAIN blocks = 1..n
  BY <1>2, <1>3 DEF IsCut
<1>5. Len(blocks) = n
  BY <1>2, <1>4
<1>6. Last(blocks) = blocks[n]
  BY <1>5 DEF Last
<1>7. 1 \in 1..n /\ n \in 1..n
  OBVIOUS
<1>8. \A b \in 1..n : /\ DOMAIN blocks[b].docs \subseteq DOMAIN docs
                      /\ blocks[b].first \in DOMAIN blocks[b].docs
                      /\ blocks[b].last \in DOMAIN blocks[b].docs
                      /\ \A d \in DOMAIN blocks[b].docs : blocks[b].first <= d /\ d <= blocks[b].last
  BY <1>2, <1>3, <1>4 DEF IsCut, InformsOf
<1>9. DOMAIN docs \subseteq Nat
  BY <1>1 DEF IsDocs
<1>10. \A b \in 1..n : blocks[b].first \in Nat /\ blocks[b].last \in Nat
  BY <1>8, <1>9
<1>11. \A a, b \in 1..n : a < b =>
         \A d \in DOMAIN blocks[a].docs, e \in DOMAIN blocks[b].docs : d < e
  <2>1. \A a, b \in 1..n : a < b => \A d \in DOMAIN cut[a], e \in DOMAIN cut[b] : d < e
    BY <1>2, <1>3, <1>4 DEF IsCut
  <2>2. \A a \in 1..n : cut[a] = blocks[a].docs
    BY <1>3, <1>4
  <2> SUFFICES ASSUME NEW a \in 1..n, NEW b \in 1..n, a < b,
                      NEW d \in DOMAIN blocks[a].docs, NEW e \in DOMAIN blocks[b].docs
               PROVE  d < e
    OBVIOUS
  <2>3. cut[a] = blocks[a].docs /\ cut[b] = blocks[b].docs
    BY <2>2
  <2> QED
    BY <2>1, <2>3
<1>12. ASSUME NEW d \in DOMAIN docs PROVE blocks[1].first <= d /\ d <= blocks[n].last
  <2>1. PICK b \in 1..n : d \in DOMAIN blocks[b].docs
    BY <1>2, <1>3, <1>4 DEF IsCut
  <2>2. blocks[b].first <= d /\ d <= blocks[b].last /\ d \in Nat
    BY <2>1, <1>8, <1>9
  <2>3. b = 1 \/ blocks[1].first < d
    <3>1. CASE 1 < b
      BY <3>1, <2>1, <1>7, <1>8, <1>11
    <3> QED
      BY <3>1
  <2>4. b = n \/ d < blocks[n].last
    <3>1. CASE b < n
      BY <3>1, <2>1, <1>7, <1>8, <1>11
    <3> QED
      BY <3>1
  <2> QED
    BY <2>2, <2>3, <2>4, <1>7, <1>10
<1>13. blocks[1].first <= blocks[n].last
  <2>1. blocks[1].first \in DOMAIN docs
    BY <1>7, <1>8
  <2> QED
    BY <2>1, <1>12
<1> QED
  BY <1>6, <1>7, <1>10, <1>12, <1>13 DEF blocks, docs

\* The slices of a segment: every document of a term is in one of them.
Covers(slices, infos, part) ==
  /\ \E k \in Nat \ {0} : DOMAIN slices = 1..k /\ Len(slices) = k
       /\ \A n \in 1..k : slices[n].at = IF n < k THEN "given" ELSE "window"
  /\ \A n \in DOMAIN slices :
       /\ IsScan(slices[n]) /\ slices[n].from \in Nat /\ slices[n].hi \in Nat
       /\ slices[n].from <= slices[n].hi
       /\ slices[n].theta = 0 /\ slices[n].candidates = {}
       /\ slices[n].to = slices[n].from
  /\ \A t \in DOMAIN infos : \A d \in DOMAIN List(part, infos[t]) :
       \E n \in DOMAIN slices : slices[n].from <= d /\ d <= slices[n].hi

LEMMA SlicesCovers ==
  ASSUME NEW part, NEW query, NEW infos, InfosOf(infos, part, query), DOMAIN infos # {},
         NEW inner \in Nat \ {0}
  PROVE  Covers(SlicesOf(infos, inner), infos, part)
<1> DEFINE T == DOMAIN infos
           F(t) == infos[t].blocks[1].first
           L(t) == Last(infos[t].blocks).last
           Fs == {F(t) : t \in T}
           Ls == {L(t) : t \in T}
           first == Min(Fs)
           last == Max(Ls)
           Ks == {n \in 1..inner : n = 1 \/ n <= (last - first) \div SliceSpan + 1}
           k == Max(Ks)
           slices == SlicesOf(infos, inner)
           place(n) == IF n < k THEN "given" ELSE "window"
<1>1. slices = [n \in 1..k |-> NewScan(SliceOf(first, last, k, n), place(n))]
  BY DEF SlicesOf
<1>2. ASSUME NEW t \in T
      PROVE  /\ F(t) \in Nat /\ L(t) \in Nat /\ F(t) <= L(t)
             /\ \A d \in DOMAIN List(part, infos[t]) : F(t) <= d /\ d <= L(t) /\ d \in Nat
  <2>1. InfoOf(infos[t], part, query)
    BY DEF InfosOf
  <2>2. /\ F(t) \in Nat /\ L(t) \in Nat /\ F(t) <= L(t)
        /\ \A d \in DOMAIN List(part, infos[t]) : F(t) <= d /\ d <= L(t)
    BY <2>1, EndsOfTerm
  <2>3. DOMAIN List(part, infos[t]) \subseteq Nat
    BY <2>1 DEF InfoOf, IsDocs
  <2> QED
    BY <2>2, <2>3
<1>3. IsFiniteSet(T)
  <2>1. PICK m \in Nat : T = 1..m
    BY DEF InfosOf
  <2> HIDE DEF T
  <2>2. 1 \in Int /\ m \in Int
    OBVIOUS
  <2>3. IsFiniteSet(1..m)
    BY <2>2, FS_Interval
  <2> QED
    BY <2>1, <2>3
<1>4. IsFiniteSet(Fs) /\ IsFiniteSet(Ls)
  <2> DEFINE f == [t \in T |-> F(t)]
             l == [t \in T |-> L(t)]
  <2>1. DOMAIN f = T /\ Fs = {f[t] : t \in DOMAIN f} /\ DOMAIN l = T /\ Ls = {l[t] : t \in DOMAIN l}
    OBVIOUS
  <2> HIDE DEF f, l, Fs, Ls, T
  <2>2. IsFiniteSet(Fs)
    BY <2>1, <1>3, ImageFinite
  <2>3. IsFiniteSet(Ls)
    BY <2>1, <1>3, ImageFinite
  <2> QED
    BY <2>2, <2>3
<1>5. PICK some \in T : TRUE
  OBVIOUS
<1> HIDE DEF F, L
<1>6. Fs \in SUBSET Nat /\ Fs # {} /\ Ls \in SUBSET Nat /\ Ls # {}
      /\ \A t \in T : F(t) \in Fs /\ L(t) \in Ls
  BY <1>2, <1>5
<1> HIDE DEF Fs, Ls
<1>7. first \in Fs /\ (\A y \in Fs : first <= y) /\ last \in Ls /\ \A y \in Ls : last >= y
  BY <1>4, <1>6, ExtremesAre
<1> HIDE DEF first, last
<1>8. first \in Nat /\ last \in Nat /\ first <= last
  <2>1. first \in Nat /\ last \in Nat /\ F(some) \in Nat /\ L(some) \in Nat
    BY <1>2, <1>5, <1>6, <1>7
  <2>2. first <= F(some) /\ F(some) <= L(some) /\ L(some) <= last
    BY <2>1, <1>2, <1>5, <1>6, <1>7
  <2> QED
    BY <2>1, <2>2
<1>9. k \in Nat \ {0} /\ k <= last - first + 1
  <2> DEFINE span == last - first
             q == span \div SliceSpan
  <2>1. span \in Nat
    BY <1>8
  <2>2. q \in 0..span
    <3>1. SliceSpan \in Nat \ {0}
      BY IndexesAssumption
    <3> HIDE DEF span
    <3> QED
      BY <2>1, <3>1, PartOfANumber
  <2>3. Ks \in SUBSET Nat /\ 1 \in Ks /\ Ks \in SUBSET (1..inner)
    OBVIOUS
  <2>4. \A n \in Ks : n \in Nat \ {0} /\ (n = 1 \/ n <= q + 1)
    OBVIOUS
  <2> HIDE DEF span, q, Ks
  <2>5. IsFiniteSet(Ks)
    <3>1. 1 \in Int /\ inner \in Int
      OBVIOUS
    <3>2. IsFiniteSet(1..inner)
      BY <3>1, FS_Interval
    <3> QED
      BY <3>2, <2>3, FS_Subset
  <2>6. Max(Ks) \in Ks
    BY <2>3, <2>5, ExtremesAre
  <2>7. k \in Nat \ {0} /\ (k = 1 \/ k <= q + 1)
    BY <2>4, <2>6
  <2> HIDE DEF k
  <2>8. k <= span + 1
    BY <2>1, <2>2, <2>7
  <2> QED
    BY <2>7, <2>8 DEF span
<1> HIDE DEF k
<1>10. /\ \A s \in 1..k : /\ SliceOf(first, last, k, s).lo \in Nat
                          /\ SliceOf(first, last, k, s).hi \in Nat
                          /\ SliceOf(first, last, k, s).lo <= SliceOf(first, last, k, s).hi
       /\ \A d \in first..last : \E s \in 1..k :
            SliceOf(first, last, k, s).lo <= d /\ d <= SliceOf(first, last, k, s).hi
  BY <1>8, <1>9, SlicesCover
<1>11. \A n \in 1..k :
         /\ IsScan(slices[n]) /\ slices[n].at = place(n)
         /\ slices[n].from = SliceOf(first, last, k, n).lo
         /\ slices[n].hi = SliceOf(first, last, k, n).hi
         /\ slices[n].theta = 0 /\ slices[n].candidates = {}
         /\ slices[n].to = slices[n].from
  BY <1>1 DEF NewScan, IsScan, ScanFields
<1>12. DOMAIN slices = 1..k /\ Len(slices) = k
  BY <1>1, <1>9
<1>13. ASSUME NEW t \in T, NEW d \in DOMAIN List(part, infos[t])
       PROVE  \E n \in DOMAIN slices : slices[n].from <= d /\ d <= slices[n].hi
  <2>1. F(t) <= d /\ d <= L(t) /\ d \in Nat /\ F(t) \in Nat /\ L(t) \in Nat
    BY <1>2
  <2>2. first <= F(t) /\ L(t) <= last
    BY <2>1, <1>6, <1>7, <1>8
  <2>3. d \in first..last
    BY <2>1, <2>2, <1>8
  <2>4. PICK n \in 1..k : SliceOf(first, last, k, n).lo <= d /\ d <= SliceOf(first, last, k, n).hi
    BY <2>3, <1>10
  <2> HIDE DEF slices
  <2> QED
    BY <2>4, <1>11, <1>12
<1>14. \E n \in Nat \ {0} : DOMAIN slices = 1..n /\ Len(slices) = n
         /\ \A i \in 1..n : slices[i].at = IF i < n THEN "given" ELSE "window"
  BY <1>9, <1>11, <1>12
<1> HIDE DEF slices
<1> QED
  BY <1>10, <1>11, <1>12, <1>13, <1>14 DEF Covers, slices

-----------------------------------------------------------------------------
(* The scan of a slice. *)

\* A document is a candidate, or cannot be among the best of the index.
Settled(c, candidates, x) == x \in candidates \/ Outdone(All(c), scene.topK, x)

\* Those of a slice that starts at lo, up to an id, are, but for those to do.
Done(c, p, lo, s, to, todo) ==
  \A x \in Exact(c, p) : lo <= x.doc /\ x.doc <= to /\ x.doc \notin todo =>
    Settled(c, s.candidates, x)

ScanBase(c, p, lo, s) ==
  /\ IsScan(s) /\ lo \in Nat /\ s.from \in Nat /\ s.hi \in Nat /\ s.to \in Nat
  /\ s.to <= s.hi /\ lo <= s.from
  /\ s.theta \in Nat /\ Attained(All(c), scene.topK, s.theta)
  /\ s.candidates \in SUBSET Exact(c, p)

InWindow(c, p, infos, lo, s) ==
  /\ s.from <= s.to /\ WindowOf(infos, scene.parts[p], scene.query[c], s)
  /\ IsFiniteSet(s.todo) /\ s.todo # {} /\ s.todo \subseteq s.from..s.to
  /\ Done(c, p, lo, s, s.to, s.todo)

\* What every step of a slice keeps: what it has passed is settled.
ScanOk(c, p, infos, lo, s) ==
  /\ ScanBase(c, p, lo, s) /\ s.at \in {"given", "window", "docs"} \cup Over
  /\ s.at \in {"given", "window"} => Done(c, p, lo, s, s.from - 1, {})
  /\ s.at = "docs" => InWindow(c, p, infos, lo, s)
  /\ s.at = "over" => Done(c, p, lo, s, s.hi, {})

\* A window whose documents are done.
LEMMA AfterWindowOk ==
  ASSUME NEW c, NEW p, NEW infos, NEW lo, NEW s, ScanBase(c, p, lo, s), s.from <= s.to,
         Done(c, p, lo, s, s.to, {})
  PROVE  ScanOk(c, p, infos, lo, AfterWindow(s)) /\ AfterWindow(s).hi = s.hi
<1>1. CASE s.to >= s.hi
  <2> DEFINE r == [s EXCEPT !.at = "over"]
  <2>1. AfterWindow(s) = r
    BY <1>1 DEF AfterWindow
  <2>2. /\ IsScan(r) /\ r.at = "over" /\ r.from = s.from /\ r.hi = s.hi /\ r.to = s.to
        /\ r.theta = s.theta /\ r.candidates = s.candidates
    BY DEF ScanBase, IsScan, ScanFields
  <2> HIDE DEF r
  <2>3. ScanBase(c, p, lo, r)
    BY <2>2 DEF ScanBase
  <2>4. s.to = r.hi
    BY <1>1, <2>2 DEF ScanBase
  <2>5. Done(c, p, lo, r, r.hi, {})
    BY <2>2, <2>4 DEF Done
  <2> QED
    BY <2>1, <2>2, <2>3, <2>5 DEF ScanOk, Over
<1>2. CASE ~(s.to >= s.hi)
  <2> DEFINE r == [s EXCEPT !.at = "window", !.from = s.to + 1]
  <2>1. AfterWindow(s) = r
    BY <1>2 DEF AfterWindow
  <2>2. /\ IsScan(r) /\ r.at = "window" /\ r.from = s.to + 1 /\ r.hi = s.hi /\ r.to = s.to
        /\ r.theta = s.theta /\ r.candidates = s.candidates
    BY DEF ScanBase, IsScan, ScanFields
  <2> HIDE DEF r
  <2>3. ScanBase(c, p, lo, r)
    BY <2>2 DEF ScanBase
  <2>4. s.to = r.from - 1
    BY <2>2 DEF ScanBase
  <2>5. Done(c, p, lo, r, r.from - 1, {})
    BY <2>2, <2>4 DEF Done
  <2> QED
    BY <2>1, <2>2, <2>3, <2>5 DEF ScanOk, Over
<1> QED
  BY <1>1, <1>2

LEMMA AheadOk ==
  ASSUME scene \in Scenes, NEW c \in Calls, NEW p \in 1..PartsNb, NEW infos,
         InfosOf(infos, scene.parts[p], scene.query[c]),
         NEW lo, NEW s, ScanOk(c, p, infos, lo, s), s.at = "window",
         NEW threshold \in Nat, Attained(All(c), scene.topK, threshold)
  PROVE  /\ ScanOk(c, p, infos, lo, Ahead(infos, s, threshold))
         /\ Ahead(infos, s, threshold).hi = s.hi
<1> DEFINE part == scene.parts[p]
           query == scene.query[c]
           high == Max({s.theta, threshold})
           now == [s EXCEPT !.theta = high]
           none == \A t \in DOMAIN infos : BlockAt(infos[t], s.from) = 0
           w == Window(infos, now)
           ahead == Ahead(infos, s, threshold)
           after == IF w.todo = {} THEN AfterWindow(w) ELSE [w EXCEPT !.at = "docs"]
<1>1. ScanBase(c, p, lo, s) /\ Done(c, p, lo, s, s.from - 1, {})
  BY DEF ScanOk
<1>2. high \in Nat /\ high >= s.theta /\ high >= threshold /\ Attained(All(c), scene.topK, high)
  <2> DEFINE D == All(c)
             k == scene.topK
             a == s.theta
  <2>1. a \in Nat /\ Attained(D, k, a) /\ Attained(D, k, threshold) /\ high = Max({a, threshold})
    BY <1>1 DEF ScanBase
  <2> HIDE DEF D, k, a, high
  <2> QED
    BY <2>1, HigherAttained DEF D, k, a
<1>3. ahead = IF s.from > s.hi \/ none THEN [now EXCEPT !.at = "over"] ELSE after
  <2>1. ahead = IF s.from > s.hi \/ none THEN [now EXCEPT !.at = "over"]
                ELSE With(w, LAMBDA x : IF x.todo = {} THEN AfterWindow(x) ELSE [x EXCEPT !.at = "docs"])
    BY DEF Ahead
  <2>2. With(w, LAMBDA x : IF x.todo = {} THEN AfterWindow(x) ELSE [x EXCEPT !.at = "docs"]) = after
    <3> HIDE DEF w
    <3> QED
      BY DEF With
  <2> QED
    BY <2>1, <2>2
<1> HIDE DEF high
<1>4. /\ IsScan(now) /\ now.at = "window" /\ now.from = s.from /\ now.hi = s.hi /\ now.to = s.to
      /\ now.theta = high /\ now.candidates = s.candidates
  BY <1>1 DEF ScanBase, IsScan, ScanFields
<1> HIDE DEF now, ahead, w
<1>5. Exact(c, p) \in SUBSET Records /\ All(c) \in SUBSET Records /\ scene.topK \in Int
      /\ Exact(c, p) \subseteq All(c)
  BY ExactIs, AllIs, SceneIs
<1>6. \A x \in Exact(c, p) :
        /\ x.doc \in DOMAIN part.lengths \ part.deleted
        /\ x.score = Score(part, query, x.doc) /\ x.score > 0
  BY ExactIs
<1>7. \A x \in Exact(c, p) : x.doc \in Nat /\ x.score \in Nat
  BY <1>5 DEF Records
<1>8. s.from \in Nat /\ s.hi \in Nat /\ lo \in Nat /\ lo <= s.from /\ s.to \in Nat /\ s.to <= s.hi
      /\ s.candidates \in SUBSET Exact(c, p)
  BY <1>1 DEF ScanBase
<1>9. \A x \in Exact(c, p) : lo <= x.doc /\ x.doc < s.from => Settled(c, s.candidates, x)
  <2>1. \A x \in Exact(c, p) : x.doc < s.from => x.doc <= s.from - 1
    BY <1>7, <1>8
  <2> QED
    BY <2>1, <1>1 DEF Done
<1>10. ASSUME s.from > s.hi \/ none
       PROVE  ScanOk(c, p, infos, lo, ahead) /\ ahead.hi = s.hi
  <2> DEFINE r == [now EXCEPT !.at = "over"]
  <2>1. ahead = r
    BY <1>3, <1>10
  <2>2. /\ IsScan(r) /\ r.at = "over" /\ r.from = s.from /\ r.hi = s.hi /\ r.to = s.to
        /\ r.theta = high /\ r.candidates = s.candidates
    BY <1>4 DEF IsScan, ScanFields
  <2> HIDE DEF r
  <2>3. ScanBase(c, p, lo, r)
    BY <2>2, <1>2, <1>8 DEF ScanBase
  <2>4. ASSUME NEW x \in Exact(c, p), lo <= x.doc, x.doc <= s.hi
        PROVE  Settled(c, s.candidates, x)
    <3>1. CASE x.doc < s.from
      BY <3>1, <2>4, <1>9
    <3>2. CASE x.doc >= s.from
      <4>1. none
        BY <3>2, <2>4, <1>7, <1>8, <1>10
      <4>2. Score(part, query, x.doc) = 0
        <5> DEFINE from == s.from
                   d == x.doc
        <5>1. from \in Nat /\ d \in DOMAIN scene.parts[p].lengths /\ d >= from
              /\ \A t \in DOMAIN infos : BlockAt(infos[t], from) = 0
          BY <3>2, <4>1, <1>6, <1>8
        <5> HIDE DEF from, d
        <5>2. Score(scene.parts[p], scene.query[c], d) = 0
          BY <5>1, NoneLeft
        <5> QED
          BY <5>2 DEF d
      <4> QED
        BY <4>2, <1>6
    <3> QED
      BY <3>1, <3>2, <1>7, <1>8
  <2>5. Done(c, p, lo, r, r.hi, {})
    BY <2>2, <2>4 DEF Done
  <2>6. ScanOk(c, p, infos, lo, r)
    BY <2>2, <2>3, <2>5 DEF ScanOk, Over
  <2> QED
    BY <2>1, <2>2, <2>6
<1>11. ASSUME ~(s.from > s.hi \/ none)
       PROVE  ScanOk(c, p, infos, lo, ahead) /\ ahead.hi = s.hi
  <2>1. ahead = after
    BY <1>3, <1>11
  <2>2. AheadOf(infos, part, query, now, w)
    <3>1. IsScan(now) /\ now.from \in Nat /\ now.theta \in Nat /\ now.hi \in Nat /\ now.from <= now.hi
      BY <1>2, <1>4, <1>8, <1>11
    <3>2. w = Window(infos, now)
      BY DEF w
    <3> QED
      BY <3>1, <3>2, WindowIs
  <2>3. /\ IsScan(w) /\ SameScan(w, now) /\ w.to \in now.from..now.hi
        /\ WindowOf(infos, part, query, w)
        /\ IsFiniteSet(w.todo) /\ w.todo \subseteq now.from..w.to
        /\ \A d \in (now.from..w.to) \cap DOMAIN part.lengths : d \notin w.todo =>
             Score(part, query, d) = 0 \/ Score(part, query, d) < now.theta
    BY <2>2 DEF AheadOf
  <2>4. w.from = s.from /\ w.hi = s.hi /\ w.theta = high /\ w.candidates = s.candidates
    BY <2>3, <1>4 DEF SameScan
  <2>5. w.to \in Nat /\ s.from <= w.to /\ w.to <= s.hi
    BY <2>3, <1>4, <1>8
  <2>6. ScanBase(c, p, lo, w)
    BY <2>3, <2>4, <2>5, <1>2, <1>8 DEF ScanBase
  <2>7. Done(c, p, lo, w, w.to, w.todo)
    <3> SUFFICES ASSUME NEW x \in Exact(c, p), lo <= x.doc, x.doc <= w.to, x.doc \notin w.todo
                 PROVE  Settled(c, s.candidates, x)
      BY <2>4 DEF Done
    <3>1. CASE x.doc < s.from
      BY <3>1, <1>9
    <3>2. CASE x.doc >= s.from
      <4>1. x.doc \in (now.from..w.to) \cap DOMAIN part.lengths
        BY <3>2, <2>5, <1>4, <1>6, <1>7, <1>8
      <4>2. Score(part, query, x.doc) = 0 \/ Score(part, query, x.doc) < high
        BY <4>1, <2>3, <1>4
      <4>3. x.score < high
        BY <4>2, <1>6
      <4>4. x \in Records
        BY <1>5
      <4>5. Outdone(All(c), scene.topK, x)
        BY <4>3, <4>4, <1>2, <1>5, BelowOutdone
      <4> QED
        BY <4>5 DEF Settled
    <3> QED
      BY <3>1, <3>2, <1>7, <1>8
  <2>8. CASE w.todo = {}
    <3>1. ScanOk(c, p, infos, lo, AfterWindow(w)) /\ AfterWindow(w).hi = w.hi
      BY <2>4, <2>5, <2>6, <2>7, <2>8, AfterWindowOk
    <3> QED
      BY <3>1, <2>1, <2>4, <2>8
  <2>9. CASE w.todo # {}
    <3> DEFINE r == [w EXCEPT !.at = "docs"]
    <3>1. ahead = r
      BY <2>1, <2>9
    <3>2. /\ IsScan(r) /\ r.at = "docs" /\ r.from = s.from /\ r.hi = s.hi /\ r.to = w.to
          /\ r.theta = high /\ r.candidates = s.candidates /\ r.todo = w.todo
          /\ r.order = w.order /\ r.prefix = w.prefix /\ r.essential = w.essential
      BY <2>3, <2>4 DEF IsScan, ScanFields
    <3> HIDE DEF r
    <3>3. ScanBase(c, p, lo, r)
      BY <3>2, <2>5, <1>2, <1>8 DEF ScanBase
    <3>4. WindowOf(infos, part, query, r)
      <4>1. /\ r.from = w.from /\ r.theta = w.theta /\ r.to = w.to
            /\ r.order = w.order /\ r.prefix = w.prefix /\ r.essential = w.essential
        BY <3>2, <2>4
      <4>2. WindowOf(infos, part, query, w)
        BY <2>3
      <4> QED
        BY <4>1, <4>2, WindowSame
    <3>5. Done(c, p, lo, r, r.to, r.todo)
      BY <3>2, <2>4, <2>7 DEF Done
    <3>6. InWindow(c, p, infos, lo, r)
      <4>1. r.from <= r.to /\ IsFiniteSet(r.todo) /\ r.todo # {}
        BY <3>2, <2>3, <2>5, <2>9
      <4>2. r.todo \subseteq r.from..r.to
        BY <3>2, <2>3, <1>4
      <4> QED
        BY <4>1, <4>2, <3>4, <3>5 DEF InWindow
    <3> QED
      BY <3>1, <3>2, <3>3, <3>6 DEF ScanOk, Over
  <2> QED
    BY <2>8, <2>9
<1> QED
  BY <1>10, <1>11 DEF ahead

\* A document is scored: it is a candidate, or it cannot be among the best; what
\* theta becomes, as many documents as asked for reach.
LEMMA FurtherOk ==
  ASSUME scene \in Scenes, NEW c \in Calls, NEW p \in 1..PartsNb, NEW infos, NEW lo, NEW s,
         ScanOk(c, p, infos, lo, s), s.at = "docs", scene.topK > 0,
         NEW f, f = Further(infos, s, scene.parts[p], Min(s.todo)),
         NEW r, r = IF f.todo = {} THEN AfterWindow(f) ELSE f
  PROVE  /\ ScanOk(c, p, infos, lo, r) /\ r.hi = s.hi
         /\ f.theta \in Nat /\ f.theta >= s.theta /\ Attained(All(c), scene.topK, f.theta)
<1> DEFINE part == scene.parts[p]
           query == scene.query[c]
           k == scene.topK
           d == Min(s.todo)
           got == IF d \in Scored(part) THEN Completed(infos, s, part, d) ELSE 0
           cand == IF got = 0 THEN s.candidates ELSE s.candidates \cup {[doc |-> d, score |-> got]}
           kth == KthBest(cand, k)
           a == s.theta
           high == Max({a, kth})
<1>1. ScanBase(c, p, lo, s) /\ InWindow(c, p, infos, lo, s)
  BY DEF ScanOk
<1>2. f = [s EXCEPT !.todo = @ \ {d}, !.candidates = cand, !.theta = high]
  <2> HIDE DEF got
  <2>1. f = With(cand, LAMBDA candidates :
                   [s EXCEPT !.todo = @ \ {d}, !.candidates = candidates,
                             !.theta = Max({@, KthBest(candidates, scene.topK)})])
    BY DEF Further, got
  <2> HIDE DEF cand
  <2> QED
    BY <2>1 DEF With
<1> HIDE DEF d, got, cand, kth, high
<1>3. /\ IsScan(f) /\ f.at = s.at /\ f.from = s.from /\ f.hi = s.hi /\ f.to = s.to
      /\ f.theta = high /\ f.candidates = cand /\ f.todo = s.todo \ {d}
      /\ f.order = s.order /\ f.prefix = s.prefix /\ f.essential = s.essential
  BY <1>1, <1>2 DEF ScanBase, IsScan, ScanFields
<1>4. Exact(c, p) \in SUBSET Records /\ IsFiniteSet(Exact(c, p)) /\ All(c) \in SUBSET Records
      /\ k \in Nat \ {0} /\ k \in Int /\ Exact(c, p) \subseteq All(c)
  BY ExactIs, AllIs, SceneIs
<1>5. \A x \in Exact(c, p) :
        /\ x.doc \in DOMAIN part.lengths \ part.deleted
        /\ x.score = Score(part, query, x.doc) /\ x.score > 0
        /\ x = [doc |-> x.doc, score |-> x.score]
  BY ExactIs
<1>6. \A e \in DOMAIN part.lengths \ part.deleted :
        Score(part, query, e) > 0 => [doc |-> e, score |-> Score(part, query, e)] \in Exact(c, p)
  BY ExactIs
<1>7. d \in s.todo /\ d \in s.from..s.to /\ s.from \in Nat /\ s.to \in Nat
  <2> DEFINE S == s.todo
  <2>1. S \in SUBSET (s.from..s.to) /\ S # {} /\ IsFiniteSet(S) /\ s.from \in Nat /\ s.to \in Nat
    BY <1>1 DEF InWindow, ScanBase
  <2>2. S \in SUBSET Nat
    BY <2>1
  <2>3. d = Min(S)
    BY DEF d
  <2> HIDE DEF S
  <2>4. Min(S) \in S
    BY <2>1, <2>2, ExtremesAre
  <2> QED
    BY <2>1, <2>3, <2>4 DEF S
<1>8. a \in Nat /\ Attained(All(c), k, a) /\ s.candidates \in SUBSET Exact(c, p)
  BY <1>1 DEF ScanBase
\* What the document gets.
<1>9. /\ d \in Scored(part) =>
           \/ got = Score(part, query, d)
           \/ got = 0 /\ Score(part, query, d) < a
      /\ d \notin Scored(part) => got = 0
  <2>1. d \notin Scored(part) => got = 0
    BY DEF got
  <2>2. ASSUME d \in Scored(part)
        PROVE  \/ got = Score(part, query, d)
               \/ got = 0 /\ Score(part, query, d) < a
    <3>1. d \in (s.from..s.to) \cap DOMAIN part.lengths
      BY <2>2, <1>7 DEF Scored
    <3>2. WindowOf(infos, part, query, s) /\ s.theta \in Nat
      BY <1>1, <1>8 DEF InWindow
    <3>3. \/ Completed(infos, s, part, d) = Score(part, query, d)
          \/ Completed(infos, s, part, d) = 0 /\ Score(part, query, d) < s.theta
      BY <3>1, <3>2, CompletedScore
    <3>4. got = Completed(infos, s, part, d)
      BY <2>2 DEF got
    <3> QED
      BY <3>3, <3>4
  <2> QED
    BY <2>1, <2>2
<1>10. cand \in SUBSET Exact(c, p) /\ s.candidates \subseteq cand
  <2>1. CASE got = 0
    BY <2>1, <1>8 DEF cand
  <2>2. CASE got # 0
    <3>1. d \in DOMAIN part.lengths \ part.deleted /\ got = Score(part, query, d)
      BY <2>2, <1>9 DEF Scored
    <3>2. Score(part, query, d) \in Nat
      BY <3>1, ScoreNat
    <3>3. [doc |-> d, score |-> got] \in Exact(c, p)
      BY <3>1, <3>2, <2>2, <1>6
    <3> QED
      BY <3>3, <2>2, <1>8 DEF cand
  <2> QED
    BY <2>1, <2>2
<1>11. kth \in Nat /\ Attained(All(c), k, kth)
  <2>1. cand \in SUBSET Records /\ IsFiniteSet(cand) /\ cand \in SUBSET All(c)
    BY <1>4, <1>10, FS_Subset
  <2> HIDE DEF k
  <2>2. kth \in Nat /\ Attained(cand, k, kth)
    BY <2>1, <1>4, KthIs DEF kth
  <2>3. Attained(All(c), k, kth)
    BY <2>1, <2>2, AttainedMore
  <2> QED
    BY <2>2, <2>3
<1>12. high \in Nat /\ high >= a /\ Attained(All(c), k, high)
  <2> HIDE DEF k, a
  <2> QED
    BY <1>8, <1>11, HigherAttained DEF high
<1>13. f.theta \in Nat /\ f.theta >= s.theta /\ Attained(All(c), scene.topK, f.theta)
  BY <1>3, <1>12
<1>14. ScanBase(c, p, lo, f)
  BY <1>1, <1>3, <1>10, <1>13 DEF ScanBase
<1>15. Done(c, p, lo, f, s.to, f.todo)
  <2> SUFFICES ASSUME NEW x \in Exact(c, p), lo <= x.doc, x.doc <= s.to, x.doc \notin s.todo \ {d}
               PROVE  Settled(c, cand, x)
    BY <1>3 DEF Done
  <2>1. CASE x.doc \notin s.todo
    <3>1. Settled(c, s.candidates, x)
      BY <2>1, <1>1 DEF InWindow, Done
    <3> QED
      BY <3>1, <1>10 DEF Settled
  <2>2. CASE x.doc = d
    <3>1. /\ d \in Scored(part) /\ x.score = Score(part, query, d) /\ x.score > 0
          /\ x = [doc |-> d, score |-> x.score]
      BY <2>2, <1>5 DEF Scored
    <3>2. CASE got = Score(part, query, d)
      <4>1. x.score \in Nat
        BY <1>4 DEF Records
      <4>2. x = [doc |-> d, score |-> got] /\ got # 0
        BY <3>1, <3>2, <4>1
      <4> QED
        BY <4>2 DEF cand, Settled
    <3>3. CASE got = 0 /\ Score(part, query, d) < a
      <4>1. x.score < a /\ x \in Records
        BY <3>1, <3>3, <1>4
      <4>2. Outdone(All(c), k, x)
        BY <4>1, <1>4, <1>8, BelowOutdone
      <4> QED
        BY <4>2 DEF Settled
    <3> QED
      BY <3>1, <3>2, <3>3, <1>9
  <2> QED
    BY <2>1, <2>2
<1>16. CASE f.todo = {}
  <2>1. f.from <= f.to /\ Done(c, p, lo, f, f.to, {})
    BY <1>1, <1>3, <1>15, <1>16 DEF InWindow
  <2>2. ScanOk(c, p, infos, lo, AfterWindow(f)) /\ AfterWindow(f).hi = f.hi
    BY <2>1, <1>14, AfterWindowOk
  <2> QED
    BY <2>2, <1>3, <1>13, <1>16
<1>17. CASE f.todo # {}
  <2>1. IsFiniteSet(f.todo)
    BY <1>1, <1>3, FS_Subset DEF InWindow
  <2>2. f.todo \subseteq f.from..f.to /\ f.from <= f.to
    BY <1>1, <1>3 DEF InWindow
  <2>3. WindowOf(infos, part, query, f)
    <3>1. WindowOf(infos, part, query, s)
      BY <1>1 DEF InWindow
    <3>2. \A info, e : Gives(info, f, part, e) = Gives(info, s, part, e)
      BY <1>3 DEF Gives
    <3>3. \A i \in 1..s.essential : s.prefix[i] < high
      <4>1. \A i \in 1..s.essential : s.prefix[i] < a /\ s.prefix[i] \in Nat
        BY <3>1 DEF WindowOf
      <4> HIDE DEF a
      <4> QED
        BY <4>1, <1>8, <1>12
    <3> QED
      BY <3>1, <3>2, <3>3, <1>3 DEF WindowOf
  <2>4. InWindow(c, p, infos, lo, f)
    BY <2>1, <2>2, <2>3, <1>3, <1>15, <1>17 DEF InWindow
  <2>5. ScanOk(c, p, infos, lo, f)
    BY <2>4, <1>3, <1>14 DEF ScanOk, Over
  <2> QED
    BY <2>5, <1>3, <1>13, <1>17
<1> QED
  BY <1>16, <1>17

-----------------------------------------------------------------------------
(* The slices of a part. *)

PartInfos(c, p) == TermInfos(scene.parts[p], scene.query[c])
PartSlices(c, p) == SlicesOf(PartInfos(c, p), Inner)

\* What a part that is not searched exhaustively is.
Sliced(c, p) ==
  /\ p \in 1..PartsNb /\ Prunable(scene.parts[p], scene.query[c])
  /\ DOMAIN PartInfos(c, p) # {}

\* A slice of a part, wherever it is.
Sound(c, p, n, s) ==
  /\ Sliced(c, p) /\ n \in DOMAIN PartSlices(c, p)
  /\ ScanOk(c, p, PartInfos(c, p), PartSlices(c, p)[n].from, s)
  /\ s.hi = PartSlices(c, p)[n].hi

LEMMA SlicedIs ==
  ASSUME scene \in Scenes, NEW c \in Calls, NEW p, Sliced(c, p)
  PROVE  /\ p \in 1..PartsNb /\ scene.topK > 0
         /\ InfosOf(PartInfos(c, p), scene.parts[p], scene.query[c])
         /\ Covers(PartSlices(c, p), PartInfos(c, p), scene.parts[p])
<1> DEFINE infos == PartInfos(c, p)
           part == scene.parts[p]
           query == scene.query[c]
<1>1. p \in 1..PartsNb /\ scene.topK > 0 /\ Prunable(part, query)
  BY DEF Sliced, Prunable
<1>2. InfosOf(infos, part, query)
  BY <1>1, InfosAre DEF PartInfos
<1>3. Inner \in Nat \ {0} /\ DOMAIN infos # {}
  BY NumbersOf, MaxThreadsAssumption DEF Sliced
<1>4. PartSlices(c, p) = SlicesOf(infos, Inner)
  BY DEF PartSlices
<1> HIDE DEF infos, part, query
<1>5. Covers(PartSlices(c, p), infos, part)
  BY <1>2, <1>3, <1>4, SlicesCovers
<1> QED
  BY <1>1, <1>2, <1>5 DEF infos, part, query

\* Slices start sound.
LEMMA SoundFirst ==
  ASSUME scene \in Scenes, NEW c \in Calls, NEW p, Sliced(c, p), NEW n \in DOMAIN PartSlices(c, p)
  PROVE  Sound(c, p, n, PartSlices(c, p)[n])
<1> DEFINE s == PartSlices(c, p)[n]
           lo == s.from
<1>1. /\ IsScan(s) /\ lo \in Nat /\ s.hi \in Nat /\ lo <= s.hi
      /\ s.theta = 0 /\ s.candidates = {} /\ s.to = lo /\ s.at \in {"given", "window"}
  BY SlicedIs DEF Covers
<1>2. s.from = lo
  OBVIOUS
<1>3. p \in 1..PartsNb /\ Exact(c, p) \in SUBSET Records
  BY SlicedIs, ExactIs
<1> HIDE DEF s, lo
<1>4. ScanBase(c, p, lo, s)
  <2>1. Attained(All(c), scene.topK, s.theta)
    BY <1>1 DEF Attained
  <2> QED
    BY <2>1, <1>1, <1>2 DEF ScanBase
<1>5. Done(c, p, lo, s, s.from - 1, {})
  <2>1. \A x \in Exact(c, p) : x.doc \in Nat
    BY <1>3 DEF Records
  <2> QED
    BY <2>1, <1>1, <1>2 DEF Done
<1>6. ScanOk(c, p, PartInfos(c, p), lo, s)
  BY <1>1, <1>4, <1>5 DEF ScanOk
<1> QED
  BY <1>6 DEF Sound, s, lo

LEMMA SoundStarted ==
  ASSUME NEW c, NEW p, NEW n, NEW s, Sound(c, p, n, s), s.at = "given"
  PROVE  Sound(c, p, n, [s EXCEPT !.at = "window"])
<1> DEFINE r == [s EXCEPT !.at = "window"]
           lo == PartSlices(c, p)[n].from
           infos == PartInfos(c, p)
<1>1. ScanBase(c, p, lo, s) /\ Done(c, p, lo, s, s.from - 1, {})
  BY DEF Sound, ScanOk
<1>2. /\ IsScan(r) /\ r.at = "window" /\ r.from = s.from /\ r.hi = s.hi /\ r.to = s.to
      /\ r.theta = s.theta /\ r.candidates = s.candidates
  BY <1>1 DEF ScanBase, IsScan, ScanFields
<1> HIDE DEF r, lo, infos
<1>3. ScanBase(c, p, lo, r) /\ Done(c, p, lo, r, r.from - 1, {})
  BY <1>1, <1>2 DEF ScanBase, Done
<1>4. ScanOk(c, p, infos, lo, r)
  BY <1>2, <1>3 DEF ScanOk
<1> QED
  BY <1>2, <1>4 DEF Sound, r, lo, infos

LEMMA SoundFailed ==
  ASSUME NEW c, NEW p, NEW n, NEW s, Sound(c, p, n, s)
  PROVE  Sound(c, p, n, [s EXCEPT !.at = "failed"])
<1> DEFINE r == [s EXCEPT !.at = "failed"]
           lo == PartSlices(c, p)[n].from
           infos == PartInfos(c, p)
<1>1. ScanBase(c, p, lo, s)
  BY DEF Sound, ScanOk
<1>2. /\ IsScan(r) /\ r.at = "failed" /\ r.from = s.from /\ r.hi = s.hi /\ r.to = s.to
      /\ r.theta = s.theta /\ r.candidates = s.candidates
  BY <1>1 DEF ScanBase, IsScan, ScanFields
<1> HIDE DEF r, lo, infos
<1>3. ScanBase(c, p, lo, r)
  BY <1>1, <1>2 DEF ScanBase
<1>4. ScanOk(c, p, infos, lo, r)
  BY <1>2, <1>3 DEF ScanOk, Over
<1> QED
  BY <1>2, <1>4 DEF Sound, r, lo, infos

LEMMA SoundAhead ==
  ASSUME scene \in Scenes, NEW c \in Calls, NEW p, NEW n, NEW s, Sound(c, p, n, s), s.at = "window",
         NEW threshold \in Nat, Attained(All(c), scene.topK, threshold)
  PROVE  Sound(c, p, n, Ahead(PartInfos(c, p), s, threshold))
<1> DEFINE lo == PartSlices(c, p)[n].from
           infos == PartInfos(c, p)
<1>1. ScanOk(c, p, infos, lo, s) /\ InfosOf(infos, scene.parts[p], scene.query[c]) /\ p \in 1..PartsNb
  BY SlicedIs DEF Sound
<1> HIDE DEF lo, infos
<1>2. ScanOk(c, p, infos, lo, Ahead(infos, s, threshold)) /\ Ahead(infos, s, threshold).hi = s.hi
  BY <1>1, AheadOk
<1> QED
  BY <1>2 DEF Sound, lo, infos

LEMMA SoundFurther ==
  ASSUME scene \in Scenes, NEW c \in Calls, NEW p, NEW n, NEW s, Sound(c, p, n, s), s.at = "docs",
         NEW f, f = Further(PartInfos(c, p), s, scene.parts[p], Min(s.todo))
  PROVE  /\ Sound(c, p, n, IF f.todo = {} THEN AfterWindow(f) ELSE f)
         /\ f.theta \in Nat /\ f.theta >= s.theta /\ Attained(All(c), scene.topK, f.theta)
<1> DEFINE lo == PartSlices(c, p)[n].from
           infos == PartInfos(c, p)
           r == IF f.todo = {} THEN AfterWindow(f) ELSE f
<1>1. /\ ScanOk(c, p, infos, lo, s) /\ p \in 1..PartsNb /\ scene.topK > 0
      /\ f = Further(infos, s, scene.parts[p], Min(s.todo))
  BY SlicedIs DEF Sound
<1> HIDE DEF lo, infos, r
<1>2. /\ ScanOk(c, p, infos, lo, r) /\ r.hi = s.hi
      /\ f.theta \in Nat /\ f.theta >= s.theta /\ Attained(All(c), scene.topK, f.theta)
  <2>1. r = IF f.todo = {} THEN AfterWindow(f) ELSE f
    BY DEF r
  <2> QED
    BY <1>1, <2>1, FurtherOk
<1>3. Sound(c, p, n, r)
  BY <1>2 DEF Sound, lo, infos
<1> QED
  BY <1>2, <1>3 DEF r

-----------------------------------------------------------------------------
(* The best of a part. *)

\* What a part gives: documents of it, and all those that may be among the best.
Complete(c, p, best) ==
  /\ Range(best) \subseteq Exact(c, p)
  /\ \A x \in Exact(c, p) : Settled(c, Range(best), x)

\* A document with a score is in the list of a word.
LEMMA Listed ==
  ASSUME scene \in Scenes, NEW c \in Calls, NEW p \in 1..PartsNb, NEW infos,
         InfosOf(infos, scene.parts[p], scene.query[c]),
         NEW d \in DOMAIN scene.parts[p].lengths, Score(scene.parts[p], scene.query[c], d) # 0
  PROVE  \E t \in DOMAIN infos : d \in DOMAIN List(scene.parts[p], infos[t])
<1> DEFINE part == scene.parts[p]
           query == scene.query[c]
           T == DOMAIN infos
           G == [t \in T |-> Gain(part, infos[t], d)]
<1> SUFFICES ASSUME \A t \in T : d \notin DOMAIN List(part, infos[t])
             PROVE  Score(part, query, d) = 0
  OBVIOUS
<1>1. Score(part, query, d) = Total(G)
  BY ScoreIs
<1>2. \A t \in T : Gain(part, infos[t], d) = 0
  BY DEF Gain
<1>3. IsFiniteSet(T)
  <2>1. PICK m \in Nat : T = 1..m
    BY DEF InfosOf
  <2> HIDE DEF T
  <2>2. 1 \in Int /\ m \in Int
    OBVIOUS
  <2>3. IsFiniteSet(1..m)
    BY <2>2, FS_Interval
  <2> QED
    BY <2>1, <2>3
<1>4. G \in [T -> Nat] /\ \A t \in T : G[t] = 0
  BY <1>2
<1> HIDE DEF T, G
<1>5. Total(G) = 0
  BY <1>3, <1>4, SumZero
<1> QED
  BY <1>1, <1>5

LEMMA BestComplete ==
  ASSUME scene \in Scenes, NEW c \in Calls, NEW p \in 1..PartsNb,
         NEW kept \in SUBSET Exact(c, p),
         \A x \in Exact(c, p) \ kept : Outdone(All(c), scene.topK, x)
  PROVE  Complete(c, p, Best(kept, scene.topK))
<1> DEFINE k == scene.topK
           best == Best(kept, k)
           n == Kept(Cardinality(kept), k)
<1>1. k \in Int /\ kept \in SUBSET Records /\ IsFiniteSet(kept) /\ kept \in SUBSET All(c)
  BY SceneIs, ExactIs, AllIs, FS_Subset
<1>2. best \in [1..n -> kept] /\ Len(best) = n
  <2> HIDE DEF k
  <2> QED
    BY <1>1, BestIs
<1>3. ASSUME NEW x \in kept PROVE Settled(c, Range(best), x)
  <2>1. (\E i \in 1..Len(best) : best[i] = x) \/ Outdone(kept, k, x)
    <3> HIDE DEF k
    <3> QED
      BY <1>1, BestOrOutdone
  <2>2. CASE \E i \in 1..Len(best) : best[i] = x
    <3> HIDE DEF best, n
    <3>1. x \in Range(best)
      BY <1>2, <2>2 DEF Range
    <3> QED
      BY <3>1 DEF Settled
  <2>3. CASE Outdone(kept, k, x)
    <3>1. Outdone(All(c), k, x)
      BY <1>1, <2>3, OutdoneMore
    <3> QED
      BY <3>1 DEF Settled
  <2> QED
    BY <2>1, <2>2, <2>3
<1>4. Range(best) \subseteq Exact(c, p)
  <2> HIDE DEF best, n
  <2> QED
    BY <1>2 DEF Range
<1> QED
  BY <1>3, <1>4 DEF Complete, Settled

\* An exhaustive search of a part.
LEMMA ExhaustiveComplete ==
  ASSUME scene \in Scenes, NEW c \in Calls, NEW p \in 1..PartsNb
  PROVE  Complete(c, p, Exhaustive(scene.parts[p], scene.query[c], scene.topK))
<1>1. Exhaustive(scene.parts[p], scene.query[c], scene.topK) = Best(Exact(c, p), scene.topK)
  BY DEF Exhaustive, Exact
<1>2. Complete(c, p, Best(Exact(c, p), scene.topK))
  BY BestComplete
<1> QED
  BY <1>1, <1>2

\* The slices of a part, all over, and what is kept of their candidates.
SlicesOver(c, p, slices) ==
  /\ Sliced(c, p) /\ DOMAIN slices = DOMAIN PartSlices(c, p)
  /\ \A n \in DOMAIN slices : Sound(c, p, n, slices[n]) /\ slices[n].at = "over"
KeptOf(slices, threshold) ==
  {x \in UNION {slices[n].candidates : n \in DOMAIN slices} : x.score >= threshold}

\* A search by slices of a part, every slice over.
LEMMA SlicesComplete ==
  ASSUME scene \in Scenes, NEW c \in Calls, NEW p, NEW slices, SlicesOver(c, p, slices),
         NEW threshold \in Nat, Attained(All(c), scene.topK, threshold)
  PROVE  Complete(c, p, Best(KeptOf(slices, threshold), scene.topK))
<1> DEFINE part == scene.parts[p]
           infos == PartInfos(c, p)
           kept == KeptOf(slices, threshold)
<1>0. /\ Sliced(c, p) /\ DOMAIN slices = DOMAIN PartSlices(c, p)
      /\ \A n \in DOMAIN slices : Sound(c, p, n, slices[n]) /\ slices[n].at = "over"
  BY DEF SlicesOver
<1>1. /\ p \in 1..PartsNb /\ InfosOf(infos, part, scene.query[c])
      /\ Covers(PartSlices(c, p), infos, part)
  BY <1>0, SlicedIs
<1>2. \A n \in DOMAIN slices :
        /\ slices[n].candidates \in SUBSET Exact(c, p)
        /\ slices[n].hi = PartSlices(c, p)[n].hi
        /\ Done(c, p, PartSlices(c, p)[n].from, slices[n], slices[n].hi, {})
  BY <1>0 DEF Sound, ScanOk, ScanBase
<1>3. kept \in SUBSET Exact(c, p)
  BY <1>2 DEF KeptOf
<1>4. Exact(c, p) \in SUBSET Records /\ All(c) \in SUBSET Records /\ scene.topK \in Int
  BY <1>1, ExactIs, AllIs, SceneIs
<1>5. ASSUME NEW x \in Exact(c, p) \ kept
      PROVE  Outdone(All(c), scene.topK, x)
  <2>1. x.doc \in DOMAIN part.lengths /\ Score(part, scene.query[c], x.doc) # 0 /\ x \in Records
    <3>1. /\ x.doc \in DOMAIN part.lengths \ part.deleted
          /\ x.score = Score(part, scene.query[c], x.doc) /\ x.score > 0
      BY <1>1, ExactIs
    <3>2. x.score \in Nat /\ x \in Records
      BY <1>4 DEF Records
    <3> QED
      BY <3>1, <3>2
  <2>2. PICK t \in DOMAIN infos : x.doc \in DOMAIN List(part, infos[t])
    <3> HIDE DEF infos
    <3> QED
      BY <1>1, <2>1, Listed
  <2>3. PICK n \in DOMAIN slices :
          PartSlices(c, p)[n].from <= x.doc /\ x.doc <= PartSlices(c, p)[n].hi
    <3> HIDE DEF infos, part
    <3> QED
      BY <2>2, <1>0, <1>1 DEF Covers
  <2>4. Settled(c, slices[n].candidates, x)
    BY <2>3, <1>2 DEF Done
  <2>5. CASE x \in slices[n].candidates
    <3>1. ~(x.score >= threshold)
      BY <2>5, <1>5 DEF KeptOf
    <3>2. x.score < threshold
      BY <3>1, <2>1 DEF Records
    <3> QED
      BY <3>2, <2>1, <1>4, BelowOutdone
  <2> QED
    BY <2>4, <2>5 DEF Settled
<1> HIDE DEF kept
<1>6. Complete(c, p, Best(kept, scene.topK))
  BY <1>1, <1>3, <1>5, BestComplete
<1> QED
  BY <1>6 DEF kept

-----------------------------------------------------------------------------
(* Definitions of terms: what they say, and how it changes. *)

\* What a term says: some documents in each category, and no category twice.
IsSaid(term) ==
  /\ \E n \in Nat : term = [c \in 1..n |-> [cg |-> term[c].cg, docs |-> term[c].docs]]
  /\ \A c \in DOMAIN term : IsDocs(term[c].docs)
  /\ \A b, c \in DOMAIN term : term[b].cg = term[c].cg => b = c

IsBlock(block) ==
  block = [docs |-> block.docs, first |-> block.first, last |-> block.last,
           maxFrequency |-> block.maxFrequency, minLength |-> block.minLength,
           impacts |-> block.impacts]

\* Blocks that hold all of the documents, one after the other, as they are described.
AreBlocks(blocks, docs, lengths) ==
  /\ blocks = [b \in DOMAIN blocks |-> blocks[b]]
  /\ IsCut([b \in DOMAIN blocks |-> blocks[b].docs], docs)
  /\ \A b \in DOMAIN blocks : IsBlock(blocks[b]) /\ Describes(blocks[b], blocks[b].docs, lengths)

\* A category of a definition: short, with the directory, or long, in blocks.
Holds(category, docs, lengths) ==
  \/ category.blocks = <<>> /\ category.inline = docs
  \/ /\ category.inline = NoDocs
     /\ AreBlocks(category.blocks, docs, lengths)

\* A definition that says a term, and whose descriptions are right for the lengths of
\* the documents.
IsDefinition(def, term, lengths) ==
  /\ IsSaid(term)
  /\ def = [c \in DOMAIN term |->
              [cg |-> term[c].cg, frequency |-> def[c].frequency, inline |-> def[c].inline,
               blocks |-> def[c].blocks]]
  /\ \A c \in DOMAIN term : Holds(def[c], term[c].docs, lengths)

LEMMA SomeBlocks ==
  ASSUME NEW blocks, NEW docs, NEW lengths, AreBlocks(blocks, docs, lengths)
  PROVE  /\ blocks # <<>>
         /\ \E n \in Nat \ {0} : DOMAIN blocks = 1..n /\ blocks = [b \in 1..n |-> blocks[b]]
                                 /\ Len(blocks) = n
<1>1. PICK n \in Nat \ {0} : DOMAIN [b \in DOMAIN blocks |-> blocks[b].docs] = 1..n
  BY DEF AreBlocks, IsCut
<1>2. DOMAIN blocks = 1..n
  BY <1>1
<1>3. blocks = [b \in 1..n |-> blocks[b]]
  BY <1>2 DEF AreBlocks
<1>4. Len(blocks) = n
  BY <1>3, ListIs
<1>5. 1 \in DOMAIN blocks
  BY <1>2
<1>6. blocks # <<>>
  BY <1>5
<1> QED
  BY <1>2, <1>3, <1>4, <1>6

\* A description made of the lengths that are known holds of all of them.
LEMMA DescribedTruly ==
  ASSUME NEW block, NEW docs, IsDocs(docs), NEW lengths, lengths \in [DOMAIN lengths -> Nat],
         NEW truth, truth \in [DOMAIN truth -> Nat],
         \A d \in DOMAIN lengths : DocumentLength(truth, d) = lengths[d],
         Describes(block, docs, lengths)
  PROVE  Describes(block, docs, truth)
<1>1. \A d \in DOMAIN docs :
        /\ DocumentLength(truth, d) \in Nat
        /\ DocumentLength(lengths, d) \in Nat
        /\ d \in DOMAIN lengths => DocumentLength(lengths, d) = DocumentLength(truth, d)
        /\ d \notin DOMAIN lengths => DocumentLength(lengths, d) = 0
  BY LengthIs DEF DocumentLength
<1>2. \A d \in DOMAIN docs : block.minLength <= DocumentLength(lengths, d) /\ block.minLength \in Nat
  BY DEF Describes
<1>3. \A d \in DOMAIN docs : block.minLength <= DocumentLength(truth, d)
  BY <1>1, <1>2
<1>4. ASSUME block.impacts # <<>>
      PROVE  \A d \in DOMAIN docs : DocumentLength(lengths, d) = DocumentLength(truth, d)
  <2>1. block.minLength > 0
    BY <1>4 DEF Describes
  <2> QED
    BY <2>1, <1>1, <1>2
<1> QED
  BY <1>3, <1>4 DEF Describes

LEMMA DescribedStill ==
  ASSUME NEW block, NEW docs, NEW lengths, NEW truth,
         \A d \in DOMAIN docs : DocumentLength(truth, d) = DocumentLength(lengths, d),
         Describes(block, docs, lengths)
  PROVE  Describes(block, docs, truth)
BY DEF Describes

\* Blocks stay described when what some of them know of lengths is left out.
LEMMA SameImpactsDescribe ==
  ASSUME NEW n \in Nat, NEW blocks, blocks = [b \in 1..n |-> blocks[b]],
         NEW cut, NEW lengths,
         \A b \in 1..n : IsBlock(blocks[b]) /\ Describes(blocks[b], cut[b], lengths),
         NEW same, same = SameImpacts(blocks)
  PROVE  /\ same = [b \in 1..n |-> same[b]]
         /\ \A b \in 1..n : IsBlock(same[b]) /\ Describes(same[b], cut[b], lengths)
<1>1. DOMAIN blocks = 1..n
  OBVIOUS
<1>2. CASE \A b \in DOMAIN blocks : blocks[b].impacts # <<>>
  <2>1. same = blocks
    BY <1>2 DEF SameImpacts
  <2> QED
    BY <2>1
<1>3. CASE ~ \A b \in DOMAIN blocks : blocks[b].impacts # <<>>
  <2>1. same = [b \in DOMAIN blocks |-> [blocks[b] EXCEPT !.impacts = <<>>]]
    BY <1>3 DEF SameImpacts
  <2>2. same = [b \in 1..n |-> same[b]]
    BY <2>1, <1>1
  <2>3. ASSUME NEW b \in 1..n
        PROVE  IsBlock(same[b]) /\ Describes(same[b], cut[b], lengths)
    <3> DEFINE B == blocks[b]
    <3>1. same[b] = [B EXCEPT !.impacts = <<>>]
      BY <2>1, <1>1
    <3>2. Describes(B, cut[b], lengths) /\ B.docs = cut[b]
      BY DEF Describes
    <3>3. B = [docs |-> B.docs, first |-> B.first, last |-> B.last,
               maxFrequency |-> B.maxFrequency, minLength |-> B.minLength, impacts |-> B.impacts]
      BY DEF IsBlock
    <3> HIDE DEF B
    <3>4. B = [docs |-> cut[b], first |-> B.first, last |-> B.last,
               maxFrequency |-> B.maxFrequency, minLength |-> B.minLength, impacts |-> B.impacts]
      BY <3>2, <3>3
    <3>5. Describes(same[b], cut[b], lengths)
      BY <3>1, <3>2, <3>4, DescribedWithout
    <3>6. IsBlock(same[b])
      <4>1. same[b] = [docs |-> B.docs, first |-> B.first, last |-> B.last,
                       maxFrequency |-> B.maxFrequency, minLength |-> B.minLength,
                       impacts |-> <<>>]
        BY <3>1, <3>3
      <4> QED
        BY <4>1 DEF IsBlock
    <3> QED
      BY <3>5, <3>6
  <2> QED
    BY <2>2, <2>3
<1> QED
  BY <1>2, <1>3

LEMMA BlockShape == ASSUME NEW docs, NEW lengths PROVE IsBlock(DescribeBlock(docs, lengths))
<1>1. \E f, l, m, s, i : DescribeBlock(docs, lengths) =
        [docs |-> docs, first |-> f, last |-> l, maxFrequency |-> m, minLength |-> s, impacts |-> i]
  BY DEF DescribeBlock
<1> QED
  BY <1>1 DEF IsBlock

\* Documents cut into blocks, each described.
AreDescribed(new, cut, lengths) ==
  \E n \in Nat \ {0} :
    /\ DOMAIN cut = 1..n /\ cut = [b \in 1..n |-> cut[b]] /\ Len(cut) = n
    /\ new = [b \in 1..n |-> new[b]] /\ Len(new) = n
    /\ \A b \in 1..n : /\ IsDocs(cut[b]) /\ IsBlock(new[b])
                       /\ Describes(new[b], cut[b], lengths) /\ new[b].docs = cut[b]

LEMMA CutDescribed ==
  ASSUME NEW docs, IsDocs(docs), NEW lengths, lengths \in [DOMAIN lengths -> Nat],
         NEW cut, cut = Blocks(docs), NEW new,
         new = [b \in DOMAIN cut |-> DescribeBlock(cut[b], lengths)]
  PROVE  IsCut(cut, docs) /\ AreDescribed(new, cut, lengths)
<1>1. IsCut(cut, docs)
  BY BlocksAre
<1>2. PICK n \in Nat \ {0} : DOMAIN cut = 1..n /\ cut = [b \in 1..n |-> cut[b]] /\ Len(cut) = n
  BY <1>1 DEF IsCut
<1>3. new = [b \in 1..n |-> new[b]] /\ Len(new) = n
  <2>1. new = [b \in 1..n |-> new[b]]
    BY <1>2
  <2> QED
    BY <2>1, ListIs
<1>4. ASSUME NEW b \in 1..n
      PROVE  /\ IsDocs(cut[b]) /\ IsBlock(new[b])
             /\ Describes(new[b], cut[b], lengths) /\ new[b].docs = cut[b]
  <2>1. IsDocs(cut[b])
    BY <1>1, <1>2 DEF IsCut
  <2>2. new[b] = DescribeBlock(cut[b], lengths)
    BY <1>2
  <2>3. Describes(new[b], cut[b], lengths)
    BY <2>1, <2>2, BlockDescribed
  <2>5. IsBlock(new[b])
    BY <2>2, BlockShape
  <2> QED
    BY <2>1, <2>3, <2>5 DEF Describes
<1> QED
  BY <1>1, <1>2, <1>3, <1>4 DEF AreDescribed

\* A definition is written of what a term says.
LEMMA WrittenHolds ==
  ASSUME NEW term, IsSaid(term), NEW lengths, lengths \in [DOMAIN lengths -> Nat],
         NEW truth, truth \in [DOMAIN truth -> Nat],
         \A d \in DOMAIN lengths : DocumentLength(truth, d) = lengths[d]
  PROVE  IsDefinition(WriteTermDef(term, lengths), term, truth)
<1> DEFINE def == WriteTermDef(term, lengths)
           Long(c) == Cardinality(DOMAIN term[c].docs) > BlockSize
           CutOf(c) == Blocks(term[c].docs)
           New(c) == [b \in DOMAIN CutOf(c) |-> DescribeBlock(CutOf(c)[b], lengths)]
<1>1. def = [c \in DOMAIN term |->
               [cg |-> term[c].cg, frequency |-> SumOf(term[c].docs),
                inline |-> IF Long(c) THEN NoDocs ELSE term[c].docs,
                blocks |-> IF ~Long(c) THEN <<>> ELSE SameImpacts(New(c))]]
  BY DEF WriteTermDef
<1>2. def = [c \in DOMAIN term |->
              [cg |-> term[c].cg, frequency |-> def[c].frequency, inline |-> def[c].inline,
               blocks |-> def[c].blocks]]
  BY <1>1
<1>3. ASSUME NEW c \in DOMAIN term PROVE Holds(def[c], term[c].docs, truth)
  <2> DEFINE docs == term[c].docs
             cut == CutOf(c)
             new == New(c)
             same == SameImpacts(new)
  <2>1. IsDocs(docs)
    BY DEF IsSaid
  <2>2. CASE ~Long(c)
    <3>1. def[c].blocks = <<>> /\ def[c].inline = docs
      BY <1>1, <2>2
    <3> QED
      BY <3>1 DEF Holds
  <2>3. CASE Long(c)
    <3>1. def[c].blocks = same /\ def[c].inline = NoDocs
      BY <1>1, <2>3
    <3>2. /\ cut = Blocks(docs)
          /\ new = [b \in DOMAIN cut |-> DescribeBlock(cut[b], lengths)]
      OBVIOUS
    <3> HIDE DEF def, docs, cut, new
    <3>4. IsCut(cut, docs) /\ AreDescribed(new, cut, lengths)
      BY <2>1, <3>2, CutDescribed
    <3>3. PICK n \in Nat \ {0} :
              /\ DOMAIN cut = 1..n /\ cut = [b \in 1..n |-> cut[b]]
              /\ new = [b \in 1..n |-> new[b]]
              /\ \A b \in 1..n : /\ IsDocs(cut[b]) /\ IsBlock(new[b])
                                 /\ Describes(new[b], cut[b], lengths)
      BY <3>4 DEF AreDescribed
    <3>5. /\ same = [b \in 1..n |-> same[b]]
          /\ \A b \in 1..n : IsBlock(same[b]) /\ Describes(same[b], cut[b], lengths)
      BY <3>3, SameImpactsDescribe
    <3> HIDE DEF same
    <3>6. \A b \in 1..n : same[b].docs = cut[b] /\ Describes(same[b], same[b].docs, truth)
      <4> TAKE b \in 1..n
      <4>1. Describes(same[b], cut[b], truth)
        BY <3>3, <3>5, DescribedTruly
      <4> QED
        BY <4>1 DEF Describes
    <3>7. DOMAIN same = 1..n
      BY <3>5
    <3>8. [b \in DOMAIN same |-> same[b].docs] = cut
      BY <3>3, <3>6, <3>7
    <3>9. AreBlocks(same, docs, truth)
      BY <3>4, <3>5, <3>6, <3>7, <3>8 DEF AreBlocks
    <3> QED
      BY <3>1, <3>9 DEF Holds, docs
  <2> QED
    BY <2>2, <2>3
<1> HIDE DEF def
<1>4. IsDefinition(def, term, truth)
  BY <1>2, <1>3 DEF IsDefinition
<1> QED
  BY <1>4 DEF def

\* What blocks hold, together.
LEMMA BlocksJoined ==
  ASSUME NEW docs, IsDocs(docs), NEW blocks, NEW lengths, AreBlocks(blocks, docs, lengths)
  PROVE  Joined({NoDocs} \cup {blocks[b].docs : b \in DOMAIN blocks}) = docs
<1> DEFINE F == {NoDocs} \cup {blocks[b].docs : b \in DOMAIN blocks}
           cut == [b \in DOMAIN blocks |-> blocks[b].docs]
<1>1. IsCut(cut, docs) /\ DOMAIN cut = DOMAIN blocks /\ \A b \in DOMAIN blocks : cut[b] = blocks[b].docs
  BY DEF AreBlocks
<1>2. DOMAIN NoDocs = {}
  BY DEF NoDocs
<1>3. \A f \in F : \A d \in DOMAIN f : d \in DOMAIN docs /\ f[d] = docs[d]
  <2> TAKE f \in F
  <2>1. CASE f = NoDocs
    BY <2>1, <1>2
  <2>2. CASE f # NoDocs
    <3>1. PICK b \in DOMAIN blocks : f = cut[b]
      BY <2>2, <1>1
    <3> HIDE DEF cut
    <3> QED
      BY <3>1, <1>1 DEF IsCut
  <2> QED
    BY <2>1, <2>2
<1>4. \A d \in DOMAIN docs : \E f \in F : d \in DOMAIN f
  <2> TAKE d \in DOMAIN docs
  <2>1. PICK b \in DOMAIN blocks : d \in DOMAIN cut[b]
    BY <1>1 DEF IsCut
  <2> QED
    BY <2>1, <1>1
<1> HIDE DEF F
<1>5. UNION {DOMAIN f : f \in F} = DOMAIN docs
  BY <1>3, <1>4
<1>6. Joined(F) = [d \in DOMAIN docs |-> (CHOOSE f \in F : d \in DOMAIN f)[d]]
  BY <1>5 DEF Joined
<1>7. \A d \in DOMAIN docs : (CHOOSE f \in F : d \in DOMAIN f)[d] = docs[d]
  <2> TAKE d \in DOMAIN docs
  <2> DEFINE f == CHOOSE f \in F : d \in DOMAIN f
  <2>1. f \in F /\ d \in DOMAIN f
    BY <1>4
  <2> HIDE DEF f
  <2>2. f[d] = docs[d]
    BY <2>1, <1>3
  <2> QED
    BY <2>2 DEF f
<1>8. docs = [d \in DOMAIN docs |-> docs[d]]
  BY DEF IsDocs
<1>9. Joined(F) = docs
  BY <1>6, <1>7, <1>8
<1> QED
  BY <1>9 DEF F

LEMMA OneJoined ==
  ASSUME NEW docs, IsDocs(docs)
  PROVE  Joined({docs}) = docs
<1>1. UNION {DOMAIN f : f \in {docs}} = DOMAIN docs
  OBVIOUS
<1>2. \A d \in DOMAIN docs : (CHOOSE f \in {docs} : d \in DOMAIN f) = docs
  OBVIOUS
<1>3. docs = [d \in DOMAIN docs |-> docs[d]]
  BY DEF IsDocs
<1>4. Joined({docs}) = [d \in DOMAIN docs |-> (CHOOSE f \in {docs} : d \in DOMAIN f)[d]]
  BY <1>1 DEF Joined
<1> QED
  BY <1>2, <1>3, <1>4

\* What a definition says is read back.
LEMMA DecodedIs ==
  ASSUME NEW def, NEW term, NEW lengths, IsDefinition(def, term, lengths)
  PROVE  DecodeTermDef(def) = term
<1>1. PICK n \in Nat : term = [c \in 1..n |-> [cg |-> term[c].cg, docs |-> term[c].docs]]
  BY DEF IsDefinition, IsSaid
<1>2. DOMAIN term = 1..n
  BY <1>1
<1>3. def = [c \in 1..n |-> [cg |-> term[c].cg, frequency |-> def[c].frequency,
                            inline |-> def[c].inline, blocks |-> def[c].blocks]]
  BY <1>2 DEF IsDefinition
<1>4. DOMAIN def = 1..n /\ \A c \in 1..n : def[c].cg = term[c].cg
  BY <1>3
<1>5. ASSUME NEW c \in 1..n
      PROVE  Joined({def[c].inline} \cup {def[c].blocks[b].docs : b \in DOMAIN def[c].blocks})
               = term[c].docs
  <2> DEFINE docs == term[c].docs
             inline == def[c].inline
             blocks == def[c].blocks
  <2>1. IsDocs(docs) /\ Holds(def[c], docs, lengths)
    BY <1>2 DEF IsDefinition, IsSaid
  <2>2. CASE blocks = <<>> /\ inline = docs
    <3>1. {inline} \cup {blocks[b].docs : b \in DOMAIN blocks} = {docs}
      BY <2>2
    <3> QED
      BY <3>1, <2>1, OneJoined
  <2>3. CASE inline = NoDocs /\ AreBlocks(blocks, docs, lengths)
    BY <2>1, <2>3, BlocksJoined
  <2> QED
    BY <2>1, <2>2, <2>3 DEF Holds
<1>6. DecodeTermDef(def) =
        [c \in 1..n |-> [cg |-> def[c].cg,
           docs |-> Joined({def[c].inline} \cup {def[c].blocks[b].docs : b \in DOMAIN def[c].blocks})]]
  BY <1>4 DEF DecodeTermDef
<1>7. DecodeTermDef(def) = [c \in 1..n |-> [cg |-> term[c].cg, docs |-> term[c].docs]]
  BY <1>4, <1>5, <1>6
<1> QED
  BY <1>1, <1>7

\* Postings of two sets of documents.
Both(h, f, g) ==
  /\ h = [d \in DOMAIN f \cup DOMAIN g |-> h[d]]
  /\ \A d \in DOMAIN f : h[d] = f[d]
  /\ \A d \in DOMAIN g : h[d] = g[d]

LEMMA JoinedTwo ==
  ASSUME NEW f, NEW g, DOMAIN f \cap DOMAIN g = {}
  PROVE  Both(Joined({f, g}), f, g)
<1> DEFINE F == {f, g}
           chosen(d) == CHOOSE x \in F : d \in DOMAIN x
<1>1. UNION {DOMAIN x : x \in F} = DOMAIN f \cup DOMAIN g
  OBVIOUS
<1>2. \A d \in DOMAIN f : chosen(d) = f
  <2> TAKE d \in DOMAIN f
  <2>1. \E x \in F : d \in DOMAIN x
    OBVIOUS
  <2>2. chosen(d) \in F /\ d \in DOMAIN chosen(d)
    BY <2>1
  <2> HIDE DEF chosen
  <2> QED
    BY <2>2
<1>3. \A d \in DOMAIN g : chosen(d) = g
  <2> TAKE d \in DOMAIN g
  <2>1. \E x \in F : d \in DOMAIN x
    OBVIOUS
  <2>2. chosen(d) \in F /\ d \in DOMAIN chosen(d)
    BY <2>1
  <2> HIDE DEF chosen
  <2> QED
    BY <2>2
<1>4. Joined(F) = [d \in DOMAIN f \cup DOMAIN g |-> chosen(d)[d]]
  BY <1>1 DEF Joined
<1> HIDE DEF chosen
<1>5. Both(Joined(F), f, g)
  BY <1>2, <1>3, <1>4 DEF Both
<1> QED
  BY <1>5

LEMMA BothDocs ==
  ASSUME NEW f, IsDocs(f), NEW g, NEW h, Both(h, f, g), IsFiniteSet(DOMAIN g), DOMAIN g \subseteq Nat,
         g \in [DOMAIN g -> Nat \ {0}]
  PROVE  IsDocs(h)
<1>1. DOMAIN h = DOMAIN f \cup DOMAIN g
  BY DEF Both
<1>2. IsFiniteSet(DOMAIN h)
  <2>1. IsFiniteSet(DOMAIN f)
    BY DEF IsDocs
  <2>2. IsFiniteSet(DOMAIN f \cup DOMAIN g)
    BY <2>1, FS_Union
  <2> QED
    BY <1>1, <2>2
<1>3. \A d \in DOMAIN h : h[d] \in Nat \ {0}
  BY <1>1 DEF Both, IsDocs
<1>4. h = [d \in DOMAIN h |-> h[d]]
  BY <1>1 DEF Both
<1>5. h \in [DOMAIN h -> Nat \ {0}]
  BY <1>3, <1>4
<1>6. DOMAIN h \in (SUBSET Nat) \ {{}}
  BY <1>1 DEF IsDocs
<1> QED
  BY <1>2, <1>5, <1>6 DEF IsDocs

LEMMA FrontIs ==
  ASSUME NEW T, NEW list \in Seq(T), Len(list) > 0
  PROVE  /\ SubSeq(list, 1, Len(list) - 1) \in Seq(T)
         /\ Len(SubSeq(list, 1, Len(list) - 1)) = Len(list) - 1
         /\ \A i \in 1..(Len(list) - 1) : SubSeq(list, 1, Len(list) - 1)[i] = list[i]
<1> DEFINE n == Len(list)
           front == SubSeq(list, 1, n - 1)
<1>1. n \in Nat \ {0} /\ \A j \in 1..(n - 1) : list[j] \in T
  BY LenProperties, ElementOfSeq
<1>2. /\ front \in Seq(T) /\ Len(front) = IF 1 <= n - 1 THEN n - 1 - 1 + 1 ELSE 0
      /\ \A j \in 1..(n - 1 - 1 + 1) : front[j] = list[1 + j - 1]
  BY <1>1, SubSeqProperties
<1> HIDE DEF n
<1>3. n - 1 - 1 + 1 = n - 1 /\ \A j \in 1..(n - 1) : 1 + j - 1 = j
  BY <1>1
<1>4. Len(front) = n - 1 /\ \A j \in 1..(n - 1) : front[j] = list[j]
  <2>1. Len(front) = n - 1
    BY <1>1, <1>2
  <2> HIDE DEF front
  <2> QED
    BY <2>1, <1>2, <1>3
<1> QED
  BY <1>2, <1>4 DEF n

\* A sequence but its last, then another one.
LEMMA FrontThen ==
  ASSUME NEW T, NEW old \in Seq(T), NEW n \in Nat \ {0}, Len(old) = n,
         NEW new \in Seq(T), NEW m \in Nat, Len(new) = m,
         NEW s, s = SubSeq(old, 1, Len(old) - 1) \o new
  PROVE  s = [b \in 1..(n - 1 + m) |-> IF b < n THEN old[b] ELSE new[b - n + 1]]
<1> DEFINE front == SubSeq(old, 1, Len(old) - 1)
<1>1. /\ front \in Seq(T) /\ Len(front) = n - 1
      /\ \A i \in 1..(n - 1) : front[i] = old[i]
  BY FrontIs
<1>2. s = front \o new
  OBVIOUS
<1> HIDE DEF front
<1>3. /\ s \in Seq(T) /\ Len(s) = n - 1 + m
      /\ \A i \in 1..(n - 1 + m) : s[i] = IF i <= n - 1 THEN front[i] ELSE new[i - (n - 1)]
  <2>1. front \in Seq(T) /\ new \in Seq(T)
    BY <1>1
  <2>2. /\ front \o new \in Seq(T) /\ Len(front \o new) = Len(front) + Len(new)
        /\ \A i \in 1..(Len(front) + Len(new)) :
             (front \o new)[i] = IF i <= Len(front) THEN front[i] ELSE new[i - Len(front)]
    BY <2>1, ConcatProperties
  <2>3. Len(front) = n - 1 /\ Len(new) = m
    BY <1>1
  <2> QED
    BY <2>2, <2>3, <1>2
<1>4. DOMAIN s = 1..(n - 1 + m) /\ s = [i \in 1..(n - 1 + m) |-> s[i]]
  <2>1. PICK k : k = n - 1 + m /\ s \in Seq(T) /\ Len(s) = k
    BY <1>3
  <2>2. DOMAIN s = 1..k
    BY <2>1
  <2>3. s = [i \in DOMAIN s |-> s[i]]
    BY <2>1
  <2> QED
    BY <2>1, <2>2, <2>3
<1>5. ASSUME NEW i \in 1..(n - 1 + m)
      PROVE  s[i] = IF i < n THEN old[i] ELSE new[i - n + 1]
  <2>1. s[i] = IF i <= n - 1 THEN front[i] ELSE new[i - (n - 1)]
    BY <1>3
  <2>2. (i <= n - 1 <=> i < n) /\ i - (n - 1) = i - n + 1
    OBVIOUS
  <2>3. i < n => front[i] = old[i]
    BY <1>1
  <2> QED
    BY <2>1, <2>2, <2>3
<1> QED
  BY <1>4, <1>5

LEMMA ListIn ==
  ASSUME NEW n \in Nat, NEW s, s = [b \in 1..n |-> s[b]], NEW T, \A b \in 1..n : s[b] \in T
  PROVE  s \in Seq(T) /\ Len(s) = n
<1>1. s \in [1..n -> T]
  OBVIOUS
<1> QED
  BY <1>1, SeqDef, ListIs

\* Where the documents of blocks are.
InBlocks(old, n, docs) ==
  /\ Last(old) = old[n]
  /\ \A b \in 1..n : IsDocs(old[b].docs) /\ DOMAIN old[b].docs \subseteq DOMAIN docs
  /\ \A b \in 1..n : \A d \in DOMAIN old[b].docs : old[b].docs[d] = docs[d]
  /\ \A a, b \in 1..n : a < b => \A d \in DOMAIN old[a].docs, e \in DOMAIN old[b].docs : d < e
  /\ \A d \in DOMAIN docs : \E b \in 1..n : d \in DOMAIN old[b].docs
  /\ Last(old).last \in Nat /\ \A d \in DOMAIN docs : d \in Nat => d <= Last(old).last

LEMMA LastBlock ==
  ASSUME NEW docs, NEW old, NEW lengths, AreBlocks(old, docs, lengths),
         NEW n \in Nat \ {0}, DOMAIN old = 1..n, Len(old) = n
  PROVE  InBlocks(old, n, docs)
<1> DEFINE cut == [b \in DOMAIN old |-> old[b].docs]
<1>1. IsCut(cut, docs) /\ DOMAIN cut = 1..n /\ \A b \in 1..n : cut[b] = old[b].docs
  BY DEF AreBlocks
<1> HIDE DEF cut
<1>2. Last(old) = old[n]
  BY DEF Last
<1>3. \A b \in 1..n : IsDocs(cut[b]) /\ DOMAIN cut[b] \subseteq DOMAIN docs
                      /\ \A d \in DOMAIN cut[b] : cut[b][d] = docs[d]
  BY <1>1 DEF IsCut
<1>4. \A a, b \in 1..n : a < b => \A d \in DOMAIN cut[a], e \in DOMAIN cut[b] : d < e
  BY <1>1 DEF IsCut
<1>5. \A d \in DOMAIN docs : \E b \in 1..n : d \in DOMAIN cut[b]
  BY <1>1 DEF IsCut
<1>6. /\ old[n].last \in DOMAIN old[n].docs
      /\ \A d \in DOMAIN old[n].docs : d <= old[n].last
  <2>1. n \in DOMAIN old
    OBVIOUS
  <2>2. Describes(old[n], old[n].docs, lengths)
    BY <2>1 DEF AreBlocks
  <2> QED
    BY <2>2 DEF Describes
<1>7. old[n].last \in Nat
  <2>1. IsDocs(old[n].docs)
    BY <1>1, <1>3
  <2> QED
    BY <2>1, <1>6 DEF IsDocs
<1>8. ASSUME NEW d \in DOMAIN docs, d \in Nat PROVE d <= old[n].last
  <2>1. PICK b \in 1..n : d \in DOMAIN cut[b]
    BY <1>5
  <2>2. CASE b = n
    BY <2>1, <2>2, <1>1, <1>6
  <2>3. CASE b # n
    <3>1. b < n /\ old[n].last \in DOMAIN cut[n] /\ n \in 1..n
      BY <2>3, <1>1, <1>6
    <3>2. d < old[n].last
      BY <2>1, <3>1, <1>4
    <3> QED
      BY <3>2, <1>7, <1>8
  <2> QED
    BY <2>2, <2>3
<1>9. \A b \in 1..n : IsDocs(old[b].docs) /\ DOMAIN old[b].docs \subseteq DOMAIN docs
  BY <1>1, <1>3
<1>10. \A b \in 1..n : \A d \in DOMAIN old[b].docs : old[b].docs[d] = docs[d]
  BY <1>1, <1>3
<1>11. \A a, b \in 1..n : a < b => \A d \in DOMAIN old[a].docs, e \in DOMAIN old[b].docs : d < e
  BY <1>1, <1>4
<1>12. \A d \in DOMAIN docs : \E b \in 1..n : d \in DOMAIN old[b].docs
  BY <1>1, <1>5
<1> QED
  BY <1>2, <1>7, <1>8, <1>9, <1>10, <1>11, <1>12 DEF InBlocks

\* The documents of blocks but the last, then those of other blocks.
Lengthened(old, n, cut, m) ==
  [b \in 1..(n - 1 + m) |-> IF b < n THEN old[b].docs ELSE cut[b - n + 1]]

\* Blocks but the last, and the last cut again with what is added after it.
LEMMA AppendedCut ==
  ASSUME NEW docs, IsDocs(docs), NEW old, NEW before, AreBlocks(old, docs, before),
         NEW n \in Nat \ {0}, DOMAIN old = 1..n, Len(old) = n,
         NEW added, IsDocs(added), \A d \in DOMAIN added : d > Last(old).last,
         NEW all, Both(all, docs, added),
         NEW tail, Both(tail, Last(old).docs, added),
         NEW cut, IsCut(cut, tail), NEW m \in Nat \ {0}, DOMAIN cut = 1..m
  PROVE  IsCut(Lengthened(old, n, cut, m), all)
<1> DEFINE both == Lengthened(old, n, cut, m)
<1>0. both = [b \in 1..(n - 1 + m) |-> IF b < n THEN old[b].docs ELSE cut[b - n + 1]]
  BY DEF Lengthened
<1> HIDE DEF both
<1>1. /\ Last(old) = old[n]
      /\ \A b \in 1..n : IsDocs(old[b].docs) /\ DOMAIN old[b].docs \subseteq DOMAIN docs
      /\ \A b \in 1..n : \A d \in DOMAIN old[b].docs : old[b].docs[d] = docs[d]
      /\ \A a, b \in 1..n : a < b => \A d \in DOMAIN old[a].docs, e \in DOMAIN old[b].docs : d < e
      /\ \A d \in DOMAIN docs : \E b \in 1..n : d \in DOMAIN old[b].docs
      /\ Last(old).last \in Nat /\ \A d \in DOMAIN docs : d \in Nat => d <= Last(old).last
  <2>1. InBlocks(old, n, docs)
    BY LastBlock
  <2> QED
    BY <2>1 DEF InBlocks
<1> DEFINE k == n - 1 + m
<1>2. k \in Nat \ {0} /\ DOMAIN both = 1..k /\ both = [b \in 1..k |-> both[b]] /\ Len(both) = k
  <2>1. k \in Nat \ {0}
    OBVIOUS
  <2>2. DOMAIN both = 1..k /\ both = [b \in 1..k |-> both[b]]
    BY <1>0
  <2> HIDE DEF k
  <2> QED
    BY <2>1, <2>2, ListIs
<1>3. \A b \in 1..k : b < n => b \in 1..n /\ both[b] = old[b].docs
  BY <1>0
<1>4. \A b \in 1..k : ~(b < n) => b - n + 1 \in 1..m /\ both[b] = cut[b - n + 1]
  BY <1>0
<1>5. \A d \in DOMAIN docs : d \in Nat
  BY DEF IsDocs
<1>6. \A d \in DOMAIN added : d \in Nat
  BY DEF IsDocs
<1>7. /\ DOMAIN all = DOMAIN docs \cup DOMAIN added
      /\ \A d \in DOMAIN docs : all[d] = docs[d]
      /\ \A d \in DOMAIN added : all[d] = added[d]
  BY DEF Both
<1>8. /\ DOMAIN tail = DOMAIN old[n].docs \cup DOMAIN added
      /\ \A d \in DOMAIN old[n].docs : tail[d] = docs[d]
      /\ \A d \in DOMAIN added : tail[d] = added[d]
  <2>1. \A d \in DOMAIN old[n].docs : old[n].docs[d] = docs[d]
    <3>1. n \in 1..n
      OBVIOUS
    <3> QED
      BY <3>1, <1>1
  <2>2. Both(tail, old[n].docs, added)
    BY <1>1
  <2> QED
    BY <2>1, <2>2 DEF Both
<1>9. DOMAIN tail \subseteq DOMAIN all /\ \A d \in DOMAIN tail : tail[d] = all[d]
  <2>1. DOMAIN old[n].docs \subseteq DOMAIN docs
    BY <1>1
  <2> QED
    BY <2>1, <1>7, <1>8
<1>10. /\ \A b \in 1..m : /\ IsDocs(cut[b]) /\ DOMAIN cut[b] \subseteq DOMAIN tail
                          /\ \A d \in DOMAIN cut[b] : cut[b][d] = tail[d]
       /\ \A a, b \in 1..m : a < b => \A d \in DOMAIN cut[a], e \in DOMAIN cut[b] : d < e
       /\ \A d \in DOMAIN tail : \E b \in 1..m : d \in DOMAIN cut[b]
  BY DEF IsCut
<1>11. ASSUME NEW b \in 1..k
       PROVE  /\ IsDocs(both[b]) /\ DOMAIN both[b] \subseteq DOMAIN all
              /\ \A d \in DOMAIN both[b] : both[b][d] = all[d]
  <2>1. CASE b < n
    <3>1. b \in 1..n /\ both[b] = old[b].docs
      BY <2>1, <1>3
    <3> QED
      BY <3>1, <1>1, <1>7
  <2>2. CASE ~(b < n)
    <3>1. b - n + 1 \in 1..m /\ both[b] = cut[b - n + 1]
      BY <2>2, <1>4
    <3> QED
      BY <3>1, <1>9, <1>10
  <2> QED
    BY <2>1, <2>2
<1>12. ASSUME NEW a \in 1..k, NEW b \in 1..k, a < b, NEW d \in DOMAIN both[a], NEW e \in DOMAIN both[b]
       PROVE  d < e
  <2>1. CASE b < n
    <3>1. a < n
      BY <2>1, <1>2, <1>12
    <3>2. a \in 1..n /\ b \in 1..n /\ both[a] = old[a].docs /\ both[b] = old[b].docs
      BY <2>1, <3>1, <1>3
    <3> QED
      BY <3>2, <1>1, <1>12
  <2>2. CASE ~(a < n)
    <3>1. ~(b < n)
      BY <2>2, <1>2, <1>12
    <3>2. a - n + 1 \in 1..m /\ b - n + 1 \in 1..m /\ both[a] = cut[a - n + 1] /\ both[b] = cut[b - n + 1]
      BY <2>2, <3>1, <1>4
    <3>3. a - n + 1 < b - n + 1
      BY <1>2, <1>12
    <3> QED
      BY <3>2, <3>3, <1>10, <1>12
  <2>3. CASE a < n /\ ~(b < n)
    <3>1. a \in 1..n /\ both[a] = old[a].docs
      BY <2>3, <1>3
    <3>2. b - n + 1 \in 1..m /\ both[b] = cut[b - n + 1]
      BY <2>3, <1>4
    <3>3. e \in DOMAIN old[n].docs \/ e \in DOMAIN added
      BY <3>2, <1>8, <1>10, <1>12
    <3>4. CASE e \in DOMAIN old[n].docs
      <4>1. n \in 1..n
        OBVIOUS
      <4> QED
        BY <3>1, <3>4, <4>1, <2>3, <1>1, <1>12
    <3>5. CASE e \in DOMAIN added
      <4>1. d \in DOMAIN docs
        BY <3>1, <1>1, <1>12
      <4>2. d \in Nat /\ e \in Nat /\ d <= Last(old).last /\ e > Last(old).last
        BY <4>1, <3>5, <1>1, <1>5, <1>6
      <4> QED
        BY <4>2, <1>1
    <3> QED
      BY <3>3, <3>4, <3>5
  <2> QED
    BY <2>1, <2>2, <2>3
<1>13. ASSUME NEW d \in DOMAIN all PROVE \E b \in 1..k : d \in DOMAIN both[b]
  <2>1. CASE \E b \in 1..n : b < n /\ d \in DOMAIN old[b].docs
    <3>1. PICK b \in 1..n : b < n /\ d \in DOMAIN old[b].docs
      BY <2>1
    <3>2. b \in 1..k
      BY <3>1
    <3> QED
      BY <3>1, <3>2, <1>3
  <2>2. CASE d \in DOMAIN tail
    <3>1. PICK b \in 1..m : d \in DOMAIN cut[b]
      BY <2>2, <1>10
    <3>2. b + n - 1 \in 1..k /\ ~(b + n - 1 < n) /\ (b + n - 1) - n + 1 = b
      OBVIOUS
    <3>3. both[b + n - 1] = cut[b]
      BY <3>2, <1>4
    <3> QED
      BY <3>1, <3>2, <3>3
  <2>3. d \in DOMAIN tail \/ \E b \in 1..n : b < n /\ d \in DOMAIN old[b].docs
    <3>1. CASE d \in DOMAIN added
      BY <3>1, <1>8
    <3>2. CASE d \in DOMAIN docs
      <4>1. PICK b \in 1..n : d \in DOMAIN old[b].docs
        BY <3>2, <1>1
      <4>2. b < n \/ b = n
        OBVIOUS
      <4> QED
        BY <4>1, <4>2, <1>8
    <3> QED
      BY <3>1, <3>2, <1>7, <1>13
  <2> QED
    BY <2>1, <2>2, <2>3
<1> HIDE DEF k
<1>14. \E j \in Nat \ {0} : DOMAIN both = 1..j /\ both = [b \in 1..j |-> both[b]] /\ Len(both) = j
  BY <1>2
<1>15. \A b \in DOMAIN both : /\ IsDocs(both[b]) /\ DOMAIN both[b] \subseteq DOMAIN all
                              /\ \A d \in DOMAIN both[b] : both[b][d] = all[d]
  BY <1>2, <1>11
<1>16. \A a, b \in DOMAIN both : a < b => \A d \in DOMAIN both[a], e \in DOMAIN both[b] : d < e
  BY <1>2, <1>12
<1>17. \A d \in DOMAIN all : \E b \in DOMAIN both : d \in DOMAIN both[b]
  BY <1>2, <1>13
<1> QED
  BY <1>14, <1>15, <1>16, <1>17 DEF IsCut, both

\* The lengths that an update is given are those of the documents, or not known.
AreKnown(lengths, truth) ==
  /\ lengths \in [DOMAIN lengths -> Nat] /\ truth \in [DOMAIN truth -> Nat]
  /\ \A d \in DOMAIN lengths : DocumentLength(truth, d) = lengths[d]

SameLengths(docs, before, truth) ==
  \A d \in DOMAIN docs : DocumentLength(truth, d) = DocumentLength(before, d)

\* The blocks of a definition that documents are appended to.
Appended(old, added, lengths) ==
  LET cut == Blocks(Joined({Last(old).docs, added}))
  IN SameImpacts(SubSeq(old, 1, Len(old) - 1) \o [b \in DOMAIN cut |-> DescribeBlock(cut[b], lengths)])

LEMMA AppendedBlocks ==
  ASSUME NEW docs, IsDocs(docs), NEW old, NEW before, AreBlocks(old, docs, before),
         NEW added, IsDocs(added), \A d \in DOMAIN added : d > Last(old).last,
         NEW all, Both(all, docs, added),
         NEW lengths, NEW truth, AreKnown(lengths, truth), SameLengths(docs, before, truth)
  PROVE  AreBlocks(Appended(old, added, lengths), all, truth)
<1>1. PICK n \in Nat \ {0} : DOMAIN old = 1..n /\ old = [b \in 1..n |-> old[b]] /\ Len(old) = n
  BY SomeBlocks
<1>2. InBlocks(old, n, docs)
  BY <1>1, LastBlock
<1> DEFINE tail == Joined({Last(old).docs, added})
           cut == Blocks(tail)
           new == [b \in DOMAIN cut |-> DescribeBlock(cut[b], lengths)]
           joined == SubSeq(old, 1, Len(old) - 1) \o new
           same == SameImpacts(joined)
<1>3. Appended(old, added, lengths) = same
  BY DEF Appended
<1>4. Both(tail, Last(old).docs, added)
  <2>1. ASSUME NEW d \in DOMAIN Last(old).docs, d \in DOMAIN added PROVE FALSE
    <3>1. n \in 1..n
      OBVIOUS
    <3>2. d \in DOMAIN docs /\ d \in Nat
      BY <2>1, <3>1, <1>2 DEF InBlocks, IsDocs
    <3>3. d <= Last(old).last /\ Last(old).last \in Nat /\ d > Last(old).last
      BY <2>1, <3>2, <1>2 DEF InBlocks
    <3> QED
      BY <3>2, <3>3
  <2>2. DOMAIN Last(old).docs \cap DOMAIN added = {}
    BY <2>1
  <2> QED
    BY <2>2, JoinedTwo
<1>5. IsDocs(tail)
  <2>1. n \in 1..n
    OBVIOUS
  <2>2. IsDocs(Last(old).docs)
    BY <2>1, <1>2 DEF InBlocks
  <2>3. IsFiniteSet(DOMAIN added) /\ DOMAIN added \subseteq Nat /\ added \in [DOMAIN added -> Nat \ {0}]
    BY DEF IsDocs
  <2> HIDE DEF tail
  <2> QED
    BY <1>4, <2>2, <2>3, BothDocs
<1>6. IsCut(cut, tail) /\ AreDescribed(new, cut, lengths)
  <2>1. lengths \in [DOMAIN lengths -> Nat]
    BY DEF AreKnown
  <2> HIDE DEF tail
  <2>2. cut = Blocks(tail) /\ new = [b \in DOMAIN cut |-> DescribeBlock(cut[b], lengths)]
    OBVIOUS
  <2> HIDE DEF cut, new
  <2> QED
    BY <2>1, <2>2, <1>5, CutDescribed
<1> HIDE DEF tail, cut, new
<1>7. PICK m \in Nat \ {0} :
        /\ DOMAIN cut = 1..m /\ cut = [b \in 1..m |-> cut[b]]
        /\ new = [b \in 1..m |-> new[b]]
        /\ \A b \in 1..m : /\ IsDocs(cut[b]) /\ IsBlock(new[b])
                           /\ Describes(new[b], cut[b], lengths) /\ new[b].docs = cut[b]
  BY <1>6 DEF AreDescribed
<1>8. joined = [b \in 1..(n - 1 + m) |-> IF b < n THEN old[b] ELSE new[b - n + 1]]
  <2> DEFINE T == {old[b] : b \in 1..n} \cup {new[b] : b \in 1..m}
  <2>1. (\A b \in 1..n : old[b] \in T) /\ (\A b \in 1..m : new[b] \in T)
    OBVIOUS
  <2> HIDE DEF T
  <2>2. old \in Seq(T) /\ Len(old) = n
    BY <1>1, <2>1, ListIn
  <2>3. new \in Seq(T) /\ Len(new) = m
    BY <1>7, <2>1, ListIn
  <2> QED
    BY <2>2, <2>3, FrontThen
<1> DEFINE both == Lengthened(old, n, cut, m)
           k == n - 1 + m
<1>9. IsCut(both, all)
  <2>2. DOMAIN old = 1..n /\ Len(old) = n /\ DOMAIN cut = 1..m /\ IsCut(cut, tail)
    BY <1>1, <1>6, <1>7
  <2> QED
    BY <2>2, <1>4, AppendedCut
<1> HIDE DEF joined
<1>10. k \in Nat /\ joined = [b \in 1..k |-> joined[b]] /\ DOMAIN both = 1..k
  BY <1>8 DEF Lengthened
<1>11. ASSUME NEW b \in 1..k
       PROVE  IsBlock(joined[b]) /\ Describes(joined[b], both[b], truth)
  <2>1. CASE b < n
    <3>1. joined[b] = old[b] /\ both[b] = old[b].docs /\ b \in 1..n
      BY <2>1, <1>8 DEF Lengthened
    <3>2. IsBlock(old[b]) /\ Describes(old[b], old[b].docs, before)
      BY <3>1, <1>1 DEF AreBlocks
    <3>3. \A d \in DOMAIN old[b].docs : DocumentLength(truth, d) = DocumentLength(before, d)
      BY <3>1, <1>2 DEF InBlocks, SameLengths
    <3>4. Describes(old[b], old[b].docs, truth)
      BY <3>2, <3>3, DescribedStill
    <3> QED
      BY <3>1, <3>2, <3>4
  <2>2. CASE ~(b < n)
    <3>1. b - n + 1 \in 1..m /\ joined[b] = new[b - n + 1] /\ both[b] = cut[b - n + 1]
      BY <2>2, <1>8 DEF Lengthened
    <3> DEFINE i == b - n + 1
    <3>2. i \in 1..m /\ joined[b] = new[i] /\ both[b] = cut[i]
      BY <3>1
    <3> HIDE DEF i, joined, both
    <3>3. IsDocs(cut[i]) /\ IsBlock(new[i]) /\ Describes(new[i], cut[i], lengths)
      BY <3>2, <1>7
    <3>4. Describes(new[i], cut[i], truth)
      BY <3>3, DescribedTruly DEF AreKnown
    <3> QED
      BY <3>2, <3>3, <3>4
  <2> QED
    BY <2>1, <2>2
<1> HIDE DEF joined, both, k
<1>12. /\ same = [b \in 1..k |-> same[b]]
       /\ \A b \in 1..k : IsBlock(same[b]) /\ Describes(same[b], both[b], truth)
  BY <1>10, <1>11, SameImpactsDescribe
<1> HIDE DEF same
<1>13. DOMAIN same = 1..k /\ \A b \in 1..k : same[b].docs = both[b]
  BY <1>12 DEF Describes
<1>14. [b \in DOMAIN same |-> same[b].docs] = both
  <2>1. both = [b \in 1..k |-> both[b]]
    BY DEF both, k, Lengthened
  <2> QED
    BY <2>1, <1>13
<1>15. \A b \in DOMAIN same : IsBlock(same[b]) /\ Describes(same[b], same[b].docs, truth)
  BY <1>12, <1>13
<1>16. AreBlocks(same, all, truth)
  BY <1>9, <1>12, <1>13, <1>14, <1>15 DEF AreBlocks
<1> QED
  BY <1>3, <1>16

LEMMA OneTerm ==
  ASSUME NEW cg, NEW docs, IsDocs(docs), NEW term, term = <<[cg |-> cg, docs |-> docs]>>
  PROVE  IsSaid(term) /\ DOMAIN term = {1} /\ term[1].cg = cg /\ term[1].docs = docs
<1>1. DOMAIN term = {1} /\ term[1] = [cg |-> cg, docs |-> docs]
  OBVIOUS
<1>2. term = [c \in 1..1 |-> [cg |-> term[c].cg, docs |-> term[c].docs]]
  OBVIOUS
<1> QED
  BY <1>1, <1>2 DEF IsSaid

\* Documents appended to a definition in place.
LEMMA AppendedHolds ==
  ASSUME NEW def, NEW term, NEW before, IsDefinition(def, term, before),
         NEW cg, NEW added, IsDocs(added), Appendable(def, cg, added),
         NEW all, Both(all, term[1].docs, added),
         NEW lengths, NEW truth, AreKnown(lengths, truth), SameLengths(term[1].docs, before, truth)
  PROVE  /\ DOMAIN term = {1} /\ term[1].cg = cg
         /\ IsDefinition(AppendInPlace(def, added, lengths), <<[cg |-> cg, docs |-> all]>>, truth)
<1>1. PICK n \in Nat : term = [c \in 1..n |-> [cg |-> term[c].cg, docs |-> term[c].docs]]
  BY DEF IsDefinition, IsSaid
<1>2. DOMAIN term = 1..n
  BY <1>1
<1>3. def = [c \in 1..n |-> [cg |-> term[c].cg, frequency |-> def[c].frequency,
                            inline |-> def[c].inline, blocks |-> def[c].blocks]]
  BY <1>2 DEF IsDefinition
<1>4. Len(def) = n /\ n = 1
  <2>1. def = [c \in 1..n |-> def[c]]
    BY <1>3
  <2>2. Len(def) = n
    BY <2>1, ListIs
  <2> QED
    BY <2>2 DEF Appendable
<1>5. DOMAIN term = {1}
  BY <1>2, <1>4
<1> DEFINE docs == term[1].docs
           old == def[1].blocks
<1>6. def[1] = [cg |-> term[1].cg, frequency |-> def[1].frequency, inline |-> def[1].inline,
                blocks |-> old]
  BY <1>3, <1>4
<1>7. def[1].cg = cg /\ old # <<>> /\ \A d \in DOMAIN added : d > Last(old).last
  BY DEF Appendable
<1>8. IsDocs(docs) /\ Holds(def[1], docs, before)
  BY <1>5 DEF IsDefinition, IsSaid
<1>9. def[1].inline = NoDocs /\ AreBlocks(old, docs, before)
  BY <1>7, <1>8 DEF Holds
<1>10. AreBlocks(Appended(old, added, lengths), all, truth)
  <2> HIDE DEF old, docs
  <2>1. Both(all, docs, added) /\ SameLengths(docs, before, truth)
    BY DEF docs
  <2> QED
    BY <1>7, <1>8, <1>9, <2>1, AppendedBlocks
<1>11. term[1].cg = cg
  BY <1>6, <1>7
<1> DEFINE new == AppendInPlace(def, added, lengths)
           blocks == Appended(old, added, lengths)
           frequency == def[1].frequency + SumOf(added)
           said == <<[cg |-> cg, docs |-> all]>>
<1>12. new = <<[def[1] EXCEPT !.frequency = frequency, !.blocks = blocks]>>
  BY DEF AppendInPlace, Appended
<1> HIDE DEF blocks, frequency
<1>13. new = <<[cg |-> cg, frequency |-> frequency, inline |-> NoDocs, blocks |-> blocks]>>
  <2>1. PICK f, b : def[1] = [cg |-> cg, frequency |-> f, inline |-> NoDocs, blocks |-> b]
    BY <1>6, <1>9, <1>11
  <2> DEFINE counted == [def[1] EXCEPT !.frequency = frequency]
  <2>2. counted = [cg |-> cg, frequency |-> frequency, inline |-> NoDocs, blocks |-> b]
    BY <2>1
  <2>3. new = <<[counted EXCEPT !.blocks = blocks]>>
    BY <1>12
  <2> HIDE DEF counted
  <2> QED
    BY <2>2, <2>3
<1>14. IsSaid(said) /\ DOMAIN said = {1} /\ said[1].cg = cg /\ said[1].docs = all
  <2>1. IsDocs(all)
    <3>1. IsFiniteSet(DOMAIN added) /\ DOMAIN added \subseteq Nat /\ added \in [DOMAIN added -> Nat \ {0}]
      BY DEF IsDocs
    <3> QED
      BY <3>1, <1>8, BothDocs
  <2> QED
    BY <2>1, OneTerm
<1> HIDE DEF new, said
<1>15. new = [c \in DOMAIN said |-> [cg |-> said[c].cg, frequency |-> new[c].frequency,
                                     inline |-> new[c].inline, blocks |-> new[c].blocks]]
  <2>1. DOMAIN said = 1..1
    BY <1>14
  <2>2. new = [c \in 1..1 |-> [cg |-> cg, frequency |-> frequency, inline |-> NoDocs,
                               blocks |-> blocks]]
    BY <1>13
  <2> QED
    BY <2>1, <2>2, <1>14
<1>16. Holds(new[1], said[1].docs, truth)
  <2>1. new[1].inline = NoDocs /\ new[1].blocks = blocks
    BY <1>13
  <2> QED
    BY <2>1, <1>10, <1>14 DEF Holds, blocks
<1>17. IsDefinition(new, said, truth)
  BY <1>14, <1>15, <1>16 DEF IsDefinition
<1> QED
  BY <1>5, <1>11, <1>17 DEF new, said

\* Postings, if any.
ArePostings(docs) ==
  /\ IsFiniteSet(DOMAIN docs) /\ DOMAIN docs \subseteq Nat /\ docs \in [DOMAIN docs -> Nat \ {0}]

\* The postings of a term: category, document, frequency.
Says(term) ==
  UNION {{<<term[c].cg, d, term[c].docs[d]>> : d \in DOMAIN term[c].docs} : c \in DOMAIN term}

\* What an update makes of them: the removed documents have left every category,
\* the added ones are in theirs, once.
Changes(said, removed, cg, added) ==
  {p \in said : p[2] \notin removed /\ ~(p[1] = cg /\ p[2] \in DOMAIN added)}
    \cup {<<cg, d, added[d]>> : d \in DOMAIN added}

\* Postings of a category, but of removed documents.
Keeps(left, docs, removed) ==
  /\ ArePostings(left) /\ DOMAIN left = DOMAIN docs \ removed
  /\ \A d \in DOMAIN left : left[d] = docs[d]

LEMMA WithoutIs ==
  ASSUME NEW docs, ArePostings(docs), NEW removed
  PROVE  Keeps(Without(docs, removed), docs, removed)
<1> DEFINE left == Without(docs, removed)
<1>1. left = [d \in DOMAIN docs \ removed |-> docs[d]]
  BY DEF Without, Restrict
<1> HIDE DEF left
<1>2. DOMAIN left = DOMAIN docs \ removed /\ \A d \in DOMAIN left : left[d] = docs[d]
  BY <1>1
<1>3. IsFiniteSet(DOMAIN left)
  <2>1. IsFiniteSet(DOMAIN docs) /\ DOMAIN left \subseteq DOMAIN docs
    BY <1>2 DEF ArePostings
  <2> QED
    BY <2>1, FS_Subset
<1>4. left \in [DOMAIN left -> Nat \ {0}]
  <2>1. \A d \in DOMAIN left : left[d] \in Nat \ {0}
    BY <1>2 DEF ArePostings
  <2>2. left = [d \in DOMAIN left |-> left[d]]
    BY <1>1
  <2> QED
    BY <2>1, <2>2
<1>5. DOMAIN left \subseteq Nat
  BY <1>2 DEF ArePostings
<1>6. ArePostings(left)
  BY <1>3, <1>4, <1>5 DEF ArePostings
<1> QED
  BY <1>2, <1>6 DEF Keeps, left

\* Documents added to those of a category, replaced if they were there.
Replaces(new, docs, added) ==
  /\ ArePostings(new) /\ DOMAIN new = DOMAIN docs \cup DOMAIN added
  /\ \A d \in DOMAIN added : new[d] = added[d]
  /\ \A d \in DOMAIN docs \ DOMAIN added : new[d] = docs[d]

LEMMA ReplacedIs ==
  ASSUME NEW docs, ArePostings(docs), NEW added, ArePostings(added)
  PROVE  Replaces(Joined({added, Without(docs, DOMAIN added)}), docs, added)
<1> DEFINE left == Without(docs, DOMAIN added)
           new == Joined({added, left})
<1>1. /\ ArePostings(left) /\ DOMAIN left = DOMAIN docs \ DOMAIN added
      /\ \A d \in DOMAIN left : left[d] = docs[d]
  <2>1. Keeps(left, docs, DOMAIN added)
    BY WithoutIs
  <2> QED
    BY <2>1 DEF Keeps
<1> HIDE DEF left, new
<1>2. Both(new, added, left)
  <2>1. DOMAIN added \cap DOMAIN left = {}
    BY <1>1
  <2>2. new = Joined({added, left})
    BY DEF new
  <2> QED
    BY <2>1, <2>2, JoinedTwo
<1>3. /\ DOMAIN new = DOMAIN docs \cup DOMAIN added
      /\ new = [d \in DOMAIN new |-> new[d]]
      /\ \A d \in DOMAIN added : new[d] = added[d]
      /\ \A d \in DOMAIN docs \ DOMAIN added : new[d] = docs[d]
  BY <1>1, <1>2 DEF Both
<1>4. IsFiniteSet(DOMAIN new)
  <2>1. IsFiniteSet(DOMAIN docs) /\ IsFiniteSet(DOMAIN added)
    BY DEF ArePostings
  <2>2. IsFiniteSet(DOMAIN docs \cup DOMAIN added)
    BY <2>1, FS_Union
  <2> QED
    BY <2>2, <1>3
<1>5. \A d \in DOMAIN new : d \in Nat /\ new[d] \in Nat \ {0}
  BY <1>3 DEF ArePostings
<1>6. new \in [DOMAIN new -> Nat \ {0}]
  BY <1>3, <1>5
<1>7. ArePostings(new)
  BY <1>4, <1>5, <1>6 DEF ArePostings
<1>8. Replaces(new, docs, added)
  BY <1>3, <1>7 DEF Replaces
<1> QED
  BY <1>8 DEF new, left

LEMMA SomeDocs ==
  ASSUME NEW docs, ArePostings(docs)
  PROVE  docs # NoDocs <=> IsDocs(docs)
<1>1. CASE DOMAIN docs = {}
  <2>1. docs = NoDocs
    BY <1>1 DEF NoDocs, ArePostings
  <2>2. ~IsDocs(docs)
    BY <1>1 DEF IsDocs
  <2> QED
    BY <2>1, <2>2
<1>2. CASE DOMAIN docs # {}
  <2>1. DOMAIN NoDocs = {}
    BY DEF NoDocs
  <2>2. docs # NoDocs
    BY <1>2, <2>1
  <2>3. IsDocs(docs)
    BY <1>2 DEF IsDocs, ArePostings
  <2> QED
    BY <2>2, <2>3
<1> QED
  BY <1>1, <1>2

LEMMA DocsArePostings == ASSUME NEW docs, IsDocs(docs) PROVE ArePostings(docs)
  BY DEF IsDocs, ArePostings

LEMMA NoPostings == ArePostings(NoDocs) /\ DOMAIN NoDocs = {}
<1>1. DOMAIN NoDocs = {}
  BY DEF NoDocs
<1>2. NoDocs \in [DOMAIN NoDocs -> Nat \ {0}]
  BY <1>1 DEF NoDocs
<1> QED
  BY <1>1, <1>2, FS_EmptySet DEF ArePostings

LEMMA AppendIs ==
  ASSUME NEW n \in Nat, NEW s, s = [c \in 1..n |-> s[c]], NEW e, NEW t, t = Append(s, e)
  PROVE  t = [c \in 1..(n + 1) |-> IF c <= n THEN s[c] ELSE e]
<1> DEFINE T == {s[c] : c \in 1..n} \cup {e}
<1>1. (\A c \in 1..n : s[c] \in T) /\ e \in T
  OBVIOUS
<1> HIDE DEF T
<1>2. s \in Seq(T) /\ Len(s) = n
  BY <1>1, ListIn
<1>3. /\ t \in Seq(T) /\ Len(t) = n + 1
      /\ \A c \in 1..n : t[c] = s[c]
      /\ t[n + 1] = e
  BY <1>1, <1>2, AppendProperties
<1>4. t = [c \in 1..(n + 1) |-> t[c]]
  BY <1>3
<1>5. \A c \in 1..(n + 1) : t[c] = IF c <= n THEN s[c] ELSE e
  BY <1>3
<1> QED
  BY <1>4, <1>5

\* The categories of a term while it changes, empty ones not out yet.
InChange(categories, removed, cg, added) ==
  LET left == [c \in DOMAIN categories |->
                 [categories[c] EXCEPT !.docs = Without(@, removed)]]
      known == \E c \in DOMAIN left : left[c].cg = cg
      all == IF known \/ added = NoDocs THEN left ELSE Append(left, [cg |-> cg, docs |-> NoDocs])
  IN [c \in DOMAIN all |->
        IF all[c].cg = cg
        THEN [all[c] EXCEPT !.docs = Joined({added, Without(@, DOMAIN added)})]
        ELSE all[c]]

LEMMA InChangeIs ==
  ASSUME NEW term, IsSaid(term), NEW removed, NEW cg, NEW added, ArePostings(added),
         NEW new, new = InChange(term, removed, cg, added)
  PROVE  /\ \E k \in Nat : new = [c \in 1..k |-> [cg |-> new[c].cg, docs |-> new[c].docs]]
         /\ \A c \in DOMAIN new : ArePostings(new[c].docs)
         /\ \A b, c \in DOMAIN new : new[b].cg = new[c].cg => b = c
         /\ Says(new) = Changes(Says(term), removed, cg, added)
<1>1. PICK n \in Nat : term = [c \in 1..n |-> [cg |-> term[c].cg, docs |-> term[c].docs]]
  BY DEF IsSaid
<1>2. DOMAIN term = 1..n
  BY <1>1
<1> DEFINE left == [c \in DOMAIN term |-> [term[c] EXCEPT !.docs = Without(@, removed)]]
           known == \E c \in DOMAIN left : left[c].cg = cg
           all == IF known \/ added = NoDocs THEN left ELSE Append(left, [cg |-> cg, docs |-> NoDocs])
           Replaced(docs) == Joined({added, Without(docs, DOMAIN added)})
<1>3. new = [c \in DOMAIN all |-> IF all[c].cg = cg THEN [all[c] EXCEPT !.docs = Replaced(@)]
                                  ELSE all[c]]
  BY DEF InChange
<1> HIDE DEF Replaced
<1>4. left = [c \in 1..n |-> [cg |-> term[c].cg, docs |-> Without(term[c].docs, removed)]]
  <2>1. \A c \in 1..n : term[c] = [cg |-> term[c].cg, docs |-> term[c].docs]
    BY <1>1
  <2>2. \A c \in 1..n : [term[c] EXCEPT !.docs = Without(@, removed)]
                          = [cg |-> term[c].cg, docs |-> Without(term[c].docs, removed)]
    <3> TAKE c \in 1..n
    <3>1. PICK r, g, x : r = term[c] /\ r = [cg |-> g, docs |-> x]
      BY <2>1
    <3>2. [r EXCEPT !.docs = Without(@, removed)] = [cg |-> g, docs |-> Without(x, removed)]
      BY <3>1
    <3>3. r.cg = g /\ r.docs = x
      BY <3>1
    <3> QED
      BY <3>1, <3>2, <3>3
  <2> QED
    BY <1>2, <2>2
<1>5. \A c \in 1..n : /\ ArePostings(term[c].docs) /\ ArePostings(Without(term[c].docs, removed))
                      /\ DOMAIN Without(term[c].docs, removed) = DOMAIN term[c].docs \ removed
                      /\ \A d \in DOMAIN Without(term[c].docs, removed) :
                           Without(term[c].docs, removed)[d] = term[c].docs[d]
  <2> TAKE c \in 1..n
  <2>1. ArePostings(term[c].docs)
    BY <1>2, DocsArePostings DEF IsSaid
  <2> DEFINE docs == term[c].docs
             rest == Without(docs, removed)
  <2> HIDE DEF docs
  <2>2. ArePostings(docs)
    BY <2>1 DEF docs
  <2>3. /\ ArePostings(rest) /\ DOMAIN rest = DOMAIN docs \ removed
        /\ \A d \in DOMAIN rest : rest[d] = docs[d]
    BY <2>2, WithoutIs DEF Keeps
  <2> HIDE DEF rest
  <2>4. rest = Without(term[c].docs, removed) /\ docs = term[c].docs
    BY DEF rest, docs
  <2> QED
    BY <2>2, <2>3, <2>4
<1> HIDE DEF left
<1>6. known <=> \E c \in 1..n : term[c].cg = cg
  <2>1. DOMAIN left = 1..n /\ \A c \in 1..n : left[c].cg = term[c].cg
    BY <1>4
  <2> QED
    BY <2>1
<1> DEFINE more == ~(known \/ added = NoDocs)
           k == IF more THEN n + 1 ELSE n
<1>7. /\ k \in Nat /\ n <= k
      /\ all = [c \in 1..k |-> IF c <= n THEN left[c] ELSE [cg |-> cg, docs |-> NoDocs]]
      /\ \A c \in 1..k : c <= n \/ (c = n + 1 /\ more)
  <2>1. CASE more
    <3>1. all = Append(left, [cg |-> cg, docs |-> NoDocs]) /\ k = n + 1
      BY <2>1
    <3>2. left = [c \in 1..n |-> left[c]]
      BY <1>4
    <3>3. all = [c \in 1..(n + 1) |-> IF c <= n THEN left[c] ELSE [cg |-> cg, docs |-> NoDocs]]
      BY <3>1, <3>2, AppendIs
    <3> HIDE DEF all
    <3> QED
      BY <2>1, <3>1, <3>3
  <2>2. CASE ~more
    <3>1. all = left /\ k = n
      BY <2>2
    <3>2. left = [c \in 1..n |-> left[c]]
      BY <1>4
    <3> HIDE DEF all
    <3> QED
      BY <3>1, <3>2
  <2> QED
    BY <2>1, <2>2
<1> HIDE DEF all, k
<1> DEFINE Base(c) == IF c <= n THEN Without(term[c].docs, removed) ELSE NoDocs
           Cg(c) == IF c <= n THEN term[c].cg ELSE cg
           Docs(c) == IF Cg(c) = cg THEN Replaced(Base(c)) ELSE Base(c)
<1>8. \A c \in 1..k : all[c] = [cg |-> Cg(c), docs |-> Base(c)]
  BY <1>4, <1>7
<1>9. new = [c \in 1..k |-> [cg |-> Cg(c), docs |-> Docs(c)]]
  <2>1. DOMAIN all = 1..k
    BY <1>7
  <2>2. ASSUME NEW c \in 1..k
        PROVE  (IF all[c].cg = cg THEN [all[c] EXCEPT !.docs = Replaced(@)] ELSE all[c])
                 = [cg |-> Cg(c), docs |-> Docs(c)]
    <3>1. all[c] = [cg |-> Cg(c), docs |-> Base(c)]
      BY <1>8
    <3> HIDE DEF Cg, Base
    <3> QED
      BY <3>1
  <2> DEFINE Changing(c) == IF all[c].cg = cg THEN [all[c] EXCEPT !.docs = Replaced(@)] ELSE all[c]
  <2>3. new = [c \in 1..k |-> Changing(c)]
    BY <1>3, <2>1
  <2>4. \A c \in 1..k : Changing(c) = [cg |-> Cg(c), docs |-> Docs(c)]
    BY <2>2
  <2> HIDE DEF Docs, Cg, Changing
  <2> QED
    BY <2>3, <2>4
<1>10. \A c \in 1..k : ArePostings(Base(c))
  <2> TAKE c \in 1..k
  <2>1. CASE c <= n
    <3>1. c \in 1..n
      BY <2>1
    <3> QED
      BY <2>1, <3>1, <1>5
  <2>2. CASE ~(c <= n)
    BY <2>2, NoPostings
  <2> QED
    BY <2>1, <2>2
<1> HIDE DEF Base
<1>11. ASSUME NEW c \in 1..k, Cg(c) = cg
       PROVE  /\ ArePostings(Docs(c)) /\ DOMAIN Docs(c) = DOMAIN Base(c) \cup DOMAIN added
              /\ \A d \in DOMAIN added : Docs(c)[d] = added[d]
              /\ \A d \in DOMAIN Base(c) \ DOMAIN added : Docs(c)[d] = Base(c)[d]
  <2>1. ArePostings(Base(c)) /\ Docs(c) = Replaced(Base(c))
    BY <1>10, <1>11
  <2> HIDE DEF Docs
  <2>2. Docs(c) = Joined({added, Without(Base(c), DOMAIN added)})
    BY <2>1 DEF Replaced
  <2>3. Replaces(Docs(c), Base(c), added)
    BY <2>1, <2>2, <1>10, ReplacedIs
  <2> QED
    BY <2>3 DEF Replaces
<1>12. ASSUME NEW c \in 1..k, Cg(c) # cg PROVE Docs(c) = Base(c)
  BY <1>12
<1> HIDE DEF Docs
<1>13. DOMAIN new = 1..k /\ \A c \in 1..k : new[c].cg = Cg(c) /\ new[c].docs = Docs(c)
  BY <1>9
<1>14. new = [c \in 1..k |-> [cg |-> new[c].cg, docs |-> new[c].docs]]
  BY <1>9, <1>13
<1>15. \A c \in 1..k : ArePostings(Docs(c))
  BY <1>10, <1>11, <1>12
<1>16. \A b, c \in 1..k : Cg(b) = Cg(c) => b = c
  <2>1. \A b, c \in 1..n : term[b].cg = term[c].cg => b = c
    BY <1>2 DEF IsSaid
  <2>2. ASSUME NEW b \in 1..k, NEW c \in 1..k, Cg(b) = Cg(c), b <= n PROVE b = c
    <3>1. CASE c <= n
      BY <2>1, <2>2, <3>1
    <3>2. CASE ~(c <= n)
      <4>1. more
        BY <1>7, <3>2
      <4>2. term[b].cg = cg /\ b \in 1..n
        BY <2>2, <3>2
      <4> QED
        BY <4>1, <4>2, <1>6
    <3> QED
      BY <3>1, <3>2
  <2>3. ASSUME NEW b \in 1..k, NEW c \in 1..k, Cg(b) = Cg(c), ~(b <= n) PROVE b = c
    <3>1. c <= n => c = b
      BY <2>2, <2>3
    <3> QED
      BY <3>1, <1>7, <2>3
  <2> QED
    BY <2>2, <2>3
<1>17. \A c \in 1..k : c <= n => c \in 1..n /\ Cg(c) = term[c].cg
                                 /\ DOMAIN Base(c) = DOMAIN term[c].docs \ removed
                                 /\ \A d \in DOMAIN Base(c) : Base(c)[d] = term[c].docs[d]
  <2> TAKE c \in 1..k
  <2> HAVE c <= n
  <2>1. c \in 1..n /\ Base(c) = Without(term[c].docs, removed)
    BY DEF Base
  <2> QED
    BY <2>1, <1>5
<1>18. \A c \in 1..k : ~(c <= n) => Cg(c) = cg /\ DOMAIN Base(c) = {}
  BY NoPostings DEF Base
<1>19. (\E d \in DOMAIN added : TRUE) => \E c \in 1..k : Cg(c) = cg
  <2> SUFFICES ASSUME NEW d \in DOMAIN added PROVE \E c \in 1..k : Cg(c) = cg
    OBVIOUS
  <2>1. added # NoDocs
    BY NoPostings
  <2>2. CASE known
    BY <2>2, <1>6, <1>7
  <2>3. CASE ~known
    <3>1. k = n + 1
      BY <2>1, <2>3 DEF k
    <3>2. n + 1 \in 1..k /\ ~(n + 1 <= n)
      BY <3>1
    <3> QED
      BY <3>2, <1>18
  <2> QED
    BY <2>2, <2>3
<1> HIDE DEF Cg, more, known
<1>20. \A c \in 1..k : \A d \in DOMAIN Docs(c) :
         <<Cg(c), d, Docs(c)[d]>> \in Changes(Says(term), removed, cg, added)
  <2> SUFFICES ASSUME NEW c \in 1..k, NEW d \in DOMAIN Docs(c)
               PROVE  <<Cg(c), d, Docs(c)[d]>> \in Changes(Says(term), removed, cg, added)
    OBVIOUS
  <2>1. CASE Cg(c) = cg /\ d \in DOMAIN added
    BY <2>1, <1>11 DEF Changes
  <2>2. CASE ~(Cg(c) = cg /\ d \in DOMAIN added)
    <3>1. d \in DOMAIN Base(c) /\ Docs(c)[d] = Base(c)[d]
      BY <2>2, <1>11, <1>12
    <3>2. c <= n
      BY <3>1, <1>18
    <3>3. c \in 1..n /\ Cg(c) = term[c].cg /\ d \in DOMAIN term[c].docs /\ d \notin removed
          /\ Docs(c)[d] = term[c].docs[d]
      BY <3>1, <3>2, <1>17
    <3> DEFINE p == <<term[c].cg, d, term[c].docs[d]>>
    <3>4. p \in Says(term)
      BY <3>3, <1>2 DEF Says
    <3>5. p[1] = Cg(c) /\ p[2] = d
      BY <3>3
    <3>6. p \in Changes(Says(term), removed, cg, added)
      <4> HIDE DEF p
      <4> QED
        BY <3>3, <3>4, <3>5, <2>2 DEF Changes
    <3> QED
      BY <3>3, <3>6
  <2> QED
    BY <2>1, <2>2
<1>21. Says(new) \subseteq Changes(Says(term), removed, cg, added)
  <2> SUFFICES ASSUME NEW p \in Says(new) PROVE p \in Changes(Says(term), removed, cg, added)
    OBVIOUS
  <2>1. PICK c \in DOMAIN new : p \in {<<new[c].cg, d, new[c].docs[d]>> : d \in DOMAIN new[c].docs}
    BY DEF Says
  <2>2. PICK d \in DOMAIN new[c].docs : p = <<new[c].cg, d, new[c].docs[d]>>
    BY <2>1
  <2> QED
    BY <2>2, <1>13, <1>20
<1>22. \A c \in 1..k : \A d \in DOMAIN Docs(c) : <<Cg(c), d, Docs(c)[d]>> \in Says(new)
  BY <1>13 DEF Says
<1>23. Changes(Says(term), removed, cg, added) \subseteq Says(new)
  <2> SUFFICES ASSUME NEW p \in Changes(Says(term), removed, cg, added) PROVE p \in Says(new)
    OBVIOUS
  <2>1. CASE \E d \in DOMAIN added : p = <<cg, d, added[d]>>
    <3>1. PICK d \in DOMAIN added : p = <<cg, d, added[d]>>
      BY <2>1
    <3>2. PICK c \in 1..k : Cg(c) = cg
      BY <3>1, <1>19
    <3>3. d \in DOMAIN Docs(c) /\ Docs(c)[d] = added[d]
      BY <3>1, <3>2, <1>11
    <3> QED
      BY <3>1, <3>2, <3>3, <1>22
  <2>2. CASE p \in Says(term) /\ p[2] \notin removed /\ ~(p[1] = cg /\ p[2] \in DOMAIN added)
    <3>1. PICK c \in DOMAIN term : p \in {<<term[c].cg, d, term[c].docs[d]>> : d \in DOMAIN term[c].docs}
      BY <2>2 DEF Says
    <3>2. PICK d \in DOMAIN term[c].docs : p = <<term[c].cg, d, term[c].docs[d]>>
      BY <3>1
    <3>3. c \in 1..k /\ c <= n /\ c \in 1..n
      BY <1>2, <1>7
    <3>4. d \notin removed /\ ~(term[c].cg = cg /\ d \in DOMAIN added)
      BY <2>2, <3>2
    <3>5. Cg(c) = term[c].cg /\ d \in DOMAIN Base(c) /\ Base(c)[d] = term[c].docs[d]
      BY <3>3, <3>4, <1>17
    <3>6. d \in DOMAIN Docs(c) /\ Docs(c)[d] = term[c].docs[d]
      <4>1. CASE Cg(c) = cg
        BY <4>1, <3>3, <3>4, <3>5, <1>11
      <4>2. CASE Cg(c) # cg
        BY <4>2, <3>3, <3>5, <1>12
      <4> QED
        BY <4>1, <4>2
    <3> QED
      BY <3>2, <3>3, <3>5, <3>6, <1>22
  <2> QED
    BY <2>1, <2>2 DEF Changes
<1>24. \E j \in Nat : new = [c \in 1..j |-> [cg |-> new[c].cg, docs |-> new[c].docs]]
  BY <1>7, <1>14
<1> QED
  BY <1>13, <1>15, <1>16, <1>21, <1>23, <1>24

\* The categories that stay, in their order.
Staying(new) == Ordered({c \in DOMAIN new : new[c].docs # NoDocs}, <)

LEMMA IsChange ==
  ASSUME NEW term, NEW removed, NEW cg, NEW added
  PROVE  Changed(term, removed, cg, added)
           = LET new == InChange(term, removed, cg, added)
             IN [n \in DOMAIN Staying(new) |-> new[Staying(new)[n]]]
BY DEF Changed, InChange, Staying, Ordered

\* A term, empty categories not out yet.
AreCategories(new) ==
  /\ \E k \in Nat : new = [c \in 1..k |-> [cg |-> new[c].cg, docs |-> new[c].docs]]
  /\ \A c \in DOMAIN new : ArePostings(new[c].docs)
  /\ \A b, c \in DOMAIN new : new[b].cg = new[c].cg => b = c

LEMMA UpToFinite == ASSUME NEW k \in Nat, NEW S, S \subseteq 1..k PROVE IsFiniteSet(S)
<1>1. IsFiniteSet(1..k)
  BY FS_Interval
<1> QED
  BY <1>1, FS_Subset

LEMMA InOrder ==
  ASSUME NEW m \in Nat, NEW k \in Nat, NEW f, \A n \in 1..m : f[n] \in 1..k,
         \A i, j \in 1..m : i < j => f[i] < f[j],
         NEW a \in 1..m, NEW b \in 1..m, f[a] = f[b]
  PROVE  a = b
<1>1. PICK x \in 1..k : f[a] = x /\ f[b] = x
  OBVIOUS
<1>2. ~(a < b) /\ ~(b < a)
  BY <1>1
<1> QED
  BY <1>2

\* Categories without documents go.
LEMMA KeptIs ==
  ASSUME NEW new, AreCategories(new),
         NEW said, said = [n \in DOMAIN Staying(new) |-> new[Staying(new)[n]]]
  PROVE  IsSaid(said) /\ Says(said) = Says(new)
<1>0. PICK k \in Nat : new = [c \in 1..k |-> [cg |-> new[c].cg, docs |-> new[c].docs]]
  BY DEF AreCategories
<1>a. /\ \A c \in DOMAIN new : ArePostings(new[c].docs)
      /\ \A b, c \in DOMAIN new : new[b].cg = new[c].cg => b = c
  BY DEF AreCategories
<1> DEFINE kept == Staying(new)
<1> DEFINE S == {c \in DOMAIN new : new[c].docs # NoDocs}
           m == Cardinality(S)
<1>1. DOMAIN new = 1..k
  BY <1>0
<1>2. S \in SUBSET Nat /\ S \subseteq 1..k
  BY <1>1
<1>3. IsFiniteSet(S)
  <2> HIDE DEF S
  <2> QED
    BY <1>2, UpToFinite
<1>4. m \in Nat
  BY <1>3, FS_CardinalityType
<1>5. IsOrdered(kept, S, {pair \in S \X S : pair[1] < pair[2]})
  <2>1. IsOrdered(Ordered(S, <), S, {pair \in S \X S : pair[1] < pair[2]})
    BY <1>2, <1>3, NumbersOrdered
  <2>2. kept = Ordered(S, <)
    BY DEF Staying
  <2> QED
    BY <2>1, <2>2
<1>6. \A c \in 1..k : c \in S <=> new[c].docs # NoDocs
  BY <1>1
<1>7. \A n \in 1..m : kept[n] \in S
  <2> HIDE DEF S
  <2>1. kept \in [1..m -> S]
    BY <1>5 DEF IsOrdered
  <2> QED
    BY <2>1
<1>8. DOMAIN kept = 1..m
  <2> HIDE DEF S
  <2> QED
    BY <1>5 DEF IsOrdered
<1>9. \A c \in S : \E n \in 1..m : kept[n] = c
  <2> HIDE DEF S
  <2> QED
    BY <1>5 DEF IsOrdered
<1>10. \A i, j \in 1..m : i < j => kept[i] < kept[j]
  <2>1. \A i, j \in 1..m : i < j => <<kept[i], kept[j]>> \in {pair \in S \X S : pair[1] < pair[2]}
    BY <1>5 DEF IsOrdered
  <2> HIDE DEF S
  <2> QED
    BY <2>1
<1> HIDE DEF S, m, kept
<1>11. DOMAIN said = 1..m /\ said = [n \in 1..m |-> new[kept[n]]]
  BY <1>8 DEF kept
<1>12. \A c \in 1..k : new[c] = [cg |-> new[c].cg, docs |-> new[c].docs]
  BY <1>0
<1>13. \A n \in 1..m : kept[n] \in 1..k /\ kept[n] \in S
  BY <1>2, <1>7
<1>14. said = [n \in 1..m |-> [cg |-> said[n].cg, docs |-> said[n].docs]]
  <2>1. \A n \in 1..m : said[n] = new[kept[n]]
    BY <1>11
  <2>2. ASSUME NEW n \in 1..m PROVE said[n] = [cg |-> said[n].cg, docs |-> said[n].docs]
    <3>1. PICK c \in 1..k : c = kept[n]
      BY <1>13
    <3>2. said[n] = new[c] /\ new[c] = [cg |-> new[c].cg, docs |-> new[c].docs]
      BY <2>1, <3>1, <1>12
    <3> QED
      BY <3>2
  <2>3. said = [n \in 1..m |-> said[n]]
    BY <1>11
  <2> QED
    BY <2>2, <2>3
<1>15. \A n \in DOMAIN said : IsDocs(said[n].docs)
  <2> TAKE n \in DOMAIN said
  <2>1. said[n] = new[kept[n]] /\ kept[n] \in 1..k /\ kept[n] \in S
    BY <1>11, <1>13
  <2>2. ArePostings(said[n].docs) /\ said[n].docs # NoDocs
    BY <2>1, <1>1, <1>6, <1>a
  <2> QED
    BY <2>2, SomeDocs
<1>16. \A a, b \in DOMAIN said : said[a].cg = said[b].cg => a = b
  <2> SUFFICES ASSUME NEW a \in 1..m, NEW b \in 1..m, said[a].cg = said[b].cg PROVE a = b
    BY <1>11
  <2>1. new[kept[a]].cg = new[kept[b]].cg /\ kept[a] \in 1..k /\ kept[b] \in 1..k
    BY <1>11, <1>13
  <2>2. kept[a] = kept[b]
    BY <2>1, <1>1, <1>a
  <2> QED
    BY <2>2, <1>4, <1>10, <1>13, InOrder
<1>17. Says(said) \subseteq Says(new)
  <2> SUFFICES ASSUME NEW p \in Says(said) PROVE p \in Says(new)
    OBVIOUS
  <2>1. PICK n \in DOMAIN said : p \in {<<said[n].cg, d, said[n].docs[d]>> : d \in DOMAIN said[n].docs}
    BY DEF Says
  <2>2. said[n] = new[kept[n]] /\ kept[n] \in DOMAIN new
    BY <1>1, <1>11, <1>13
  <2>3. p \in {<<new[kept[n]].cg, d, new[kept[n]].docs[d]>> : d \in DOMAIN new[kept[n]].docs}
    BY <2>1, <2>2
  <2> DEFINE Part(c) == {<<new[c].cg, d, new[c].docs[d]>> : d \in DOMAIN new[c].docs}
  <2>4. p \in Part(kept[n])
    BY <2>3
  <2>5. Says(new) = UNION {Part(c) : c \in DOMAIN new}
    BY DEF Says
  <2> HIDE DEF Part
  <2> QED
    BY <2>2, <2>4, <2>5
<1>18. Says(new) \subseteq Says(said)
  <2> SUFFICES ASSUME NEW p \in Says(new) PROVE p \in Says(said)
    OBVIOUS
  <2>1. PICK c \in DOMAIN new : p \in {<<new[c].cg, d, new[c].docs[d]>> : d \in DOMAIN new[c].docs}
    BY DEF Says
  <2>2. new[c].docs # NoDocs
    <3> SUFFICES ASSUME new[c].docs = NoDocs PROVE FALSE
      OBVIOUS
    <3>1. DOMAIN new[c].docs = {}
      BY NoPostings
    <3> QED
      BY <3>1, <2>1
  <2>3. PICK n \in 1..m : kept[n] = c
    BY <2>2, <1>1, <1>6, <1>9
  <2>4. n \in DOMAIN said /\ said[n] = new[c]
    BY <2>3, <1>11
  <2>5. p \in {<<said[n].cg, d, said[n].docs[d]>> : d \in DOMAIN said[n].docs}
    BY <2>1, <2>4
  <2> DEFINE Part(i) == {<<said[i].cg, d, said[i].docs[d]>> : d \in DOMAIN said[i].docs}
  <2>6. p \in Part(n)
    BY <2>5
  <2>7. Says(said) = UNION {Part(i) : i \in DOMAIN said}
    BY DEF Says
  <2> HIDE DEF Part
  <2> QED
    BY <2>4, <2>6, <2>7
<1> QED
  BY <1>4, <1>11, <1>14, <1>15, <1>16, <1>17, <1>18 DEF IsSaid

LEMMA ChangedIs ==
  ASSUME NEW term, IsSaid(term), NEW removed, NEW cg, NEW added, ArePostings(added),
         NEW said, said = Changed(term, removed, cg, added)
  PROVE  IsSaid(said) /\ Says(said) = Changes(Says(term), removed, cg, added)
<1> DEFINE new == InChange(term, removed, cg, added)
<1>1. said = [n \in DOMAIN Staying(new) |-> new[Staying(new)[n]]]
  BY IsChange
<1>2. AreCategories(new) /\ Says(new) = Changes(Says(term), removed, cg, added)
  BY InChangeIs DEF AreCategories
<1> HIDE DEF new
<1>3. IsSaid(said) /\ Says(said) = Says(new)
  BY <1>1, <1>2, KeptIs
<1> QED
  BY <1>2, <1>3

\* What is appended in place comes after every document of the only category there is.
LEMMA AppendableApart ==
  ASSUME NEW def, NEW term, NEW before, IsDefinition(def, term, before),
         NEW cg, NEW added, IsDocs(added), Appendable(def, cg, added)
  PROVE  /\ DOMAIN term = {1} /\ term[1].cg = cg
         /\ DOMAIN term[1].docs \cap DOMAIN added = {}
<1>1. PICK n \in Nat : term = [c \in 1..n |-> [cg |-> term[c].cg, docs |-> term[c].docs]]
  BY DEF IsDefinition, IsSaid
<1>2. DOMAIN term = 1..n
  BY <1>1
<1>3. def = [c \in 1..n |-> [cg |-> term[c].cg, frequency |-> def[c].frequency,
                            inline |-> def[c].inline, blocks |-> def[c].blocks]]
  BY <1>2 DEF IsDefinition
<1>4. Len(def) = n /\ n = 1
  <2>1. def = [c \in 1..n |-> def[c]]
    BY <1>3
  <2>2. Len(def) = n
    BY <2>1, ListIs
  <2> QED
    BY <2>2 DEF Appendable
<1>5. DOMAIN term = {1} /\ def[1].cg = term[1].cg
  BY <1>2, <1>3, <1>4
<1> DEFINE docs == term[1].docs
           old == def[1].blocks
<1>6. def[1].cg = cg /\ old # <<>> /\ \A d \in DOMAIN added : d > Last(old).last
  BY DEF Appendable
<1>7. IsDocs(docs) /\ AreBlocks(old, docs, before)
  BY <1>5, <1>6 DEF IsDefinition, IsSaid, Holds
<1> HIDE DEF docs, old
<1>8. Last(old).last \in Nat /\ \A d \in DOMAIN docs : d \in Nat => d <= Last(old).last
  <2>1. PICK N \in Nat \ {0} : DOMAIN old = 1..N /\ Len(old) = N
    BY <1>7, SomeBlocks
  <2>2. InBlocks(old, N, docs)
    BY <1>7, <2>1, LastBlock
  <2> QED
    BY <2>2 DEF InBlocks
<1>9. DOMAIN docs \subseteq Nat /\ DOMAIN added \subseteq Nat
  BY <1>7 DEF IsDocs
<1>10. DOMAIN docs \cap DOMAIN added = {}
  BY <1>6, <1>8, <1>9
<1> QED
  BY <1>5, <1>6, <1>10 DEF docs

\* The postings of a category documents are appended to.
LEMMA AppendedSays ==
  ASSUME NEW term, NEW cg, DOMAIN term = {1}, term[1].cg = cg, NEW added,
         NEW all, Both(all, term[1].docs, added),
         NEW said, said = <<[cg |-> cg, docs |-> all]>>
  PROVE  Says(said) = Changes(Says(term), {}, cg, added)
<1> DEFINE docs == term[1].docs
<1>1. Says(term) = {<<cg, d, docs[d]>> : d \in DOMAIN docs}
  BY DEF Says
<1>2. Says(said) = {<<cg, d, all[d]>> : d \in DOMAIN all}
  <2>1. DOMAIN said = {1} /\ said[1] = [cg |-> cg, docs |-> all]
    OBVIOUS
  <2>2. said[1].cg = cg /\ said[1].docs = all
    BY <2>1
  <2> HIDE DEF docs
  <2> QED
    BY <2>1, <2>2 DEF Says
<1> HIDE DEF docs
<1>3. /\ DOMAIN all = DOMAIN docs \cup DOMAIN added
      /\ \A d \in DOMAIN docs : all[d] = docs[d]
      /\ \A d \in DOMAIN added : all[d] = added[d]
  BY DEF Both, docs
<1>4. Says(said) \subseteq Changes(Says(term), {}, cg, added)
  <2> SUFFICES ASSUME NEW d \in DOMAIN all PROVE <<cg, d, all[d]>> \in Changes(Says(term), {}, cg, added)
    BY <1>2
  <2>1. CASE d \in DOMAIN added
    BY <2>1, <1>3 DEF Changes
  <2>2. CASE d \notin DOMAIN added
    <3> DEFINE p == <<cg, d, docs[d]>>
    <3>1. d \in DOMAIN docs /\ all[d] = docs[d]
      BY <2>2, <1>3
    <3>2. p \in Says(term) /\ p[2] = d
      BY <3>1, <1>1
    <3>3. p \in Changes(Says(term), {}, cg, added)
      <4> HIDE DEF p
      <4> QED
        BY <2>2, <3>2 DEF Changes
    <3> QED
      BY <3>1, <3>3
  <2> QED
    BY <2>1, <2>2
<1>5. Changes(Says(term), {}, cg, added) \subseteq Says(said)
  <2> SUFFICES ASSUME NEW p \in Changes(Says(term), {}, cg, added) PROVE p \in Says(said)
    OBVIOUS
  <2>1. (\E d \in DOMAIN docs : p = <<cg, d, docs[d]>>) \/ (\E d \in DOMAIN added : p = <<cg, d, added[d]>>)
    BY <1>1 DEF Changes
  <2> QED
    BY <2>1, <1>2, <1>3
<1> QED
  BY <1>4, <1>5

\* What the definition of a term is once it is updated: a definition of what the update
\* makes of its postings.
IsUpdated(new, said, removed, cg, added, truth) ==
  \E term : /\ IsDefinition(new, term, truth)
            /\ Says(term) = Changes(said, removed, cg, added)

LEMMA UpdatedInPlace ==
  ASSUME NEW def, NEW term, NEW before, IsDefinition(def, term, before),
         NEW cg, NEW added, IsDocs(added), Appendable(def, cg, added),
         NEW lengths, NEW truth, AreKnown(lengths, truth), SameLengths(term[1].docs, before, truth)
  PROVE  IsUpdated(AppendInPlace(def, added, lengths), Says(term), {}, cg, added, truth)
<1> DEFINE docs == term[1].docs
           all == Joined({docs, added})
           said == <<[cg |-> cg, docs |-> all]>>
<1>1. DOMAIN term = {1} /\ term[1].cg = cg /\ DOMAIN docs \cap DOMAIN added = {}
  BY AppendableApart
<1>2. Both(all, docs, added)
  BY <1>1, JoinedTwo
<1> HIDE DEF all
<1>3. IsDefinition(AppendInPlace(def, added, lengths), said, truth)
  BY <1>2, AppendedHolds
<1>4. Says(said) = Changes(Says(term), {}, cg, added)
  BY <1>1, <1>2, AppendedSays
<1> HIDE DEF said
<1> QED
  BY <1>3, <1>4 DEF IsUpdated

LEMMA UpdatedWhole ==
  ASSUME NEW term, IsSaid(term), NEW removed, NEW cg, NEW added, ArePostings(added),
         NEW lengths, NEW truth, AreKnown(lengths, truth)
  PROVE  IsUpdated(WriteTermDef(Changed(term, removed, cg, added), lengths), Says(term),
                   removed, cg, added, truth)
<1> DEFINE said == Changed(term, removed, cg, added)
<1>1. IsSaid(said) /\ Says(said) = Changes(Says(term), removed, cg, added)
  BY ChangedIs
<1> HIDE DEF said
<1>2. IsDefinition(WriteTermDef(said, lengths), said, truth)
  BY <1>1, WrittenHolds DEF AreKnown
<1>3. IsUpdated(WriteTermDef(said, lengths), Says(term), removed, cg, added, truth)
  BY <1>1, <1>2 DEF IsUpdated
<1> QED
  BY <1>3 DEF said

\* A definition that is written says what it was written of.  Its blocks are the
\* documents, cut in their order, and the description of each bounds what its documents
\* hold: the largest frequency and the impacts from above, the smallest length from
\* below, also when the writer does not know every length (writeTermDefV2,
\* describeBlock, decodeTermDefV2).
THEOREM DefinitionReadBack ==
  ASSUME NEW term, IsSaid(term), NEW lengths, NEW truth, AreKnown(lengths, truth)
  PROVE  /\ IsDefinition(WriteTermDef(term, lengths), term, truth)
         /\ DecodeTermDef(WriteTermDef(term, lengths)) = term
<1> DEFINE def == WriteTermDef(term, lengths)
<1>1. IsDefinition(def, term, truth)
  BY WrittenHolds DEF AreKnown
<1> HIDE DEF def
<1>2. DecodeTermDef(def) = term
  BY <1>1, DecodedIs
<1> QED
  BY <1>1, <1>2 DEF def

\* An update of a term's definition, appended to in place or written whole, says what was
\* asked: the removed documents have left every category, the added ones are in theirs
\* with their frequencies, once, and nothing else changed.  Its blocks are still cut in
\* the order of documents and described by bounds, those an append left alone as well,
\* as long as no document of the definition has changed length behind it: an update in
\* place does not look at them again (updateTermDef, appendInPlace).
THEOREM UpdateSaysTheChange ==
  ASSUME NEW def, NEW term, NEW before, IsDefinition(def, term, before),
         NEW removed, NEW cg, NEW added, ArePostings(added), NEW fits \in BOOLEAN,
         NEW lengths, NEW truth, AreKnown(lengths, truth),
         \A c \in DOMAIN term : SameLengths(term[c].docs, before, truth)
  PROVE  IsUpdated(UpdateTermDef(def, removed, cg, added, lengths, fits), Says(term),
                   removed, cg, added, truth)
<1> DEFINE place == /\ removed = {} /\ added # NoDocs
                    /\ Appendable(def, cg, added) /\ fits
<1>1. CASE place
  <2>1. UpdateTermDef(def, removed, cg, added, lengths, fits) = AppendInPlace(def, added, lengths)
    BY <1>1 DEF UpdateTermDef
  <2>2. removed = {} /\ IsDocs(added) /\ Appendable(def, cg, added)
    BY <1>1, SomeDocs
  <2>3. DOMAIN term = {1}
    BY <2>2, AppendableApart
  <2>4. SameLengths(term[1].docs, before, truth)
    BY <2>3
  <2> QED
    BY <2>1, <2>2, <2>4, UpdatedInPlace
<1>2. CASE ~place
  <2>1. UpdateTermDef(def, removed, cg, added, lengths, fits)
          = WriteTermDef(Changed(DecodeTermDef(def), removed, cg, added), lengths)
    BY <1>2 DEF UpdateTermDef
  <2>2. DecodeTermDef(def) = term
    BY DecodedIs
  <2>3. IsSaid(term)
    BY DEF IsDefinition
  <2> QED
    BY <2>1, <2>2, <2>3, UpdatedWhole
<1> QED
  BY <1>1, <1>2

=============================================================================
