--------------------------- MODULE UpdateNames_proofs ---------------------------
(***************************************************************************)
(* Names stay unique, for every number of documents and segments, every    *)
(* order of names, and however many batches: what UpdateNames checks on    *)
(* two names is proved here for all (TypeCorrect, NamesAreUnique,          *)
(* HoldersAreFound, NamesAreFreed).                                        *)
(*                                                                         *)
(* First the files of names of DocNames, for every naming of documents:    *)
(* both look-ups are right (GetNameIs, GetDocIdentIs), what write makes is *)
(* a file of what it was given (WrittenIs), and what merge makes one of    *)
(* what its shards have left (MergeIs).  IsFileOf says it of the arrays of *)
(* a file; the binary search and the merge of the orders of names are      *)
(* recursive functions, unfolded once they are shown to exist, and then    *)
(* followed by induction: the least number of steps that fails is shown    *)
(* not to.                                                                 *)
(*                                                                         *)
(* The index is then made abstract: what look-ups, masking, a new segment  *)
(* and a merge do is said of the name of each document (PublishedName).    *)
(* Last, EditInv says how the two maps of an update agree with each other  *)
(* and with the index, and each action keeps it.                           *)
(***************************************************************************)
EXTENDS UpdateNames, FiniteSetTheorems, SequenceTheorems, TLAPS

-----------------------------------------------------------------------------
(* Finite sets of numbers. *)

\* The least element of a finite set of numbers is in it, and below the others.
LEMMA MinIsLeast ==
  ASSUME NEW S \in SUBSET Nat, IsFiniteSet(S), S # {}
  PROVE  Min(S) \in S /\ \A y \in S : Min(S) <= y
<1> DEFINE Below(x) == {y \in S : y < x}
           Belows == {Below(x) : x \in S}
<1>1. Belows \subseteq FiniteSubsetsOf(S) /\ Belows # {}
  <2>1. \A x \in S : Below(x) \in SUBSET S /\ IsFiniteSet(Below(x))
    BY FS_Subset DEF Below
  <2> QED
    BY <2>1 DEF FiniteSubsetsOf, Belows
<1>2. PICK U \in Belows : \A V \in Belows : ~ (<<V, U>> \in StrictSubsetOrdering(S))
  BY <1>1, FS_StrictSubsetOrderingWellFounded, WFMin
<1>3. PICK x \in S : U = Below(x)
  BY <1>2 DEF Belows
<1>4. ASSUME NEW y \in S, y < x PROVE FALSE
  <2>1. Below(y) \subseteq Below(x) /\ y \in Below(x) /\ y \notin Below(y)
    <3>1. \A z \in S : z < y => z < x
      BY <1>4
    <3>2. ~(y < y)
      BY <1>4
    <3>3. Below(y) \subseteq Below(x)
      BY <3>1 DEF Below
    <3>4. y \in Below(x)
      BY <1>4 DEF Below
    <3>5. y \notin Below(y)
      BY <3>2 DEF Below
    <3> QED
      BY <3>3, <3>4, <3>5
  <2>2. <<Below(y), U>> \in StrictSubsetOrdering(S)
    BY <2>1, <1>3 DEF StrictSubsetOrdering, Below
  <2> QED
    BY <1>2, <2>2 DEF Belows
<1>5. \A y \in S : x <= y
  BY <1>4
<1> QED
  BY <1>5 DEF Min

\* The largest one is in it, and above the others.
LEMMA MaxIsLargest ==
  ASSUME NEW S \in SUBSET Nat, IsFiniteSet(S), S # {}
  PROVE  Max(S) \in S /\ \A y \in S : Max(S) >= y
<1> DEFINE Above(x) == {y \in S : y > x}
           Aboves == {Above(x) : x \in S}
<1>1. Aboves \subseteq FiniteSubsetsOf(S) /\ Aboves # {}
  <2>1. \A x \in S : Above(x) \in SUBSET S /\ IsFiniteSet(Above(x))
    BY FS_Subset DEF Above
  <2> QED
    BY <2>1 DEF FiniteSubsetsOf, Aboves
<1>2. PICK U \in Aboves : \A V \in Aboves : ~ (<<V, U>> \in StrictSubsetOrdering(S))
  BY <1>1, FS_StrictSubsetOrderingWellFounded, WFMin
<1>3. PICK x \in S : U = Above(x)
  BY <1>2 DEF Aboves
<1>4. ASSUME NEW y \in S, y > x PROVE FALSE
  <2>1. Above(y) \subseteq Above(x) /\ y \in Above(x) /\ y \notin Above(y)
    <3>1. \A z \in S : z > y => z > x
      BY <1>4
    <3>2. ~(y > y)
      BY <1>4
    <3>3. Above(y) \subseteq Above(x)
      BY <3>1 DEF Above
    <3>4. y \in Above(x)
      BY <1>4 DEF Above
    <3>5. y \notin Above(y)
      BY <3>2 DEF Above
    <3> QED
      BY <3>3, <3>4, <3>5
  <2>2. <<Above(y), U>> \in StrictSubsetOrdering(S)
    BY <2>1, <1>3 DEF StrictSubsetOrdering, Above
  <2> QED
    BY <1>2, <2>2 DEF Aboves
<1>5. \A y \in S : x >= y
  BY <1>4
<1> QED
  BY <1>5 DEF Max

-----------------------------------------------------------------------------
(* Sorting. *)

IsKey(key, S) == key \in [S -> Nat] /\ IsInjective(key)

LEMMA RankInIs ==
  ASSUME NEW S, IsFiniteSet(S), NEW key, IsKey(key, S)
  PROVE  /\ \A x \in S : RankIn(S, key, x) \in 1..Cardinality(S)
         /\ \A x \in S, y \in S : key[x] < key[y] => RankIn(S, key, x) < RankIn(S, key, y)
         /\ \A x \in S, y \in S : RankIn(S, key, x) = RankIn(S, key, y) => x = y
         /\ \A k \in 1..Cardinality(S) : \E x \in S : RankIn(S, key, x) = k
<1> DEFINE n == Cardinality(S)
           UpTo(x) == {y \in S : key[y] <= key[x]}
           rank == [x \in S |-> RankIn(S, key, x)]
<1>1. n \in Nat /\ key \in [S -> Nat]
  BY FS_CardinalityType DEF IsKey
<1>2. ASSUME NEW x \in S
      PROVE  IsFiniteSet(UpTo(x)) /\ rank[x] = Cardinality(UpTo(x)) /\ rank[x] \in 1..n
  <2>1. UpTo(x) \in SUBSET S /\ x \in UpTo(x)
    BY <1>1
  <2>2. rank[x] = Cardinality(UpTo(x))
    BY DEF RankIn
  <2> HIDE DEF UpTo, rank
  <2>3. IsFiniteSet(UpTo(x)) /\ Cardinality(UpTo(x)) <= n /\ Cardinality(UpTo(x)) \in Nat
    BY <2>1, FS_Subset, FS_CardinalityType
  <2>4. Cardinality(UpTo(x)) # 0
    BY <2>1, <2>3, FS_EmptySet
  <2> QED
    BY <1>1, <2>2, <2>3, <2>4
<1>3. ASSUME NEW x \in S, NEW y \in S, key[x] < key[y] PROVE rank[x] < rank[y]
  <2>1. UpTo(x) \cup {y} \in SUBSET UpTo(y) /\ y \notin UpTo(x)
    BY <1>1, <1>3
  <2> HIDE DEF UpTo, rank
  <2>2. Cardinality(UpTo(x) \cup {y}) = Cardinality(UpTo(x)) + 1
    BY <1>2, <2>1, FS_AddElement
  <2>3. Cardinality(UpTo(x) \cup {y}) <= Cardinality(UpTo(y))
    BY <1>2, <2>1, FS_Subset
  <2> QED
    BY <1>1, <1>2, <2>2, <2>3
<1>4. ASSUME NEW x \in S, NEW y \in S, rank[x] = rank[y] PROVE x = y
  <2> HIDE DEF rank, UpTo
  <2>1. rank[x] \in Nat /\ rank[y] \in Nat
    BY <1>1, <1>2
  <2>2. key[x] \in Nat /\ key[y] \in Nat
    BY <1>1
  <2>3. key[x] = key[y]
    BY <1>3, <1>4, <2>1, <2>2
  <2> QED
    BY <1>1, <2>3 DEF IsKey, IsInjective
<1>5. \A k \in 1..n : \E x \in S : rank[x] = k
  <2>1. rank \in [S -> 1..n]
    BY <1>2
  <2> HIDE DEF rank, n
  <2>2. rank \in Injection(S, 1..n)
    BY <1>4, <2>1 DEF Injection, IsInjective
  <2>3. IsFiniteSet(1..n) /\ Cardinality(1..n) = n
    BY <1>1, FS_Interval
  <2>4. rank \in Surjection(S, 1..n)
    BY <2>2, <2>3, FS_Injection DEF n
  <2> QED
    BY <2>4 DEF Surjection
<1>6. \A x \in S : rank[x] = RankIn(S, key, x)
  OBVIOUS
<1> HIDE DEF rank, UpTo, n
<1>7. \A x \in S : RankIn(S, key, x) \in 1..n
  BY <1>2, <1>6
<1>8. \A x \in S, y \in S : key[x] < key[y] => RankIn(S, key, x) < RankIn(S, key, y)
  BY <1>3, <1>6
<1>9. \A x \in S, y \in S : RankIn(S, key, x) = RankIn(S, key, y) => x = y
  BY <1>4, <1>6
<1>10. \A k \in 1..n : \E x \in S : RankIn(S, key, x) = k
  BY <1>5, <1>6
<1> QED
  BY <1>7, <1>8, <1>9, <1>10 DEF n

\* A set sorted has each of its elements once, at its rank, by increasing key.
LEMMA SortedIs ==
  ASSUME NEW S, IsFiniteSet(S), NEW key, IsKey(key, S)
  PROVE  LET n == Cardinality(S)
         IN  /\ n \in Nat /\ Sorted(S, key) \in [1..n -> S]
             /\ \A k \in 1..n : RankIn(S, key, Sorted(S, key)[k]) = k
             /\ \A x \in S : RankIn(S, key, x) \in 1..n /\ Sorted(S, key)[RankIn(S, key, x)] = x
             /\ \A k \in 1..n, l \in 1..n : k < l => key[Sorted(S, key)[k]] < key[Sorted(S, key)[l]]
<1> DEFINE n == Cardinality(S)
           list == Sorted(S, key)
           rank(x) == RankIn(S, key, x)
<1>1. n \in Nat /\ key \in [S -> Nat] /\ IsInjective(key)
  BY FS_CardinalityType DEF IsKey
<1>2. ASSUME NEW k \in 1..n PROVE list[k] \in S /\ rank(list[k]) = k
  <2>1. list[k] = CHOOSE x \in S : rank(x) = k
    BY DEF Sorted
  <2>2. \E x \in S : rank(x) = k
    BY RankInIs
  <2> HIDE DEF rank, list
  <2> QED
    BY <2>1, <2>2
<1>3. list \in [1..n -> S]
  BY <1>2 DEF Sorted
<1>4. ASSUME NEW x \in S PROVE rank(x) \in 1..n /\ list[rank(x)] = x
  <2>1. rank(x) \in 1..n
    BY RankInIs
  <2>2. list[rank(x)] \in S /\ rank(list[rank(x)]) = rank(x)
    BY <1>2, <2>1
  <2> HIDE DEF list
  <2> QED
    BY <2>1, <2>2, RankInIs
<1>5. ASSUME NEW k \in 1..n, NEW l \in 1..n, k < l PROVE key[list[k]] < key[list[l]]
  <2> DEFINE x == list[k]
             y == list[l]
  <2>1. x \in S /\ y \in S /\ rank(x) = k /\ rank(y) = l
    BY <1>2
  <2> HIDE DEF x, y
  <2>2. key[x] \in Nat /\ key[y] \in Nat
    BY <1>1, <2>1
  <2>3. CASE key[x] = key[y]
    BY <1>1, <1>5, <2>1, <2>3 DEF IsInjective
  <2>4. CASE key[y] < key[x]
    BY <1>1, <1>5, <2>1, <2>4, RankInIs
  <2> QED
    BY <2>2, <2>3, <2>4 DEF x, y
<1> HIDE DEF list
<1> QED
  BY <1>1, <1>2, <1>3, <1>4, <1>5 DEF list

-----------------------------------------------------------------------------
(* Names. *)

LEMMA PlaceIs ==
  ASSUME NEW name \in Range(NameOrder)
  PROVE  PlaceOf(name) \in 1..Len(NameOrder) /\ NameOrder[PlaceOf(name)] = name
<1>1. DOMAIN NameOrder = 1..Len(NameOrder)
  BY NameOrderAssumption
<1>2. \E i \in DOMAIN NameOrder : NameOrder[i] = name
  BY DEF Range
<1> QED
  BY <1>1, <1>2 DEF PlaceOf

\* The names are ordered.
LEMMA LessIs ==
  /\ \A a \in Range(NameOrder), b \in Range(NameOrder) : a = b \/ Less(a, b) \/ Less(b, a)
  /\ \A a \in Range(NameOrder), b \in Range(NameOrder) : Less(a, b) => a # b /\ ~Less(b, a)
  /\ \A a \in Range(NameOrder), b \in Range(NameOrder), c \in Range(NameOrder) :
       Less(a, b) /\ Less(b, c) => Less(a, c)
<1>1. \A a \in Range(NameOrder) : PlaceOf(a) \in Nat /\ NameOrder[PlaceOf(a)] = a
  BY PlaceIs, NameOrderAssumption
<1> QED
  BY <1>1 DEF Less

-----------------------------------------------------------------------------
(* What a file of names promises. *)

\* A file of the names of some documents.
IsFileOf(file, named) ==
  /\ file.size \in Nat
  /\ file.byName \in Seq(1..file.size) /\ Len(file.byName) = file.size
  /\ \/ file.ids = <<>> /\ file.first \in Nat
     \/ file.ids # <<>> /\ Len(file.ids) = file.size
  /\ \A r \in 1..file.size :
       /\ IdAt(file, r) \in DOMAIN named /\ file.names[r] = named[IdAt(file, r)]
       /\ file.byName[r] \in 1..file.size
  /\ \A q \in 1..file.size, r \in 1..file.size : q < r =>
       /\ IdAt(file, q) < IdAt(file, r)
       /\ Less(file.names[file.byName[q]], file.names[file.byName[r]])
  /\ \A d \in DOMAIN named : \E r \in 1..file.size : IdAt(file, r) = d
  /\ \A r \in 1..file.size : \E p \in 1..file.size : file.byName[p] = r

\* Names that a file may have: ids are numbers, names differ.
IsNaming(named) ==
  /\ DOMAIN named \subseteq Nat /\ IsFiniteSet(DOMAIN named)
  /\ \A d \in DOMAIN named : named[d] \in Range(NameOrder)
  /\ IsInjective(named)

-----------------------------------------------------------------------------
(* Binary search. *)

Ranges(size) == {r \in (1..(size + 1)) \X (1..(size + 1)) : r[1] <= r[2]}

\* The middle of a range is in it, and both halves are shorter.
LEMMA MiddleIs ==
  ASSUME NEW low \in Nat, NEW high \in Nat, low < high
  PROVE  /\ low + (high - low) \div 2 \in low..(high - 1)
  OBVIOUS

\* When those below come first, the search finds the first of the others.
LEMMA LowerBoundIs ==
  ASSUME NEW size \in Nat, NEW m \in 1..(size + 1), NEW below,
         \A p \in 1..size : p \in below <=> p < m
  PROVE  LowerBound(size, below) = m
<1> DEFINE Body(search) ==
             [range \in Ranges(size) |->
                IF range[1] = range[2] THEN range[1]
                ELSE IF range[1] + (range[2] - range[1]) \div 2 \in below
                THEN search[<<range[1] + (range[2] - range[1]) \div 2 + 1, range[2]>>]
                ELSE search[<<range[1], range[1] + (range[2] - range[1]) \div 2>>]]
           Clamp(low, high) == IF m < low THEN low ELSE IF m > high THEN high ELSE m
           clamp == [range \in Ranges(size) |-> Clamp(range[1], range[2])]
           chosen == CHOOSE search : search = Body(search)
<1>1. LowerBound(size, below) = chosen[<<1, size + 1>>]
  BY DEF LowerBound, Ranges
<1>2. ASSUME NEW low \in 1..(size + 1), NEW high \in 1..(size + 1), low < high
      PROVE  LET middle == low + (high - low) \div 2
             IN  /\ middle \in 1..size /\ low <= middle /\ middle < high
                 /\ <<middle + 1, high>> \in Ranges(size) /\ <<low, middle>> \in Ranges(size)
                 /\ middle \in below <=> middle < m
  <2>1. low + (high - low) \div 2 \in low..(high - 1)
    BY <1>2, MiddleIs
  <2> DEFINE middle == low + (high - low) \div 2
  <2> HIDE DEF middle
  <2>2. middle \in low..(high - 1)
    BY <2>1 DEF middle
  <2>3. /\ middle \in 1..size /\ low <= middle /\ middle < high
        /\ <<middle + 1, high>> \in Ranges(size) /\ <<low, middle>> \in Ranges(size)
    BY <2>2, <1>2 DEF Ranges
  <2> QED
    BY <2>3 DEF middle
<1>3. clamp = Body(clamp)
  <2>1. ASSUME NEW range \in Ranges(size) PROVE clamp[range] = Body(clamp)[range]
    <3> DEFINE low == range[1]
               high == range[2]
               middle == low + (high - low) \div 2
    <3>1. low \in 1..(size + 1) /\ high \in 1..(size + 1) /\ low <= high /\ range = <<low, high>>
      BY DEF Ranges
    <3>2. CASE low = high
      BY <3>1, <3>2
    <3>3. CASE low < high
      <4>1. /\ middle \in 1..size /\ low <= middle /\ middle < high
            /\ <<middle + 1, high>> \in Ranges(size) /\ <<low, middle>> \in Ranges(size)
            /\ middle \in below <=> middle < m
        BY <3>1, <3>3, <1>2
      <4>2. Body(clamp)[range] = IF middle \in below THEN Clamp(middle + 1, high) ELSE Clamp(low, middle)
        <5>1. low # high
          BY <3>1, <3>3
        <5>2. Body(clamp)[range] = IF middle \in below THEN clamp[<<middle + 1, high>>]
                                   ELSE clamp[<<low, middle>>]
          BY <5>1
        <5>3. clamp[<<middle + 1, high>>] = Clamp(middle + 1, high)
          BY <4>1
        <5>4. clamp[<<low, middle>>] = Clamp(low, middle)
          BY <4>1
        <5> HIDE DEF clamp, Clamp, Body, middle
        <5> QED
          BY <5>2, <5>3, <5>4
      <4>3. clamp[range] = Clamp(low, high)
        OBVIOUS
      <4> HIDE DEF clamp, Body, middle, low, high
      <4> QED
        BY <4>1, <4>2, <4>3, <3>1, <3>3
    <3> HIDE DEF clamp, Body, middle
    <3> QED
      BY <3>1, <3>2, <3>3
  <2>2. clamp = [range \in Ranges(size) |-> clamp[range]]
    OBVIOUS
  <2>3. Body(clamp) = [range \in Ranges(size) |-> Body(clamp)[range]]
    OBVIOUS
  <2> HIDE DEF clamp, Body
  <2> QED
    BY <2>1, <2>2, <2>3
<1>4. chosen = Body(chosen)
  <2> HIDE DEF clamp, Body
  <2> QED
    BY <1>3
<1> HIDE DEF chosen
<1> DEFINE Bad == {w \in 0..size : \E range \in Ranges(size) :
                     /\ range[2] - range[1] = w /\ range[1] <= m /\ m <= range[2]
                     /\ chosen[range] # m}
<1>5. ASSUME Bad # {} PROVE FALSE
  <2>1. IsFiniteSet(Bad) /\ Bad \subseteq Nat
    <3>1. IsFiniteSet(0..size)
      BY FS_Interval
    <3> QED
      BY <3>1, FS_Subset
  <2>2. PICK w \in Bad : \A v \in Bad : w <= v
    <3> HIDE DEF Bad
    <3> QED
      BY <1>5, <2>1, MinIsLeast
  <2>3. PICK range \in Ranges(size) : /\ range[2] - range[1] = w /\ range[1] <= m /\ m <= range[2]
                                      /\ chosen[range] # m
    BY <2>2
  <2> DEFINE low == range[1]
             high == range[2]
             middle == low + (high - low) \div 2
  <2>4. low \in 1..(size + 1) /\ high \in 1..(size + 1) /\ low <= high /\ range = <<low, high>>
    BY DEF Ranges
  <2>5. chosen[range] = IF low = high THEN low
                        ELSE IF middle \in below THEN chosen[<<middle + 1, high>>]
                        ELSE chosen[<<low, middle>>]
    BY <1>4
  <2>6. low < high
    <3> HIDE DEF middle
    <3> QED
      BY <2>3, <2>4, <2>5
  <2>7. /\ middle \in 1..size /\ low <= middle /\ middle < high
        /\ <<middle + 1, high>> \in Ranges(size) /\ <<low, middle>> \in Ranges(size)
        /\ middle \in below <=> middle < m
    BY <2>4, <2>6, <1>2
  <2> HIDE DEF middle
  <2>8. ASSUME NEW half \in Ranges(size), half[2] - half[1] < w, half[1] <= m, m <= half[2]
        PROVE  chosen[half] = m
    <3>1. half[2] - half[1] \in 0..size
      BY DEF Ranges
    <3>2. half[2] - half[1] \notin Bad
      <4>1. w \in Nat /\ half[2] - half[1] \in Nat
        BY <2>1, <3>1
      <4> HIDE DEF Bad
      <4> QED
        BY <2>2, <2>8, <4>1
    <3> QED
      BY <2>8, <3>1, <3>2
  <2>9. CASE middle < m
    <3>1. chosen[<<middle + 1, high>>] = m
      <4> DEFINE half == <<middle + 1, high>>
      <4>1. half \in Ranges(size) /\ half[1] = middle + 1 /\ half[2] = high
        BY <2>7
      <4> HIDE DEF half
      <4>2. half[2] - half[1] < w /\ half[1] <= m /\ m <= half[2]
        BY <4>1, <2>3, <2>4, <2>7, <2>9
      <4>3. chosen[half] = m
        BY <4>1, <4>2, <2>8
      <4> QED
        BY <4>3 DEF half
    <3> QED
      BY <3>1, <2>3, <2>4, <2>5, <2>6, <2>7, <2>9
  <2>10. CASE ~(middle < m)
    <3>1. chosen[<<low, middle>>] = m
      <4> DEFINE half == <<low, middle>>
      <4>1. half \in Ranges(size) /\ half[1] = low /\ half[2] = middle
        BY <2>7
      <4> HIDE DEF half
      <4>2. half[2] - half[1] < w /\ half[1] <= m /\ m <= half[2]
        BY <4>1, <2>3, <2>4, <2>7, <2>10
      <4>3. chosen[half] = m
        BY <4>1, <4>2, <2>8
      <4> QED
        BY <4>3 DEF half
    <3> QED
      BY <3>1, <2>3, <2>4, <2>5, <2>6, <2>7, <2>10
  <2> QED
    BY <2>9, <2>10
<1>6. <<1, size + 1>> \in Ranges(size)
  BY DEF Ranges
<1>7. chosen[<<1, size + 1>>] = m
  <2> DEFINE range == <<1, size + 1>>
  <2>1. range \in Ranges(size) /\ range[1] <= m /\ m <= range[2] /\ range[2] - range[1] \in 0..size
    BY <1>6
  <2> HIDE DEF range
  <2>2. chosen[range] = m
    BY <1>5, <2>1
  <2> QED
    BY <2>2 DEF range
<1> QED
  BY <1>1, <1>7

LEMMA FirstNotBelow ==
  ASSUME NEW size \in Nat, NEW below,
         \A p \in 1..size, q \in 1..size : p < q /\ q \in below => p \in below
  PROVE  \E m \in 1..(size + 1) : \A p \in 1..size : p \in below <=> p < m
<1> DEFINE Others == {p \in 1..(size + 1) : p = size + 1 \/ p \notin below}
           m == Min(Others)
<1>1. Others \subseteq Nat /\ IsFiniteSet(Others) /\ Others # {}
  <2>1. IsFiniteSet(1..(size + 1)) /\ size + 1 \in Others
    BY FS_Interval
  <2> QED
    BY <2>1, FS_Subset
<1>2. m \in Others /\ \A p \in Others : m <= p
  <2> HIDE DEF Others
  <2> QED
    BY <1>1, MinIsLeast
<1> HIDE DEF m
<1>3. ASSUME NEW p \in 1..size, p \in below PROVE p < m
  BY <1>2, <1>3
<1>4. ASSUME NEW p \in 1..size, p < m PROVE p \in below
  BY <1>2, <1>4
<1> QED
  BY <1>2, <1>3, <1>4

-----------------------------------------------------------------------------
(* Looking up. *)

\* getName finds the name of a document that has one, and no other.
THEOREM GetNameIs ==
  ASSUME NEW file, NEW named, IsFileOf(file, named), IsNaming(named), NEW d \in Nat
  PROVE  GetName(file, d) = {named[e] : e \in {d} \cap DOMAIN named}
<1> DEFINE size == file.size
           below == {r \in 1..size : file.ids[r] < d}
           rank == IF file.ids = <<>>
                   THEN IF d < file.first THEN size + 1 ELSE d - file.first + 1
                   ELSE LowerBound(size, below)
           found == rank <= size /\ IdAt(file, rank) = d
<1>1. size \in Nat
  BY DEF IsFileOf
<1>2. \A r \in 1..size : /\ IdAt(file, r) \in DOMAIN named /\ IdAt(file, r) \in Nat
                         /\ file.names[r] = named[IdAt(file, r)]
  BY DEF IsFileOf, IsNaming
<1>3. \A q \in 1..size, r \in 1..size : q < r => IdAt(file, q) < IdAt(file, r)
  BY DEF IsFileOf
<1>4. GetName(file, d) = IF found THEN {file.names[rank]} ELSE {}
  BY DEF GetName
<1>5. rank \in Nat \ {0} /\ \A r \in 1..size : IdAt(file, r) = d => rank = r
  <2>1. CASE file.ids = <<>>
    <3>1. file.first \in Nat /\ \A r \in 1..size : IdAt(file, r) = file.first + r - 1
      BY <2>1 DEF IsFileOf, IdAt
    <3>2. rank = IF d < file.first THEN size + 1 ELSE d - file.first + 1
      BY <2>1
    <3> HIDE DEF rank
    <3> QED
      BY <1>1, <3>1, <3>2
  <2>2. CASE file.ids # <<>>
    <3>1. \A r \in 1..size : IdAt(file, r) = file.ids[r]
      BY <2>2 DEF IdAt
    <3>2. \A p \in 1..size, q \in 1..size : p < q /\ q \in below => p \in below
      BY <1>2, <1>3, <3>1
    <3>3. rank = LowerBound(size, below)
      BY <2>2
    <3>4. \A r \in 1..size : r \in below <=> IdAt(file, r) < d
      BY <3>1
    <3> HIDE DEF rank, below, size
    <3>5. PICK m \in 1..(size + 1) : \A p \in 1..size : p \in below <=> p < m
      BY <1>1, <3>2, FirstNotBelow
    <3>6. rank = m
      BY <1>1, <3>3, <3>5, LowerBoundIs
    <3>7. ASSUME NEW r \in 1..size, IdAt(file, r) = d PROVE m = r
      <4>1. ~(r < m)
        BY <3>4, <3>5, <3>7
      <4>2. ASSUME m < r PROVE FALSE
        <5>1. m \in 1..size
          BY <1>1, <4>2
        <5> QED
          BY <1>2, <1>3, <3>4, <3>5, <3>7, <4>2, <5>1
      <4> QED
        BY <1>1, <4>1, <4>2
    <3> QED
      BY <1>1, <3>6, <3>7
  <2> QED
    BY <2>1, <2>2
<1> HIDE DEF rank, size
<1>6. CASE d \in DOMAIN named
  <2>1. PICK r \in 1..size : IdAt(file, r) = d
    BY <1>6 DEF IsFileOf, size
  <2>2. rank = r /\ found /\ file.names[rank] = named[d]
    BY <1>1, <1>2, <1>5, <2>1
  <2> QED
    BY <1>4, <1>6, <2>2
<1>7. CASE d \notin DOMAIN named
  <2>1. ~found
    <3>1. rank <= size => rank \in 1..size
      BY <1>1, <1>5
    <3> QED
      BY <1>2, <1>7, <3>1
  <2> QED
    BY <1>4, <1>7, <2>1
<1> QED
  BY <1>6, <1>7

\* getDocIdent finds the document that has a name, and no other.
THEOREM GetDocIdentIs ==
  ASSUME NEW file, NEW named, IsFileOf(file, named), IsNaming(named),
         NEW name \in Range(NameOrder)
  PROVE  GetDocIdent(file, name) = {d \in DOMAIN named : named[d] = name}
<1> DEFINE size == file.size
           NameOfPlace(p) == file.names[file.byName[p]]
           below == {p \in 1..size : Less(NameOfPlace(p), name)}
           place == LowerBound(size, below)
           found == place <= size /\ NameOfPlace(place) = name
<1>1. size \in Nat
  BY DEF IsFileOf
<1>2. \A p \in 1..size : /\ file.byName[p] \in 1..size
                         /\ IdAt(file, file.byName[p]) \in DOMAIN named
                         /\ NameOfPlace(p) = named[IdAt(file, file.byName[p])]
                         /\ NameOfPlace(p) \in Range(NameOrder)
  BY DEF IsFileOf, IsNaming
<1>3. \A q \in 1..size, r \in 1..size : q < r => Less(NameOfPlace(q), NameOfPlace(r))
  BY DEF IsFileOf
<1>4. GetDocIdent(file, name) = IF found THEN {IdAt(file, file.byName[place])} ELSE {}
  BY DEF GetDocIdent
<1>5. \A p \in 1..size, q \in 1..size : p < q /\ q \in below => p \in below
  <2> HIDE DEF NameOfPlace, size
  <2> QED
    BY <1>2, <1>3, LessIs
<1>6. \A p \in 1..size : p \in below <=> Less(NameOfPlace(p), name)
  OBVIOUS
<1> HIDE DEF below, NameOfPlace, size
<1>7. PICK m \in 1..(size + 1) : \A p \in 1..size : p \in below <=> p < m
  BY <1>1, <1>5, FirstNotBelow
<1>8. place = m
  BY <1>1, <1>7, LowerBoundIs
<1> HIDE DEF place
<1>9. \A p \in 1..size : NameOfPlace(p) = name => place = p
  <2> SUFFICES ASSUME NEW p \in 1..size, NameOfPlace(p) = name PROVE m = p
    BY <1>8
  <2>1. ~(p < m)
    BY <1>2, <1>6, <1>7, LessIs
  <2>2. ASSUME m < p PROVE FALSE
    <3>1. m \in 1..size
      BY <1>1, <2>2
    <3> QED
      BY <1>2, <1>3, <1>6, <1>7, <2>2, <3>1, LessIs
  <2> QED
    BY <1>1, <2>1, <2>2
<1>10. ASSUME NEW d \in DOMAIN named, named[d] = name
       PROVE  found /\ IdAt(file, file.byName[place]) = d
  <2>1. PICK r \in 1..size : IdAt(file, r) = d
    BY DEF IsFileOf, size
  <2>2. PICK p \in 1..size : file.byName[p] = r
    BY DEF IsFileOf, size
  <2>3. NameOfPlace(p) = name
    BY <1>2, <1>10, <2>1, <2>2
  <2> QED
    BY <1>1, <1>9, <2>1, <2>2, <2>3
<1>11. ASSUME found PROVE /\ IdAt(file, file.byName[place]) \in DOMAIN named
                          /\ named[IdAt(file, file.byName[place])] = name
  <2>1. place \in 1..size
    BY <1>1, <1>8, <1>11
  <2> QED
    BY <1>2, <1>11, <2>1
<1>12. ASSUME NEW d \in DOMAIN named, NEW e \in DOMAIN named, named[d] = name, named[e] = name
       PROVE  d = e
  BY <1>12 DEF IsNaming, IsInjective
<1> HIDE DEF found
<1>13. CASE found
  <2>1. {d \in DOMAIN named : named[d] = name} = {IdAt(file, file.byName[place])}
    BY <1>11, <1>12, <1>13
  <2> QED
    BY <1>4, <1>13, <2>1
<1>14. CASE ~found
  BY <1>4, <1>10, <1>14
<1> QED
  BY <1>13, <1>14

\* Such a file opens.
LEMMA FileOpens ==
  ASSUME NEW file, NEW named, IsFileOf(file, named)
  PROVE  Opens(file)
<1>1. \A r \in 2..Len(file.ids) : file.ids[r - 1] < file.ids[r]
  <2> SUFFICES ASSUME NEW r \in 2..Len(file.ids) PROVE file.ids[r - 1] < file.ids[r]
    OBVIOUS
  <2>1. file.ids # <<>> /\ Len(file.ids) = file.size /\ file.size \in Nat
    BY DEF IsFileOf
  <2>2. r - 1 \in 1..file.size /\ r \in 1..file.size /\ r - 1 < r
    BY <2>1
  <2>3. IdAt(file, r - 1) < IdAt(file, r)
    BY <2>2 DEF IsFileOf
  <2> QED
    BY <2>1, <2>3 DEF IdAt
<1>2. Range(file.byName) \subseteq 1..file.size /\ Len(file.byName) = file.size
  <2>1. file.byName \in Seq(1..file.size) /\ Len(file.byName) = file.size
    BY DEF IsFileOf
  <2> QED
    BY <2>1 DEF Range
<1>3. \A r \in 2..file.size : Less(file.names[file.byName[r - 1]], file.names[file.byName[r]])
  <2> SUFFICES ASSUME NEW r \in 2..file.size
               PROVE  Less(file.names[file.byName[r - 1]], file.names[file.byName[r]])
    OBVIOUS
  <2>1. r - 1 \in 1..file.size /\ r \in 1..file.size /\ r - 1 < r
    BY DEF IsFileOf
  <2> QED
    BY <2>1 DEF IsFileOf
<1> QED
  BY <1>1, <1>2, <1>3 DEF Opens

-----------------------------------------------------------------------------
(* Writing. *)

\* Ids that increase, as many as from the first to the last, follow one another.
LEMMA DenseIs ==
  ASSUME NEW n \in Nat, NEW ids \in [1..n -> Nat],
         \A k \in 1..n, l \in 1..n : k < l => ids[k] < ids[l]
  PROVE  \A k \in 1..n, l \in 1..n : k <= l => ids[l] - ids[k] >= l - k
<1> DEFINE Bad == {w \in 0..n : \E k \in 1..n, l \in 1..n : l - k = w /\ ids[l] - ids[k] < w}
<1>1. ASSUME Bad # {} PROVE FALSE
  <2>1. IsFiniteSet(Bad) /\ Bad \subseteq Nat
    <3>1. IsFiniteSet(0..n)
      BY FS_Interval
    <3> QED
      BY <3>1, FS_Subset
  <2>2. PICK w \in Bad : \A v \in Bad : w <= v
    <3> HIDE DEF Bad
    <3> QED
      BY <1>1, <2>1, MinIsLeast
  <2>3. PICK k \in 1..n, l \in 1..n : l - k = w /\ ids[l] - ids[k] < w
    BY <2>2
  <2>4. w # 0
    BY <2>3
  <2>5. l - 1 \in 1..n /\ w - 1 \in 0..n /\ (l - 1) - k = w - 1 /\ w - 1 < w
    BY <2>1, <2>3, <2>4
  <2>6. w - 1 \notin Bad
    <3> HIDE DEF Bad
    <3> QED
      BY <2>1, <2>2, <2>5
  <2>7. ids[l - 1] - ids[k] >= w - 1
    BY <2>5, <2>6
  <2>8. ids[l - 1] < ids[l] /\ ids[l - 1] \in Nat /\ ids[l] \in Nat /\ ids[k] \in Nat
    BY <2>5
  <2> QED
    BY <2>1, <2>3, <2>5, <2>7, <2>8
<1>2. ASSUME NEW k \in 1..n, NEW l \in 1..n, k <= l PROVE ids[l] - ids[k] >= l - k
  <2>1. l - k \in 0..n
    BY <1>2
  <2>2. l - k \notin Bad
    <3> HIDE DEF Bad
    <3> QED
      BY <1>1
  <2>3. ids[l] \in Nat /\ ids[k] \in Nat
    OBVIOUS
  <2> QED
    BY <2>1, <2>2, <2>3
<1> QED
  BY <1>2

LEMMA IsSequence ==
  ASSUME NEW S, NEW n \in Nat, NEW f \in [1..n -> S]
  PROVE  f \in Seq(S) /\ Len(f) = n
  BY SeqDef

\* The arrays that write and merge compute make a file.
LEMMA FileIs ==
  ASSUME NEW named, IsNaming(named), NEW n \in Nat,
         NEW ids \in [1..n -> DOMAIN named],
         \A k \in 1..n, l \in 1..n : k < l => ids[k] < ids[l],
         \A d \in DOMAIN named : \E k \in 1..n : ids[k] = d,
         NEW nameOf \in [1..n -> Range(NameOrder)], \A k \in 1..n : nameOf[k] = named[ids[k]],
         NEW byName \in [1..n -> 1..n],
         \A k \in 1..n, l \in 1..n : k < l => Less(nameOf[byName[k]], nameOf[byName[l]]),
         \A r \in 1..n : \E k \in 1..n : byName[k] = r
  PROVE  IsFileOf(File(ids, nameOf, byName), named)
<1> DEFINE file == File(ids, nameOf, byName)
           dense == n = 0 \/ ids[n] - ids[1] = n - 1
<1>1. ids \in Seq(DOMAIN named) /\ Len(ids) = n /\ ids \in [1..n -> Nat]
  BY SeqDef DEF IsNaming
<1>2. byName \in Seq(1..n) /\ Len(byName) = n
  BY IsSequence
<1>3. /\ file.size = n /\ file.names = nameOf /\ file.byName = byName
      /\ file.first = IF n = 0 THEN 0 ELSE ids[1]
      /\ file.ids = IF dense THEN <<>> ELSE ids
  BY <1>1 DEF File
<1> HIDE DEF file
<1>4. \/ file.ids = <<>> /\ file.first \in Nat
      \/ file.ids # <<>> /\ Len(file.ids) = n
  <2>1. CASE dense
    BY <1>1, <1>3, <2>1
  <2>2. CASE ~dense
    BY <1>1, <1>3, <2>2
  <2> QED
    BY <2>1, <2>2
<1>5. ASSUME NEW r \in 1..n PROVE IdAt(file, r) = ids[r]
  <2>1. CASE dense
    <3>1. 1 \in 1..n /\ n \in 1..n /\ 1 <= r /\ r <= n /\ n # 0
      OBVIOUS
    <3>2. ids[r] - ids[1] >= r - 1 /\ ids[n] - ids[r] >= n - r
      <4>1. \A k \in 1..n, l \in 1..n : k <= l => ids[l] - ids[k] >= l - k
        BY <1>1, DenseIs
      <4> QED
        BY <3>1, <4>1
    <3>4. ids[n] - ids[1] = n - 1 /\ ids[1] \in Nat /\ ids[n] \in Nat /\ ids[r] \in Nat
      BY <1>1, <2>1, <3>1
    <3>3. ids[r] = ids[1] + r - 1
      <4>1. \A a \in Nat, b \in Nat, c \in Nat :
              b - a >= r - 1 /\ c - b >= n - r /\ c - a = n - 1 => b = a + r - 1
        OBVIOUS
      <4> QED
        BY <3>2, <3>4, <4>1
    <3> QED
      BY <1>3, <2>1, <3>3 DEF IdAt
  <2>2. CASE ~dense
    BY <1>1, <1>3, <2>2 DEF IdAt
  <2> QED
    BY <2>1, <2>2
<1> HIDE DEF dense
<1>6. \A r \in 1..n : ids[r] \in DOMAIN named /\ nameOf[r] = named[ids[r]] /\ byName[r] \in 1..n
  OBVIOUS
<1>7. \A r \in 1..n : IdAt(file, r) = ids[r]
  BY <1>5
<1>8. file.size \in Nat /\ file.byName \in Seq(1..file.size) /\ Len(file.byName) = file.size
  BY <1>2, <1>3
<1>9. \A r \in 1..file.size :
        /\ IdAt(file, r) \in DOMAIN named /\ file.names[r] = named[IdAt(file, r)]
        /\ file.byName[r] \in 1..file.size
  <2>1. file.size = n /\ file.names = nameOf /\ file.byName = byName
    BY <1>3
  <2> SUFFICES ASSUME NEW r \in 1..n
               PROVE  /\ IdAt(file, r) \in DOMAIN named /\ nameOf[r] = named[IdAt(file, r)]
                      /\ byName[r] \in 1..n
    BY <2>1
  <2>2. IdAt(file, r) = ids[r] /\ ids[r] \in DOMAIN named
    BY <1>5
  <2> QED
    BY <1>6, <2>2
<1>10. \A q \in 1..file.size, r \in 1..file.size : q < r =>
         /\ IdAt(file, q) < IdAt(file, r)
         /\ Less(file.names[file.byName[q]], file.names[file.byName[r]])
  <2>1. file.size = n /\ file.names = nameOf /\ file.byName = byName
    BY <1>3
  <2> SUFFICES ASSUME NEW q \in 1..n, NEW r \in 1..n, q < r
               PROVE  IdAt(file, q) < IdAt(file, r) /\ Less(nameOf[byName[q]], nameOf[byName[r]])
    BY <2>1
  <2>2. IdAt(file, q) = ids[q] /\ IdAt(file, r) = ids[r]
    BY <1>7
  <2>3. IdAt(file, q) < IdAt(file, r)
    BY <2>2
  <2> QED
    BY <2>3
<1>11. /\ \A d \in DOMAIN named : \E r \in 1..file.size : IdAt(file, r) = d
       /\ \A r \in 1..file.size : \E p \in 1..file.size : file.byName[p] = r
  <2>1. file.size = n /\ file.byName = byName
    BY <1>3
  <2>2. ASSUME NEW d \in DOMAIN named PROVE \E r \in 1..n : IdAt(file, r) = d
    <3>1. PICK k \in 1..n : ids[k] = d
      OBVIOUS
    <3> QED
      BY <1>5, <3>1
  <2> QED
    BY <2>1, <2>2
<1> QED
  BY <1>3, <1>4, <1>8, <1>9, <1>10, <1>11 DEF IsFileOf, file

\* write refuses no names that differ, and makes their file.
THEOREM WrittenIs ==
  ASSUME NEW named, IsNaming(named)
  PROVE  \E file : Written(named) = {file} /\ IsFileOf(file, named)
<1> DEFINE S == DOMAIN named
           n == Cardinality(S)
           idKey == [d \in S |-> d]
           ids == Sorted(S, idKey)
           nameOf == [r \in DOMAIN ids |-> named[ids[r]]]
           nameKey == [r \in DOMAIN ids |-> PlaceOf(nameOf[r])]
           byName == Sorted(DOMAIN ids, nameKey)
<1>1. IsKey(idKey, S) /\ IsFiniteSet(S) /\ n \in Nat
  BY FS_CardinalityType DEF IsKey, IsInjective, IsNaming
<1>2. /\ ids \in [1..n -> S]
      /\ \A k \in 1..n, l \in 1..n : k < l => ids[k] < ids[l]
      /\ \A d \in S : \E k \in 1..n : ids[k] = d
  <2>1. /\ ids \in [1..n -> S]
        /\ \A k \in 1..n, l \in 1..n : k < l => idKey[ids[k]] < idKey[ids[l]]
        /\ \A d \in S : \E k \in 1..n : ids[k] = d
    <3> HIDE DEF idKey
    <3> QED
      BY <1>1, SortedIs
  <2> HIDE DEF ids
  <2> QED
    BY <2>1
<1> HIDE DEF ids
<1>3. nameOf \in [1..n -> Range(NameOrder)] /\ \A k \in 1..n : nameOf[k] = named[ids[k]]
  BY <1>2 DEF IsNaming
<1>4. IsInjective(nameOf)
  <2> SUFFICES ASSUME NEW k \in 1..n, NEW l \in 1..n, nameOf[k] = nameOf[l] PROVE k = l
    BY <1>2 DEF IsInjective
  <2>1. ids[k] = ids[l]
    BY <1>2, <1>3 DEF IsNaming, IsInjective
  <2>2. ids[k] \in Nat /\ ids[l] \in Nat
    BY <1>2 DEF IsNaming
  <2> QED
    BY <1>1, <1>2, <2>1, <2>2
<1> HIDE DEF nameOf
<1>5. IsKey(nameKey, 1..n)
  <2>1. \A k \in 1..n : PlaceOf(nameOf[k]) \in Nat /\ NameOrder[PlaceOf(nameOf[k])] = nameOf[k]
    BY <1>3, PlaceIs, NameOrderAssumption
  <2>2. nameKey \in [1..n -> Nat] /\ \A k \in 1..n : nameKey[k] = PlaceOf(nameOf[k])
    BY <1>2, <2>1
  <2> HIDE DEF nameKey
  <2>3. ASSUME NEW k \in 1..n, NEW l \in 1..n, nameKey[k] = nameKey[l] PROVE k = l
    <3>1. nameOf[k] = nameOf[l]
      BY <2>1, <2>2, <2>3
    <3> QED
      BY <1>3, <1>4, <3>1 DEF IsInjective
  <2> QED
    BY <2>2, <2>3 DEF IsKey, IsInjective
<1>6. IsFiniteSet(1..n) /\ Cardinality(1..n) = n
  BY <1>1, FS_Interval
<1>7. /\ byName \in [1..n -> 1..n]
      /\ \A k \in 1..n, l \in 1..n : k < l => nameKey[byName[k]] < nameKey[byName[l]]
      /\ \A r \in 1..n : \E k \in 1..n : byName[k] = r
  <2>1. byName = Sorted(1..n, nameKey)
    BY <1>2
  <2> HIDE DEF nameKey, byName
  <2>2. LET list == Sorted(1..n, nameKey)
        IN  /\ list \in [1..n -> 1..n]
            /\ \A k \in 1..n, l \in 1..n : k < l => nameKey[list[k]] < nameKey[list[l]]
            /\ \A r \in 1..n : \E k \in 1..n : list[k] = r
    <3> DEFINE R == 1..n
               list == Sorted(R, nameKey)
    <3>1. IsKey(nameKey, R) /\ IsFiniteSet(R) /\ Cardinality(R) = n
      BY <1>5, <1>6
    <3> HIDE DEF R, n
    <3>2. /\ list \in [1..n -> R]
          /\ \A x \in R : RankIn(R, nameKey, x) \in 1..n /\ list[RankIn(R, nameKey, x)] = x
          /\ \A k \in 1..n, l \in 1..n : k < l => nameKey[list[k]] < nameKey[list[l]]
      BY <3>1, SortedIs
    <3> HIDE DEF list
    <3>3. \A r \in R : \E k \in 1..n : list[k] = r
      BY <3>2
    <3> QED
      BY <3>2, <3>3 DEF R, list
  <2> QED
    BY <2>1, <2>2
<1>8. \A k \in 1..n, l \in 1..n : k < l => Less(nameOf[byName[k]], nameOf[byName[l]])
  <2>1. \A k \in 1..n : nameKey[k] = PlaceOf(nameOf[k])
    BY <1>2
  <2> HIDE DEF nameKey, byName
  <2> SUFFICES ASSUME NEW k \in 1..n, NEW l \in 1..n, k < l PROVE Less(nameOf[byName[k]], nameOf[byName[l]])
    OBVIOUS
  <2>2. byName[k] \in 1..n /\ byName[l] \in 1..n /\ nameKey[byName[k]] < nameKey[byName[l]]
    BY <1>7
  <2>3. PlaceOf(nameOf[byName[k]]) < PlaceOf(nameOf[byName[l]])
    BY <2>1, <2>2
  <2> QED
    BY <2>3 DEF Less
<1>9. Written(named) = {File(ids, nameOf, byName)}
  BY <1>4 DEF Written, ids, nameOf
<1> HIDE DEF byName, nameKey
<1>10. IsFileOf(File(ids, nameOf, byName), named)
  <2> HIDE DEF n
  <2> QED
    BY <1>1, <1>2, <1>3, <1>7, <1>8, FileIs
<1> QED
  BY <1>9, <1>10

-----------------------------------------------------------------------------
(* Merging the orders of names. *)

KeepsAt(files, deleted, s, p) == IdAt(files[s], files[s].byName[p]) \notin deleted[s]
NameIn(files, s, p) == files[s].names[files[s].byName[p]]
ItemAt(files, s, p) == <<s, files[s].byName[p]>>

\* What a merge is given: in each shard names increase, no two documents kept have
\* the same one, and the n documents kept have ranks from 1 to n, where names has
\* their names.
Merging(files, deleted, ranks, nameOf, n) ==
  /\ n \in Nat /\ nameOf \in [1..n -> Range(NameOrder)]
  /\ \A s \in DOMAIN files :
       /\ files[s].size \in Nat
       /\ \A p \in 1..files[s].size : NameIn(files, s, p) \in Range(NameOrder)
       /\ \A p \in 1..files[s].size, q \in 1..files[s].size :
            p < q => Less(NameIn(files, s, p), NameIn(files, s, q))
       /\ \A p \in 1..files[s].size : KeepsAt(files, deleted, s, p) =>
            /\ ranks[ItemAt(files, s, p)] \in 1..n
            /\ nameOf[ranks[ItemAt(files, s, p)]] = NameIn(files, s, p)
  /\ \A s \in DOMAIN files, t \in DOMAIN files :
       \A p \in 1..files[s].size, q \in 1..files[t].size :
         /\ KeepsAt(files, deleted, s, p) /\ KeepsAt(files, deleted, t, q)
         /\ NameIn(files, s, p) = NameIn(files, t, q)
         => s = t
  /\ \A r \in 1..n : \E s \in DOMAIN files : \E p \in 1..files[s].size :
       KeepsAt(files, deleted, s, p) /\ ranks[ItemAt(files, s, p)] = r

\* The documents kept that are before the cursors, and the others.
Taken(files, deleted, cursors, s, p) ==
  /\ s \in DOMAIN files /\ p \in 1..files[s].size
  /\ KeepsAt(files, deleted, s, p) /\ p < cursors[s]
Left(files, deleted, cursors, s, p) ==
  /\ s \in DOMAIN files /\ p \in 1..files[s].size
  /\ KeepsAt(files, deleted, s, p) /\ p >= cursors[s]

\* The state of a merge once i names were taken: they are the least, and in order.
Merged(files, deleted, ranks, nameOf, n, state, i) ==
  /\ ~state.refused
  /\ \A s \in DOMAIN files :
       /\ state.cursors[s] \in 1..(files[s].size + 1)
       /\ state.cursors[s] <= files[s].size => KeepsAt(files, deleted, s, state.cursors[s])
  /\ state.byName \in Seq(1..n) /\ Len(state.byName) = i
  /\ \A k \in 1..i : \E s, p : /\ Taken(files, deleted, state.cursors, s, p)
                               /\ state.byName[k] = ranks[ItemAt(files, s, p)]
  /\ \A s, p : Taken(files, deleted, state.cursors, s, p) =>
       \E k \in 1..i : state.byName[k] = ranks[ItemAt(files, s, p)]
  /\ \A k \in 1..i, l \in 1..i : k < l => Less(nameOf[state.byName[k]], nameOf[state.byName[l]])
  /\ \A s, p, t, q : /\ Taken(files, deleted, state.cursors, s, p)
                     /\ Left(files, deleted, state.cursors, t, q)
                     => Less(NameIn(files, s, p), NameIn(files, t, q))
  /\ state.previous # <<>> =>
       \E s, p : /\ Taken(files, deleted, state.cursors, s, p)
                 /\ state.previous[2] = NameIn(files, s, p)

LEMMA AdvanceIs ==
  ASSUME NEW file, file.size \in Nat, NEW deleted, NEW place \in 1..(file.size + 1)
  PROVE  LET p == Advance(file, deleted, place)
         IN  /\ p \in place..(file.size + 1)
             /\ p <= file.size => IdAt(file, file.byName[p]) \notin deleted
             /\ \A q \in place..(p - 1) : IdAt(file, file.byName[q]) \in deleted
<1> DEFINE Stops == {p \in place..(file.size + 1) :
                       p <= file.size => IdAt(file, file.byName[p]) \notin deleted}
<1>1. Stops \subseteq Nat /\ IsFiniteSet(Stops) /\ Stops # {}
  <2>1. IsFiniteSet(place..(file.size + 1))
    BY FS_Interval
  <2>2. Stops \subseteq place..(file.size + 1)
    OBVIOUS
  <2>3. file.size + 1 \in Stops
    OBVIOUS
  <2>4. IsFiniteSet(Stops)
    <3> HIDE DEF Stops
    <3> QED
      BY <2>1, <2>2, FS_Subset
  <2> QED
    BY <2>2, <2>3, <2>4
<1>2. Min(Stops) \in Stops /\ \A p \in Stops : Min(Stops) <= p
  <2> HIDE DEF Stops
  <2> QED
    BY <1>1, MinIsLeast
<1>3. Advance(file, deleted, place) = Min(Stops)
  BY DEF Advance
<1> DEFINE m == Min(Stops)
<1> HIDE DEF m
<1>4. m \in Stops /\ \A p \in Stops : m <= p
  BY <1>2 DEF m
<1>5. ASSUME NEW q \in place..(m - 1) PROVE IdAt(file, file.byName[q]) \in deleted
  <2>1. q \in place..(file.size + 1) /\ q < m /\ q <= file.size
    BY <1>4
  <2> QED
    BY <1>4, <2>1
<1> QED
  BY <1>3, <1>4, <1>5 DEF m

\* The start of a merge.
LEMMA MergeStarts ==
  ASSUME NEW files, NEW deleted, NEW ranks, NEW nameOf, NEW n,
         Merging(files, deleted, ranks, nameOf, n)
  PROVE  Merged(files, deleted, ranks, nameOf, n,
                [refused |-> FALSE, previous |-> <<>>, byName |-> <<>>,
                 cursors |-> [s \in DOMAIN files |-> Advance(files[s], deleted[s], 1)]], 0)
<1> DEFINE state == [refused |-> FALSE, previous |-> <<>>, byName |-> <<>>,
                     cursors |-> [s \in DOMAIN files |-> Advance(files[s], deleted[s], 1)]]
<1>1. ASSUME NEW s \in DOMAIN files
      PROVE  /\ state.cursors[s] \in 1..(files[s].size + 1)
             /\ state.cursors[s] <= files[s].size => KeepsAt(files, deleted, s, state.cursors[s])
             /\ \A p \in 1..(state.cursors[s] - 1) : ~KeepsAt(files, deleted, s, p)
  <2>1. state.cursors[s] = Advance(files[s], deleted[s], 1) /\ files[s].size \in Nat
    BY DEF Merging
  <2>2. LET p == Advance(files[s], deleted[s], 1)
        IN  /\ p \in 1..(files[s].size + 1)
            /\ p <= files[s].size => IdAt(files[s], files[s].byName[p]) \notin deleted[s]
            /\ \A q \in 1..(p - 1) : IdAt(files[s], files[s].byName[q]) \in deleted[s]
    BY <2>1, AdvanceIs
  <2> HIDE DEF state
  <2> QED
    BY <2>1, <2>2 DEF KeepsAt
<1>2. /\ ~state.refused /\ state.byName = <<>> /\ state.previous = <<>>
  OBVIOUS
<1> HIDE DEF state
<1>3. \A s, p : ~Taken(files, deleted, state.cursors, s, p)
  <2> SUFFICES ASSUME NEW s, NEW p, Taken(files, deleted, state.cursors, s, p) PROVE FALSE
    OBVIOUS
  <2>1. s \in DOMAIN files /\ p \in 1..files[s].size /\ p < state.cursors[s]
    BY DEF Taken
  <2>2. p \in 1..(state.cursors[s] - 1)
    BY <1>1, <2>1
  <2> QED
    BY <1>1, <2>1, <2>2 DEF Taken
<1>4. <<>> \in Seq(1..n) /\ Len(<<>>) = 0
  OBVIOUS
<1>5. Merged(files, deleted, ranks, nameOf, n, state, 0)
  BY <1>1, <1>2, <1>3, <1>4 DEF Merged
<1> QED
  BY <1>5 DEF state

\* Each step takes the least name left.
LEMMA MergeSteps ==
  ASSUME NEW files, NEW deleted, NEW ranks, NEW nameOf, NEW n,
         Merging(files, deleted, ranks, nameOf, n),
         NEW i \in 0..(n - 1), NEW state, Merged(files, deleted, ranks, nameOf, n, state, i)
  PROVE  Merged(files, deleted, ranks, nameOf, n, NextByName(state, files, deleted, ranks), i + 1)
<1> DEFINE D == DOMAIN files
           c == state.cursors
           nameAt(s) == NameAt(files, c, s)
           open == {s \in D : c[s] <= files[s].size}
           least == CHOOSE s \in open : \A t \in open : ~Less(nameAt(t), nameAt(s))
           again == state.previous # <<>> /\ state.previous[1] # least
                      /\ ~Less(state.previous[2], nameAt(least))
           new == NextByName(state, files, deleted, ranks)
<1>0. n \in Nat /\ i \in Nat /\ i < n
  BY DEF Merging
<1>1. \A s \in open : /\ s \in D /\ Left(files, deleted, c, s, c[s]) /\ c[s] \in 1..files[s].size
                      /\ nameAt(s) = NameIn(files, s, c[s]) /\ nameAt(s) \in Range(NameOrder)
  <2> SUFFICES ASSUME NEW s \in open
               PROVE  /\ Left(files, deleted, c, s, c[s]) /\ c[s] \in 1..files[s].size
                      /\ nameAt(s) = NameIn(files, s, c[s]) /\ nameAt(s) \in Range(NameOrder)
    OBVIOUS
  <2>1. s \in D /\ files[s].size \in Nat /\ c[s] \in 1..files[s].size
    BY DEF Merged, Merging
  <2>2. nameAt(s) = NameIn(files, s, c[s])
    BY DEF NameAt, NameIn
  <2>3. KeepsAt(files, deleted, s, c[s])
    BY <2>1 DEF Merged
  <2> QED
    BY <2>1, <2>2, <2>3 DEF Left, Merging
<1>2. open # {}
  <2> SUFFICES ASSUME open = {} PROVE FALSE
    OBVIOUS
  <2> DEFINE by == state.byName
  <2>1. by \in [1..i -> 1..n]
    <3>1. by \in Seq(1..n) /\ Len(by) = i
      BY DEF Merged
    <3> HIDE DEF by
    <3>2. by \in [1..Len(by) -> 1..n]
      BY <3>1, LenProperties
    <3> QED
      BY <3>1, <3>2
  <2>2. ASSUME NEW r \in 1..n PROVE \E k \in 1..i : by[k] = r
    <3>1. PICK s \in D : \E p \in 1..files[s].size :
            KeepsAt(files, deleted, s, p) /\ ranks[ItemAt(files, s, p)] = r
      BY DEF Merging
    <3>2. PICK p \in 1..files[s].size : KeepsAt(files, deleted, s, p) /\ ranks[ItemAt(files, s, p)] = r
      BY <3>1
    <3>3. c[s] > files[s].size /\ files[s].size \in Nat /\ c[s] \in Nat
      BY DEF Merged, Merging
    <3>4. Taken(files, deleted, c, s, p)
      BY <3>2, <3>3 DEF Taken
    <3> QED
      BY <3>2, <3>4 DEF Merged
  <2>3. by \in Surjection(1..i, 1..n)
    BY <2>1, <2>2 DEF Surjection
  <2>4. IsFiniteSet(1..i) /\ Cardinality(1..i) = i /\ Cardinality(1..n) = n
    <3>1. IsFiniteSet(1..i) /\ Cardinality(1..i) = i
      BY <1>0, FS_Interval
    <3>2. Cardinality(1..n) = n
      BY <1>0, FS_Interval
    <3> QED
      BY <3>1, <3>2
  <2> HIDE DEF by
  <2>5. Cardinality(1..n) <= Cardinality(1..i)
    BY <2>3, <2>4, FS_Surjection
  <2> QED
    BY <1>0, <2>4, <2>5
<1>3. least \in open /\ \A t \in open : ~Less(nameAt(t), nameAt(least))
  <2> DEFINE places == {PlaceOf(nameAt(s)) : s \in open}
  <2>1. \A s \in open : PlaceOf(nameAt(s)) \in 1..Len(NameOrder)
    <3> HIDE DEF nameAt, open
    <3> QED
      BY <1>1, PlaceIs
  <2>2. places \subseteq Nat /\ IsFiniteSet(places) /\ places # {}
    <3>1. places \subseteq 1..Len(NameOrder) /\ Len(NameOrder) \in Nat
      BY <2>1, NameOrderAssumption
    <3>2. IsFiniteSet(1..Len(NameOrder))
      <4>1. Len(NameOrder) \in Nat
        BY NameOrderAssumption
      <4> QED
        BY <4>1, FS_Interval
    <3>3. places # {}
      <4>1. PICK s \in open : TRUE
        BY <1>2
      <4>2. PlaceOf(nameAt(s)) \in places
        OBVIOUS
      <4> QED
        BY <4>2
    <3> HIDE DEF places
    <3>4. IsFiniteSet(places)
      BY <3>1, <3>2, FS_Subset
    <3>5. places \subseteq Nat
      BY <3>1
    <3> QED
      BY <3>3, <3>4, <3>5
  <2>3. Min(places) \in places /\ \A place \in places : Min(places) <= place
    <3> HIDE DEF places
    <3> QED
      BY <2>2, MinIsLeast
  <2>4. PICK s \in open : PlaceOf(nameAt(s)) = Min(places)
    BY <2>3
  <2>5. \A t \in open : ~Less(nameAt(t), nameAt(s))
    <3> SUFFICES ASSUME NEW t \in open PROVE ~Less(nameAt(t), nameAt(s))
      OBVIOUS
    <3>1. /\ PlaceOf(nameAt(s)) <= PlaceOf(nameAt(t))
          /\ PlaceOf(nameAt(s)) \in Nat /\ PlaceOf(nameAt(t)) \in Nat
      BY <2>2, <2>3, <2>4
    <3> HIDE DEF nameAt
    <3> QED
      BY <3>1 DEF Less
  <2> HIDE DEF nameAt, open
  <2> QED
    BY <2>5
<1>4. /\ new.refused = (state.refused \/ again)
      /\ new.previous = <<least, nameAt(least)>>
      /\ new.byName = Append(state.byName, ranks[<<least, files[least].byName[c[least]]>>])
      /\ new.cursors = [s \in D |-> IF s = least THEN Advance(files[s], deleted[s], c[s] + 1) ELSE c[s]]
  BY DEF NextByName
<1> DEFINE c2 == new.cursors
           first == c[least]
<1> HIDE DEF new, least, again
<1>5. least \in D /\ first \in 1..files[least].size /\ Left(files, deleted, c, least, first)
      /\ nameAt(least) = NameIn(files, least, first)
      /\ files[least].size \in Nat /\ KeepsAt(files, deleted, least, first)
  <2>1. Left(files, deleted, c, least, first)
    BY <1>1, <1>3
  <2> QED
    BY <1>1, <1>3, <2>1 DEF Merging, Left
<1>6. /\ c2[least] \in (first + 1)..(files[least].size + 1)
      /\ c2[least] <= files[least].size => KeepsAt(files, deleted, least, c2[least])
      /\ \A q \in (first + 1)..(c2[least] - 1) : ~KeepsAt(files, deleted, least, q)
  <2> DEFINE place == first + 1
  <2>1. place \in 1..(files[least].size + 1)
    BY <1>5
  <2>2. LET p == Advance(files[least], deleted[least], place)
        IN  /\ p \in place..(files[least].size + 1)
            /\ p <= files[least].size => IdAt(files[least], files[least].byName[p]) \notin deleted[least]
            /\ \A q \in place..(p - 1) : IdAt(files[least], files[least].byName[q]) \in deleted[least]
    <3> HIDE DEF place
    <3> QED
      BY <1>5, <2>1, AdvanceIs
  <2>3. c2[least] = Advance(files[least], deleted[least], place)
    BY <1>4, <1>5
  <2> QED
    BY <2>2, <2>3 DEF KeepsAt
<1>7. \A s \in D : s # least => c2[s] = c[s]
  BY <1>4
<1> HIDE DEF c2
\* What is before the new cursors.
<1>8. \A s, p : Taken(files, deleted, c2, s, p) <=>
                  Taken(files, deleted, c, s, p) \/ (s = least /\ p = first)
  <2> SUFFICES ASSUME NEW s \in D, NEW p \in 1..files[s].size, KeepsAt(files, deleted, s, p)
               PROVE  p < c2[s] <=> p < c[s] \/ (s = least /\ p = first)
    BY <1>5 DEF Taken
  <2>1. CASE s # least
    BY <1>7, <2>1
  <2>2. CASE s = least
    <3>1. c[s] = first /\ first \in Nat /\ c2[s] \in Nat /\ p \in Nat
      BY <1>5, <1>6, <2>2
    <3>2. ~(p \in (first + 1)..(c2[s] - 1))
      BY <1>6, <2>2
    <3>3. first < c2[s]
      BY <1>5, <1>6, <2>2
    <3> QED
      BY <2>2, <3>1, <3>2, <3>3
  <2> QED
    BY <2>1, <2>2
<1>9. \A s, p : Left(files, deleted, c2, s, p) => Left(files, deleted, c, s, p) /\ ~(s = least /\ p = first)
  <2> SUFFICES ASSUME NEW s \in D, NEW p \in 1..files[s].size, p >= c2[s]
               PROVE  p >= c[s] /\ ~(s = least /\ p = first)
    BY DEF Left
  <2>1. CASE s # least
    BY <1>7, <2>1
  <2>2. CASE s = least
    BY <1>5, <1>6, <2>2
  <2> QED
    BY <2>1, <2>2
\* The name taken is less than those left.
<1>10. ASSUME NEW t, NEW q, Left(files, deleted, c2, t, q)
       PROVE  Less(NameIn(files, least, first), NameIn(files, t, q))
  <2>1. /\ Left(files, deleted, c, t, q) /\ ~(t = least /\ q = first) /\ t \in D
        /\ q \in 1..files[t].size /\ KeepsAt(files, deleted, t, q) /\ q >= c[t]
        /\ files[t].size \in Nat /\ c[t] \in 1..(files[t].size + 1)
    BY <1>9, <1>10 DEF Left, Merging, Merged
  <2>2. CASE t = least
    <3>1. first < q
      BY <1>5, <2>1, <2>2
    <3> QED
      BY <1>5, <2>1, <2>2, <3>1 DEF Merging
  <2>3. CASE t # least
    <3>1. t \in open
      BY <2>1
    <3>2. ~Less(nameAt(t), nameAt(least)) /\ nameAt(t) = NameIn(files, t, c[t])
          /\ c[t] \in 1..files[t].size /\ KeepsAt(files, deleted, t, c[t])
      BY <1>1, <1>3, <3>1 DEF Left
    <3>3. NameIn(files, least, first) # NameIn(files, t, c[t])
      BY <1>5, <2>1, <2>3, <3>2 DEF Merging
    <3>4. /\ NameIn(files, least, first) \in Range(NameOrder)
          /\ NameIn(files, t, c[t]) \in Range(NameOrder) /\ NameIn(files, t, q) \in Range(NameOrder)
      BY <1>5, <2>1, <3>2 DEF Merging
    <3>5. Less(NameIn(files, least, first), NameIn(files, t, c[t]))
      <4> HIDE DEF nameAt
      <4> QED
        BY <1>5, <3>2, <3>3, <3>4, LessIs
    <3>6. q = c[t] \/ Less(NameIn(files, t, c[t]), NameIn(files, t, q))
      BY <2>1, <3>2 DEF Merging
    <3> QED
      BY <3>4, <3>5, <3>6, LessIs
  <2> QED
    BY <2>2, <2>3
<1>11. again = FALSE
  <2> SUFFICES ASSUME state.previous # <<>> PROVE Less(state.previous[2], nameAt(least))
    BY DEF again
  <2>1. PICK s, p : Taken(files, deleted, c, s, p) /\ state.previous[2] = NameIn(files, s, p)
    BY DEF Merged
  <2>2. Less(NameIn(files, s, p), NameIn(files, least, first))
    BY <1>5, <2>1 DEF Merged
  <2> HIDE DEF nameAt
  <2> QED
    BY <1>5, <2>1, <2>2
<1> DEFINE taken == ranks[ItemAt(files, least, first)]
           by == state.byName
           by2 == new.byName
<1>12. taken \in 1..n /\ nameOf[taken] = NameIn(files, least, first)
  BY <1>5 DEF Merging
<1>13. /\ by \in Seq(1..n) /\ Len(by) = i /\ by2 = Append(by, taken)
  BY <1>4 DEF Merged, ItemAt
<1> HIDE DEF taken, by2
<1>14. /\ by2 \in Seq(1..n) /\ Len(by2) = i + 1 /\ by2[i + 1] = taken
       /\ \A k \in 1..i : by2[k] = by[k] /\ by[k] \in 1..n
  <2> HIDE DEF by
  <2> QED
    BY <1>0, <1>12, <1>13
<1>15. \A k \in 1..i : \E s, p : /\ Taken(files, deleted, c, s, p)
                                 /\ by[k] = ranks[ItemAt(files, s, p)]
  BY DEF Merged
<1>16. ASSUME NEW s, NEW p, Taken(files, deleted, c, s, p)
       PROVE  \E k \in 1..i : by[k] = ranks[ItemAt(files, s, p)]
  BY <1>16 DEF Merged
<1>17. \A k \in 1..i, l \in 1..i : k < l => Less(nameOf[by[k]], nameOf[by[l]])
  BY DEF Merged
<1> HIDE DEF by
<1>18. \A s \in D : /\ c2[s] \in 1..(files[s].size + 1)
                    /\ c2[s] <= files[s].size => KeepsAt(files, deleted, s, c2[s])
  <2> SUFFICES ASSUME NEW s \in D
               PROVE  /\ c2[s] \in 1..(files[s].size + 1)
                      /\ c2[s] <= files[s].size => KeepsAt(files, deleted, s, c2[s])
    OBVIOUS
  <2>1. CASE s = least
    BY <1>5, <1>6, <2>1
  <2>2. CASE s # least
    BY <1>7, <2>2 DEF Merged
  <2> QED
    BY <2>1, <2>2
<1>19. \A k \in 1..(i + 1) : \E s, p : /\ Taken(files, deleted, c2, s, p)
                                       /\ by2[k] = ranks[ItemAt(files, s, p)]
  <2> SUFFICES ASSUME NEW k \in 1..(i + 1)
               PROVE  \E s, p : Taken(files, deleted, c2, s, p) /\ by2[k] = ranks[ItemAt(files, s, p)]
    OBVIOUS
  <2>1. CASE k \in 1..i
    BY <1>8, <1>14, <1>15, <2>1
  <2>2. CASE k = i + 1
    BY <1>8, <1>14, <2>2 DEF taken
  <2> QED
    BY <1>0, <2>1, <2>2
<1>20. \A s, p : Taken(files, deleted, c2, s, p) =>
         \E k \in 1..(i + 1) : by2[k] = ranks[ItemAt(files, s, p)]
  <2> SUFFICES ASSUME NEW s, NEW p, Taken(files, deleted, c2, s, p)
               PROVE  \E k \in 1..(i + 1) : by2[k] = ranks[ItemAt(files, s, p)]
    OBVIOUS
  <2>1. CASE s = least /\ p = first
    BY <1>0, <1>14, <2>1 DEF taken
  <2>2. CASE Taken(files, deleted, c, s, p)
    <3>1. PICK k \in 1..i : by[k] = ranks[ItemAt(files, s, p)]
      BY <1>16, <2>2
    <3> QED
      BY <1>0, <1>14, <3>1
  <2> QED
    BY <1>8, <2>1, <2>2
<1>21. \A k \in 1..(i + 1), l \in 1..(i + 1) : k < l => Less(nameOf[by2[k]], nameOf[by2[l]])
  <2> SUFFICES ASSUME NEW k \in 1..(i + 1), NEW l \in 1..(i + 1), k < l
               PROVE  Less(nameOf[by2[k]], nameOf[by2[l]])
    OBVIOUS
  <2>1. CASE l \in 1..i
    <3>1. k \in 1..i
      BY <1>0, <2>1
    <3>2. by2[k] = by[k] /\ by2[l] = by[l]
      BY <1>14, <2>1, <3>1
    <3> QED
      BY <1>17, <2>1, <3>1, <3>2
  <2>2. CASE l = i + 1
    <3>1. k \in 1..i
      BY <1>0, <2>2
    <3>2. PICK s, p : Taken(files, deleted, c, s, p) /\ by[k] = ranks[ItemAt(files, s, p)]
      BY <1>15, <3>1
    <3>3. nameOf[by[k]] = NameIn(files, s, p)
      BY <3>2 DEF Merging, Taken
    <3>4. Less(NameIn(files, s, p), NameIn(files, least, first))
      BY <1>5, <3>2 DEF Merged
    <3> QED
      BY <1>12, <1>14, <2>2, <3>1, <3>3, <3>4
  <2> QED
    BY <1>0, <2>1, <2>2
<1>22. \A s, p, t, q : Taken(files, deleted, c2, s, p) /\ Left(files, deleted, c2, t, q)
                         => Less(NameIn(files, s, p), NameIn(files, t, q))
  <2> SUFFICES ASSUME NEW s, NEW p, NEW t, NEW q,
                      Taken(files, deleted, c2, s, p), Left(files, deleted, c2, t, q)
               PROVE  Less(NameIn(files, s, p), NameIn(files, t, q))
    OBVIOUS
  <2>1. CASE s = least /\ p = first
    BY <1>10, <2>1
  <2>2. CASE Taken(files, deleted, c, s, p)
    BY <1>9, <2>2 DEF Merged
  <2> QED
    BY <1>8, <2>1, <2>2
<1>23. \E s, p : Taken(files, deleted, c2, s, p) /\ new.previous[2] = NameIn(files, s, p)
  <2>1. new.previous[2] = NameIn(files, least, first)
    <3> HIDE DEF nameAt
    <3> QED
      BY <1>4, <1>5
  <2> QED
    BY <1>8, <2>1
<1>24. ~new.refused
  BY <1>4, <1>11 DEF Merged
<1>25. Merged(files, deleted, ranks, nameOf, n, new, i + 1)
  BY <1>14, <1>18, <1>19, <1>20, <1>21, <1>22, <1>23, <1>24 DEF Merged, c2, by2
<1> QED
  BY <1>25 DEF new

\* One step of the fold, and the steps up to some number.
Step(state, files, deleted, ranks) ==
  IF state.refused THEN state ELSE NextByName(state, files, deleted, ranks)
IsMergeTo(f, start, files, deleted, ranks, m) ==
  \A i \in 0..m : f[i] = IF i = 0 THEN start ELSE Step(f[i - 1], files, deleted, ranks)

LEMMA StepsExist ==
  ASSUME NEW n \in Nat, NEW start, NEW files, NEW deleted, NEW ranks
  PROVE  \E f : /\ f = [i \in 0..n |-> f[i]]
                /\ IsMergeTo(f, start, files, deleted, ranks, n)
<1> DEFINE Exists(m) == \E f : /\ f = [i \in 0..m |-> f[i]]
                               /\ IsMergeTo(f, start, files, deleted, ranks, m)
           Bad == {m \in 0..n : ~Exists(m)}
<1>1. ASSUME Bad # {} PROVE FALSE
  <2>1. IsFiniteSet(Bad) /\ Bad \subseteq Nat
    <3>1. IsFiniteSet(0..n)
      BY FS_Interval
    <3> QED
      BY <3>1, FS_Subset
  <2>2. PICK m \in Bad : \A l \in Bad : m <= l
    <3> HIDE DEF Bad
    <3> QED
      BY <1>1, <2>1, MinIsLeast
  <2>3. m \in 0..n /\ ~Exists(m)
    OBVIOUS
  <2>4. CASE m = 0
    <3> DEFINE f == [i \in 0..0 |-> start]
    <3>1. f = [i \in 0..m |-> f[i]]
      BY <2>4
    <3>2. IsMergeTo(f, start, files, deleted, ranks, m)
      BY <2>4 DEF IsMergeTo
    <3> HIDE DEF f
    <3> QED
      BY <2>3, <3>1, <3>2
  <2>5. CASE m # 0
    <3>1. m - 1 \in 0..n /\ m - 1 \notin Bad
      <4>1. m - 1 \in 0..n /\ m - 1 < m /\ m \in Nat
        BY <2>3, <2>5
      <4> HIDE DEF Bad
      <4> QED
        BY <2>1, <2>2, <4>1
    <3>2. PICK less : IsMergeTo(less, start, files, deleted, ranks, m - 1)
      BY <3>1
    <3> DEFINE f == [i \in 0..m |->
                       IF i = m THEN Step(less[m - 1], files, deleted, ranks) ELSE less[i]]
    <3>3. \A i \in 0..(m - 1) : i \in 0..m /\ i # m /\ f[i] = less[i]
      BY <2>3
    <3>4. f[m] = Step(less[m - 1], files, deleted, ranks) /\ m \in 0..m /\ m - 1 \in 0..(m - 1)
      BY <2>3, <2>5
    <3>5. f = [i \in 0..m |-> f[i]]
      OBVIOUS
    <3> HIDE DEF f
    <3>6. ASSUME NEW i \in 0..m
          PROVE  f[i] = IF i = 0 THEN start ELSE Step(f[i - 1], files, deleted, ranks)
      <4>1. CASE i = m
        BY <2>5, <3>3, <3>4, <4>1
      <4>2. CASE i # m
        <5>1. i \in 0..(m - 1) /\ (i # 0 => i - 1 \in 0..(m - 1))
          BY <2>3, <4>2
        <5> QED
          BY <3>2, <3>3, <5>1 DEF IsMergeTo
      <4> QED
        BY <4>1, <4>2
    <3>7. IsMergeTo(f, start, files, deleted, ranks, m)
      BY <3>6 DEF IsMergeTo
    <3> QED
      BY <2>3, <3>5, <3>7
  <2> QED
    BY <2>4, <2>5
<1>2. n \in 0..n /\ n \notin Bad
  <2> HIDE DEF Bad
  <2> QED
    BY <1>1
<1> QED
  BY <1>2

\* After as many steps as there are names, a merge is not refused.
LEMMA MergeEnds ==
  ASSUME NEW files, NEW deleted, NEW ranks, NEW nameOf, NEW n,
         Merging(files, deleted, ranks, nameOf, n), NEW f, NEW start,
         Merged(files, deleted, ranks, nameOf, n, start, 0),
         IsMergeTo(f, start, files, deleted, ranks, n)
  PROVE  Merged(files, deleted, ranks, nameOf, n, f[n], n)
<1> DEFINE Bad == {i \in 0..n : ~Merged(files, deleted, ranks, nameOf, n, f[i], i)}
<1>0. n \in Nat
  BY DEF Merging
<1>1. ASSUME Bad # {} PROVE FALSE
  <2>1. IsFiniteSet(Bad) /\ Bad \subseteq Nat
    <3>1. IsFiniteSet(0..n)
      BY <1>0, FS_Interval
    <3>2. Bad \in SUBSET (0..n) /\ Bad \subseteq Nat
      BY <1>0
    <3> HIDE DEF Bad
    <3> QED
      BY <3>1, <3>2, FS_Subset
  <2>2. PICK i \in Bad : \A l \in Bad : i <= l
    <3> HIDE DEF Bad
    <3> QED
      BY <1>1, <2>1, MinIsLeast
  <2>3. i \in 0..n /\ ~Merged(files, deleted, ranks, nameOf, n, f[i], i)
    OBVIOUS
  <2>4. i # 0
    BY <1>0, <2>3 DEF IsMergeTo
  <2>5. i - 1 \in 0..n /\ i - 1 \notin Bad /\ i - 1 \in 0..(n - 1) /\ (i - 1) + 1 = i
    <3>1. i - 1 \in 0..n /\ i - 1 < i /\ i \in Nat /\ i - 1 \in 0..(n - 1) /\ (i - 1) + 1 = i
      BY <1>0, <2>3, <2>4
    <3> HIDE DEF Bad
    <3> QED
      BY <2>1, <2>2, <3>1
  <2>6. Merged(files, deleted, ranks, nameOf, n, f[i - 1], i - 1)
    BY <2>5
  <2>7. f[i] = NextByName(f[i - 1], files, deleted, ranks)
    BY <2>3, <2>4, <2>6 DEF IsMergeTo, Step, Merged
  <2> HIDE DEF Bad
  <2>8. Merged(files, deleted, ranks, nameOf, n, NextByName(f[i - 1], files, deleted, ranks), (i - 1) + 1)
    BY <2>5, <2>6, MergeSteps
  <2> QED
    BY <2>3, <2>5, <2>7, <2>8
<1>2. n \in 0..n /\ n \notin Bad
  <2> HIDE DEF Bad
  <2> QED
    BY <1>0, <1>1
<1> QED
  BY <1>2

\* The names that shards have left of their documents: ids differ, names too.
Shards(files, deleted, naming, named) ==
  /\ IsNaming(named)
  /\ \A s \in DOMAIN files : IsNaming(naming[s]) /\ IsFileOf(files[s], naming[s])
  /\ \A s \in DOMAIN files : \A d \in DOMAIN naming[s] \ deleted[s] :
       d \in DOMAIN named /\ named[d] = naming[s][d]
  /\ \A d \in DOMAIN named : \E s \in DOMAIN files : d \in DOMAIN naming[s] \ deleted[s]
  /\ \A s \in DOMAIN files, t \in DOMAIN files :
       \A d \in (DOMAIN naming[s] \ deleted[s]) \cap (DOMAIN naming[t] \ deleted[t]) : s = t

IdsKept(files, deleted) == [item \in Kept(files, deleted) |-> IdAt(files[item[1]], item[2])]

\* What is kept, by id.
LEMMA KeptIs ==
  ASSUME NEW files, NEW deleted, NEW naming, NEW named, Shards(files, deleted, naming, named),
         NEW kept, kept = Kept(files, deleted), NEW idOf, idOf = IdsKept(files, deleted)
  PROVE      /\ \A item \in kept : /\ item[1] \in DOMAIN files /\ item[2] \in 1..files[item[1]].size
                                   /\ item = <<item[1], item[2]>>
                                   /\ idOf[item] \in DOMAIN naming[item[1]] \ deleted[item[1]]
                                   /\ files[item[1]].names[item[2]] = named[idOf[item]]
             /\ \A s \in DOMAIN files : \A r \in 1..files[s].size :
                  IdAt(files[s], r) \notin deleted[s] =>
                    <<s, r>> \in kept /\ idOf[<<s, r>>] = IdAt(files[s], r)
             /\ idOf \in [kept -> DOMAIN named] /\ IsKey(idOf, kept) /\ IsFiniteSet(kept)
             /\ \A d \in DOMAIN named : \E item \in kept : idOf[item] = d
<1>0. idOf = [item \in kept |-> IdAt(files[item[1]], item[2])]
  BY DEF IdsKept
<1>1. ASSUME NEW item \in kept
      PROVE  /\ item[1] \in DOMAIN files /\ item[2] \in 1..files[item[1]].size
             /\ item = <<item[1], item[2]>> /\ IdAt(files[item[1]], item[2]) \notin deleted[item[1]]
  BY DEF Kept
<1>2. ASSUME NEW s \in DOMAIN files, NEW r \in 1..files[s].size, IdAt(files[s], r) \notin deleted[s]
      PROVE  <<s, r>> \in kept
  BY <1>2 DEF Kept
<1>3. ASSUME NEW item \in kept
      PROVE  /\ idOf[item] \in DOMAIN naming[item[1]] \ deleted[item[1]]
             /\ idOf[item] \in DOMAIN named
             /\ files[item[1]].names[item[2]] = named[idOf[item]]
  <2> DEFINE s == item[1]
             r == item[2]
             d == IdAt(files[s], r)
  <2>1. s \in DOMAIN files /\ r \in 1..files[s].size /\ d \notin deleted[s] /\ idOf[item] = d
    BY <1>0, <1>1
  <2> HIDE DEF s, r, d
  <2>2. d \in DOMAIN naming[s] /\ files[s].names[r] = naming[s][d]
    BY <2>1 DEF Shards, IsFileOf, d
  <2>3. d \in DOMAIN named /\ named[d] = naming[s][d]
    BY <2>1, <2>2 DEF Shards
  <2> QED
    BY <2>1, <2>2, <2>3 DEF s, r
<1>4. ASSUME NEW item \in kept, NEW other \in kept, idOf[item] = idOf[other] PROVE item = other
  <2> DEFINE s == item[1]
             r == item[2]
             q == other[2]
  <2>1. s = other[1] /\ s \in DOMAIN files
    BY <1>1, <1>3, <1>4 DEF Shards
  <2>2. r \in 1..files[s].size /\ q \in 1..files[s].size /\ files[s].size \in Nat
    BY <1>1, <2>1 DEF Shards, IsFileOf
  <2>3. IdAt(files[s], r) = IdAt(files[s], q) /\ IdAt(files[s], r) \in Nat
    <3>1. IdAt(files[s], r) = IdAt(files[s], q)
      BY <1>0, <1>4, <2>1
    <3>2. IdAt(files[s], r) \in DOMAIN naming[s]
      BY <2>1, <2>2 DEF Shards, IsFileOf
    <3> QED
      BY <2>1, <3>1, <3>2 DEF Shards, IsNaming
  <2>4. r = q
    <3>1. \A k \in 1..files[s].size, l \in 1..files[s].size :
            k < l => IdAt(files[s], k) < IdAt(files[s], l)
      BY <2>1 DEF Shards, IsFileOf
    <3> HIDE DEF r, q, s
    <3> QED
      BY <2>2, <2>3, <3>1
  <2> QED
    BY <1>1, <2>1, <2>4
<1>5. idOf \in [kept -> DOMAIN named] /\ DOMAIN named \subseteq Nat /\ IsFiniteSet(DOMAIN named)
  BY <1>0, <1>3 DEF Shards, IsNaming
<1>6. \A s \in DOMAIN files : \A r \in 1..files[s].size :
        IdAt(files[s], r) \notin deleted[s] => <<s, r>> \in kept /\ idOf[<<s, r>>] = IdAt(files[s], r)
  BY <1>0, <1>2
<1>7. idOf \in Injection(kept, DOMAIN named) /\ IsInjective(idOf)
  BY <1>4, <1>5 DEF Injection, IsInjective
<1>8. IsFiniteSet(kept) /\ IsKey(idOf, kept)
  BY <1>5, <1>7, FS_Injection DEF IsKey
<1>9. ASSUME NEW d \in DOMAIN named PROVE \E item \in kept : idOf[item] = d
  <2>1. PICK s \in DOMAIN files : d \in DOMAIN naming[s] \ deleted[s]
    BY DEF Shards
  <2>2. PICK r \in 1..files[s].size : IdAt(files[s], r) = d
    BY <2>1 DEF Shards, IsFileOf
  <2> QED
    BY <1>6, <2>1, <2>2
<1> QED
  BY <1>1, <1>3, <1>5, <1>6, <1>8, <1>9

\* merge makes one file of the names left, without refusing any.
THEOREM MergeIs ==
  ASSUME NEW files, NEW deleted, NEW naming, NEW named, Shards(files, deleted, naming, named)
  PROVE  \E file : Merge(files, deleted) = {file} /\ IsFileOf(file, named)
<1> DEFINE kept == Kept(files, deleted)
           idOf == IdsKept(files, deleted)
           n == Cardinality(kept)
           items == Sorted(kept, idOf)
           ranks == [item \in kept |-> RankIn(kept, idOf, item)]
           ids == [i \in DOMAIN items |-> idOf[items[i]]]
           nameOf == [i \in DOMAIN items |-> files[items[i][1]].names[items[i][2]]]
           start == [refused |-> FALSE, previous |-> <<>>, byName |-> <<>>,
                     cursors |-> [s \in DOMAIN files |-> Advance(files[s], deleted[s], 1)]]
           Body(f) == [i \in 0..n |-> IF i = 0 THEN start
                                      ELSE IF f[i - 1].refused THEN f[i - 1]
                                      ELSE NextByName(f[i - 1], files, deleted, ranks)]
           merged == CHOOSE f : f = Body(f)
           end == merged[n]
<1>1. Merge(files, deleted) = IF ~IsInjective(idOf) \/ end.refused THEN {}
                              ELSE {File(ids, nameOf, end.byName)}
  BY DEF Merge, IdsKept
<1>2. /\ \A item \in kept : /\ item[1] \in DOMAIN files /\ item[2] \in 1..files[item[1]].size
                            /\ item = <<item[1], item[2]>>
                            /\ idOf[item] \in DOMAIN naming[item[1]] \ deleted[item[1]]
                            /\ files[item[1]].names[item[2]] = named[idOf[item]]
      /\ \A s \in DOMAIN files : \A r \in 1..files[s].size :
           IdAt(files[s], r) \notin deleted[s] =>
             <<s, r>> \in kept /\ idOf[<<s, r>>] = IdAt(files[s], r)
      /\ idOf \in [kept -> DOMAIN named] /\ IsKey(idOf, kept) /\ IsFiniteSet(kept)
      /\ \A d \in DOMAIN named : \E item \in kept : idOf[item] = d
  BY KeptIs
<1> HIDE DEF kept, idOf
<1>3. /\ n \in Nat /\ items \in [1..n -> kept]
      /\ \A x \in kept : RankIn(kept, idOf, x) \in 1..n /\ items[RankIn(kept, idOf, x)] = x
      /\ \A k \in 1..n : RankIn(kept, idOf, items[k]) = k
      /\ \A k \in 1..n, l \in 1..n : k < l => idOf[items[k]] < idOf[items[l]]
  <2> HIDE DEF n, items
  <2>1. n = Cardinality(kept) /\ items = Sorted(kept, idOf)
    BY DEF n, items
  <2>2. n \in Nat /\ items \in [1..n -> kept]
    BY <1>2, <2>1, SortedIs
  <2>3. \A x \in kept : RankIn(kept, idOf, x) \in 1..n /\ items[RankIn(kept, idOf, x)] = x
    BY <1>2, <2>1, SortedIs
  <2>4. \A k \in 1..n : RankIn(kept, idOf, items[k]) = k
    BY <1>2, <2>1, SortedIs
  <2>5. \A k \in 1..n, l \in 1..n : k < l => idOf[items[k]] < idOf[items[l]]
    BY <1>2, <2>1, SortedIs
  <2> QED
    BY <2>2, <2>3, <2>4, <2>5
<1>4. \A x \in kept : ranks[x] \in 1..n /\ items[ranks[x]] = x
  BY <1>3
<1>5. \A k \in 1..n : items[k] \in kept /\ ranks[items[k]] = k
  BY <1>3
<1> HIDE DEF items, ranks, n
<1>6. /\ ids \in [1..n -> DOMAIN named] /\ \A k \in 1..n : ids[k] = idOf[items[k]]
      /\ \A k \in 1..n, l \in 1..n : k < l => ids[k] < ids[l]
  BY <1>2, <1>3
<1>7. \A d \in DOMAIN named : \E k \in 1..n : ids[k] = d
  <2> SUFFICES ASSUME NEW d \in DOMAIN named PROVE \E k \in 1..n : ids[k] = d
    OBVIOUS
  <2>1. PICK item \in kept : idOf[item] = d
    BY <1>2
  <2>2. ids[ranks[item]] = d
    BY <1>4, <1>6, <2>1
  <2> QED
    BY <1>4, <2>1, <2>2
<1>8. /\ nameOf \in [1..n -> Range(NameOrder)]
      /\ \A k \in 1..n : nameOf[k] = named[ids[k]] /\ nameOf[k] = files[items[k][1]].names[items[k][2]]
  <2>1. ASSUME NEW k \in 1..n
        PROVE  /\ nameOf[k] = files[items[k][1]].names[items[k][2]] /\ nameOf[k] = named[ids[k]]
               /\ nameOf[k] \in Range(NameOrder)
    BY <1>2, <1>3, <1>6 DEF Shards, IsNaming
  <2>2. nameOf = [k \in 1..n |-> nameOf[k]]
    BY <1>3
  <2> HIDE DEF nameOf
  <2> QED
    BY <2>1, <2>2
<1> HIDE DEF ids, nameOf
<1>9. Merging(files, deleted, ranks, nameOf, n)
  <2>1. ASSUME NEW s \in DOMAIN files, NEW p \in 1..files[s].size
        PROVE  /\ files[s].byName[p] \in 1..files[s].size
               /\ NameIn(files, s, p) \in Range(NameOrder)
               /\ KeepsAt(files, deleted, s, p) =>
                    /\ ItemAt(files, s, p) \in kept
                    /\ idOf[ItemAt(files, s, p)] = IdAt(files[s], files[s].byName[p])
                    /\ ranks[ItemAt(files, s, p)] \in 1..n
                    /\ nameOf[ranks[ItemAt(files, s, p)]] = NameIn(files, s, p)
                    /\ named[idOf[ItemAt(files, s, p)]] = NameIn(files, s, p)
    <3> DEFINE r == files[s].byName[p]
    <3>1. r \in 1..files[s].size
      BY DEF Shards, IsFileOf
    <3>2. NameIn(files, s, p) \in Range(NameOrder)
      <4>1. IdAt(files[s], r) \in DOMAIN naming[s] /\ files[s].names[r] = naming[s][IdAt(files[s], r)]
        <5>1. IsFileOf(files[s], naming[s])
          BY DEF Shards
        <5> HIDE DEF r
        <5> QED
          BY <3>1, <5>1 DEF IsFileOf
      <4>2. naming[s][IdAt(files[s], r)] \in Range(NameOrder)
        BY <4>1 DEF Shards, IsNaming
      <4> QED
        BY <4>1, <4>2 DEF NameIn
    <3>3. ASSUME KeepsAt(files, deleted, s, p)
          PROVE  /\ ItemAt(files, s, p) \in kept
                 /\ idOf[ItemAt(files, s, p)] = IdAt(files[s], r)
                 /\ ranks[ItemAt(files, s, p)] \in 1..n
                 /\ nameOf[ranks[ItemAt(files, s, p)]] = NameIn(files, s, p)
                 /\ named[idOf[ItemAt(files, s, p)]] = NameIn(files, s, p)
      <4> DEFINE item == <<s, r>>
      <4>1. item \in kept /\ idOf[item] = IdAt(files[s], r)
        BY <1>2, <3>1, <3>3 DEF KeepsAt
      <4>2. item[1] = s /\ item[2] = r /\ ItemAt(files, s, p) = item
        BY DEF ItemAt
      <4> HIDE DEF item
      <4>3. ranks[item] \in 1..n /\ nameOf[ranks[item]] = files[s].names[r]
        BY <1>4, <1>8, <4>1, <4>2
      <4>4. named[idOf[item]] = files[s].names[r]
        BY <1>2, <4>1, <4>2
      <4> QED
        BY <4>1, <4>2, <4>3, <4>4 DEF NameIn
    <3> QED
      BY <3>1, <3>2, <3>3
  <2>2. ASSUME NEW s \in DOMAIN files
        PROVE  /\ files[s].size \in Nat
               /\ \A p \in 1..files[s].size, q \in 1..files[s].size :
                    p < q => Less(NameIn(files, s, p), NameIn(files, s, q))
    BY DEF Shards, IsFileOf, NameIn
  <2>3. ASSUME NEW s \in DOMAIN files, NEW t \in DOMAIN files,
               NEW p \in 1..files[s].size, NEW q \in 1..files[t].size,
               KeepsAt(files, deleted, s, p), KeepsAt(files, deleted, t, q),
               NameIn(files, s, p) = NameIn(files, t, q)
        PROVE  s = t
    <3> DEFINE x == ItemAt(files, s, p)
               y == ItemAt(files, t, q)
    <3>1. x \in kept /\ y \in kept /\ named[idOf[x]] = named[idOf[y]]
      BY <2>1, <2>3
    <3> HIDE DEF x, y
    <3>2. idOf[x] = idOf[y]
      BY <1>2, <3>1 DEF Shards, IsNaming, IsInjective
    <3>3. x = y
      BY <1>2, <3>1, <3>2 DEF IsKey, IsInjective
    <3> QED
      BY <3>3 DEF x, y, ItemAt
  <2>4. ASSUME NEW r \in 1..n
        PROVE  \E s \in DOMAIN files : \E p \in 1..files[s].size :
                 KeepsAt(files, deleted, s, p) /\ ranks[ItemAt(files, s, p)] = r
    <3> DEFINE item == items[r]
               s == item[1]
    <3>0. item \in kept /\ ranks[item] = r
      BY <1>5
    <3>1. /\ item \in kept /\ ranks[item] = r /\ s \in DOMAIN files /\ item[2] \in 1..files[s].size
          /\ item = <<s, item[2]>>
      <4> HIDE DEF item
      <4>1. /\ item[1] \in DOMAIN files /\ item[2] \in 1..files[item[1]].size
            /\ item = <<item[1], item[2]>>
        BY <1>2, <3>0
      <4> QED
        BY <3>0, <4>1
    <3>2. PICK p \in 1..files[s].size : files[s].byName[p] = item[2]
      <4>1. IsFileOf(files[s], naming[s])
        BY <3>1 DEF Shards
      <4>2. \A q \in 1..files[s].size : \E p \in 1..files[s].size : files[s].byName[p] = q
        BY <4>1 DEF IsFileOf
      <4> HIDE DEF item
      <4> QED
        BY <3>1, <4>2
    <3>3. IdAt(files[s], item[2]) \notin deleted[s]
      BY <1>2, <3>1 DEF idOf, IdsKept
    <3> QED
      BY <3>1, <3>2, <3>3 DEF KeepsAt, ItemAt
  <2>5. n \in Nat /\ nameOf \in [1..n -> Range(NameOrder)]
    BY <1>3, <1>8
  <2> QED
    BY <2>1, <2>2, <2>3, <2>4, <2>5 DEF Merging
<1>10. Merged(files, deleted, ranks, nameOf, n, start, 0)
  BY <1>9, MergeStarts
<1>11. merged = Body(merged)
  <2> HIDE DEF start
  <2>1. ASSUME NEW f PROVE f = Body(f) <=> /\ f = [i \in 0..n |-> f[i]]
                                           /\ IsMergeTo(f, start, files, deleted, ranks, n)
    BY DEF IsMergeTo, Step
  <2>2. PICK f : f = [i \in 0..n |-> f[i]] /\ IsMergeTo(f, start, files, deleted, ranks, n)
    BY <1>3, StepsExist
  <2> HIDE DEF Body
  <2> QED
    BY <2>1, <2>2
<1>12. IsMergeTo(merged, start, files, deleted, ranks, n)
  <2> HIDE DEF start, merged
  <2> QED
    BY <1>11 DEF IsMergeTo, Step
<1> HIDE DEF merged, start
<1>13. Merged(files, deleted, ranks, nameOf, n, end, n)
  BY <1>9, <1>10, <1>12, MergeEnds
<1> HIDE DEF end
<1> DEFINE by == end.byName
<1>14. /\ ~end.refused /\ by \in Seq(1..n) /\ Len(by) = n
       /\ \A k \in 1..n, l \in 1..n : k < l => Less(nameOf[by[k]], nameOf[by[l]])
  BY <1>13 DEF Merged
<1> HIDE DEF by
<1>15. by \in [1..n -> 1..n]
  <2>1. by \in [1..Len(by) -> 1..n]
    BY <1>14, LenProperties
  <2> QED
    BY <1>14, <2>1
<1>16. \A r \in 1..n : \E k \in 1..n : by[k] = r
  <2>1. ASSUME NEW k \in 1..n, NEW l \in 1..n, by[k] = by[l] PROVE k = l
    <3>1. ASSUME NEW q \in 1..n, NEW p \in 1..n, q < p PROVE by[q] # by[p]
      <4>1. Less(nameOf[by[q]], nameOf[by[p]]) /\ nameOf[by[q]] \in Range(NameOrder)
        BY <1>8, <1>14, <1>15, <3>1
      <4> QED
        BY <4>1, LessIs
    <3> QED
      BY <1>3, <2>1, <3>1
  <2>2. by \in Injection(1..n, 1..n)
    BY <1>15, <2>1 DEF Injection, IsInjective
  <2>3. IsFiniteSet(1..n)
    BY <1>3, FS_Interval
  <2> HIDE DEF n
  <2>4. by \in Surjection(1..n, 1..n)
    BY <2>2, <2>3, FS_Injection
  <2> QED
    BY <2>4 DEF Surjection
<1>17. IsFileOf(File(ids, nameOf, by), named)
  <2>1. IsNaming(named)
    BY DEF Shards
  <2>2. /\ n \in Nat /\ ids \in [1..n -> DOMAIN named] /\ nameOf \in [1..n -> Range(NameOrder)]
        /\ by \in [1..n -> 1..n]
    BY <1>3, <1>6, <1>8, <1>15
  <2>3. \A k \in 1..n : nameOf[k] = named[ids[k]]
    BY <1>8
  <2>4. \A k \in 1..n, l \in 1..n : k < l => ids[k] < ids[l]
    BY <1>6
  <2>5. \A k \in 1..n, l \in 1..n : k < l => Less(nameOf[by[k]], nameOf[by[l]])
    BY <1>14
  <2> HIDE DEF n, ids, nameOf
  <2> QED
    BY <2>1, <2>2, <2>3, <2>4, <2>5, <1>7, <1>16, FileIs
<1>18. Merge(files, deleted) = {File(ids, nameOf, by)}
  BY <1>1, <1>2, <1>14 DEF IsKey, by
<1> QED
  BY <1>17, <1>18

-----------------------------------------------------------------------------
(* Segments. *)

\* The names a segment has, of live documents and of masked ones.
NamesIn(segment) ==
  [d \in {d \in segment.docs : \E file \in segment.file : GetName(file, d) # {}} |->
     CHOOSE name \in UNION {GetName(file, d) : file \in segment.file} : TRUE]

IsSegment(segment) ==
  /\ segment = [docs |-> segment.docs, dead |-> segment.dead, file |-> segment.file]
  /\ segment.docs \subseteq Docs /\ segment.docs # {} /\ segment.dead \subseteq segment.docs
  /\ \/ segment.file = {}
     \/ \E file : segment.file = {file} /\ IsFileOf(file, NamesIn(segment))
  /\ IsNaming(NamesIn(segment))

\* No document is live in two segments.
Sound(segments) ==
  /\ segments = [p \in DOMAIN segments |-> segments[p]]
  /\ DOMAIN segments \subseteq Nat \ {0} /\ IsFiniteSet(DOMAIN segments)
  /\ \A p \in DOMAIN segments : IsSegment(segments[p])
  /\ \A p \in DOMAIN segments, q \in DOMAIN segments :
       \A d \in Docs : Live(segments[p], d) /\ Live(segments[q], d) => p = q

\* The name of a document in a segment.
InSegment(segment, d) == IF d \in DOMAIN NamesIn(segment) THEN NamesIn(segment)[d] ELSE NoName

LEMMA NoNameIsNone == NoName \notin Range(NameOrder) /\ Names \subseteq Range(NameOrder)
  BY NamesAssumption, NoNameAssumption

LEMMA DocsAre == Docs \subseteq Nat /\ IsFiniteSet(Docs) /\ \A d \in Docs : d <= MaxDoc
<1>1. IsFiniteSet(0..MaxDoc)
  BY MaxDocAssumption, FS_Interval
<1> QED
  BY <1>1, MaxDocAssumption DEF Docs

\* A segment with a file of some names has those names.
LEMMA SegmentIs ==
  ASSUME NEW docs \in SUBSET Docs, docs # {}, NEW dead \in SUBSET docs,
         NEW named, IsNaming(named), DOMAIN named \subseteq docs,
         named = [d \in DOMAIN named |-> named[d]],
         NEW file, IsFileOf(file, named),
         NEW segment, segment = [docs |-> docs, dead |-> dead, file |-> {file}]
  PROVE  IsSegment(segment) /\ NamesIn(segment) = named
<1>1. \A d \in docs : GetName(file, d) = {named[e] : e \in {d} \cap DOMAIN named}
  BY DocsAre, GetNameIs
<1>2. segment.docs = docs /\ segment.dead = dead /\ segment.file = {file}
  OBVIOUS
<1> DEFINE Having == {d \in docs : GetName(file, d) # {}}
           Name(d) == CHOOSE name \in UNION {GetName(f, d) : f \in {file}} : TRUE
<1>3. NamesIn(segment) = [d \in Having |-> Name(d)]
  BY <1>2 DEF NamesIn
<1>4. Having = DOMAIN named
  BY <1>1
<1>5. ASSUME NEW d \in DOMAIN named PROVE Name(d) = named[d]
  <2>1. GetName(file, d) = {named[d]}
    BY <1>1
  <2>2. UNION {GetName(f, d) : f \in {file}} = {named[d]}
    BY <2>1
  <2> QED
    BY <2>2
<1> HIDE DEF Having, Name
<1>6. NamesIn(segment) = named
  BY <1>3, <1>4, <1>5
<1> QED
  BY <1>2, <1>6 DEF IsSegment

\* One without a file has none.
LEMMA SegmentWithoutIs ==
  ASSUME NEW docs \in SUBSET Docs, docs # {}, NEW dead \in SUBSET docs,
         NEW segment, segment = [docs |-> docs, dead |-> dead, file |-> {}]
  PROVE  IsSegment(segment) /\ DOMAIN NamesIn(segment) = {}
<1>1. segment.docs = docs /\ segment.dead = dead /\ segment.file = {}
  OBVIOUS
<1>2. DOMAIN NamesIn(segment) = {}
  BY <1>1 DEF NamesIn
<1>3. IsNaming(NamesIn(segment))
  BY <1>2, FS_EmptySet DEF IsNaming, IsInjective
<1> QED
  BY <1>1, <1>2, <1>3 DEF IsSegment

\* What a segment has of a document, and of a name.
LEMMA LookUpIs ==
  ASSUME NEW segment, IsSegment(segment)
  PROVE  /\ DOMAIN NamesIn(segment) \subseteq segment.docs
         /\ \A d \in DOMAIN NamesIn(segment) : NamesIn(segment)[d] \in Range(NameOrder)
         /\ \A d \in segment.docs :
              UNION {GetName(file, d) : file \in segment.file} =
                {NamesIn(segment)[e] : e \in {d} \cap DOMAIN NamesIn(segment)}
         /\ \A name \in Range(NameOrder) :
              Found(segment, name) = {d \in DOMAIN NamesIn(segment) : NamesIn(segment)[d] = name}
<1>1. DOMAIN NamesIn(segment) \subseteq segment.docs
  BY DEF NamesIn
<1>2. \A d \in DOMAIN NamesIn(segment) : NamesIn(segment)[d] \in Range(NameOrder)
  BY DEF IsSegment, IsNaming
<1>3. CASE segment.file = {}
  <2>1. DOMAIN NamesIn(segment) = {}
    BY <1>3 DEF NamesIn
  <2> QED
    BY <1>3, <2>1 DEF Found
<1>4. ASSUME NEW file, segment.file = {file}, IsFileOf(file, NamesIn(segment))
      PROVE  /\ \A d \in segment.docs :
                  UNION {GetName(f, d) : f \in segment.file} =
                    {NamesIn(segment)[e] : e \in {d} \cap DOMAIN NamesIn(segment)}
             /\ \A name \in Range(NameOrder) :
                  Found(segment, name) =
                    {d \in DOMAIN NamesIn(segment) : NamesIn(segment)[d] = name}
  <2>1. IsNaming(NamesIn(segment)) /\ segment.docs \subseteq Nat
    BY DocsAre DEF IsSegment
  <2>2. ASSUME NEW d \in segment.docs
        PROVE  UNION {GetName(f, d) : f \in segment.file} =
                 {NamesIn(segment)[e] : e \in {d} \cap DOMAIN NamesIn(segment)}
    <3>1. UNION {GetName(f, d) : f \in segment.file} = GetName(file, d)
      BY <1>4
    <3> QED
      BY <1>4, <2>1, <3>1, GetNameIs
  <2>3. ASSUME NEW name \in Range(NameOrder)
        PROVE  Found(segment, name) =
                 {d \in DOMAIN NamesIn(segment) : NamesIn(segment)[d] = name}
    <3>1. Found(segment, name) = GetDocIdent(file, name)
      BY <1>4 DEF Found
    <3> QED
      BY <1>4, <2>1, <3>1, GetDocIdentIs
  <2> QED
    BY <2>2, <2>3
<1> QED
  BY <1>1, <1>2, <1>3, <1>4 DEF IsSegment

-----------------------------------------------------------------------------
(* The index: the name of each document. *)

LEMMA PublishedIs ==
  ASSUME NEW segments, Sound(segments)
  PROVE  /\ \A p \in DOMAIN segments, d \in Docs : Live(segments[p], d) =>
              /\ d \in Documents(segments) /\ PartOf(segments, d) = p
              /\ PublishedName(segments, d) = InSegment(segments[p], d)
         /\ \A d \in Documents(segments) :
              d \in Docs /\ \E p \in DOMAIN segments : Live(segments[p], d)
<1>1. ASSUME NEW p \in DOMAIN segments, NEW d \in Docs, Live(segments[p], d)
      PROVE  /\ d \in Documents(segments) /\ PartOf(segments, d) = p
             /\ PublishedName(segments, d) = InSegment(segments[p], d)
  <2>1. PartsOf(segments, d) = {p}
    BY <1>1 DEF PartsOf, Sound
  <2>2. IsFiniteSet({p}) /\ p \in Nat
    BY FS_Singleton DEF Sound
  <2>3. PartOf(segments, d) = p
    BY <2>1, <2>2, MinIsLeast DEF PartOf
  <2>4. NameOf(segments, d) = UNION {GetName(file, d) : file \in segments[p].file}
    BY <2>1, <2>3 DEF NameOf, IsLiveIn
  <2>5. NameOf(segments, d) = {NamesIn(segments[p])[e] : e \in {d} \cap DOMAIN NamesIn(segments[p])}
    <3>1. IsSegment(segments[p]) /\ d \in segments[p].docs
      BY <1>1 DEF Live, Sound
    <3> QED
      BY <2>4, <3>1, LookUpIs
  <2>6. PublishedName(segments, d) = InSegment(segments[p], d)
    <3>1. CASE d \in DOMAIN NamesIn(segments[p])
      <4>1. NameOf(segments, d) = {NamesIn(segments[p])[d]}
        BY <2>5, <3>1
      <4> QED
        BY <3>1, <4>1 DEF PublishedName, InSegment
    <3>2. CASE d \notin DOMAIN NamesIn(segments[p])
      <4>1. NameOf(segments, d) = {}
        BY <2>5, <3>2
      <4> QED
        BY <3>2, <4>1 DEF PublishedName, InSegment
    <3> QED
      BY <3>1, <3>2
  <2> QED
    BY <2>1, <2>3, <2>6 DEF Documents, IsLiveIn
<1>2. ASSUME NEW d \in Documents(segments)
      PROVE  d \in Docs /\ \E p \in DOMAIN segments : Live(segments[p], d)
  BY DEF Documents, IsLiveIn, PartsOf
<1> QED
  BY <1>1, <1>2

LEMMA InSegmentIs ==
  ASSUME NEW segment, IsSegment(segment), NEW d
  PROVE  /\ InSegment(segment, d) = NoName \/ InSegment(segment, d) \in Range(NameOrder)
         /\ InSegment(segment, d) # NoName =>
              d \in DOMAIN NamesIn(segment) /\ NamesIn(segment)[d] = InSegment(segment, d)
  BY LookUpIs DEF InSegment

\* A name that is published is one, of a document that is.
LEMMA NamesPublished ==
  ASSUME NEW segments, Sound(segments), NEW d, PublishedName(segments, d) # NoName
  PROVE  IsLiveIn(segments, d) /\ (d \in Docs => PublishedName(segments, d) \in Range(NameOrder))
<1>1. IsLiveIn(segments, d)
  BY DEF PublishedName, NameOf
<1>2. ASSUME d \in Docs PROVE PublishedName(segments, d) \in Range(NameOrder)
  <2>1. d \in Documents(segments)
    BY <1>1, <1>2 DEF Documents
  <2>2. PICK p \in DOMAIN segments : Live(segments[p], d)
    BY <2>1, PublishedIs
  <2>3. PublishedName(segments, d) = InSegment(segments[p], d) /\ IsSegment(segments[p])
    BY <1>2, <2>2, PublishedIs DEF Sound
  <2> QED
    BY <2>3, InSegmentIs
<1> QED
  BY <1>1, <1>2

\* getDocIdent finds the document of a name, whatever the segments that have that name.
LEMMA IdentOfIs ==
  ASSUME NEW segments, Sound(segments), Unique(Published(segments)), NEW name \in Range(NameOrder)
  PROVE  IdentOf(segments, name) = {d \in Documents(segments) : PublishedName(segments, d) = name}
<1> DEFINE Those == {d \in Documents(segments) : PublishedName(segments, d) = name}
           having == {p \in DOMAIN segments : \E d \in Found(segments[p], name) : Live(segments[p], d)}
<1>1. name # NoName
  BY NoNameIsNone
<1>2. \A d \in Those, e \in Those : d = e
  BY <1>1 DEF Unique, Published
<1>3. ASSUME NEW p \in DOMAIN segments
      PROVE  Found(segments[p], name) = {d \in DOMAIN NamesIn(segments[p]) : NamesIn(segments[p])[d] = name}
  BY LookUpIs DEF Sound
<1>4. ASSUME NEW p \in having
      PROVE  \E d \in Those : Found(segments[p], name) = {d}
  <2>1. PICK d \in Found(segments[p], name) : Live(segments[p], d)
    OBVIOUS
  <2>2. d \in DOMAIN NamesIn(segments[p]) /\ NamesIn(segments[p])[d] = name /\ IsSegment(segments[p])
    BY <1>3, <2>1 DEF Sound
  <2>3. d \in Docs
    BY <2>2, LookUpIs DEF IsSegment
  <2>4. d \in Those
    BY <2>1, <2>2, <2>3, PublishedIs DEF InSegment
  <2>5. Found(segments[p], name) = {d}
    BY <1>3, <2>1, <2>2 DEF IsSegment, IsNaming, IsInjective
  <2> QED
    BY <2>4, <2>5
<1>5. ASSUME NEW d \in Those PROVE having # {}
  <2>1. PICK p \in DOMAIN segments : Live(segments[p], d)
    BY PublishedIs
  <2>2. InSegment(segments[p], d) = name /\ IsSegment(segments[p])
    BY <2>1, PublishedIs DEF Sound
  <2>3. d \in Found(segments[p], name)
    BY <1>1, <1>3, <2>2, InSegmentIs
  <2> QED
    BY <2>1, <2>3
<1>6. CASE having = {}
  BY <1>5, <1>6 DEF IdentOf
<1>7. CASE having # {}
  <2>1. having \in SUBSET DOMAIN segments /\ having \in SUBSET Nat /\ IsFiniteSet(DOMAIN segments)
    BY DEF Sound
  <2>2. IdentOf(segments, name) = Found(segments[Min(having)], name)
    BY <1>7 DEF IdentOf
  <2> HIDE DEF having, Those
  <2>3. IsFiniteSet(having)
    BY <2>1, FS_Subset
  <2>4. Min(having) \in having
    BY <1>7, <2>1, <2>3, MinIsLeast
  <2>5. PICK d \in Those : IdentOf(segments, name) = {d}
    BY <1>4, <2>2, <2>4
  <2>6. Those = {d}
    BY <1>2, <2>5
  <2> QED
    BY <2>5, <2>6 DEF Those
<1> QED
  BY <1>6, <1>7

\* Masking takes documents away, and leaves the others their names.
LEMMA MaskedIs ==
  ASSUME NEW segments, Sound(segments), NEW changed \in SUBSET Docs,
         NEW masked, masked = Masked(segments, changed)
  PROVE  /\ Sound(masked)
         /\ Documents(masked) = Documents(segments) \ changed
         /\ \A d \in Documents(masked) : PublishedName(masked, d) = PublishedName(segments, d)
<1>1. DOMAIN masked = DOMAIN segments /\ masked = [p \in DOMAIN masked |-> masked[p]]
  BY DEF Masked
<1>2. ASSUME NEW p \in DOMAIN segments
      PROVE  /\ IsSegment(masked[p]) /\ NamesIn(masked[p]) = NamesIn(segments[p])
             /\ \A d \in Docs : Live(masked[p], d) <=> Live(segments[p], d) /\ d \notin changed
  <2> DEFINE gone == {d \in changed : IsLiveIn(segments, d) /\ PartOf(segments, d) = p}
             old == segments[p]
             new == masked[p]
  <2>1. new = [docs |-> old.docs, dead |-> old.dead \cup gone, file |-> old.file]
    BY DEF Masked
  <2>2. gone \subseteq old.docs
    <3> SUFFICES ASSUME NEW d \in gone PROVE d \in old.docs
      OBVIOUS
    <3>1. d \in Documents(segments) /\ PartOf(segments, d) = p
      BY DEF Documents
    <3>2. PICK q \in DOMAIN segments : Live(segments[q], d)
      BY <3>1, PublishedIs
    <3>3. p = q
      BY <3>1, <3>2, PublishedIs
    <3> QED
      BY <3>2, <3>3 DEF Live
  <2>3. \A d \in Docs : Live(old, d) => (d \in gone <=> d \in changed)
    BY PublishedIs DEF Documents
  <2>4. IsSegment(old)
    BY DEF Sound
  <2> HIDE DEF gone, old, new
  <2>5. new.docs = old.docs /\ new.dead = old.dead \cup gone /\ new.file = old.file
    BY <2>1
  <2>6. NamesIn(new) = NamesIn(old)
    BY <2>5 DEF NamesIn
  <2>7. IsSegment(new)
    BY <2>1, <2>2, <2>4, <2>5, <2>6 DEF IsSegment
  <2>8. \A d \in Docs : Live(new, d) <=> Live(old, d) /\ d \notin changed
    BY <2>3, <2>5 DEF Live
  <2> QED
    BY <2>6, <2>7, <2>8 DEF old, new
<1>3. Sound(masked)
  BY <1>1, <1>2 DEF Sound
<1>4. ASSUME NEW d \in Docs
      PROVE  d \in Documents(masked) <=> d \in Documents(segments) /\ d \notin changed
  BY <1>1, <1>2, <1>3, PublishedIs
<1>5. ASSUME NEW d \in Documents(masked)
      PROVE  PublishedName(masked, d) = PublishedName(segments, d)
  <2>1. PICK p \in DOMAIN masked : Live(masked[p], d) /\ d \in Docs
    BY <1>3, PublishedIs
  <2>2. Live(segments[p], d) /\ InSegment(masked[p], d) = InSegment(segments[p], d)
    BY <1>1, <1>2, <2>1 DEF InSegment
  <2> QED
    BY <1>1, <1>3, <2>1, <2>2, PublishedIs
<1> QED
  BY <1>3, <1>4, <1>5 DEF Documents

\* The ids given next are above those of every document published.
LEMMA LimitIs ==
  ASSUME NEW segments, Sound(segments)
  PROVE  Limit(segments) \in 0..(MaxDoc + 1) /\ \A d \in Documents(segments) : d < Limit(segments)
<1> DEFINE all == AllDocs(segments)
<1>1. all \in SUBSET Docs
  BY DEF AllDocs, Sound, IsSegment
<1>2. \A d \in Documents(segments) : d \in all
  BY PublishedIs DEF AllDocs, Live
<1>3. Limit(segments) = IF all = {} THEN 0 ELSE Max(all) + 1
  BY DEF Limit
<1> HIDE DEF all
<1>4. CASE all = {}
  BY <1>2, <1>3, <1>4, MaxDocAssumption
<1>5. CASE all # {}
  <2>1. IsFiniteSet(all) /\ all \in SUBSET Nat
    BY <1>1, DocsAre, FS_Subset
  <2>2. Max(all) \in all /\ \A d \in all : Max(all) >= d
    BY <1>5, <2>1, MaxIsLargest
  <2>3. Max(all) \in Nat /\ Max(all) <= MaxDoc
    BY <1>1, <2>2, DocsAre
  <2>4. \A d \in all : d < Max(all) + 1
    BY <2>1, <2>2, <2>3
  <2> QED
    BY <1>2, <1>3, <1>5, <2>3, <2>4, MaxDocAssumption
<1> QED
  BY <1>4, <1>5

\* The names that documents may be given at once.
Namable(named) ==
  /\ DOMAIN named \subseteq Docs
  /\ \A d \in DOMAIN named : named[d] = NoName \/ named[d] \in Range(NameOrder)

GivenIn(named) == [d \in {d \in DOMAIN named : named[d] # NoName} |-> named[d]]

\* One file of the names given, when they differ.
LEMMA NamesOfIs ==
  ASSUME NEW named, Namable(named), Unique(named), DOMAIN GivenIn(named) # {}
  PROVE  /\ IsNaming(GivenIn(named))
         /\ \E file : NamesOf(named) = {{file}} /\ IsFileOf(file, GivenIn(named))
<1> DEFINE given == GivenIn(named)
<1>1. given = Restrict(named, {d \in DOMAIN named : named[d] # NoName})
  BY DEF GivenIn, Restrict
<1>2. IsNaming(given)
  <2>1. DOMAIN given \in SUBSET Docs /\ \A d \in DOMAIN given : given[d] = named[d] /\ given[d] # NoName
    BY DEF GivenIn, Namable
  <2>2. IsFiniteSet(DOMAIN given)
    BY <2>1, DocsAre, FS_Subset
  <2>3. IsInjective(given)
    BY <2>1 DEF IsInjective, Unique, GivenIn
  <2>4. \A d \in DOMAIN given : given[d] \in Range(NameOrder)
    BY <2>1 DEF Namable, GivenIn
  <2> QED
    BY <2>1, <2>2, <2>3, <2>4, DocsAre DEF IsNaming
<1>3. PICK file : Written(given) = {file} /\ IsFileOf(file, given)
  BY <1>2, WrittenIs
<1>4. NamesOf(named) = {{written} : written \in Written(given)}
  <2> HIDE DEF given
  <2> QED
    BY <1>1 DEF NamesOf, given
<1>5. NamesOf(named) = {{file}}
  BY <1>3, <1>4
<1> QED
  BY <1>2, <1>3, <1>5

\* What write does not refuse has different names.
LEMMA WrittenDiffer ==
  ASSUME NEW named, DOMAIN named \subseteq Docs, Written(named) # {}
  PROVE  IsInjective(named)
<1> DEFINE S == DOMAIN named
           idKey == [d \in S |-> d]
           ids == Sorted(S, idKey)
           listed == [r \in DOMAIN ids |-> named[ids[r]]]
<1>1. IsInjective(listed)
  BY DEF Written
<1>2. IsFiniteSet(S) /\ IsKey(idKey, S)
  BY DocsAre, FS_Subset DEF IsKey, IsInjective
<1> HIDE DEF idKey
<1>3. ids \in [1..Cardinality(S) -> S] /\ \A d \in S : \E k \in 1..Cardinality(S) : ids[k] = d
  BY <1>2, SortedIs
<1> HIDE DEF ids
<1>4. ASSUME NEW d \in S, NEW e \in S, named[d] = named[e] PROVE d = e
  <2>1. PICK k \in DOMAIN ids : ids[k] = d
    BY <1>3
  <2>2. PICK l \in DOMAIN ids : ids[l] = e
    BY <1>3
  <2>3. listed[k] = listed[l] /\ k \in DOMAIN listed /\ l \in DOMAIN listed
    BY <1>4, <2>1, <2>2
  <2> HIDE DEF listed
  <2>4. k = l
    BY <1>1, <2>3 DEF IsInjective
  <2> QED
    BY <2>1, <2>2, <2>4
<1> QED
  BY <1>4 DEF IsInjective

\* A new segment adds its documents and their names.
LEMMA WithNewIs ==
  ASSUME NEW segments, Sound(segments), NEW named, Namable(named), Unique(named),
         DOMAIN named \cap Documents(segments) = {}
  PROVE  \E new :
           /\ WithNew(segments, named) = {new} /\ Sound(new)
           /\ Documents(new) = Documents(segments) \cup DOMAIN named
           /\ \A d \in Documents(new) :
                PublishedName(new, d) = IF d \in DOMAIN named THEN named[d]
                                        ELSE PublishedName(segments, d)
<1>1. CASE DOMAIN named = {}
  <2>1. WithNew(segments, named) = {segments}
    BY <1>1 DEF WithNew
  <2> QED
    BY <1>1, <2>1
<1>2. CASE DOMAIN named # {}
  <2> DEFINE last == IF DOMAIN segments = {} THEN 1 ELSE Max(DOMAIN segments) + 1
             Segment(file) == [docs |-> DOMAIN named, dead |-> {}, file |-> file]
  <2>1. last \in Nat \ {0} /\ last \notin DOMAIN segments
    <3>1. CASE DOMAIN segments = {}
      BY <3>1
    <3>2. CASE DOMAIN segments # {}
      <4>1. Max(DOMAIN segments) \in DOMAIN segments
              /\ \A p \in DOMAIN segments : Max(DOMAIN segments) >= p
        BY <3>2, MaxIsLargest DEF Sound
      <4>2. Max(DOMAIN segments) \in Nat /\ DOMAIN segments \subseteq Nat
        BY <4>1 DEF Sound
      <4>3. Max(DOMAIN segments) + 1 \notin DOMAIN segments
        BY <4>1, <4>2
      <4> QED
        BY <3>2, <4>2, <4>3
    <3> QED
      BY <3>1, <3>2
  <2>2. WithNew(segments, named) = {Put(segments, last, Segment(file)) : file \in NamesOf(named)}
    BY <1>2 DEF WithNew
  <2> HIDE DEF last
  <2>3. \E file : /\ NamesOf(named) = {file} /\ IsSegment(Segment(file))
                  /\ \A d \in DOMAIN named : InSegment(Segment(file), d) = named[d]
    <3>1. DOMAIN named \in SUBSET Docs /\ {} \in SUBSET DOMAIN named
      BY DEF Namable
    <3>2. CASE DOMAIN GivenIn(named) = {}
      <4>1. NamesOf(named) = {{}}
        BY <3>2 DEF NamesOf, Restrict, GivenIn
      <4>2. IsSegment(Segment({})) /\ DOMAIN NamesIn(Segment({})) = {}
        BY <1>2, <3>1, SegmentWithoutIs
      <4>3. \A d \in DOMAIN named : named[d] = NoName
        BY <3>2 DEF GivenIn
      <4> QED
        BY <4>1, <4>2, <4>3 DEF InSegment
    <3>3. CASE DOMAIN GivenIn(named) # {}
      <4>1. PICK f : NamesOf(named) = {{f}} /\ IsFileOf(f, GivenIn(named))
        BY <3>3, NamesOfIs
      <4> DEFINE given == GivenIn(named)
      <4>2. given = [d \in DOMAIN given |-> given[d]] /\ DOMAIN given \subseteq DOMAIN named
        BY DEF GivenIn
      <4>3. \A d \in DOMAIN named : IF d \in DOMAIN given THEN given[d] = named[d] ELSE named[d] = NoName
        BY DEF GivenIn
      <4>4. IsNaming(given)
        BY <3>3, NamesOfIs
      <4> HIDE DEF given
      <4>5. IsFileOf(f, given)
        BY <4>1 DEF given
      <4>6. IsSegment(Segment({f})) /\ NamesIn(Segment({f})) = given
        BY <1>2, <3>1, <4>2, <4>4, <4>5, SegmentIs
      <4> HIDE DEF Segment
      <4> QED
        BY <4>1, <4>3, <4>6 DEF InSegment
    <3> QED
      BY <3>2, <3>3
  <2>4. PICK file : /\ NamesOf(named) = {file} /\ IsSegment(Segment(file))
                    /\ \A d \in DOMAIN named : InSegment(Segment(file), d) = named[d]
    BY <2>3
  <2> DEFINE new == Put(segments, last, Segment(file))
  <2>5. WithNew(segments, named) = {new}
    BY <2>2, <2>4
  <2>6. /\ DOMAIN new = DOMAIN segments \cup {last} /\ new[last] = Segment(file)
        /\ \A p \in DOMAIN segments : new[p] = segments[p]
        /\ new = [p \in DOMAIN new |-> new[p]]
    BY <2>1 DEF Put
  <2> HIDE DEF new
  <2>7. \A d \in Docs : Live(new[last], d) <=> d \in DOMAIN named
    BY <2>6 DEF Live
  <2>8. \A p \in DOMAIN segments, d \in Docs : Live(segments[p], d) => d \notin DOMAIN named
    BY PublishedIs
  <2> HIDE DEF Segment
  <2>9. Sound(new)
    <3>1. DOMAIN new \subseteq Nat \ {0}
      BY <2>1, <2>6 DEF Sound
    <3>2. IsFiniteSet(DOMAIN new)
      BY <2>6, FS_AddElement DEF Sound
    <3>3. \A p \in DOMAIN new : IsSegment(new[p])
      BY <2>4, <2>6 DEF Sound
    <3>4. ASSUME NEW p \in DOMAIN new, NEW q \in DOMAIN new, NEW d \in Docs,
                 Live(new[p], d), Live(new[q], d)
          PROVE  p = q
      BY <3>4, <2>6, <2>7, <2>8 DEF Sound
    <3> QED
      BY <2>6, <3>1, <3>2, <3>3, <3>4 DEF Sound
  <2>10. ASSUME NEW d \in Docs
         PROVE  d \in Documents(new) <=> d \in Documents(segments) \/ d \in DOMAIN named
    BY <2>1, <2>6, <2>7, <2>9, PublishedIs
  <2>11. Documents(new) = Documents(segments) \cup DOMAIN named
    BY <2>10 DEF Documents, Namable
  <2>12. ASSUME NEW d \in Documents(new)
         PROVE  PublishedName(new, d) = IF d \in DOMAIN named THEN named[d]
                                        ELSE PublishedName(segments, d)
    <3>1. PICK p \in DOMAIN new : Live(new[p], d) /\ d \in Docs
      BY <2>9, PublishedIs
    <3>2. PublishedName(new, d) = InSegment(new[p], d)
      BY <2>9, <3>1, PublishedIs
    <3>3. CASE p = last
      BY <2>4, <2>6, <2>7, <3>1, <3>2, <3>3
    <3>4. CASE p # last
      <4>1. p \in DOMAIN segments /\ Live(segments[p], d) /\ new[p] = segments[p]
        BY <2>6, <3>1, <3>4
      <4>2. PublishedName(segments, d) = InSegment(segments[p], d) /\ d \notin DOMAIN named
        BY <2>8, <3>1, <4>1, PublishedIs
      <4> QED
        BY <3>2, <4>1, <4>2
    <3> QED
      BY <3>3, <3>4
  <2> QED
    BY <2>5, <2>9, <2>11, <2>12
<1> QED
  BY <1>1, <1>2

\* A merge keeps every document and its name, whichever segments it merges: it is
\* never refused for a name.
LEMMA MergedIs ==
  ASSUME NEW segments, Sound(segments), Unique(Published(segments)),
         NEW chosen \in SUBSET DOMAIN segments
  PROVE  \E new :
           /\ MergedSegments(segments, chosen) = {new} /\ Sound(new)
           /\ Documents(new) = Documents(segments)
           /\ \A d \in Documents(new) : PublishedName(new, d) = PublishedName(segments, d)
<1> DEFINE docs == UNION {segments[p].docs \ segments[p].dead : p \in chosen}
           kept == Restrict(segments, DOMAIN segments \ chosen)
           having == {p \in chosen : segments[p].file # {}}
           files == [p \in having |-> CHOOSE file \in segments[p].file : TRUE]
           deleted == [p \in having |-> segments[p].dead]
           naming == [p \in having |-> NamesIn(segments[p])]
           named == [d \in {d \in docs : PublishedName(segments, d) # NoName} |->
                       PublishedName(segments, d)]
           merged == IF having = {} THEN {{}}
                     ELSE {{written} : written \in Merge(files, deleted)}
           Segment(file) == [docs |-> docs, dead |-> {}, file |-> file]
<1>1. MergedSegments(segments, chosen) =
        IF docs = {} THEN {kept} ELSE {Put(kept, Min(chosen), Segment(file)) : file \in merged}
  BY DEF MergedSegments, Deletes
<1>2. /\ DOMAIN kept = DOMAIN segments \ chosen /\ \A p \in DOMAIN kept : kept[p] = segments[p]
      /\ kept = [p \in DOMAIN kept |-> kept[p]]
  BY DEF Restrict
<1>3. /\ docs \in SUBSET Docs
      /\ \A d \in docs : \E p \in chosen : Live(segments[p], d)
      /\ \A p \in chosen, d \in Docs : Live(segments[p], d) => d \in docs
  <2>1. \A p \in chosen : segments[p].docs \subseteq Docs
    BY DEF Sound, IsSegment
  <2> QED
    BY <2>1 DEF Live
<1>4. \A p \in DOMAIN kept, d \in Docs : Live(kept[p], d) => d \notin docs
  <2> HIDE DEF kept, docs
  <2> QED
    BY <1>2, <1>3 DEF Sound
<1>5. Sound(kept)
  <2>1. IsFiniteSet(DOMAIN kept)
    BY <1>2, FS_Subset DEF Sound
  <2> HIDE DEF kept
  <2> QED
    BY <1>2, <2>1 DEF Sound
<1> HIDE DEF kept, docs
<1>6. CASE docs = {}
  <2>1. ASSUME NEW d \in Docs PROVE d \in Documents(kept) <=> d \in Documents(segments)
    BY <1>2, <1>3, <1>5, <1>6, PublishedIs
  <2>2. ASSUME NEW d \in Documents(kept)
        PROVE  PublishedName(kept, d) = PublishedName(segments, d)
    <3>1. PICK p \in DOMAIN kept : Live(kept[p], d) /\ d \in Docs
      BY <1>5, PublishedIs
    <3> QED
      BY <1>2, <1>5, <3>1, PublishedIs
  <2> QED
    BY <1>1, <1>5, <1>6, <2>1, <2>2 DEF Documents
<1>7. CASE docs # {}
  <2>1. ASSUME NEW p \in chosen
        PROVE  /\ IsSegment(segments[p])
               /\ \A d \in Docs : Live(segments[p], d) => PublishedName(segments, d) = InSegment(segments[p], d)
    BY PublishedIs DEF Sound
  <2>2. \E file : /\ merged = {file} /\ IsSegment(Segment(file))
                  /\ \A d \in docs : InSegment(Segment(file), d) = PublishedName(segments, d)
    <3>1. CASE having = {}
      <4>1. merged = {{}}
        BY <3>1
      <4>2. IsSegment(Segment({})) /\ DOMAIN NamesIn(Segment({})) = {}
        BY <1>3, <1>7, SegmentWithoutIs
      <4>3. ASSUME NEW d \in docs PROVE PublishedName(segments, d) = NoName
        <5>1. PICK p \in chosen : Live(segments[p], d)
          BY <1>3
        <5>2. segments[p].file = {} /\ PublishedName(segments, d) = InSegment(segments[p], d)
          BY <1>3, <2>1, <3>1, <5>1
        <5> QED
          BY <5>2 DEF InSegment, NamesIn
      <4> QED
        BY <4>1, <4>2, <4>3 DEF InSegment
    <3>2. CASE having # {}
      <4>1. ASSUME NEW p \in having
            PROVE  /\ IsFileOf(files[p], naming[p]) /\ IsNaming(naming[p])
                   /\ deleted[p] = segments[p].dead /\ naming[p] = NamesIn(segments[p])
                   /\ DOMAIN naming[p] \subseteq segments[p].docs /\ p \in chosen
                   /\ segments[p].docs \subseteq Docs
        <5>1. PICK file : segments[p].file = {file} /\ IsFileOf(file, NamesIn(segments[p]))
          BY <2>1 DEF IsSegment
        <5>2. files[p] = file
          BY <5>1
        <5>3. deleted[p] = segments[p].dead /\ naming[p] = NamesIn(segments[p])
          OBVIOUS
        <5>4. IsSegment(segments[p])
          BY <2>1
        <5> HIDE DEF files, deleted, naming
        <5> QED
          BY <5>1, <5>2, <5>3, <5>4, LookUpIs DEF IsSegment
      <4>2. DOMAIN files = having
        OBVIOUS
      <4>3. /\ \A d \in DOMAIN named : /\ named[d] = PublishedName(segments, d) /\ d \in docs
                                       /\ named[d] # NoName
            /\ \A d \in docs : PublishedName(segments, d) # NoName => d \in DOMAIN named
            /\ named = [d \in DOMAIN named |-> named[d]]
        OBVIOUS
      <4>4. ASSUME NEW d \in docs
            PROVE  \E p \in chosen : Live(segments[p], d) /\ PublishedName(segments, d) = InSegment(segments[p], d)
        BY <1>3, <2>1
      <4> HIDE DEF files, deleted, naming, named
      <4>5. IsNaming(named)
        <5>1. DOMAIN named \in SUBSET Docs
          BY <1>3, <4>3
        <5>2. IsFiniteSet(DOMAIN named)
          BY <5>1, DocsAre, FS_Subset
        <5>3. \A d \in DOMAIN named : named[d] \in Range(NameOrder)
          BY <4>3, <5>1, NamesPublished
        <5>4. \A d \in DOMAIN named : d \in Documents(segments)
          BY <1>3, <4>3, PublishedIs
        <5>5. IsInjective(named)
          BY <4>3, <5>4 DEF IsInjective, Unique, Published
        <5> QED
          BY <5>1, <5>2, <5>3, <5>5, DocsAre DEF IsNaming
      <4>6. ASSUME NEW s \in having, NEW d \in DOMAIN naming[s] \ deleted[s]
            PROVE  d \in DOMAIN named /\ named[d] = naming[s][d] /\ Live(segments[s], d) /\ d \in Docs
        <5>1. Live(segments[s], d) /\ d \in Docs /\ d \in docs
          BY <1>3, <4>1 DEF Live
        <5>2. PublishedName(segments, d) = naming[s][d]
          BY <2>1, <4>1, <5>1 DEF InSegment
        <5>3. naming[s][d] # NoName
          BY <4>1, NoNameIsNone DEF IsNaming
        <5> QED
          BY <4>3, <5>1, <5>2, <5>3
      <4>7. ASSUME NEW d \in DOMAIN named
            PROVE  \E s \in having : d \in DOMAIN naming[s] \ deleted[s]
        <5>1. PICK p \in chosen : Live(segments[p], d) /\ named[d] = InSegment(segments[p], d)
          BY <4>3, <4>4
        <5>2. d \in DOMAIN NamesIn(segments[p])
          BY <4>3, <5>1 DEF InSegment
        <5>3. p \in having
          BY <5>2 DEF NamesIn
        <5> QED
          BY <4>1, <5>1, <5>2, <5>3 DEF Live
      <4>8. \A s \in having, t \in having :
              \A d \in (DOMAIN naming[s] \ deleted[s]) \cap (DOMAIN naming[t] \ deleted[t]) : s = t
        BY <4>1, <4>6 DEF Sound
      <4> HIDE DEF having
      <4>9. Shards(files, deleted, naming, named)
        BY <4>1, <4>2, <4>5, <4>6, <4>7, <4>8 DEF Shards
      <4>10. PICK f : Merge(files, deleted) = {f} /\ IsFileOf(f, named)
        BY <4>9, MergeIs
      <4>11. merged = {{f}}
        BY <3>2, <4>10
      <4>12. IsSegment(Segment({f})) /\ NamesIn(Segment({f})) = named
        <5>1. DOMAIN named \subseteq docs /\ {} \in SUBSET docs
          BY <4>3
        <5> QED
          BY <1>3, <1>7, <4>3, <4>5, <4>10, <5>1, SegmentIs
      <4> HIDE DEF Segment, merged
      <4> QED
        BY <4>3, <4>11, <4>12 DEF InSegment
    <3> QED
      BY <3>1, <3>2
  <2>3. PICK file : /\ merged = {file} /\ IsSegment(Segment(file))
                    /\ \A d \in docs : InSegment(Segment(file), d) = PublishedName(segments, d)
    BY <2>2
  <2> HIDE DEF merged
  <2> DEFINE place == Min(chosen)
             new == Put(kept, place, Segment(file))
  <2>4. place \in chosen /\ place \in DOMAIN segments /\ place \notin DOMAIN kept
    <3>1. chosen # {} /\ chosen \in SUBSET Nat /\ IsFiniteSet(chosen)
      BY <1>3, <1>7, FS_Subset DEF Sound
    <3>2. place \in chosen
      BY <3>1, MinIsLeast
    <3> QED
      BY <1>2, <3>2
  <2>5. MergedSegments(segments, chosen) = {new}
    BY <1>1, <1>7, <2>3
  <2>6. /\ DOMAIN new = DOMAIN kept \cup {place} /\ new[place] = Segment(file)
        /\ \A p \in DOMAIN kept : new[p] = kept[p]
        /\ new = [p \in DOMAIN new |-> new[p]]
    BY <2>4 DEF Put
  <2> HIDE DEF new, place
  <2>7. \A d \in Docs : Live(new[place], d) <=> d \in docs
    BY <2>6 DEF Live
  <2> HIDE DEF Segment
  <2>8. Sound(new)
    <3>1. DOMAIN new \subseteq Nat \ {0}
      BY <1>2, <2>4, <2>6 DEF Sound
    <3>2. IsFiniteSet(DOMAIN new)
      BY <1>5, <2>6, FS_AddElement DEF Sound
    <3>3. \A p \in DOMAIN new : IsSegment(new[p])
      BY <1>5, <2>3, <2>6 DEF Sound
    <3>4. ASSUME NEW p \in DOMAIN new, NEW q \in DOMAIN new, NEW d \in Docs,
                 Live(new[p], d), Live(new[q], d)
          PROVE  p = q
      BY <1>4, <1>5, <3>4, <2>6, <2>7 DEF Sound
    <3> QED
      BY <2>6, <3>1, <3>2, <3>3, <3>4 DEF Sound
  <2>9. ASSUME NEW d \in Docs PROVE d \in Documents(new) <=> d \in Documents(segments)
    <3>1. d \in Documents(new) <=> d \in docs \/ \E p \in DOMAIN kept : Live(kept[p], d)
      BY <2>6, <2>7, <2>8, PublishedIs
    <3>2. d \in Documents(segments) <=> d \in docs \/ \E p \in DOMAIN kept : Live(kept[p], d)
      BY <1>2, <1>3, PublishedIs
    <3> QED
      BY <3>1, <3>2
  <2>10. ASSUME NEW d \in Documents(new)
         PROVE  PublishedName(new, d) = PublishedName(segments, d)
    <3>1. PICK p \in DOMAIN new : Live(new[p], d) /\ d \in Docs
      BY <2>8, PublishedIs
    <3>2. PublishedName(new, d) = InSegment(new[p], d)
      BY <2>8, <3>1, PublishedIs
    <3>3. CASE p = place
      BY <2>3, <2>6, <2>7, <3>1, <3>2, <3>3
    <3>4. CASE p # place
      <4>1. p \in DOMAIN segments /\ Live(segments[p], d) /\ new[p] = segments[p]
        BY <1>2, <2>6, <3>1, <3>4
      <4> QED
        BY <3>1, <3>2, <4>1, PublishedIs
    <3> QED
      BY <3>3, <3>4
  <2> QED
    BY <2>5, <2>8, <2>9, <2>10 DEF Documents
<1> QED
  BY <1>6, <1>7

-----------------------------------------------------------------------------
(* The maps of an update. *)

\* The variables of an update stay in their domains.
MapsOK ==
  /\ editing \in BOOLEAN
  /\ limit \in 0..(MaxDoc + 1) /\ next \in 0..(MaxDoc + 1)
  /\ DOMAIN pending \subseteq Docs
  /\ \A d \in DOMAIN pending : pending[d] \in Contents \cup {"removed"}
  /\ DOMAIN names \subseteq Docs
  /\ \A d \in DOMAIN names : names[d] \in Names \cup {NoName}
  /\ DOMAIN idsByName \subseteq Names
  /\ \A name \in DOMAIN idsByName : idsByName[name] \in Docs

\* What the maps of an update say of each other and of the index: _names and
\* _ids_by_name are inverse (but for None), a document with a name is in the batch,
\* one that is not in the batch any more is not in the index, and the document that
\* had a name in the index before another one got it has been given a name since.
EditInv ==
  /\ limit = Limit(index)
  /\ \A name \in DOMAIN idsByName :
       idsByName[name] \in DOMAIN names /\ names[idsByName[name]] = name
  /\ \A d \in DOMAIN names : names[d] # NoName =>
       /\ names[d] \in DOMAIN idsByName /\ idsByName[names[d]] = d
       /\ d \in DOMAIN pending
  /\ \A d \in DOMAIN pending : pending[d] = "removed" => d \in DOMAIN names /\ names[d] = NoName
  /\ \A d \in DOMAIN names : d \notin DOMAIN pending => ~IsLiveIn(index, d)
  /\ \A d \in Documents(index) :
       /\ PublishedName(index, d) \in DOMAIN idsByName
       /\ idsByName[PublishedName(index, d)] # d
       => d \in DOMAIN names

IInv ==
  /\ Sound(index)
  /\ Unique(Published(index))
  /\ MapsOK
  /\ editing => EditInv

LEMMA IInvTypes == IInv => TypeOK
<1> SUFFICES ASSUME IInv PROVE TypeOK
  OBVIOUS
<1>1. DOMAIN index \subseteq Nat \ {0} /\ IsFiniteSet(DOMAIN index)
  BY DEF IInv, Sound
<1>2. ASSUME NEW segment \in Range(index)
      PROVE  /\ segment = [docs |-> segment.docs, dead |-> segment.dead, file |-> segment.file]
             /\ segment.docs \subseteq Docs /\ segment.docs # {} /\ segment.dead \subseteq segment.docs
             /\ \A file \in segment.file : Opens(file)
  <2>1. IsSegment(segment)
    BY DEF IInv, Sound, Range
  <2> QED
    BY <2>1, FileOpens DEF IsSegment
<1> QED
  BY <1>1, <1>2 DEF IInv, MapsOK, TypeOK

\* _owner: of a name that the update has given, whom it gave it to; of another one,
\* whoever has it in the index and has not been given a name since.
LEMMA OwnerIs ==
  ASSUME IInv, editing, NEW name \in Range(NameOrder)
  PROVE  /\ name \in DOMAIN idsByName => Owner(name) = {idsByName[name]}
         /\ name \notin DOMAIN idsByName =>
              Owner(name) = {d \in Documents(index) :
                               PublishedName(index, d) = name /\ d \notin DOMAIN names}
<1>1. Sound(index) /\ Unique(Published(index)) /\ EditInv /\ limit \in Nat
  BY DEF IInv, MapsOK
<1>2. IdentOf(index, name) = {d \in Documents(index) : PublishedName(index, d) = name}
  BY <1>1, IdentOfIs
<1>3. \A d \in Documents(index) : limit > 0
  <2>1. \A d \in Documents(index) : d < limit /\ d \in Nat
    BY <1>1, LimitIs, PublishedIs, DocsAre DEF EditInv
  <2> QED
    BY <1>1, <2>1
<1>4. \A d : Removed(d) => d \in DOMAIN names
  BY <1>1 DEF EditInv, Removed
<1> QED
  BY <1>2, <1>3, <1>4 DEF Owner

LEMMA OwnerIsDoc ==
  ASSUME IInv, editing, NEW name \in Names
  PROVE  Owner(name) \subseteq Docs
<1>1. name \in Range(NameOrder)
  BY NoNameIsNone
<1> QED
  BY <1>1, OwnerIs DEF IInv, MapsOK, Documents

-----------------------------------------------------------------------------
(* What would be published. *)

\* A name in the draft is the document's in _names, or else its name in the index.
LEMMA DraftIs ==
  ASSUME IInv, editing, NEW d \in DOMAIN Draft
  PROVE  /\ d \in Docs
         /\ d \in DOMAIN NewNames => d \in DOMAIN pending /\ Draft[d] = Given(d)
         /\ d \notin DOMAIN NewNames =>
              /\ d \in Documents(index) /\ d \notin DOMAIN pending
              /\ Draft[d] = PublishedName(index, d)
<1>1. DOMAIN NewNames \subseteq DOMAIN pending /\ DOMAIN pending \subseteq Docs
  BY DEF NewNames, IInv, MapsOK
<1>2. d \in DOMAIN NewNames \cup (Documents(index) \ DOMAIN pending)
  BY DEF Draft
<1>3. Draft[d] = IF d \in DOMAIN NewNames THEN NewNames[d] ELSE PublishedName(index, d)
  BY <1>2 DEF Draft
<1>4. d \in DOMAIN NewNames => NewNames[d] = Given(d)
  BY DEF NewNames
<1> QED
  BY <1>1, <1>2, <1>3, <1>4 DEF Documents

LEMMA DraftNames ==
  ASSUME IInv, editing, NEW d \in DOMAIN Draft, Draft[d] # NoName
  PROVE  /\ Draft[d] \in Range(NameOrder)
         /\ d \in DOMAIN names => names[d] = Draft[d]
         /\ d \notin DOMAIN names => d \in Documents(index) /\ PublishedName(index, d) = Draft[d]
<1>1. d \in Docs /\ Sound(index) /\ EditInv /\ MapsOK
  BY DraftIs DEF IInv
<1>2. CASE d \in DOMAIN NewNames /\ d \in DOMAIN names
  <2>1. Draft[d] = Stored(names[d]) /\ names[d] \in Names \cup {NoName}
    BY <1>1, <1>2, DraftIs DEF Given, MapsOK
  <2>2. Draft[d] = names[d] /\ names[d] \in Names
    BY <2>1 DEF Stored
  <2> QED
    BY <1>2, <2>2, NoNameIsNone
<1>3. CASE d \in DOMAIN NewNames /\ d \notin DOMAIN names
  <2>1. Draft[d] = Stored(PublishedName(index, d))
    BY <1>3, DraftIs DEF Given
  <2>2. Draft[d] = PublishedName(index, d)
    BY <2>1 DEF Stored
  <2>3. IsLiveIn(index, d) /\ Draft[d] \in Range(NameOrder)
    BY <1>1, <2>2, NamesPublished
  <2> QED
    BY <1>1, <1>3, <2>2, <2>3 DEF Documents
<1>4. CASE d \notin DOMAIN NewNames
  <2>1. d \in Documents(index) /\ d \notin DOMAIN pending /\ Draft[d] = PublishedName(index, d)
    BY <1>4, DraftIs
  <2>2. d \notin DOMAIN names
    BY <1>1, <2>1 DEF EditInv, Documents
  <2> QED
    BY <1>1, <2>1, <2>2, NamesPublished
<1> QED
  BY <1>2, <1>3, <1>4

\* _owner finds the document that has a name, and no other.
LEMMA IInvHolders == IInv => HolderFound
<1> SUFFICES ASSUME IInv, editing, NEW d \in DOMAIN Draft, Draft[d] # NoName
             PROVE  Owner(Draft[d]) = {d}
  BY DEF HolderFound
<1> DEFINE name == Draft[d]
<1>1. Sound(index) /\ Unique(Published(index)) /\ EditInv
  BY DEF IInv
<1>2. /\ name \in Range(NameOrder) /\ name # NoName
      /\ d \in DOMAIN names => names[d] = name
      /\ d \notin DOMAIN names => d \in Documents(index) /\ PublishedName(index, d) = name
  BY DraftNames
<1> HIDE DEF name
<1>3. CASE name \in DOMAIN idsByName
  <2>1. idsByName[name] = d
    BY <1>1, <1>2, <1>3 DEF EditInv
  <2> QED
    BY <1>2, <1>3, <2>1, OwnerIs DEF name
<1>4. CASE name \notin DOMAIN idsByName
  <2>1. d \notin DOMAIN names
    BY <1>1, <1>2, <1>4 DEF EditInv
  <2>2. \A e \in Documents(index) : PublishedName(index, e) = name => e = d
    BY <1>1, <1>2, <2>1 DEF Unique, Published
  <2>3. Owner(name) = {e \in Documents(index) :
                         PublishedName(index, e) = name /\ e \notin DOMAIN names}
    BY <1>2, <1>4, OwnerIs
  <2>4. Owner(name) = {d}
    BY <1>2, <2>1, <2>2, <2>3
  <2> QED
    BY <2>4 DEF name
<1> QED
  BY <1>3, <1>4

\* So no two documents have the same one.
LEMMA IInvDraft == ASSUME IInv, editing PROVE Unique(Draft)
<1> SUFFICES ASSUME NEW d \in DOMAIN Draft, NEW e \in DOMAIN Draft,
                    Draft[d] = Draft[e], Draft[d] # NoName
             PROVE  d = e
  BY DEF Unique
<1>1. Owner(Draft[d]) = {d} /\ Owner(Draft[e]) = {e}
  BY IInvHolders DEF HolderFound
<1> QED
  BY <1>1

\* A commit publishes the draft: it is not refused.
LEMMA CommittedIs ==
  ASSUME IInv, editing
  PROVE  \E new : Committed = {new} /\ Sound(new) /\ Published(new) = Draft
<1> DEFINE masked == Masked(index, DOMAIN pending)
<1>1. DOMAIN pending \in SUBSET Docs /\ Sound(index) /\ DOMAIN NewNames \subseteq DOMAIN pending
  BY DEF IInv, MapsOK, NewNames
<1>2. /\ Sound(masked) /\ Documents(masked) = Documents(index) \ DOMAIN pending
      /\ \A d \in Documents(masked) : PublishedName(masked, d) = PublishedName(index, d)
  BY <1>1, MaskedIs
<1> HIDE DEF masked
<1>3. /\ DOMAIN Draft = DOMAIN NewNames \cup (Documents(index) \ DOMAIN pending)
      /\ \A d \in DOMAIN Draft :
           Draft[d] = IF d \in DOMAIN NewNames THEN NewNames[d] ELSE PublishedName(index, d)
      /\ Draft = [d \in DOMAIN Draft |-> Draft[d]]
  BY DEF Draft
<1>4. Namable(NewNames)
  <2>1. ASSUME NEW d \in DOMAIN NewNames
        PROVE  NewNames[d] = NoName \/ NewNames[d] \in Range(NameOrder)
    BY <1>3, DraftNames
  <2> QED
    BY <1>1, <2>1 DEF Namable
<1>5. Unique(NewNames)
  BY <1>3, IInvDraft DEF Unique
<1>6. PICK new : /\ WithNew(masked, NewNames) = {new} /\ Sound(new)
                 /\ Documents(new) = Documents(masked) \cup DOMAIN NewNames
                 /\ \A d \in Documents(new) :
                      PublishedName(new, d) = IF d \in DOMAIN NewNames THEN NewNames[d]
                                              ELSE PublishedName(masked, d)
  BY <1>1, <1>2, <1>4, <1>5, WithNewIs
<1>7. Documents(new) = DOMAIN Draft /\ \A d \in Documents(new) : PublishedName(new, d) = Draft[d]
  BY <1>2, <1>3, <1>6
<1>8. Published(new) = [d \in DOMAIN Draft |-> Draft[d]]
  <2> HIDE DEF Draft
  <2> QED
    BY <1>7 DEF Published
<1>9. Published(new) = Draft
  BY <1>3, <1>8
<1> QED
  BY <1>6, <1>9 DEF Committed, masked

LEMMA IInvUnique == IInv => NamesUnique
<1> SUFFICES ASSUME IInv PROVE NamesUnique
  OBVIOUS
<1>1. ASSUME editing
      PROVE  /\ Unique(Draft) /\ Committed # {}
             /\ \A segments \in Committed : MergedSegments(segments, DOMAIN segments) # {}
  <2>1. PICK new : Committed = {new} /\ Sound(new) /\ Published(new) = Draft
    BY <1>1, CommittedIs
  <2>2. Unique(Draft)
    BY <1>1, IInvDraft
  <2>3. MergedSegments(new, DOMAIN new) # {}
    BY <2>1, <2>2, MergedIs
  <2> QED
    BY <2>1, <2>2, <2>3
<1> QED
  BY <1>1 DEF NamesUnique, IInv

\* A name that has an owner has one in the draft, when nothing is added that is not stored.
LEMMA IInvFreed == IInv => FreedNames
<1> SUFFICES ASSUME IInv, editing, "nothing" \notin {pending[d] : d \in DOMAIN pending},
                    NEW name \in Names \ {Blank}, Owner(name) # {}
             PROVE  \E d \in DOMAIN Draft : Draft[d] = name
  BY DEF FreedNames, Range
<1>1. Sound(index) /\ EditInv /\ MapsOK
  BY DEF IInv
<1>2. name \in Range(NameOrder) /\ name # NoName
  BY NoNameIsNone
<1>3. ASSUME NEW d \in DOMAIN pending, pending[d] # "removed" PROVE d \in DOMAIN NewNames
  <2>1. pending[d] \in Contents \cup {"removed"} /\ pending[d] # "nothing"
    BY <1>1 DEF MapsOK
  <2>2. pending[d] = "tokens"
    BY <1>3, <2>1, ContentsAssumption
  <2> QED
    BY <2>2 DEF NewNames
<1>4. DOMAIN Draft = DOMAIN NewNames \cup (Documents(index) \ DOMAIN pending)
  BY DEF Draft
<1>5. Stored(name) = name
  BY DEF Stored
<1>6. CASE name \in DOMAIN idsByName
  <2> DEFINE d == idsByName[name]
  <2>1. d \in DOMAIN names /\ names[d] = name
    BY <1>1, <1>6 DEF EditInv
  <2>2. d \in DOMAIN pending /\ pending[d] # "removed"
    BY <1>1, <1>2, <2>1 DEF EditInv
  <2>3. d \in DOMAIN NewNames /\ d \in DOMAIN Draft
    BY <1>3, <1>4, <2>2
  <2>4. Draft[d] = name
    BY <1>5, <2>1, <2>3, DraftIs DEF Given
  <2> QED
    BY <2>3, <2>4
<1>7. CASE name \notin DOMAIN idsByName
  <2>1. PICK d \in Documents(index) : PublishedName(index, d) = name /\ d \notin DOMAIN names
    BY <1>2, <1>7, OwnerIs
  <2>2. CASE d \notin DOMAIN pending
    <3>1. d \in DOMAIN Draft /\ d \notin DOMAIN NewNames
      BY <1>4, <2>2 DEF NewNames
    <3> QED
      BY <2>1, <3>1, DraftIs
  <2>3. CASE d \in DOMAIN pending
    <3>1. d \in DOMAIN NewNames /\ d \in DOMAIN Draft
      BY <1>1, <1>3, <1>4, <2>1, <2>3 DEF EditInv
    <3>2. d < limit
      BY <1>1, LimitIs DEF EditInv
    <3>3. Given(d) = name
      BY <1>5, <2>1, <3>2 DEF Given
    <3> QED
      BY <3>1, <3>3, DraftIs
  <2> QED
    BY <2>2, <2>3
<1> QED
  BY <1>6, <1>7

-----------------------------------------------------------------------------
(* Each action keeps the invariant. *)

LEMMA IInvInit == Init => IInv
<1> SUFFICES ASSUME Init PROVE IInv
  OBVIOUS
<1>0. PICK size \in 0..(MaxDoc + 1) :
        LET ids == {d \in Docs : d < size}
        IN \E named \in [ids -> {NoName}] \cup [ids -> Names] : index \in WithNew(NoSegments, named)
  BY DEF Init
<1>1. PICK named \in [{d \in Docs : d < size} -> {NoName}] \cup [{d \in Docs : d < size} -> Names] :
        index \in WithNew(NoSegments, named)
  BY <1>0
<1>2. Sound(NoSegments) /\ Documents(NoSegments) = {}
  <2>1. DOMAIN NoSegments = {} /\ NoSegments = [p \in DOMAIN NoSegments |-> NoSegments[p]]
    BY DEF NoSegments
  <2>2. Sound(NoSegments)
    BY <2>1, FS_EmptySet DEF Sound
  <2> QED
    BY <2>1, <2>2, PublishedIs
<1>3. /\ DOMAIN named \subseteq Docs
      /\ (\A d \in DOMAIN named : named[d] = NoName) \/ (\A d \in DOMAIN named : named[d] \in Names)
  BY <1>1
<1>4. Namable(named)
  BY <1>3, NoNameIsNone DEF Namable
<1>5. Unique(named)
  <2>1. CASE \A d \in DOMAIN named : named[d] = NoName
    BY <2>1 DEF Unique
  <2>2. CASE (\A d \in DOMAIN named : named[d] \in Names) /\ DOMAIN named # {}
    <3>1. \A d \in DOMAIN named : named[d] # NoName
      BY <2>2, NoNameAssumption
    <3>2. NamesOf(named) # {}
      BY <1>1, <2>2 DEF WithNew
    <3>3. Restrict(named, {d \in DOMAIN named : named[d] # NoName}) = named
      <4>1. {d \in DOMAIN named : named[d] # NoName} = DOMAIN named
        BY <3>1
      <4>2. named = [d \in DOMAIN named |-> named[d]]
        BY <1>1
      <4> QED
        BY <4>1, <4>2 DEF Restrict
    <3>4. Written(named) # {}
      BY <2>2, <3>2, <3>3 DEF NamesOf
    <3> QED
      BY <1>3, <3>4, WrittenDiffer DEF IsInjective, Unique
  <2> QED
    BY <1>3, <2>1, <2>2 DEF Unique
<1>6. PICK new :
           /\ WithNew(NoSegments, named) = {new} /\ Sound(new)
           /\ Documents(new) = DOMAIN named
           /\ \A d \in Documents(new) : PublishedName(new, d) = named[d]
  BY <1>2, <1>4, <1>5, WithNewIs
<1>7. Sound(index) /\ Unique(Published(index))
  BY <1>1, <1>5, <1>6 DEF Unique, Published
<1>8. MapsOK /\ ~editing
  <2>1. editing = FALSE /\ limit = 0 /\ next = 0 /\ 0 \in 0..(MaxDoc + 1)
    BY MaxDocAssumption DEF Init
  <2>2. DOMAIN pending = {} /\ DOMAIN names = {} /\ DOMAIN idsByName = {}
    BY DEF Init, None
  <2>3. editing \in BOOLEAN
    BY <2>1
  <2> QED
    BY <2>1, <2>2, <2>3 DEF MapsOK
<1> QED
  BY <1>7, <1>8 DEF IInv

\* An action that leaves the index, and an update that changes nothing.
LEMMA SameIndex ==
  ASSUME IInv, UNCHANGED index, MapsOK', (editing => EditInv)'
  PROVE  IInv'
  BY DEF IInv

LEMMA NothingKeeps ==
  ASSUME NothingChanged, limit' \in 0..(MaxDoc + 1), next' \in 0..(MaxDoc + 1), editing' \in BOOLEAN
  PROVE  /\ MapsOK'
         /\ limit' = Limit(index') => EditInv'
<1>1. DOMAIN pending' = {} /\ DOMAIN names' = {} /\ DOMAIN idsByName' = {}
  BY DEF NothingChanged, None
<1> QED
  BY <1>1 DEF MapsOK, EditInv

LEMMA BeginKeeps == IInv /\ Begin => IInv'
<1> SUFFICES ASSUME IInv, Begin PROVE IInv'
  OBVIOUS
<1>1. UNCHANGED index /\ NothingChanged /\ limit' = Limit(index) /\ next' = limit' /\ editing' = TRUE
  BY DEF Begin
<1>2. Limit(index) \in 0..(MaxDoc + 1)
  BY LimitIs DEF IInv
<1>3. limit' = Limit(index')
  BY <1>1
<1> QED
  BY <1>1, <1>2, <1>3, NothingKeeps, SameIndex

LEMMA EndKeeps ==
  ASSUME Sound(index'), Unique(Published(index))', editing' = FALSE, limit' = 0, next' = 0,
         NothingChanged
  PROVE  IInv'
<1>1. limit' \in 0..(MaxDoc + 1) /\ next' \in 0..(MaxDoc + 1)
  BY MaxDocAssumption
<1>2. editing' \in BOOLEAN
  OBVIOUS
<1>3. MapsOK'
  BY <1>1, <1>2, NothingKeeps
<1> QED
  BY <1>3 DEF IInv

LEMMA AbandonKeeps == IInv /\ Abandon => IInv'
<1> SUFFICES ASSUME IInv, Abandon PROVE IInv'
  OBVIOUS
<1>1. /\ UNCHANGED index /\ NothingChanged /\ limit' = 0 /\ next' = 0 /\ editing' = FALSE
      /\ Sound(index) /\ Unique(Published(index))
  BY DEF Abandon, IInv
<1>2. Sound(index') /\ Unique(Published(index))'
  BY <1>1
<1> QED
  BY <1>1, <1>2, EndKeeps

\* What a merge publishes, whichever segments it merges.
LEMMA MergePublishes ==
  ASSUME NEW segments, Sound(segments), Unique(Published(segments)),
         NEW chosen \in SUBSET DOMAIN segments, NEW new \in MergedSegments(segments, chosen)
  PROVE  Sound(new) /\ Unique(Published(new))
<1>1. /\ Sound(new) /\ Documents(new) = Documents(segments)
      /\ \A d \in Documents(new) : PublishedName(new, d) = PublishedName(segments, d)
  BY MergedIs
<1> QED
  BY <1>1 DEF Unique, Published

LEMMA CommitKeeps == IInv /\ Commit => IInv'
<1> SUFFICES ASSUME IInv, Commit PROVE IInv'
  OBVIOUS
<1>0. PICK segments \in Committed :
        \E chosen \in SUBSET DOMAIN segments : index' \in MergedSegments(segments, chosen)
  BY DEF Commit
<1>1. PICK chosen \in SUBSET DOMAIN segments : index' \in MergedSegments(segments, chosen)
  BY <1>0
<1>2. editing /\ editing' = FALSE /\ limit' = 0 /\ next' = 0 /\ NothingChanged
  BY DEF Commit
<1>3. PICK new : Committed = {new} /\ Sound(new) /\ Published(new) = Draft
  BY <1>2, CommittedIs
<1>4. Sound(segments) /\ Unique(Published(segments))
  BY <1>0, <1>2, <1>3, IInvDraft
<1>5. Sound(index') /\ Unique(Published(index'))
  BY <1>1, <1>4, MergePublishes
<1> QED
  BY <1>2, <1>5, EndKeeps

LEMMA ForceMergeKeeps == IInv /\ ForceMerge => IInv'
<1> SUFFICES ASSUME IInv, ForceMerge PROVE IInv'
  OBVIOUS
<1>1. /\ index' \in MergedSegments(index, DOMAIN index)
      /\ UNCHANGED <<editing, limit, next, pending, names, idsByName>> /\ ~editing
  BY DEF ForceMerge
<1>2. Sound(index') /\ Unique(Published(index'))
  BY <1>1, MergePublishes DEF IInv
<1>3. MapsOK'
  BY <1>1 DEF IInv, MapsOK
<1> QED
  BY <1>1, <1>2, <1>3 DEF IInv

\* What the changes of a document have in common.
LEMMA ChangeIs ==
  ASSUME IInv, NEW d \in Docs, NEW content \in Contents, Change(d, content)
  PROVE  /\ UNCHANGED <<index, editing, limit>> /\ editing
         /\ next' \in 0..(MaxDoc + 1)
         /\ DOMAIN pending' = DOMAIN pending \cup {d}
         /\ \A e \in DOMAIN pending' : pending'[e] \in Contents \cup {"removed"}
         /\ \A e \in DOMAIN pending' : pending'[e] = "removed" =>
              e # d /\ e \in DOMAIN pending /\ pending[e] = "removed"
<1>1. /\ UNCHANGED <<index, editing, limit>> /\ editing
      /\ pending' = Put(pending, d, content)
      /\ next' = IF next > d + 1 THEN next ELSE d + 1
  BY DEF Change
<1>2. MapsOK /\ content # "removed"
  BY ContentsAssumption DEF IInv
<1>3. d + 1 \in 0..(MaxDoc + 1) /\ next \in 0..(MaxDoc + 1)
  BY <1>2, MaxDocAssumption DEF MapsOK, Docs
<1>4. /\ DOMAIN pending' = DOMAIN pending \cup {d}
      /\ \A e \in DOMAIN pending' : pending'[e] = IF e = d THEN content ELSE pending[e]
  BY <1>1 DEF Put
<1> QED
  BY <1>1, <1>2, <1>3, <1>4 DEF MapsOK

LEMMA AddKeeps == ASSUME IInv, NEW d \in Docs, NEW content \in Contents, Add(d, content) PROVE IInv'
<1>1. /\ UNCHANGED <<index, editing, limit>> /\ editing /\ UNCHANGED <<names, idsByName>>
      /\ next' \in 0..(MaxDoc + 1)
      /\ DOMAIN pending' = DOMAIN pending \cup {d}
      /\ \A e \in DOMAIN pending' : pending'[e] \in Contents \cup {"removed"}
      /\ \A e \in DOMAIN pending' : pending'[e] = "removed" =>
           e # d /\ e \in DOMAIN pending /\ pending[e] = "removed"
  BY ChangeIs DEF Add
<1>2. MapsOK /\ EditInv
  BY <1>1 DEF IInv
<1>3. MapsOK'
  BY <1>1, <1>2 DEF MapsOK
<1>4. EditInv'
  BY <1>1, <1>2 DEF EditInv
<1> QED
  BY <1>1, <1>3, <1>4, SameIndex

\* _set_name: the name a document had is nobody's any more, unless it is the one it gets.
LEMMA SetNameIs ==
  ASSUME MapsOK, EditInv, NEW d \in Docs, NEW name \in Names \cup {NoName}, SetName(d, name)
  PROVE  /\ DOMAIN names' = DOMAIN names \cup {d}
         /\ \A e \in DOMAIN names' : names'[e] = IF e = d THEN name ELSE names[e]
         /\ DOMAIN idsByName' \subseteq DOMAIN idsByName \cup {name}
         /\ name # NoName => name \in DOMAIN idsByName' /\ idsByName'[name] = d
         /\ name = NoName => name \notin DOMAIN idsByName'
         /\ \A n \in DOMAIN idsByName : n # name =>
              /\ n \in DOMAIN idsByName' <=> idsByName[n] # d
              /\ n \in DOMAIN idsByName' => idsByName'[n] = idsByName[n]
<1> DEFINE left == Pop(idsByName, Previous(d))
<1>1. /\ names' = Put(names, d, name)
      /\ idsByName' = IF name = NoName THEN left ELSE Put(left, name, d)
  BY DEF SetName
<1>2. /\ DOMAIN names' = DOMAIN names \cup {d}
      /\ \A e \in DOMAIN names' : names'[e] = IF e = d THEN name ELSE names[e]
  BY <1>1 DEF Put
<1>3. /\ DOMAIN left = DOMAIN idsByName \ Previous(d)
      /\ \A n \in DOMAIN left : left[n] = idsByName[n]
  BY DEF Pop, Restrict
<1>4. NoName \notin DOMAIN idsByName
  BY NoNameAssumption DEF MapsOK
<1>5. ASSUME NEW n \in DOMAIN idsByName PROVE n \in Previous(d) <=> idsByName[n] = d
  BY <1>4 DEF EditInv, Previous
<1> HIDE DEF left
<1>6. CASE name = NoName
  BY <1>1, <1>2, <1>3, <1>4, <1>5, <1>6
<1>7. CASE name # NoName
  <2>1. /\ DOMAIN idsByName' = DOMAIN left \cup {name}
        /\ \A n \in DOMAIN idsByName' : idsByName'[n] = IF n = name THEN d ELSE left[n]
    BY <1>1, <1>7 DEF Put
  <2> QED
    BY <1>2, <1>3, <1>5, <1>7, <2>1
<1> QED
  BY <1>6, <1>7

LEMMA AddNamedKeeps ==
  ASSUME IInv, NEW d \in Docs, NEW content \in Contents, NEW name \in Names, AddNamed(d, content, name)
  PROVE  IInv'
<1>1. /\ UNCHANGED <<index, editing, limit>> /\ editing
      /\ next' \in 0..(MaxDoc + 1)
      /\ DOMAIN pending' = DOMAIN pending \cup {d}
      /\ \A e \in DOMAIN pending' : pending'[e] \in Contents \cup {"removed"}
      /\ \A e \in DOMAIN pending' : pending'[e] = "removed" =>
           e # d /\ e \in DOMAIN pending /\ pending[e] = "removed"
  BY ChangeIs DEF AddNamed
<1>2. MapsOK /\ EditInv /\ Owner(name) \subseteq {d} /\ SetName(d, name)
  BY <1>1 DEF IInv, AddNamed
<1>3. name # NoName /\ name \in Range(NameOrder)
  BY NoNameIsNone
<1>4. /\ DOMAIN names' = DOMAIN names \cup {d}
      /\ \A e \in DOMAIN names' : names'[e] = IF e = d THEN name ELSE names[e]
      /\ DOMAIN idsByName' \subseteq DOMAIN idsByName \cup {name}
      /\ name \in DOMAIN idsByName' /\ idsByName'[name] = d
      /\ \A n \in DOMAIN idsByName : n # name =>
           /\ n \in DOMAIN idsByName' <=> idsByName[n] # d
           /\ n \in DOMAIN idsByName' => idsByName'[n] = idsByName[n]
  BY <1>2, <1>3, SetNameIs
<1>5. name \in DOMAIN idsByName => idsByName[name] = d
  BY <1>1, <1>2, <1>3, OwnerIs
<1>6. ASSUME NEW e \in Documents(index), PublishedName(index, e) = name, e # d
      PROVE  e \in DOMAIN names
  <2>1. CASE name \in DOMAIN idsByName
    BY <1>2, <1>5, <1>6, <2>1 DEF EditInv
  <2>2. CASE name \notin DOMAIN idsByName
    BY <1>1, <1>2, <1>3, <1>6, <2>2, OwnerIs
  <2> QED
    BY <2>1, <2>2
<1>7. MapsOK'
  <2>1. DOMAIN pending' \subseteq Docs /\ DOMAIN names' \subseteq Docs /\ DOMAIN idsByName' \subseteq Names
    BY <1>1, <1>2, <1>4 DEF MapsOK
  <2>2. \A e \in DOMAIN names' : names'[e] \in Names \cup {NoName}
    BY <1>2, <1>4 DEF MapsOK
  <2>3. \A n \in DOMAIN idsByName' : idsByName'[n] \in Docs
    BY <1>2, <1>4 DEF MapsOK
  <2> QED
    BY <1>1, <1>2, <2>1, <2>2, <2>3 DEF MapsOK
<1>8. EditInv'
  <2>1. limit' = Limit(index')
    BY <1>1, <1>2 DEF EditInv
  <2>2. ASSUME NEW n \in DOMAIN idsByName'
        PROVE  idsByName'[n] \in DOMAIN names' /\ names'[idsByName'[n]] = n
    BY <1>2, <1>4 DEF EditInv
  <2>3. ASSUME NEW e \in DOMAIN names', names'[e] # NoName
        PROVE  /\ names'[e] \in DOMAIN idsByName' /\ idsByName'[names'[e]] = e
               /\ e \in DOMAIN pending'
    <3>1. CASE e = d
      BY <1>1, <1>4, <3>1
    <3>2. CASE e # d
      <4>1. e \in DOMAIN names /\ names'[e] = names[e]
        BY <1>4, <3>2
      <4>2. names[e] \in DOMAIN idsByName /\ idsByName[names[e]] = e /\ e \in DOMAIN pending
        BY <1>2, <2>3, <4>1 DEF EditInv
      <4> QED
        BY <1>1, <1>4, <1>5, <3>2, <4>1, <4>2
    <3> QED
      BY <3>1, <3>2
  <2>4. ASSUME NEW e \in DOMAIN pending', pending'[e] = "removed"
        PROVE  e \in DOMAIN names' /\ names'[e] = NoName
    BY <1>1, <1>2, <1>4, <2>4 DEF EditInv
  <2>5. ASSUME NEW e \in DOMAIN names', e \notin DOMAIN pending' PROVE ~IsLiveIn(index', e)
    BY <1>1, <1>2, <1>4, <2>5 DEF EditInv
  <2>6. ASSUME NEW e \in Documents(index'), PublishedName(index', e) \in DOMAIN idsByName',
               idsByName'[PublishedName(index', e)] # e
        PROVE  e \in DOMAIN names'
    <3>1. index' = index
      BY <1>1
    <3>2. CASE PublishedName(index, e) = name
      BY <1>4, <1>6, <2>6, <3>1, <3>2
    <3>3. CASE PublishedName(index, e) # name
      BY <1>2, <1>4, <2>6, <3>1, <3>3 DEF EditInv
    <3> QED
      BY <3>2, <3>3
  <2> QED
    BY <2>1, <2>2, <2>3, <2>4, <2>5, <2>6 DEF EditInv
<1> QED
  BY <1>1, <1>7, <1>8, SameIndex

LEMMA RemoveDocKeeps == ASSUME IInv, NEW d \in Docs, RemoveDoc(d) PROVE IInv'
<1>1. UNCHANGED <<index, editing, limit, next>> /\ editing /\ SetName(d, NoName)
  BY DEF RemoveDoc
<1>2. MapsOK /\ EditInv /\ Sound(index)
  BY <1>1 DEF IInv
<1>3. /\ DOMAIN names' = DOMAIN names \cup {d}
      /\ \A e \in DOMAIN names' : names'[e] = IF e = d THEN NoName ELSE names[e]
      /\ DOMAIN idsByName' \subseteq DOMAIN idsByName
      /\ \A n \in DOMAIN idsByName :
           /\ n \in DOMAIN idsByName' <=> idsByName[n] # d
           /\ n \in DOMAIN idsByName' => idsByName'[n] = idsByName[n]
  <2>1. NoName \notin DOMAIN idsByName
    BY <1>2, NoNameAssumption DEF MapsOK
  <2> QED
    BY <1>1, <1>2, <2>1, SetNameIs
<1>4. /\ DOMAIN pending \ {d} \subseteq DOMAIN pending' /\ DOMAIN pending' \subseteq DOMAIN pending \cup {d}
      /\ \A e \in DOMAIN pending' : pending'[e] = IF e = d THEN "removed" ELSE pending[e]
      /\ d \notin DOMAIN pending' => ~(d < limit /\ IsLiveIn(index, d))
  <2>1. pending' = IF d < limit /\ IsLiveIn(index, d)
                   THEN Put(pending, d, "removed") ELSE Pop(pending, {d})
    BY DEF RemoveDoc
  <2> QED
    BY <2>1 DEF Put, Pop, Restrict
<1>5. IsLiveIn(index, d) => d < limit
  BY <1>2, LimitIs DEF EditInv, Documents
<1>6. MapsOK'
  <2>1. DOMAIN pending' \subseteq Docs /\ DOMAIN names' \subseteq Docs /\ DOMAIN idsByName' \subseteq Names
    BY <1>2, <1>3, <1>4 DEF MapsOK
  <2>2. \A e \in DOMAIN names' : names'[e] \in Names \cup {NoName}
    BY <1>2, <1>3 DEF MapsOK
  <2>3. \A n \in DOMAIN idsByName' : idsByName'[n] \in Docs
    BY <1>2, <1>3 DEF MapsOK
  <2>4. \A e \in DOMAIN pending' : pending'[e] \in Contents \cup {"removed"}
    BY <1>2, <1>4 DEF MapsOK
  <2> QED
    BY <1>1, <1>2, <2>1, <2>2, <2>3, <2>4 DEF MapsOK
<1>7. EditInv'
  <2>1. limit' = Limit(index')
    BY <1>1, <1>2 DEF EditInv
  <2>2. ASSUME NEW n \in DOMAIN idsByName'
        PROVE  idsByName'[n] \in DOMAIN names' /\ names'[idsByName'[n]] = n
    BY <1>2, <1>3 DEF EditInv
  <2>3. ASSUME NEW e \in DOMAIN names', names'[e] # NoName
        PROVE  /\ names'[e] \in DOMAIN idsByName' /\ idsByName'[names'[e]] = e
               /\ e \in DOMAIN pending'
    <3>1. e # d /\ e \in DOMAIN names /\ names'[e] = names[e]
      BY <1>3, <2>3
    <3>2. names[e] \in DOMAIN idsByName /\ idsByName[names[e]] = e /\ e \in DOMAIN pending
      BY <1>2, <2>3, <3>1 DEF EditInv
    <3> QED
      BY <1>3, <1>4, <3>1, <3>2
  <2>4. ASSUME NEW e \in DOMAIN pending', pending'[e] = "removed"
        PROVE  e \in DOMAIN names' /\ names'[e] = NoName
    BY <1>2, <1>3, <1>4, <2>4 DEF EditInv
  <2>5. ASSUME NEW e \in DOMAIN names', e \notin DOMAIN pending' PROVE ~IsLiveIn(index', e)
    <3>1. CASE e = d
      BY <1>1, <1>4, <1>5, <2>5, <3>1
    <3>2. CASE e # d
      BY <1>1, <1>2, <1>3, <1>4, <2>5, <3>2 DEF EditInv
    <3> QED
      BY <3>1, <3>2
  <2>6. ASSUME NEW e \in Documents(index'), PublishedName(index', e) \in DOMAIN idsByName',
               idsByName'[PublishedName(index', e)] # e
        PROVE  e \in DOMAIN names'
    <3>1. index' = index
      BY <1>1
    <3> QED
      BY <1>2, <1>3, <2>6, <3>1 DEF EditInv
  <2> QED
    BY <2>1, <2>2, <2>3, <2>4, <2>5, <2>6 DEF EditInv
<1> QED
  BY <1>1, <1>6, <1>7, SameIndex

LEMMA IInvNext == IInv /\ [Next]_vars => IInv'
<1> SUFFICES ASSUME IInv, [Next]_vars PROVE IInv'
  OBVIOUS
<1>1. CASE Begin
  BY <1>1, BeginKeeps
<1>2. CASE Commit
  BY <1>2, CommitKeeps
<1>3. CASE Abandon
  BY <1>3, AbandonKeeps
<1>4. CASE ForceMerge
  BY <1>4, ForceMergeKeeps
<1>5. ASSUME NEW content \in Contents, AddNew(content) PROVE IInv'
  <2>1. next \in Docs /\ Add(next, content)
    BY <1>5 DEF AddNew
  <2> QED
    BY <2>1, AddKeeps
<1>6. ASSUME NEW content \in Contents, NEW d \in Docs, Add(d, content) PROVE IInv'
  BY <1>6, AddKeeps
<1>7. ASSUME NEW content \in Contents, NEW name \in Names, AddNewNamed(content, name) PROVE IInv'
  <2>1. editing
    BY <1>7 DEF AddNewNamed
  <2>2. PICK d \in IF Owner(name) # {} THEN Owner(name) ELSE {next} \cap Docs :
          AddNamed(d, content, name)
    BY <1>7 DEF AddNewNamed
  <2>3. d \in Docs
    BY <2>1, <2>2, OwnerIsDoc
  <2> QED
    BY <2>2, <2>3, AddNamedKeeps
<1>8. ASSUME NEW content \in Contents, NEW name \in Names, NEW d \in Docs,
             AddNamed(d, content, name)
      PROVE  IInv'
  BY <1>8, AddNamedKeeps
<1>9. ASSUME NEW d \in Docs, RemoveDoc(d) PROVE IInv'
  BY <1>9, RemoveDocKeeps
<1>10. CASE UNCHANGED vars
  BY <1>10 DEF vars, IInv, MapsOK, EditInv
<1> QED
  BY <1>1, <1>2, <1>3, <1>4, <1>5, <1>6, <1>7, <1>8, <1>9, <1>10 DEF Next

-----------------------------------------------------------------------------
(* The theorems. *)

\* The index stays sound, its names unique, and the maps of an update agree.
THEOREM Invariant == Spec => []IInv
  BY IInvInit, IInvNext, PTL DEF Spec

\* Every variable stays in its domain, and every file of names a commit or a merge
\* writes can be opened.
THEOREM TypeCorrect == Spec => []TypeOK
  BY Invariant, IInvTypes, PTL

\* Two documents never have the same name, in the index and in an update; no commit
\* and no merge is refused for a name.
THEOREM NamesAreUnique == Spec => []NamesUnique
  BY Invariant, IInvUnique, PTL

\* _owner finds the document that has a name, and no other.
THEOREM HoldersAreFound == Spec => []HolderFound
  BY Invariant, IInvHolders, PTL

\* An update that stores or removes all it changes gives back the names that nobody
\* has any more.
THEOREM NamesAreFreed == Spec => []FreedNames
  BY Invariant, IInvFreed, PTL

=============================================================================
