-------------------------- MODULE IndexFile_lemmas --------------------------
(***************************************************************************)
(* What the operators of module IndexFile do, for every size of blocks,    *)
(* queue and definitions.                                                  *)
(*                                                                         *)
(* The argument is one of places.  Placed says that definitions and blocks *)
(* are apart, below an end; Gaps that a list of areas is what they leave   *)
(* below that end.  A search of a place (FoundPlaced), the vacation of an  *)
(* area (VacatedGaps), a new block (GrownPlaced, GrownGaps) and a          *)
(* reopening (ReopenedGaps) keep both, whatever the order of the           *)
(* operations; what is written apart from an area leaves what it holds     *)
(* (KeptIs).                                                               *)
(***************************************************************************)
EXTENDS IndexFile, FiniteSetTheorems, SequenceTheorems, TLAPS

Areas == [at : Nat, len : Nat]
Apart(a, b) == End(a) <= b.at \/ End(b) <= a.at
BlocOf(blocs, b) == Area(blocs[b], BlocBytes)

\* Areas in order, with something between two of them.
Separate(list) ==
  /\ list \in Seq(Areas)
  /\ \A k \in 1..Len(list) : list[k].len > 0
  /\ \A k \in 1..Len(list), l \in 1..Len(list) : k < l => End(list[k]) < list[l].at

In(p, list) == \E k \in 1..Len(list) : p \in Bytes(list[k])

\* The blocks follow one another from the head.
Chained(blocs, end) ==
  /\ blocs \in Seq(Nat) /\ Len(blocs) > 0 /\ blocs[1] = HeadBytes + 1
  /\ end \in Nat
  /\ \A b \in 1..Len(blocs) : blocs[b] + BlocBytes <= end
  /\ \A b \in 1..Len(blocs), c \in 1..Len(blocs) : b < c => blocs[b] + BlocBytes <= blocs[c]

\* An area for the definition of i, beside the blocks.
Fit(a, i, blocs, end) ==
  a # NoArea =>
    /\ i \in Reach(blocs)
    /\ a.at > HeadBytes /\ a.len >= MinSize /\ End(a) <= end
    /\ \A b \in 1..Len(blocs) : Apart(a, BlocOf(blocs, b))

\* Definitions and blocks are apart from one another, below end.
Placed(ents, blocs, end) ==
  /\ Chained(blocs, end)
  /\ ents \in [Idents -> Areas]
  /\ \A i \in Idents : Fit(ents[i], i, blocs, end)
  /\ \A i \in Idents, j \in Idents : i # j => Apart(ents[i], ents[j])

Used(ents, blocs, p) ==
  \/ \E i \in Idents : p \in Bytes(ents[i])
  \/ \E b \in 1..Len(blocs) : p \in Bytes(BlocOf(blocs, b))

\* What they, and an area that is taken, leave below end.
Gaps(list, ents, blocs, end, taken) ==
  /\ Separate(list)
  /\ ~In(0, list)
  /\ \A p \in Nat : p > HeadBytes =>
       (In(p, list) <=> p < end /\ ~Used(ents, blocs, p) /\ p \notin Bytes(taken))

\* The definition v of i is in an area.
Holds(d, a, i, v) ==
  /\ Size[v] <= a.len
  /\ a.at + Size[v] - 1 <= Len(d)
  /\ \A k \in 1..Size[v] : d[a.at + k - 1] = <<"definition", i, v, k>>

IsBytes(d) == \E n \in Nat : d = [p \in 1..n |-> d[p]]

-----------------------------------------------------------------------------
(* Numbers and areas. *)

\* The least element of a set of numbers is in it, and below the others.
LEMMA LeastExists ==
  ASSUME NEW S \in SUBSET Nat, S # {}
  PROVE  \E x \in S : \A y \in S : x <= y
<1>1. PICK n \in S : TRUE
  OBVIOUS
<1> DEFINE Low == {x \in S : x <= n}
           Below(x) == {y \in Low : y < x}
           Belows == {Below(x) : x \in Low}
<1>2. IsFiniteSet(Low)
  <2>1. Low \in SUBSET Nat /\ n \in Nat /\ \A x \in Low : x <= n
    BY <1>1
  <2> HIDE DEF Low
  <2> QED
    BY <2>1, FS_BoundedSetOfNaturals
<1>3. Belows \subseteq FiniteSubsetsOf(Low) /\ Belows # {}
  <2>1. \A x \in Low : Below(x) \in SUBSET Low /\ IsFiniteSet(Below(x))
    BY <1>2, FS_Subset
  <2>2. n \in Low
    BY <1>1
  <2> QED
    BY <2>1, <2>2 DEF FiniteSubsetsOf
<1>4. PICK U \in Belows : \A V \in Belows : ~ (<<V, U>> \in StrictSubsetOrdering(Low))
  BY <1>3, FS_StrictSubsetOrderingWellFounded, WFMin
<1>5. PICK x \in Low : U = Below(x)
  BY <1>4
<1>6. ASSUME NEW y \in Low, y < x PROVE FALSE
  <2>1. Below(y) \subseteq Below(x)
    <3>1. \A z \in Low : z < y => z < x
      BY <1>6
    <3> QED
      BY <3>1
  <2>2. y \in Below(x) /\ y \notin Below(y)
    BY <1>6
  <2>3. <<Below(y), U>> \in StrictSubsetOrdering(Low)
    BY <2>1, <2>2, <1>5 DEF StrictSubsetOrdering
  <2> QED
    BY <1>4, <2>3
<1>7. \A y \in S : x <= y
  BY <1>6, <1>1
<1> QED
  BY <1>7

\* First gives the least index.
LEMMA FirstIsLeast ==
  ASSUME NEW S \in SUBSET Nat, S # {}
  PROVE  First(S) \in S /\ \A j \in S : First(S) <= j
BY LeastExists DEF First

\* The largest of a finite set of numbers.
LEMMA LargestExists ==
  ASSUME NEW S \in SUBSET Nat, S # {}, IsFiniteSet(S)
  PROVE  \E x \in S : \A y \in S : y <= x
<1> DEFINE Above(x) == {y \in S : y > x}
           Aboves == {Above(x) : x \in S}
<1>1. Aboves \subseteq FiniteSubsetsOf(S) /\ Aboves # {}
  <2>1. \A x \in S : Above(x) \in SUBSET S /\ IsFiniteSet(Above(x))
    BY FS_Subset
  <2> QED
    BY <2>1 DEF FiniteSubsetsOf
<1>2. PICK U \in Aboves : \A V \in Aboves : ~ (<<V, U>> \in StrictSubsetOrdering(S))
  BY <1>1, FS_StrictSubsetOrderingWellFounded, WFMin
<1>3. PICK x \in S : U = Above(x)
  BY <1>2
<1>4. ASSUME NEW y \in S, y > x PROVE FALSE
  <2>1. Above(y) \subseteq Above(x)
    <3>1. \A z \in S : z > y => z > x
      BY <1>4
    <3> QED
      BY <3>1
  <2>2. y \in Above(x) /\ y \notin Above(y)
    BY <1>4
  <2>3. <<Above(y), U>> \in StrictSubsetOrdering(S)
    BY <2>1, <2>2, <1>3 DEF StrictSubsetOrdering
  <2> QED
    BY <1>2, <2>3
<1>5. \A y \in S : y <= x
  BY <1>4
<1> QED
  BY <1>5

\* Areas that share no byte are one before the other.
LEMMA ApartIs ==
  ASSUME NEW a \in Areas, NEW b \in Areas
  PROVE  /\ Apart(a, b) => \A p \in Nat : ~(p \in Bytes(a) /\ p \in Bytes(b))
         /\ a.len > 0 /\ b.len > 0 /\ (\A p \in Nat : ~(p \in Bytes(a) /\ p \in Bytes(b)))
              => Apart(a, b)
         /\ Apart(a, b) <=> Apart(b, a)
<1>1. a.at \in Nat /\ a.len \in Nat /\ b.at \in Nat /\ b.len \in Nat
  BY DEF Areas
<1>2. Apart(a, b) => \A p \in Nat : ~(p \in Bytes(a) /\ p \in Bytes(b))
  BY <1>1 DEF Apart, Bytes, End
<1>3. ASSUME a.len > 0, b.len > 0, \A p \in Nat : ~(p \in Bytes(a) /\ p \in Bytes(b))
      PROVE  Apart(a, b)
  <2>1. ~(a.at \in Bytes(a) /\ a.at \in Bytes(b)) /\ ~(b.at \in Bytes(a) /\ b.at \in Bytes(b))
    BY <1>1, <1>3
  <2> QED
    BY <2>1, <1>1, <1>3 DEF Apart, Bytes, End
<1> QED
  BY <1>2, <1>3 DEF Apart

LEMMA NoAreaIs == NoArea \in Areas /\ NoArea.at = 0 /\ NoArea.len = 0 /\ Bytes(NoArea) = {}
BY DEF NoArea, Area, Areas, Bytes, End

LEMMA AreaIs ==
  ASSUME NEW at \in Nat, NEW len \in Nat
  PROVE  /\ Area(at, len) \in Areas /\ Area(at, len).at = at /\ Area(at, len).len = len
         /\ End(Area(at, len)) = at + len
         /\ \A p \in Nat : p \in Bytes(Area(at, len)) <=> at <= p /\ p < at + len
BY DEF Area, Areas, End, Bytes

LEMMA BytesAre ==
  ASSUME NEW a \in Areas, NEW p \in Nat
  PROVE  /\ a.at \in Nat /\ a.len \in Nat /\ End(a) \in Nat /\ End(a) = a.at + a.len
         /\ p \in Bytes(a) <=> a.at <= p /\ p < End(a)
BY DEF Areas, End, Bytes

-----------------------------------------------------------------------------
(* Lists. *)

LEMMA RemoveAtIs ==
  ASSUME NEW S, NEW list \in Seq(S), NEW k \in 1..Len(list)
  PROVE  /\ RemoveAt(list, k) \in Seq(S)
         /\ Len(RemoveAt(list, k)) = Len(list) - 1
         /\ \A j \in 1..(Len(list) - 1) :
              RemoveAt(list, k)[j] = IF j < k THEN list[j] ELSE list[j + 1]
<1> DEFINE n == Len(list)
           left == SubSeq(list, 1, k - 1)
           right == SubSeq(list, k + 1, n)
<1>1. n \in Nat /\ k \in 1..n /\ \A j \in 1..n : list[j] \in S
  BY LenProperties, ElementOfSeq
<1>2. /\ left \in Seq(S) /\ Len(left) = k - 1
      /\ \A j \in 1..(k - 1) : left[j] = list[j]
  <2>1. \A j \in 1..(k - 1) : list[j] \in S
    BY <1>1
  <2>2. /\ left \in Seq(S) /\ Len(left) = IF 1 <= k - 1 THEN k - 1 - 1 + 1 ELSE 0
        /\ \A j \in 1..(k - 1 - 1 + 1) : left[j] = list[1 + j - 1]
    BY <2>1, <1>1, SubSeqProperties
  <2> QED
    BY <2>2, <1>1
<1>3. /\ right \in Seq(S) /\ Len(right) = n - k
      /\ \A j \in 1..(n - k) : right[j] = list[k + j]
  <2>1. \A j \in (k + 1)..n : list[j] \in S
    BY <1>1
  <2>2. /\ right \in Seq(S) /\ Len(right) = IF k + 1 <= n THEN n - (k + 1) + 1 ELSE 0
        /\ \A j \in 1..(n - (k + 1) + 1) : right[j] = list[k + 1 + j - 1]
    BY <2>1, <1>1, SubSeqProperties
  <2> QED
    BY <2>2, <1>1
<1>4. /\ left \o right \in Seq(S) /\ Len(left \o right) = Len(left) + Len(right)
      /\ \A j \in 1..(Len(left) + Len(right)) :
           (left \o right)[j] = IF j <= Len(left) THEN left[j] ELSE right[j - Len(left)]
  BY <1>2, <1>3, ConcatProperties
<1>5. RemoveAt(list, k) = left \o right
  BY DEF RemoveAt
<1> HIDE DEF left, right
<1>6. Len(left) + Len(right) = n - 1 /\ Len(RemoveAt(list, k)) = n - 1
  <2>1. Len(left) + Len(right) = n - 1
    BY <1>1, <1>2, <1>3
  <2>2. Len(RemoveAt(list, k)) = Len(left) + Len(right)
    BY <1>4, <1>5
  <2> QED
    BY <2>1, <2>2
<1>7. ASSUME NEW j \in 1..(n - 1)
      PROVE  RemoveAt(list, k)[j] = IF j < k THEN list[j] ELSE list[j + 1]
  <2>1. RemoveAt(list, k)[j] = IF j <= k - 1 THEN left[j] ELSE right[j - (k - 1)]
    BY <1>2, <1>4, <1>5, <1>6
  <2>2. CASE j < k
    BY <2>1, <2>2, <1>1, <1>2
  <2>3. CASE ~(j < k)
    <3>1. j - (k - 1) \in 1..(n - k) /\ k + (j - (k - 1)) = j + 1
      BY <2>3, <1>1
    <3> QED
      BY <2>1, <2>3, <3>1, <1>1, <1>3
  <2> QED
    BY <2>2, <2>3
<1> QED
  BY <1>4, <1>5, <1>6, <1>7

LEMMA InsertAtIs ==
  ASSUME NEW S, NEW list \in Seq(S), NEW k \in 1..Len(list), NEW e \in S
  PROVE  /\ InsertAt(list, k, e) \in Seq(S)
         /\ Len(InsertAt(list, k, e)) = Len(list) + 1
         /\ \A j \in 1..(Len(list) + 1) :
              InsertAt(list, k, e)[j] = IF j < k THEN list[j] ELSE IF j = k THEN e ELSE list[j - 1]
<1> DEFINE n == Len(list)
           left == SubSeq(list, 1, k - 1)
           middle == left \o <<e>>
           right == SubSeq(list, k, n)
<1>1. n \in Nat /\ k \in 1..n /\ \A j \in 1..n : list[j] \in S
  BY LenProperties, ElementOfSeq
<1>2. /\ left \in Seq(S) /\ Len(left) = k - 1
      /\ \A j \in 1..(k - 1) : left[j] = list[j]
  <2>1. \A j \in 1..(k - 1) : list[j] \in S
    BY <1>1
  <2>2. /\ left \in Seq(S) /\ Len(left) = IF 1 <= k - 1 THEN k - 1 - 1 + 1 ELSE 0
        /\ \A j \in 1..(k - 1 - 1 + 1) : left[j] = list[1 + j - 1]
    BY <2>1, <1>1, SubSeqProperties
  <2> QED
    BY <2>2, <1>1
<1>3. /\ right \in Seq(S) /\ Len(right) = n - k + 1
      /\ \A j \in 1..(n - k + 1) : right[j] = list[k + j - 1]
  <2>1. \A j \in k..n : list[j] \in S
    BY <1>1
  <2>2. /\ right \in Seq(S) /\ Len(right) = IF k <= n THEN n - k + 1 ELSE 0
        /\ \A j \in 1..(n - k + 1) : right[j] = list[k + j - 1]
    BY <2>1, <1>1, SubSeqProperties
  <2> QED
    BY <2>2, <1>1
<1>4. /\ middle \in Seq(S) /\ Len(middle) = k
      /\ \A j \in 1..k : middle[j] = IF j < k THEN list[j] ELSE e
  <2>1. <<e>> \in Seq(S) /\ Len(<<e>>) = 1 /\ <<e>>[1] = e
    OBVIOUS
  <2>2. /\ middle \in Seq(S) /\ Len(middle) = Len(left) + 1
        /\ \A j \in 1..(Len(left) + 1) :
             middle[j] = IF j <= Len(left) THEN left[j] ELSE <<e>>[j - Len(left)]
    BY <2>1, <1>2, ConcatProperties
  <2> HIDE DEF left, middle, right
  <2> QED
    BY <2>1, <2>2, <1>1, <1>2
<1>5. /\ middle \o right \in Seq(S) /\ Len(middle \o right) = Len(middle) + Len(right)
      /\ \A j \in 1..(Len(middle) + Len(right)) :
           (middle \o right)[j] = IF j <= Len(middle) THEN middle[j] ELSE right[j - Len(middle)]
  BY <1>3, <1>4, ConcatProperties
<1>6. InsertAt(list, k, e) = middle \o right
  BY DEF InsertAt
<1> HIDE DEF left, right, middle, n
<1> QED
  BY <1>1, <1>2, <1>3, <1>4, <1>5, <1>6 DEF n

LEMMA AppendIs ==
  ASSUME NEW S, NEW list \in Seq(S), NEW e \in S
  PROVE  /\ Append(list, e) \in Seq(S)
         /\ Len(Append(list, e)) = Len(list) + 1
         /\ \A j \in 1..(Len(list) + 1) :
              Append(list, e)[j] = IF j <= Len(list) THEN list[j] ELSE e
BY LenProperties

-----------------------------------------------------------------------------
(* The list of empty areas. *)

LEMMA SeparateIs ==
  ASSUME NEW list, Separate(list)
  PROVE  /\ list \in Seq(Areas) /\ Len(list) \in Nat /\ DOMAIN list = 1..Len(list)
         /\ \A k \in 1..Len(list) :
              /\ list[k] \in Areas /\ list[k].at \in Nat /\ list[k].len \in Nat
              /\ list[k].len > 0 /\ End(list[k]) = list[k].at + list[k].len
         /\ \A k \in 1..Len(list), l \in 1..Len(list), p \in Nat :
              p \in Bytes(list[k]) /\ p \in Bytes(list[l]) => k = l
<1>1. list \in Seq(Areas) /\ Len(list) \in Nat /\ DOMAIN list = 1..Len(list)
  BY LenProperties DEF Separate
<1>2. \A k \in 1..Len(list) :
        /\ list[k] \in Areas /\ list[k].at \in Nat /\ list[k].len \in Nat
        /\ list[k].len > 0 /\ End(list[k]) = list[k].at + list[k].len
  <2> SUFFICES ASSUME NEW k \in 1..Len(list)
               PROVE  list[k] \in Areas /\ list[k].len > 0
    BY BytesAre
  <2> QED
    BY <1>1, ElementOfSeq DEF Separate
<1>3. ASSUME NEW k \in 1..Len(list), NEW l \in 1..Len(list), NEW p \in Nat, k # l,
             p \in Bytes(list[k]), p \in Bytes(list[l])
      PROVE  FALSE
  <2>1. End(list[k]) < list[l].at \/ End(list[l]) < list[k].at
    <3>1. k < l \/ l < k
      BY <1>1, <1>3
    <3> QED
      BY <3>1 DEF Separate
  <2>2. list[k].at <= p /\ p < End(list[k]) /\ list[l].at <= p /\ p < End(list[l])
    BY <1>2, <1>3, BytesAre
  <2>3. list[k].at \in Nat /\ End(list[k]) \in Nat /\ list[l].at \in Nat /\ End(list[l]) \in Nat
    BY <1>2
  <2> QED
    BY <2>1, <2>2, <2>3
<1> QED
  BY <1>1, <1>2, <1>3

\* An area taken out of the list.
LEMMA RemovedIs ==
  ASSUME NEW list, Separate(list), NEW k \in 1..Len(list)
  PROVE  /\ Separate(RemoveAt(list, k))
         /\ \A p \in Nat : In(p, RemoveAt(list, k)) <=> In(p, list) /\ p \notin Bytes(list[k])
<1> DEFINE new == RemoveAt(list, k)
           n == Len(list)
           From(j) == IF j < k THEN j ELSE j + 1
<1>1. n \in Nat /\ list \in Seq(Areas)
  BY SeparateIs
<1>2. /\ new \in Seq(Areas) /\ Len(new) = n - 1
      /\ \A j \in 1..(n - 1) : new[j] = list[From(j)]
  <2>1. \A j \in 1..(n - 1) : new[j] = IF j < k THEN list[j] ELSE list[j + 1]
    BY <1>1, RemoveAtIs
  <2> QED
    BY <2>1, <1>1, RemoveAtIs
<1>3. \A j \in 1..(n - 1) : From(j) \in 1..n /\ From(j) # k
  BY <1>1
<1>4. \A j \in 1..(n - 1), l \in 1..(n - 1) : j < l => From(j) < From(l)
  BY <1>1
<1> HIDE DEF new
<1>5. Separate(new)
  <2>1. \A j \in 1..(n - 1) : new[j].len > 0
    BY <1>2, <1>3, SeparateIs
  <2>2. \A j \in 1..(n - 1), l \in 1..(n - 1) : j < l => End(new[j]) < new[l].at
    <3> SUFFICES ASSUME NEW j \in 1..(n - 1), NEW l \in 1..(n - 1), j < l
                 PROVE  End(list[From(j)]) < list[From(l)].at
      BY <1>2
    <3> HIDE DEF From
    <3> QED
      BY <1>3, <1>4 DEF Separate
  <2> QED
    BY <2>1, <2>2, <1>2 DEF Separate
<1>6. ASSUME NEW p \in Nat, In(p, new) PROVE In(p, list) /\ p \notin Bytes(list[k])
  <2>1. PICK j \in 1..(n - 1) : p \in Bytes(new[j])
    BY <1>6, <1>2 DEF In
  <2>2. p \in Bytes(list[From(j)])
    BY <2>1, <1>2
  <2> HIDE DEF From
  <2> QED
    BY <2>2, <1>3, SeparateIs DEF In
<1>7. ASSUME NEW p \in Nat, In(p, list), p \notin Bytes(list[k]) PROVE In(p, new)
  <2>1. PICK j \in 1..n : p \in Bytes(list[j])
    BY <1>7 DEF In
  <2>2. j # k
    BY <2>1, <1>7
  <2>3. PICK i \in 1..(n - 1) : From(i) = j
    <3>1. CASE j < k
      BY <3>1, <1>1
    <3>2. CASE j > k
      <4>1. j - 1 \in 1..(n - 1) /\ From(j - 1) = j
        BY <3>2, <1>1
      <4> QED
        BY <4>1
    <3> QED
      BY <2>2, <3>1, <3>2, <1>1
  <2>4. p \in Bytes(new[i])
    BY <2>1, <2>3, <1>2
  <2> QED
    BY <2>4, <1>2 DEF In
<1> QED
  BY <1>5, <1>6, <1>7 DEF new

\* An area of the list changed for another one, between the same neighbours.
LEMMA ReplacedIs ==
  ASSUME NEW list, Separate(list), NEW k \in 1..Len(list), NEW a \in Areas, a.len > 0,
         \A j \in 1..Len(list) : /\ j < k => End(list[j]) < a.at
                                 /\ k < j => End(a) < list[j].at
  PROVE  /\ Separate([list EXCEPT ![k] = a])
         /\ Len([list EXCEPT ![k] = a]) = Len(list)
         /\ \A j \in 1..Len(list) : [list EXCEPT ![k] = a][j] = IF j = k THEN a ELSE list[j]
         /\ \A p \in Nat : In(p, [list EXCEPT ![k] = a])
                             <=> p \in Bytes(a) \/ (In(p, list) /\ p \notin Bytes(list[k]))
<1> DEFINE new == [list EXCEPT ![k] = a]
<1>1. list \in Seq(Areas)
  BY SeparateIs
<1>2. /\ new \in Seq(Areas) /\ Len(new) = Len(list)
      /\ \A j \in 1..Len(list) : new[j] = IF j = k THEN a ELSE list[j]
  BY <1>1, ExceptSeq
<1> HIDE DEF new
<1>3. Separate(new)
  <2>1. \A j \in 1..Len(list) : new[j].len > 0
    BY <1>2, SeparateIs
  <2>2. \A j \in 1..Len(list), l \in 1..Len(list) : j < l => End(new[j]) < new[l].at
    <3> SUFFICES ASSUME NEW j \in 1..Len(list), NEW l \in 1..Len(list), j < l
                 PROVE  End(new[j]) < new[l].at
      OBVIOUS
    <3>1. j # l
      BY SeparateIs
    <3>2. CASE j = k
      BY <1>2, <3>1, <3>2
    <3>3. CASE l = k
      BY <1>2, <3>1, <3>3
    <3>4. CASE j # k /\ l # k
      BY <1>2, <3>4 DEF Separate
    <3> QED
      BY <3>2, <3>3, <3>4
  <2> QED
    BY <2>1, <2>2, <1>2 DEF Separate
<1>4. ASSUME NEW p \in Nat
      PROVE  In(p, new) <=> p \in Bytes(a) \/ (In(p, list) /\ p \notin Bytes(list[k]))
  <2>1. In(p, new) <=> \E j \in 1..Len(list) : p \in Bytes(IF j = k THEN a ELSE list[j])
    BY <1>2 DEF In
  <2>2. In(p, new) <=> p \in Bytes(a) \/ \E j \in 1..Len(list) : j # k /\ p \in Bytes(list[j])
    BY <2>1
  <2>3. (\E j \in 1..Len(list) : j # k /\ p \in Bytes(list[j]))
          <=> In(p, list) /\ p \notin Bytes(list[k])
    BY SeparateIs DEF In
  <2> QED
    BY <2>2, <2>3
<1> QED
  BY <1>2, <1>3, <1>4 DEF new

\* An area put between two of the list, or at its end.
LEMMA InsertedIs ==
  ASSUME NEW list, Separate(list), NEW k \in 1..Len(list), NEW a \in Areas, a.len > 0,
         \A j \in 1..Len(list) : /\ j < k => End(list[j]) < a.at
                                 /\ k <= j => End(a) < list[j].at
  PROVE  /\ Separate(InsertAt(list, k, a))
         /\ \A p \in Nat : In(p, InsertAt(list, k, a)) <=> p \in Bytes(a) \/ In(p, list)
<1> DEFINE new == InsertAt(list, k, a)
           n == Len(list)
           To(j) == IF j < k THEN j ELSE j + 1
<1>1. n \in Nat /\ list \in Seq(Areas)
  BY SeparateIs
<1>2. /\ new \in Seq(Areas) /\ Len(new) = n + 1
      /\ \A j \in 1..(n + 1) :
           new[j] = IF j < k THEN list[j] ELSE IF j = k THEN a ELSE list[j - 1]
  <2>1. new \in Seq(Areas) /\ Len(new) = n + 1
    BY <1>1, InsertAtIs
  <2>2. \A j \in 1..(n + 1) :
          new[j] = IF j < k THEN list[j] ELSE IF j = k THEN a ELSE list[j - 1]
    BY <1>1, InsertAtIs
  <2> QED
    BY <2>1, <2>2
<1> HIDE DEF new
<1>3. Separate(new)
  <2>1. ASSUME NEW j \in 1..(n + 1) PROVE new[j].len > 0
    <3>1. CASE j < k
      <4>1. j \in 1..n
        BY <3>1, <1>1
      <4> QED
        BY <3>1, <4>1, <1>2, SeparateIs
    <3>2. CASE j = k
      BY <3>2, <1>2, <1>1
    <3>3. CASE j > k
      <4>1. j - 1 \in 1..n /\ ~(j < k) /\ j # k
        BY <3>3, <1>1
      <4> QED
        BY <4>1, <1>2, SeparateIs
    <3> QED
      BY <3>1, <3>2, <3>3, <1>1
  <2>2. ASSUME NEW j \in 1..(n + 1), NEW l \in 1..(n + 1), j < l
        PROVE  End(new[j]) < new[l].at
    <3>1. CASE l < k
      <4>1. j \in 1..n /\ l \in 1..n /\ j < k
        BY <2>2, <3>1, <1>1
      <4> QED
        BY <2>2, <3>1, <4>1, <1>2 DEF Separate
    <3>2. CASE l = k
      <4>1. j \in 1..n /\ j < k /\ ~(l < k)
        BY <2>2, <3>2, <1>1
      <4> QED
        BY <3>2, <4>1, <1>2
    <3>3. CASE l > k /\ j < k
      <4>1. j \in 1..n /\ l - 1 \in 1..n /\ j < l - 1 /\ ~(l < k) /\ l # k
        BY <3>3, <1>1
      <4> QED
        BY <3>3, <4>1, <1>2 DEF Separate
    <3>4. CASE l > k /\ j = k
      <4>1. l - 1 \in 1..n /\ k <= l - 1 /\ ~(l < k) /\ l # k /\ ~(j < k)
        BY <3>4, <1>1
      <4> QED
        BY <3>4, <4>1, <1>2
    <3>5. CASE l > k /\ j > k
      <4>1. j - 1 \in 1..n /\ l - 1 \in 1..n /\ j - 1 < l - 1 /\ ~(l < k) /\ l # k /\ ~(j < k) /\ j # k
        BY <2>2, <3>5, <1>1
      <4> QED
        BY <4>1, <1>2 DEF Separate
    <3> QED
      BY <3>1, <3>2, <3>3, <3>4, <3>5, <1>1
  <2> QED
    BY <2>1, <2>2, <1>2 DEF Separate
<1>4. ASSUME NEW p \in Nat, In(p, new) PROVE p \in Bytes(a) \/ In(p, list)
  <2>1. PICK j \in 1..(n + 1) : p \in Bytes(new[j])
    BY <1>4, <1>2 DEF In
  <2>2. CASE j < k
    <3>1. j \in 1..n
      BY <2>2, <1>1
    <3> QED
      BY <2>1, <2>2, <3>1, <1>2 DEF In
  <2>3. CASE j = k
    BY <2>1, <2>3, <1>2, <1>1
  <2>4. CASE j > k
    <3>1. j - 1 \in 1..n /\ ~(j < k) /\ j # k
      BY <2>4, <1>1
    <3> QED
      BY <2>1, <3>1, <1>2 DEF In
  <2> QED
    BY <2>2, <2>3, <2>4, <1>1
<1>5. ASSUME NEW p \in Nat, p \in Bytes(a) PROVE In(p, new)
  <2>1. k \in 1..(n + 1) /\ ~(k < k)
    BY <1>1
  <2>2. new[k] = a
    BY <2>1, <1>2
  <2> QED
    BY <1>5, <2>1, <2>2, <1>2 DEF In
<1>6. ASSUME NEW p \in Nat, In(p, list) PROVE In(p, new)
  <2>1. PICK j \in 1..n : p \in Bytes(list[j])
    BY <1>6 DEF In
  <2>2. To(j) \in 1..(n + 1) /\ new[To(j)] = list[j]
    <3>1. CASE j < k
      <4>1. To(j) = j /\ j \in 1..(n + 1)
        BY <3>1, <1>1
      <4> QED
        BY <3>1, <4>1, <1>2
    <3>2. CASE ~(j < k)
      <4>1. To(j) = j + 1 /\ j + 1 \in 1..(n + 1) /\ ~(j + 1 < k) /\ j + 1 # k /\ j + 1 - 1 = j
        BY <3>2, <1>1
      <4> QED
        BY <4>1, <1>2
    <3> QED
      BY <3>1, <3>2
  <2> HIDE DEF To
  <2> QED
    BY <2>1, <2>2, <1>2 DEF In
<1> QED
  BY <1>3, <1>4, <1>5, <1>6 DEF new

LEMMA AppendedIs ==
  ASSUME NEW list, Separate(list), NEW a \in Areas, a.len > 0,
         \A j \in 1..Len(list) : End(list[j]) < a.at
  PROVE  /\ Separate(Append(list, a))
         /\ \A p \in Nat : In(p, Append(list, a)) <=> p \in Bytes(a) \/ In(p, list)
<1> DEFINE new == Append(list, a)
           n == Len(list)
<1>1. n \in Nat /\ list \in Seq(Areas)
  BY SeparateIs
<1>2. /\ new \in Seq(Areas) /\ Len(new) = n + 1
      /\ \A j \in 1..(n + 1) : new[j] = IF j <= n THEN list[j] ELSE a
  BY <1>1, AppendIs
<1> HIDE DEF new
<1>3. \A j \in 1..(n + 1) : (j \in 1..n /\ j <= n) \/ (j = n + 1 /\ ~(j <= n))
  BY <1>1
<1>4. Separate(new)
  <2>1. \A j \in 1..(n + 1) : new[j].len > 0
    BY <1>2, <1>3, SeparateIs
  <2>2. ASSUME NEW j \in 1..(n + 1), NEW l \in 1..(n + 1), j < l
        PROVE  End(new[j]) < new[l].at
    <3>1. j \in 1..n /\ j <= n
      BY <2>2, <1>1
    <3>2. CASE l \in 1..n /\ l <= n
      BY <2>2, <3>1, <3>2, <1>2 DEF Separate
    <3>3. CASE l = n + 1 /\ ~(l <= n)
      BY <3>1, <3>3, <1>2
    <3> QED
      BY <3>2, <3>3, <1>3
  <2> QED
    BY <2>1, <2>2, <1>2 DEF Separate
<1>5. \A p \in Nat : In(p, new) => p \in Bytes(a) \/ In(p, list)
  BY <1>2, <1>3 DEF In
<1>6. \A p \in Nat : p \in Bytes(a) \/ In(p, list) => In(p, new)
  <2>1. n + 1 \in 1..(n + 1) /\ ~(n + 1 <= n) /\ \A j \in 1..n : j \in 1..(n + 1) /\ j <= n
    BY <1>1
  <2> QED
    BY <2>1, <1>2 DEF In
<1> QED
  BY <1>4, <1>5, <1>6 DEF new

\* findNewArea: in an area of the list, which keeps the rest, or at the end.
LEMMA FoundIs ==
  ASSUME NEW list, Separate(list), NEW size \in Nat, size >= MinSize, NEW end \in Nat
  PROVE  LET found == FindNewArea(list, size, end) IN
         /\ found.area \in Areas /\ found.area.len >= size
         /\ Separate(found.empties)
         /\ found.atEnd \in BOOLEAN
         /\ found.atEnd => found.area = Area(end, size) /\ found.empties = list
         /\ ~found.atEnd => \A p \in Nat :
              /\ p \in Bytes(found.area) => In(p, list)
              /\ In(p, found.empties) <=> In(p, list) /\ p \notin Bytes(found.area)
<1> DEFINE found == FindNewArea(list, size, end)
           fitting == {k \in DOMAIN list : list[k].len \in size..(size + MinSize - 1)}
           larger == {k \in DOMAIN list : list[k].len >= size + MinSize}
           smallest == {j \in larger : \A l \in larger : list[j].len <= list[l].len}
<1>1. /\ list \in Seq(Areas) /\ DOMAIN list = 1..Len(list) /\ Len(list) \in Nat
      /\ MinSize \in Nat /\ MinSize > 0
  BY SeparateIs, SizesAssumption
<1>2. CASE fitting # {}
  <2> DEFINE k == First(fitting)
  <2>1. k \in fitting
    <3>1. fitting \in SUBSET Nat
      BY <1>1
    <3> HIDE DEF fitting
    <3> QED
      BY <1>2, <3>1, FirstIsLeast
  <2>2. k \in 1..Len(list) /\ list[k].len >= size
    BY <2>1, <1>1, SeparateIs
  <2>3. found = [area |-> list[k], atEnd |-> FALSE, empties |-> RemoveAt(list, k)]
    BY <1>2 DEF FindNewArea
  <2> HIDE DEF k, found
  <2>4. list[k] \in Areas
    BY <2>2, SeparateIs
  <2>5. \A p \in Nat : p \in Bytes(list[k]) => In(p, list)
    BY <2>2 DEF In
  <2>6. /\ Separate(RemoveAt(list, k))
        /\ \A p \in Nat : In(p, RemoveAt(list, k)) <=> In(p, list) /\ p \notin Bytes(list[k])
    BY <2>2, RemovedIs
  <2> QED
    BY <2>2, <2>3, <2>4, <2>5, <2>6 DEF found
<1>3. CASE fitting = {} /\ larger # {}
  <2> DEFINE k == First(smallest)
             cut == Area(list[k].at + size, list[k].len - size)
             area == Area(list[k].at, size)
  <2>1. smallest # {}
    <3> DEFINE lens == {list[j].len : j \in larger}
    <3>1. lens \in SUBSET Nat /\ lens # {}
      BY <1>3, <1>1, SeparateIs
    <3> HIDE DEF lens
    <3>2. PICK n \in lens : \A m \in lens : n <= m
      BY <3>1, LeastExists
    <3>3. PICK j \in larger : list[j].len = n
      BY <3>2 DEF lens
    <3>4. \A l \in larger : list[j].len <= list[l].len
      BY <3>2, <3>3 DEF lens
    <3> QED
      BY <3>3, <3>4
  <2>2. k \in smallest
    <3>1. smallest \in SUBSET Nat
      BY <1>1
    <3> HIDE DEF smallest
    <3> QED
      BY <2>1, <3>1, FirstIsLeast
  <2>3. k \in 1..Len(list) /\ list[k].len >= size + MinSize
    BY <2>2, <1>1
  <2>4. found = [area |-> area, atEnd |-> FALSE, empties |-> [list EXCEPT ![k] = cut]]
    BY <1>3 DEF FindNewArea
  <2> HIDE DEF k
  <2>5. /\ list[k] \in Areas /\ list[k].at \in Nat /\ list[k].len \in Nat
        /\ End(list[k]) = list[k].at + list[k].len
    BY <2>3, SeparateIs
  <2>6. list[k].len - size \in Nat /\ list[k].len - size > 0
    BY <2>3, <2>5, <1>1
  <2>7. /\ cut \in Areas /\ cut.at = list[k].at + size /\ cut.len > 0
        /\ End(cut) = End(list[k])
        /\ area \in Areas /\ area.at = list[k].at /\ area.len = size
        /\ End(area) = list[k].at + size
    <3>1. list[k].at + size \in Nat
      BY <2>5
    <3>2. /\ cut \in Areas /\ cut.at = list[k].at + size /\ cut.len = list[k].len - size
          /\ End(cut) = list[k].at + size + (list[k].len - size)
      BY <2>6, <3>1, AreaIs
    <3>3. /\ area \in Areas /\ area.at = list[k].at /\ area.len = size
          /\ End(area) = list[k].at + size
      BY <2>5, AreaIs
    <3> QED
      BY <2>5, <2>6, <3>2, <3>3
  <2> HIDE DEF cut, area, found
  <2>8. \A p \in Nat : /\ p \in Bytes(cut) <=> list[k].at + size <= p /\ p < End(list[k])
                       /\ p \in Bytes(area) <=> list[k].at <= p /\ p < list[k].at + size
                       /\ p \in Bytes(list[k]) <=> list[k].at <= p /\ p < End(list[k])
    BY <2>5, <2>7, BytesAre
  <2>9. \A j \in 1..Len(list) : /\ j < k => End(list[j]) < cut.at
                                /\ k < j => End(cut) < list[j].at
    <3>1. \A j \in 1..Len(list) : /\ j < k => End(list[j]) < list[k].at
                                  /\ k < j => End(list[k]) < list[j].at
      BY <2>3 DEF Separate
    <3>2. \A j \in 1..Len(list) : End(list[j]) \in Nat
      BY SeparateIs
    <3> QED
      BY <3>1, <3>2, <2>5, <2>7
  <2>10. /\ Separate([list EXCEPT ![k] = cut])
         /\ \A p \in Nat : In(p, [list EXCEPT ![k] = cut])
                             <=> p \in Bytes(cut) \/ (In(p, list) /\ p \notin Bytes(list[k]))
    BY <2>3, <2>7, <2>9, ReplacedIs
  <2>11. \A p \in Nat : /\ p \in Bytes(area) => p \in Bytes(list[k])
                        /\ p \in Bytes(cut) <=> p \in Bytes(list[k]) /\ p \notin Bytes(area)
    BY <2>3, <2>5, <2>8, <1>1
  <2>12. \A p \in Nat : p \in Bytes(list[k]) => In(p, list)
    BY <2>3 DEF In
  <2>13. \A p \in Nat : In(p, [list EXCEPT ![k] = cut]) <=> In(p, list) /\ p \notin Bytes(area)
    BY <2>10, <2>11, <2>12
  <2>14. area.len >= size
    BY <2>7
  <2>15. \A p \in Nat : p \in Bytes(area) => In(p, list)
    BY <2>11, <2>12
  <2> HIDE DEF fitting, larger
  <2>16. found.area = area /\ found.atEnd = FALSE /\ found.empties = [list EXCEPT ![k] = cut]
    BY <2>4
  <2>17. Separate(found.empties)
    BY <2>10, <2>16
  <2>18. \A p \in Nat : In(p, found.empties) <=> In(p, list) /\ p \notin Bytes(found.area)
    BY <2>13, <2>16
  <2> QED
    BY <2>7, <2>14, <2>15, <2>16, <2>17, <2>18 DEF found
<1>4. CASE fitting = {} /\ larger = {}
  <2>1. (IF size > MinSize THEN size ELSE MinSize) = size
    BY <1>1
  <2>2. found = [area |-> Area(end, size), atEnd |-> TRUE, empties |-> list]
    BY <1>4, <2>1 DEF FindNewArea
  <2>3. Area(end, size) \in Areas /\ Area(end, size).len = size
    BY AreaIs
  <2>4. size >= size
    OBVIOUS
  <2> HIDE DEF found
  <2> QED
    BY <2>2, <2>3, <2>4 DEF found
<1> QED
  BY <1>2, <1>3, <1>4

\* An area and the one after it made one.
LEMMA MergedIs ==
  ASSUME NEW list, Separate(list), NEW k \in 1..Len(list), k < Len(list), NEW a \in Areas,
         a.len > 0, End(a) = End(list[k + 1]),
         \A j \in 1..Len(list) : j < k => End(list[j]) < a.at
  PROVE  /\ Separate(RemoveAt([list EXCEPT ![k] = a], k + 1))
         /\ \A p \in Nat : In(p, RemoveAt([list EXCEPT ![k] = a], k + 1))
              <=> \/ p \in Bytes(a)
                  \/ In(p, list) /\ p \notin Bytes(list[k]) /\ p \notin Bytes(list[k + 1])
<1> DEFINE n == Len(list)
           changed == [list EXCEPT ![k] = a]
           left == RemoveAt(list, k + 1)
           new == RemoveAt(changed, k + 1)
<1>1. /\ list \in Seq(Areas) /\ n \in Nat /\ k + 1 \in 1..n /\ k \in 1..(n - 1)
  BY SeparateIs
<1>2. /\ changed \in Seq(Areas) /\ Len(changed) = n
      /\ \A j \in 1..n : changed[j] = IF j = k THEN a ELSE list[j]
  BY <1>1, ExceptSeq
<1>3. /\ left \in Seq(Areas) /\ Len(left) = n - 1
      /\ \A j \in 1..(n - 1) : left[j] = IF j < k + 1 THEN list[j] ELSE list[j + 1]
  <2>1. left \in Seq(Areas) /\ Len(left) = n - 1
    BY <1>1, RemoveAtIs
  <2>2. \A j \in 1..(n - 1) : left[j] = IF j < k + 1 THEN list[j] ELSE list[j + 1]
    BY <1>1, RemoveAtIs
  <2> QED
    BY <2>1, <2>2
<1>4. /\ new \in Seq(Areas) /\ Len(new) = n - 1
      /\ \A j \in 1..(n - 1) : new[j] = IF j < k + 1 THEN changed[j] ELSE changed[j + 1]
  <2> HIDE DEF changed
  <2>1. new \in Seq(Areas) /\ Len(new) = n - 1
    BY <1>1, <1>2, RemoveAtIs
  <2>2. \A j \in 1..(n - 1) : new[j] = IF j < k + 1 THEN changed[j] ELSE changed[j + 1]
    BY <1>1, <1>2, RemoveAtIs
  <2> QED
    BY <2>1, <2>2
<1>5. new = [left EXCEPT ![k] = a]
  <2> HIDE DEF new, left, changed
  <2>1. /\ [left EXCEPT ![k] = a] \in Seq(Areas) /\ Len([left EXCEPT ![k] = a]) = n - 1
        /\ \A j \in 1..(n - 1) : [left EXCEPT ![k] = a][j] = IF j = k THEN a ELSE left[j]
    BY <1>1, <1>3, ExceptSeq
  <2>2. ASSUME NEW j \in 1..(n - 1) PROVE new[j] = [left EXCEPT ![k] = a][j]
    <3>1. CASE j < k + 1
      <4>1. j \in 1..n
        BY <1>1
      <4> QED
        BY <3>1, <4>1, <2>1, <1>2, <1>3, <1>4
    <3>2. CASE ~(j < k + 1)
      <4>1. j + 1 \in 1..n /\ j # k /\ j + 1 # k
        BY <3>2, <1>1
      <4> QED
        BY <3>2, <4>1, <2>1, <1>2, <1>3, <1>4
    <3> QED
      BY <3>1, <3>2
  <2> QED
    BY <2>1, <2>2, <1>4, SeqEqual
<1>6. /\ Separate(left)
      /\ \A p \in Nat : In(p, left) <=> In(p, list) /\ p \notin Bytes(list[k + 1])
  BY <1>1, RemovedIs
<1>7. k \in 1..Len(left) /\ left[k] = list[k]
  BY <1>1, <1>3
<1>8. \A j \in 1..Len(left) : /\ j < k => End(left[j]) < a.at
                              /\ k < j => End(a) < left[j].at
  <2> SUFFICES ASSUME NEW j \in 1..(n - 1)
               PROVE  (j < k => End(left[j]) < a.at) /\ (k < j => End(a) < left[j].at)
    BY <1>3
  <2>1. CASE j < k
    <3>1. j \in 1..n /\ j < k + 1 /\ ~(k < j)
      BY <2>1, <1>1
    <3> QED
      BY <2>1, <3>1, <1>3
  <2>2. CASE k < j
    <3>1. j + 1 \in 1..n /\ k + 1 < j + 1 /\ ~(j < k + 1) /\ ~(j < k)
      BY <2>2, <1>1
    <3>2. left[j] = list[j + 1]
      BY <3>1, <1>3
    <3>3. End(list[k + 1]) < list[j + 1].at
      BY <3>1, <1>1 DEF Separate
    <3> QED
      BY <3>1, <3>2, <3>3
  <2>3. CASE j = k
    BY <2>3, <1>1
  <2> QED
    BY <2>1, <2>2, <2>3, <1>1
<1> HIDE DEF left, new, changed
<1>9. /\ Separate([left EXCEPT ![k] = a])
      /\ \A p \in Nat : In(p, [left EXCEPT ![k] = a])
                          <=> p \in Bytes(a) \/ (In(p, left) /\ p \notin Bytes(left[k]))
  BY <1>6, <1>7, <1>8, ReplacedIs
<1>10. \A p \in Nat : In(p, new)
              <=> \/ p \in Bytes(a)
                  \/ In(p, list) /\ p \notin Bytes(list[k]) /\ p \notin Bytes(list[k + 1])
  BY <1>5, <1>6, <1>7, <1>9
<1> QED
  BY <1>5, <1>9, <1>10 DEF new, changed

\* An area that doesn't start after another one, nor touch it, ends before it.
LEMMA EndsBefore ==
  ASSUME NEW at \in Nat, NEW len \in Nat, NEW end, end = at + len,
         NEW from \in Nat, NEW more \in Nat, more > 0, NEW to, to = from + more,
         end # from, ~(at > from), end <= from \/ to <= at
  PROVE  end < from
OBVIOUS

\* vacateOldArea: the list has the bytes of the area too, merged as far as can be.
LEMMA VacatedIs ==
  ASSUME NEW list, Separate(list), NEW old \in Areas, old.len > 0,
         \A p \in Nat : p \in Bytes(old) => ~In(p, list)
  PROVE  /\ Separate(VacateOldArea(list, old))
         /\ \A p \in Nat : In(p, VacateOldArea(list, old)) <=> In(p, list) \/ p \in Bytes(old)
<1> DEFINE n == Len(list)
           hits == {k \in DOMAIN list : End(list[k]) = old.at \/ list[k].at > old.at}
           k == First(hits)
           before == [list EXCEPT ![k] = Area(@.at, @.len + old.len)]
           new == VacateOldArea(list, old)
<1>1. /\ list \in Seq(Areas) /\ DOMAIN list = 1..n /\ n \in Nat
      /\ \A j \in 1..n : /\ list[j] \in Areas /\ list[j].at \in Nat /\ list[j].len \in Nat
                         /\ list[j].len > 0 /\ End(list[j]) = list[j].at + list[j].len
      /\ \A i \in 1..n, j \in 1..n : i < j => End(list[i]) < list[j].at
  BY SeparateIs DEF Separate
<1>2. old.at \in Nat /\ old.len \in Nat /\ End(old) \in Nat /\ End(old) = old.at + old.len
  BY BytesAre
<1>3. ASSUME NEW j \in 1..n PROVE End(list[j]) <= old.at \/ End(old) <= list[j].at
  <2>1. \A p \in Nat : ~(p \in Bytes(list[j]) /\ p \in Bytes(old))
    BY DEF In
  <2>2. Apart(list[j], old)
    BY <2>1, <1>1, ApartIs
  <2> QED
    BY <2>2 DEF Apart
<1>4. CASE hits = {}
  <2>1. new = Append(list, old)
    BY <1>4 DEF VacateOldArea
  <2>2. ASSUME NEW j \in 1..n PROVE End(list[j]) < old.at
    <3>1. End(list[j]) # old.at /\ ~(list[j].at > old.at)
      BY <1>4, <1>1
    <3>2. End(list[j]) <= old.at \/ End(old) <= list[j].at
      BY <1>3
    <3>3. list[j].at \in Nat /\ list[j].len \in Nat /\ End(list[j]) = list[j].at + list[j].len
      BY <1>1
    <3> HIDE DEF new, before, k, hits
    <3> QED
      BY <3>1, <3>2, <3>3, <1>2
  <2> HIDE DEF new
  <2> QED
    BY <2>1, <2>2, AppendedIs DEF new
<1>5. CASE hits # {}
  <2>1. k \in hits /\ \A j \in hits : k <= j
    <3>1. hits \in SUBSET Nat
      BY <1>1
    <3> HIDE DEF hits
    <3> QED
      BY <3>1, <1>5, FirstIsLeast
  <2>2. k \in 1..n /\ (End(list[k]) = old.at \/ list[k].at > old.at)
    BY <2>1, <1>1
  <2>3. ASSUME NEW j \in 1..n, j < k PROVE End(list[j]) < old.at
    <3>1. j \notin hits
      <4> HIDE DEF hits, k
      <4>1. k \in Nat
        BY <2>2, <1>1
      <4> QED
        BY <2>1, <2>3, <4>1
    <3>2. End(list[j]) # old.at /\ ~(list[j].at > old.at)
      BY <3>1, <1>1
    <3>3. End(list[j]) <= old.at \/ End(old) <= list[j].at
      BY <1>3
    <3>4. list[j].at \in Nat /\ list[j].len \in Nat /\ End(list[j]) = list[j].at + list[j].len
      BY <1>1
    <3>5. old.at \in Nat /\ old.len \in Nat /\ old.len > 0 /\ End(old) = old.at + old.len
      BY <1>2
    <3> HIDE DEF new, before, k, hits
    <3> QED
      BY <3>2, <3>3, <3>4, <3>5, EndsBefore
  <2>4. new = IF End(list[k]) = old.at
              THEN IF k < n /\ End(before[k]) = list[k + 1].at
                   THEN RemoveAt([before EXCEPT ![k] = Area(@.at, @.len + list[k + 1].len)], k + 1)
                   ELSE before
              ELSE IF list[k].at = End(old)
              THEN [list EXCEPT ![k] = Area(old.at, @.len + old.len)]
              ELSE InsertAt(list, k, old)
    BY <1>5 DEF VacateOldArea
  <2> HIDE DEF k, hits, new
  <2>5. list[k].at \in Nat /\ list[k].len \in Nat /\ list[k].len > 0 /\ list[k] \in Areas
        /\ End(list[k]) = list[k].at + list[k].len /\ k \in Nat
    BY <2>2, <1>1
  <2>6. \A p \in Nat : /\ p \in Bytes(old) <=> old.at <= p /\ p < End(old)
                       /\ p \in Bytes(list[k]) <=> list[k].at <= p /\ p < End(list[k])
                       /\ p \in Bytes(list[k]) => In(p, list)
    BY <2>2, <2>5, BytesAre DEF In
  <2>7. CASE End(list[k]) = old.at
    <3> DEFINE a == Area(list[k].at, list[k].len + old.len)
    <3>1. /\ a \in Areas /\ a.at = list[k].at /\ a.len = list[k].len + old.len /\ a.len > 0
          /\ End(a) = End(old)
      <4>1. list[k].len + old.len \in Nat
        BY <2>5, <1>2
      <4>2. /\ a \in Areas /\ a.at = list[k].at /\ a.len = list[k].len + old.len
            /\ End(a) = list[k].at + (list[k].len + old.len)
        <5>1. list[k].at \in Nat
          BY <2>5
        <5> QED
          BY <4>1, <5>1, AreaIs
      <4> QED
        BY <4>2, <2>5, <2>7, <1>2
    <3> HIDE DEF a
    <3>2. ASSUME NEW j \in 1..n, k < j PROVE old.at < list[j].at /\ End(old) <= list[j].at
      <4>1. End(list[k]) < list[j].at
        BY <3>2, <2>2, <1>1
      <4>2. list[j].at \in Nat /\ list[j].len \in Nat /\ End(list[j]) = list[j].at + list[j].len
        BY <1>1
      <4>3. End(list[j]) <= old.at \/ End(old) <= list[j].at
        BY <1>3
      <4> QED
        BY <4>1, <4>2, <4>3, <2>7, <1>2
    <3>3. \A j \in 1..n : j < k => End(list[j]) < a.at
      BY <3>1, <2>2, <1>1
    <3>4. \A p \in Nat : p \in Bytes(a) <=> p \in Bytes(list[k]) \/ p \in Bytes(old)
      <4>1. \A p \in Nat : p \in Bytes(a) <=> list[k].at <= p /\ p < End(old)
        BY <3>1, BytesAre
      <4> QED
        BY <4>1, <2>5, <2>6, <2>7, <1>2
    <3>5. before = [list EXCEPT ![k] = a]
      BY DEF a
    <3>6. before[k] = a
      BY <3>5, <2>2, <1>1
    <3>7. CASE k < n /\ End(a) = list[k + 1].at
      <4> DEFINE b == Area(list[k].at, list[k].len + old.len + list[k + 1].len)
      <4>1. k + 1 \in 1..n
        BY <3>7, <2>2, <1>1
      <4>2. /\ list[k + 1].at \in Nat /\ list[k + 1].len \in Nat /\ list[k + 1].len > 0
            /\ list[k + 1] \in Areas /\ End(list[k + 1]) = list[k + 1].at + list[k + 1].len
        BY <4>1, <1>1
      <4>3. /\ b \in Areas /\ b.at = list[k].at /\ b.len > 0
            /\ End(b) = End(list[k + 1])
        <5>1. list[k].len + old.len + list[k + 1].len \in Nat
          BY <2>5, <1>2, <4>2
        <5>2. /\ b \in Areas /\ b.at = list[k].at
              /\ b.len = list[k].len + old.len + list[k + 1].len
              /\ End(b) = list[k].at + (list[k].len + old.len + list[k + 1].len)
          BY <5>1, <2>5, AreaIs
        <5>3. End(old) = list[k + 1].at
          BY <3>7, <3>1
        <5> HIDE DEF b, before
        <5>4. b.len > 0
          BY <5>2, <2>5, <1>2, <4>2
        <5>5. End(b) = End(list[k + 1])
          <6>1. list[k].at + list[k].len = old.at /\ old.at + old.len = list[k + 1].at
            BY <5>3, <2>5, <2>7, <1>2
          <6>2. list[k].at + (list[k].len + old.len + list[k + 1].len)
                  = list[k + 1].at + list[k + 1].len
            BY <6>1, <2>5, <1>2, <4>2
          <6> QED
            BY <6>2, <5>2, <4>2
        <5> QED
          BY <5>2, <5>4, <5>5
      <4>4. new = RemoveAt([list EXCEPT ![k] = b], k + 1)
        <5>1. [before EXCEPT ![k] = Area(@.at, @.len + list[k + 1].len)] = [list EXCEPT ![k] = b]
          <6>1. Area(a.at, a.len + list[k + 1].len) = b
            BY <3>1
          <6>2. [before EXCEPT ![k] = Area(@.at, @.len + list[k + 1].len)]
                  = [before EXCEPT ![k] = b]
            BY <6>1, <3>6
          <6> HIDE DEF b
          <6> QED
            BY <6>2, <3>5
        <5>2. new = RemoveAt([before EXCEPT ![k] = Area(@.at, @.len + list[k + 1].len)], k + 1)
          BY <2>4, <2>7, <3>6, <3>7
        <5> QED
          BY <5>1, <5>2
      <4> HIDE DEF b
      <4>5. \A j \in 1..n : j < k => End(list[j]) < b.at
        BY <4>3, <2>2, <1>1
      <4>6. /\ Separate(RemoveAt([list EXCEPT ![k] = b], k + 1))
            /\ \A p \in Nat : In(p, RemoveAt([list EXCEPT ![k] = b], k + 1))
                 <=> \/ p \in Bytes(b)
                     \/ In(p, list) /\ p \notin Bytes(list[k]) /\ p \notin Bytes(list[k + 1])
        BY <2>2, <3>7, <4>3, <4>5, MergedIs
      <4>7. \A p \in Nat : p \in Bytes(b)
              <=> p \in Bytes(list[k]) \/ p \in Bytes(old) \/ p \in Bytes(list[k + 1])
        <5>1. \A p \in Nat : p \in Bytes(b) <=> list[k].at <= p /\ p < End(list[k + 1])
          BY <4>3, BytesAre
        <5>2. \A p \in Nat : p \in Bytes(list[k + 1])
                               <=> list[k + 1].at <= p /\ p < End(list[k + 1])
          BY <4>2, BytesAre
        <5>3. End(old) = list[k + 1].at
          BY <3>7, <3>1
        <5> QED
          BY <5>1, <5>2, <5>3, <4>2, <2>5, <2>6, <2>7, <1>2
      <4>8. \A p \in Nat : p \in Bytes(list[k + 1]) => In(p, list)
        BY <4>1 DEF In
      <4>9. \A p \in Nat : In(p, new) <=> In(p, list) \/ p \in Bytes(old)
        BY <4>4, <4>6, <4>7, <4>8, <2>6
      <4> QED
        BY <4>4, <4>6, <4>9 DEF new
    <3>8. CASE ~(k < n /\ End(a) = list[k + 1].at)
      <4>1. new = before
        BY <2>4, <2>7, <3>6, <3>8
      <4>2. ASSUME NEW j \in 1..n, k < j PROVE End(a) < list[j].at
        <5>1. k + 1 \in 1..n /\ k < n
          BY <4>2, <2>2, <1>1
        <5>2. End(old) < list[k + 1].at
          BY <5>1, <3>1, <3>2, <3>8, <1>1, <1>2, <2>5
        <5>3. CASE j = k + 1
          BY <5>2, <5>3, <3>1
        <5>4. CASE j # k + 1
          <6>1. k + 1 < j
            BY <5>4, <4>2, <2>5
          <6>2. End(list[k + 1]) < list[j].at
            BY <6>1, <5>1, <1>1
          <6>3. /\ list[k + 1].at \in Nat /\ list[k + 1].len > 0 /\ list[k + 1].len \in Nat
                /\ End(list[k + 1]) = list[k + 1].at + list[k + 1].len /\ list[j].at \in Nat
            BY <5>1, <1>1
          <6> QED
            BY <6>2, <6>3, <5>2, <3>1, <1>2
        <5> QED
          BY <5>3, <5>4
      <4>3. /\ Separate([list EXCEPT ![k] = a])
            /\ \A p \in Nat : In(p, [list EXCEPT ![k] = a])
                                <=> p \in Bytes(a) \/ (In(p, list) /\ p \notin Bytes(list[k]))
        BY <2>2, <3>1, <3>3, <4>2, ReplacedIs
      <4>4. \A p \in Nat : In(p, new) <=> In(p, list) \/ p \in Bytes(old)
        BY <4>1, <4>3, <3>4, <3>5, <2>6
      <4> QED
        BY <4>1, <4>3, <4>4, <3>5 DEF new
    <3> QED
      BY <3>7, <3>8
  <2>8. CASE End(list[k]) # old.at
    <3>1. list[k].at > old.at /\ End(old) <= list[k].at
      BY <2>2, <2>5, <2>8, <1>2, <1>3
    <3>2. ASSUME NEW j \in 1..n, k < j PROVE End(list[k]) < list[j].at
      BY <3>2, <2>2, <1>1
    <3>3. CASE list[k].at = End(old)
      <4> DEFINE a == Area(old.at, list[k].len + old.len)
      <4>1. /\ a \in Areas /\ a.at = old.at /\ a.len > 0 /\ End(a) = End(list[k])
        <5>1. list[k].len + old.len \in Nat
          BY <2>5, <1>2
        <5>2. /\ a \in Areas /\ a.at = old.at /\ a.len = list[k].len + old.len
              /\ End(a) = old.at + (list[k].len + old.len)
          BY <5>1, <1>2, AreaIs
        <5> QED
          BY <5>2, <2>5, <3>3, <1>2
      <4>2. new = [list EXCEPT ![k] = a]
        BY <2>4, <2>8, <3>3
      <4> HIDE DEF a
      <4>3. \A j \in 1..n : /\ j < k => End(list[j]) < a.at
                            /\ k < j => End(a) < list[j].at
        BY <4>1, <2>3, <3>2
      <4>4. /\ Separate([list EXCEPT ![k] = a])
            /\ \A p \in Nat : In(p, [list EXCEPT ![k] = a])
                                <=> p \in Bytes(a) \/ (In(p, list) /\ p \notin Bytes(list[k]))
        BY <2>2, <4>1, <4>3, ReplacedIs
      <4>5. \A p \in Nat : p \in Bytes(a) <=> p \in Bytes(list[k]) \/ p \in Bytes(old)
        <5>1. \A p \in Nat : p \in Bytes(a) <=> old.at <= p /\ p < End(list[k])
          BY <4>1, BytesAre
        <5> QED
          BY <5>1, <2>5, <2>6, <3>3, <1>2
      <4>6. \A p \in Nat : In(p, new) <=> In(p, list) \/ p \in Bytes(old)
        BY <4>2, <4>4, <4>5, <2>6
      <4> QED
        BY <4>2, <4>4, <4>6 DEF new
    <3>4. CASE list[k].at # End(old)
      <4>1. new = InsertAt(list, k, old)
        BY <2>4, <2>8, <3>4
      <4>2. End(old) < list[k].at
        BY <3>1, <3>4, <2>5, <1>2
      <4>3. ASSUME NEW j \in 1..n, k <= j PROVE End(old) < list[j].at
        <5>1. CASE j = k
          BY <5>1, <4>2
        <5>2. CASE k < j
          BY <5>2, <3>2, <4>2, <2>5, <1>1, <1>2
        <5> QED
          BY <5>1, <5>2, <4>3, <2>5
      <4>4. /\ Separate(InsertAt(list, k, old))
            /\ \A p \in Nat : In(p, InsertAt(list, k, old)) <=> p \in Bytes(old) \/ In(p, list)
        BY <2>2, <2>3, <4>3, InsertedIs
      <4> QED
        BY <4>1, <4>4 DEF new
    <3> QED
      BY <3>3, <3>4
  <2> QED
    BY <2>7, <2>8
<1> QED
  BY <1>4, <1>5

-----------------------------------------------------------------------------
(* Places of blocks and definitions. *)

LEMMA SizesAre ==
  /\ BlocSize \in Nat /\ BlocSize > 0 /\ BlocBytes \in Nat /\ BlocBytes > 0
  /\ HeadBytes \in Nat /\ HeadBytes > 0 /\ QueueBytes \in Nat /\ QueueBytes > 0
  /\ MaxBlocs \in Nat /\ MaxBlocs > 0 /\ MaxBytes \in Nat
  /\ MinSize \in Nat /\ MinSize > HeadBytes
  /\ \A v \in Values : Size[v] \in Nat /\ Size[v] >= MinSize /\ Size[v] > 0
BY SizesAssumption

LEMMA ReachGrows ==
  ASSUME NEW blocs, NEW more, Len(blocs) \in Nat, Len(more) \in Nat, Len(blocs) <= Len(more)
  PROVE  Reach(blocs) \subseteq Reach(more)
<1>1. BlocSize * Len(blocs) <= BlocSize * Len(more)
  BY SizesAre
<1>2. BlocSize * Len(blocs) \in Nat /\ BlocSize * Len(more) \in Nat
  BY SizesAre
<1>3. \A i \in Idents : i \in Int
  BY DEF Idents
<1> QED
  BY <1>1, <1>2, <1>3 DEF Reach

LEMMA ChainedIs ==
  ASSUME NEW blocs, NEW end, Chained(blocs, end)
  PROVE  /\ end \in Nat /\ end > HeadBytes + 1 /\ Len(blocs) \in Nat /\ Len(blocs) > 0
         /\ DOMAIN blocs = 1..Len(blocs)
         /\ \A b \in 1..Len(blocs) :
              /\ blocs[b] \in Nat /\ blocs[b] > HeadBytes /\ blocs[b] + BlocBytes <= end
              /\ BlocOf(blocs, b) \in Areas /\ BlocOf(blocs, b).at = blocs[b]
              /\ BlocOf(blocs, b).len = BlocBytes /\ End(BlocOf(blocs, b)) = blocs[b] + BlocBytes
         /\ \A b \in 1..Len(blocs), c \in 1..Len(blocs) :
              b # c => Apart(BlocOf(blocs, b), BlocOf(blocs, c))
<1>1. /\ blocs \in Seq(Nat) /\ Len(blocs) > 0 /\ blocs[1] = HeadBytes + 1 /\ end \in Nat
      /\ \A b \in 1..Len(blocs) : blocs[b] + BlocBytes <= end
      /\ \A b \in 1..Len(blocs), c \in 1..Len(blocs) : b < c => blocs[b] + BlocBytes <= blocs[c]
  BY DEF Chained
<1>2. Len(blocs) \in Nat /\ DOMAIN blocs = 1..Len(blocs) /\ \A b \in 1..Len(blocs) : blocs[b] \in Nat
  BY <1>1, LenProperties, ElementOfSeq
<1>3. 1 \in 1..Len(blocs)
  BY <1>1, <1>2
<1>4. end > HeadBytes + 1
  <2>1. blocs[1] + BlocBytes <= end
    BY <1>1, <1>3
  <2> QED
    BY <1>1, <2>1, SizesAre
<1>5. ASSUME NEW b \in 1..Len(blocs) PROVE blocs[b] > HeadBytes
  <2>1. CASE b = 1
    BY <1>1, <2>1, SizesAre
  <2>2. CASE 1 < b
    <3>1. blocs[1] + BlocBytes <= blocs[b]
      BY <1>1, <1>3, <2>2
    <3> QED
      BY <3>1, <1>1, <1>2, SizesAre
  <2> QED
    BY <2>1, <2>2, <1>2
<1>6. ASSUME NEW b \in 1..Len(blocs)
      PROVE  /\ BlocOf(blocs, b) \in Areas /\ BlocOf(blocs, b).at = blocs[b]
             /\ BlocOf(blocs, b).len = BlocBytes /\ End(BlocOf(blocs, b)) = blocs[b] + BlocBytes
  BY <1>2, SizesAre, AreaIs DEF BlocOf
<1>7. ASSUME NEW b \in 1..Len(blocs), NEW c \in 1..Len(blocs), b # c
      PROVE  Apart(BlocOf(blocs, b), BlocOf(blocs, c))
  <2>1. blocs[b] + BlocBytes <= blocs[c] \/ blocs[c] + BlocBytes <= blocs[b]
    BY <1>1, <1>2, <1>7
  <2> QED
    BY <2>1, <1>6 DEF Apart
<1> QED
  BY <1>1, <1>2, <1>4, <1>5, <1>6, <1>7

LEMMA PlacedIs ==
  ASSUME NEW ents, NEW blocs, NEW end, Placed(ents, blocs, end)
  PROVE  /\ Chained(blocs, end)
         /\ \A i \in Idents :
              /\ ents[i] \in Areas /\ ents[i].at \in Nat /\ ents[i].len \in Nat
              /\ End(ents[i]) \in Nat /\ End(ents[i]) = ents[i].at + ents[i].len
              /\ End(ents[i]) <= end
              /\ ents[i] # NoArea =>
                   /\ ents[i].len > 0 /\ ents[i].len >= MinSize /\ ents[i].at > HeadBytes
                   /\ i \in Reach(blocs)
              /\ ents[i].len > 0 => ents[i] # NoArea
         /\ \A i \in Idents, p \in Nat : p \in Bytes(ents[i]) =>
              /\ p > HeadBytes /\ p < end
              /\ \A b \in 1..Len(blocs) : p \notin Bytes(BlocOf(blocs, b))
              /\ \A j \in Idents : i # j => p \notin Bytes(ents[j])
         /\ \A b \in 1..Len(blocs), p \in Nat : p \in Bytes(BlocOf(blocs, b)) =>
              p > HeadBytes /\ p < end
         /\ Used(ents, blocs, HeadBytes + 1)
<1>1. /\ Chained(blocs, end)
      /\ ents \in [Idents -> Areas]
      /\ \A i \in Idents : Fit(ents[i], i, blocs, end)
      /\ \A i \in Idents, j \in Idents : i # j => Apart(ents[i], ents[j])
  BY DEF Placed
<1>2. ASSUME NEW i \in Idents
      PROVE  /\ ents[i] \in Areas /\ ents[i].at \in Nat /\ ents[i].len \in Nat
             /\ End(ents[i]) \in Nat /\ End(ents[i]) = ents[i].at + ents[i].len
             /\ End(ents[i]) <= end
             /\ ents[i] # NoArea =>
                   /\ ents[i].len > 0 /\ ents[i].len >= MinSize /\ ents[i].at > HeadBytes
                   /\ i \in Reach(blocs)
             /\ ents[i].len > 0 => ents[i] # NoArea
  <2>1. ents[i] \in Areas
    BY <1>1
  <2>2. /\ ents[i].at \in Nat /\ ents[i].len \in Nat
        /\ End(ents[i]) \in Nat /\ End(ents[i]) = ents[i].at + ents[i].len
    BY <2>1, BytesAre
  <2>3. ents[i] # NoArea =>
          /\ ents[i].len > 0 /\ ents[i].len >= MinSize /\ ents[i].at > HeadBytes
          /\ i \in Reach(blocs) /\ End(ents[i]) <= end
    BY <1>1, <2>2, SizesAre DEF Fit
  <2>4. ents[i] = NoArea => End(ents[i]) = 0 /\ ents[i].len = 0
    BY <2>2, NoAreaIs
  <2>5. end \in Nat
    BY <1>1 DEF Chained
  <2> QED
    BY <2>1, <2>2, <2>3, <2>4, <2>5
<1>3. ASSUME NEW i \in Idents, NEW p \in Nat, p \in Bytes(ents[i])
      PROVE  /\ p > HeadBytes /\ p < end
             /\ \A b \in 1..Len(blocs) : p \notin Bytes(BlocOf(blocs, b))
             /\ \A j \in Idents : i # j => p \notin Bytes(ents[j])
  <2>1. ents[i].at <= p /\ p < End(ents[i]) /\ ents[i] # NoArea
    BY <1>2, <1>3, BytesAre, NoAreaIs
  <2>2. p > HeadBytes /\ p < end
    BY <2>1, <1>1, <1>2, SizesAre DEF Chained
  <2>3. \A b \in 1..Len(blocs) : p \notin Bytes(BlocOf(blocs, b))
    <3>1. \A b \in 1..Len(blocs) : Apart(ents[i], BlocOf(blocs, b)) /\ BlocOf(blocs, b) \in Areas
      BY <2>1, <1>1, ChainedIs DEF Fit
    <3> QED
      BY <3>1, <1>2, <1>3, ApartIs
  <2>4. \A j \in Idents : i # j => p \notin Bytes(ents[j])
    BY <1>1, <1>2, <1>3, ApartIs
  <2> QED
    BY <2>2, <2>3, <2>4
<1>4. ASSUME NEW b \in 1..Len(blocs), NEW p \in Nat, p \in Bytes(BlocOf(blocs, b))
      PROVE  p > HeadBytes /\ p < end
  <2>1. /\ BlocOf(blocs, b) \in Areas /\ BlocOf(blocs, b).at = blocs[b]
        /\ End(BlocOf(blocs, b)) = blocs[b] + BlocBytes
        /\ blocs[b] \in Nat /\ blocs[b] > HeadBytes /\ blocs[b] + BlocBytes <= end /\ end \in Nat
    BY <1>1, ChainedIs
  <2>2. blocs[b] <= p /\ p < blocs[b] + BlocBytes
    BY <2>1, <1>4, BytesAre
  <2> QED
    BY <2>1, <2>2, SizesAre
<1>5. Used(ents, blocs, HeadBytes + 1)
  <2>1. 1 \in 1..Len(blocs) /\ blocs[1] = HeadBytes + 1
    BY <1>1, ChainedIs DEF Chained
  <2>2. HeadBytes + 1 \in Bytes(BlocOf(blocs, 1))
    BY <2>1, <1>1, ChainedIs, BytesAre, SizesAre
  <2> QED
    BY <2>1, <2>2 DEF Used
<1> QED
  BY <1>1, <1>2, <1>3, <1>4, <1>5

LEMMA PlacedHigher ==
  ASSUME NEW ents, NEW blocs, NEW end, Placed(ents, blocs, end), NEW higher \in Nat, end <= higher
  PROVE  Placed(ents, blocs, higher)
<1>1. Chained(blocs, higher)
  <2>1. end \in Nat /\ \A b \in 1..Len(blocs) : blocs[b] \in Nat /\ blocs[b] + BlocBytes <= end
    BY ChainedIs DEF Placed
  <2>2. \A b \in 1..Len(blocs) : blocs[b] + BlocBytes <= higher
    BY <2>1, SizesAre
  <2> QED
    BY <2>2 DEF Placed, Chained
<1>2. \A i \in Idents : Fit(ents[i], i, blocs, higher)
  <2> SUFFICES ASSUME NEW i \in Idents PROVE Fit(ents[i], i, blocs, higher)
    OBVIOUS
  <2>1. Fit(ents[i], i, blocs, end) /\ End(ents[i]) \in Nat /\ end \in Nat
    BY PlacedIs, ChainedIs DEF Placed
  <2> QED
    BY <2>1 DEF Fit
<1> QED
  BY <1>1, <1>2 DEF Placed

\* The definition of an ident moved to an area that is free, or erased.
LEMMA MovedPlaced ==
  ASSUME NEW ents, NEW blocs, NEW end, Placed(ents, blocs, end), NEW i \in Idents,
         NEW a \in Areas, Fit(a, i, blocs, end),
         \A j \in Idents : i # j => Apart(a, ents[j])
  PROVE  Placed([ents EXCEPT ![i] = a], blocs, end)
<1> DEFINE new == [ents EXCEPT ![i] = a]
<1>1. /\ new \in [Idents -> Areas]
      /\ \A j \in Idents : new[j] = IF j = i THEN a ELSE ents[j]
  BY DEF Placed
<1> HIDE DEF new
<1>2. \A j \in Idents : Fit(new[j], j, blocs, end)
  BY <1>1 DEF Placed
<1>3. \A j \in Idents, l \in Idents : j # l => Apart(new[j], new[l])
  <2> SUFFICES ASSUME NEW j \in Idents, NEW l \in Idents, j # l PROVE Apart(new[j], new[l])
    OBVIOUS
  <2>1. Apart(ents[j], ents[l])
    BY DEF Placed
  <2>2. j # i => Apart(ents[j], a)
    BY PlacedIs, ApartIs
  <2> QED
    BY <2>1, <2>2, <1>1
<1>4. Placed(new, blocs, end)
  BY <1>1, <1>2, <1>3 DEF Placed
<1> QED
  BY <1>4 DEF new

\* A block added at the end.
LEMMA GrownPlaced ==
  ASSUME NEW ents, NEW blocs, NEW end, Placed(ents, blocs, end)
  PROVE  /\ Placed(ents, Append(blocs, end), end + BlocBytes)
         /\ \A p \in Nat : Used(ents, Append(blocs, end), p)
                             <=> Used(ents, blocs, p) \/ (end <= p /\ p < end + BlocBytes)
<1> DEFINE new == Append(blocs, end)
           n == Len(blocs)
<1>1. /\ blocs \in Seq(Nat) /\ end \in Nat /\ n \in Nat /\ n > 0
      /\ blocs[1] = HeadBytes + 1
      /\ \A b \in 1..n, c \in 1..n : b < c => blocs[b] + BlocBytes <= blocs[c]
  BY ChainedIs DEF Placed, Chained
<1>2. /\ new \in Seq(Nat) /\ Len(new) = n + 1
      /\ \A b \in 1..(n + 1) : new[b] = IF b <= n THEN blocs[b] ELSE end
  BY <1>1, AppendIs
<1>3. \A b \in 1..n : blocs[b] \in Nat /\ blocs[b] + BlocBytes <= end
  BY ChainedIs DEF Placed
<1> HIDE DEF new
<1>4. \A b \in 1..(n + 1) : (b \in 1..n /\ b <= n) \/ (b = n + 1 /\ ~(b <= n))
  BY <1>1
<1>5. end + BlocBytes \in Nat /\ end <= end + BlocBytes
  BY <1>1, SizesAre
<1>6. Chained(new, end + BlocBytes)
  <2>1. \A b \in 1..(n + 1) : new[b] + BlocBytes <= end + BlocBytes
    <3> SUFFICES ASSUME NEW b \in 1..(n + 1) PROVE new[b] + BlocBytes <= end + BlocBytes
      OBVIOUS
    <3>1. CASE b \in 1..n /\ b <= n
      <4>1. new[b] = blocs[b]
        BY <3>1, <1>2
      <4>2. blocs[b] \in Nat /\ blocs[b] + BlocBytes <= end
        BY <3>1, <1>3
      <4> QED
        BY <4>1, <4>2, <1>1, SizesAre
    <3>2. CASE b = n + 1 /\ ~(b <= n)
      BY <3>2, <1>1, <1>2, SizesAre
    <3> QED
      BY <3>1, <3>2, <1>4
  <2>2. ASSUME NEW b \in 1..(n + 1), NEW c \in 1..(n + 1), b < c
        PROVE  new[b] + BlocBytes <= new[c]
    <3>1. b \in 1..n /\ b <= n
      BY <2>2, <1>1
    <3>2. CASE c \in 1..n /\ c <= n
      BY <2>2, <3>1, <3>2, <1>1, <1>2
    <3>3. CASE c = n + 1 /\ ~(c <= n)
      BY <3>1, <3>3, <1>2, <1>3
    <3> QED
      BY <3>2, <3>3, <1>4
  <2>3. new[1] = HeadBytes + 1 /\ n + 1 > 0
    <3>1. 1 \in 1..(n + 1) /\ 1 <= n
      BY <1>1
    <3> QED
      BY <3>1, <1>1, <1>2
  <2> QED
    BY <2>1, <2>2, <2>3, <1>2, <1>5 DEF Chained
<1>7. \A b \in 1..n : b \in 1..(n + 1) /\ BlocOf(new, b) = BlocOf(blocs, b)
  BY <1>1, <1>2, <1>4 DEF BlocOf
<1>8. n + 1 \in 1..(n + 1) /\ BlocOf(new, n + 1) = Area(end, BlocBytes)
  BY <1>1, <1>2 DEF BlocOf
<1>9. ASSUME NEW i \in Idents PROVE Fit(ents[i], i, new, end + BlocBytes)
  <2> SUFFICES ASSUME ents[i] # NoArea
               PROVE  /\ i \in Reach(new)
                      /\ ents[i].at > HeadBytes /\ ents[i].len >= MinSize
                      /\ End(ents[i]) <= end + BlocBytes
                      /\ \A b \in 1..Len(new) : Apart(ents[i], BlocOf(new, b))
    BY DEF Fit
  <2>1. /\ i \in Reach(blocs) /\ ents[i].at > HeadBytes /\ ents[i].len >= MinSize
        /\ End(ents[i]) <= end /\ End(ents[i]) \in Nat
    BY PlacedIs
  <2>2. i \in Reach(new)
    <3>1. n <= n + 1 /\ n + 1 \in Nat
      BY <1>1
    <3>2. Reach(blocs) \subseteq Reach(new)
      BY <3>1, <1>1, <1>2, ReachGrows
    <3> QED
      BY <2>1, <3>2
  <2>3. End(ents[i]) <= end + BlocBytes
    BY <2>1, <1>1, SizesAre
  <2>4. Apart(ents[i], Area(end, BlocBytes))
    <3>1. Area(end, BlocBytes).at = end
      BY <1>1, SizesAre, AreaIs
    <3> QED
      BY <2>1, <3>1 DEF Apart
  <2>5. \A b \in 1..n : Apart(ents[i], BlocOf(blocs, b))
    BY DEF Placed, Fit
  <2> QED
    BY <2>1, <2>2, <2>3, <2>4, <2>5, <1>2, <1>4, <1>7, <1>8
<1>10. Placed(ents, new, end + BlocBytes)
  BY <1>6, <1>9 DEF Placed
<1>11. ASSUME NEW p \in Nat
       PROVE  Used(ents, new, p) <=> Used(ents, blocs, p) \/ (end <= p /\ p < end + BlocBytes)
  <2>1. p \in Bytes(Area(end, BlocBytes)) <=> end <= p /\ p < end + BlocBytes
    BY <1>1, SizesAre, AreaIs
  <2>2. (\E b \in 1..Len(new) : p \in Bytes(BlocOf(new, b)))
          <=> \/ \E b \in 1..n : p \in Bytes(BlocOf(blocs, b))
              \/ p \in Bytes(Area(end, BlocBytes))
    BY <1>2, <1>4, <1>7, <1>8
  <2> QED
    BY <2>1, <2>2 DEF Used
<1> QED
  BY <1>10, <1>11 DEF new

\* A place found for a definition is free, in the gaps or at the end.
LEMMA FoundPlaced ==
  ASSUME NEW ents, NEW blocs, NEW end, NEW list,
         Placed(ents, blocs, end), Gaps(list, ents, blocs, end, NoArea),
         NEW i \in Idents, i \in Reach(blocs), NEW size \in Nat, size >= MinSize
  PROVE  LET found == FindNewArea(list, size, end)
             last == IF found.atEnd THEN end + size ELSE end
         IN  /\ found.area \in Areas /\ found.area.len >= size /\ found.area # NoArea
             /\ found.area.at > HeadBytes /\ last \in Nat /\ End(found.area) <= last
             /\ found.atEnd \in BOOLEAN
             /\ found.atEnd => found.area = Area(end, size) /\ last = end + size
             /\ ~found.atEnd => last = end
             /\ \A j \in Idents : Apart(found.area, ents[j])
             /\ Placed([ents EXCEPT ![i] = found.area], blocs, last)
             /\ Gaps(found.empties, ents, blocs, last, found.area)
<1> DEFINE found == FindNewArea(list, size, end)
           a == found.area
           last == IF found.atEnd THEN end + size ELSE end
<1>1. Separate(list) /\ Chained(blocs, end) /\ end \in Nat /\ end > HeadBytes + 1
  BY ChainedIs DEF Gaps, Placed
<1>2. /\ a \in Areas /\ a.len >= size
      /\ Separate(found.empties)
      /\ found.atEnd \in BOOLEAN
      /\ found.atEnd => a = Area(end, size) /\ found.empties = list
      /\ ~found.atEnd => \A p \in Nat :
           /\ p \in Bytes(a) => In(p, list)
           /\ In(p, found.empties) <=> In(p, list) /\ p \notin Bytes(a)
  BY <1>1, FoundIs
<1> HIDE DEF found
<1>3. \A p \in Nat : p > HeadBytes => (In(p, list) <=> p < end /\ ~Used(ents, blocs, p))
  BY NoAreaIs DEF Gaps
<1>4. /\ a.at \in Nat /\ a.len \in Nat /\ a.len > 0 /\ End(a) = a.at + a.len /\ End(a) \in Nat
      /\ \A p \in Nat : p \in Bytes(a) <=> a.at <= p /\ p < End(a)
  <2>1. /\ a.at \in Nat /\ a.len \in Nat /\ End(a) = a.at + a.len /\ End(a) \in Nat
        /\ \A p \in Nat : p \in Bytes(a) <=> a.at <= p /\ p < End(a)
    BY <1>2, BytesAre
  <2>2. a.len > 0
    <3> HIDE DEF a
    <3> QED
      BY <2>1, <1>2, SizesAre
  <2> QED
    BY <2>1, <2>2
<1> HIDE DEF a
<1>5. a # NoArea
  BY <1>4, NoAreaIs
<1>6. last \in Nat /\ end <= last
  BY <1>1, <1>2
\* It is beyond the head and below the end; its bytes are not used.
<1>7. /\ a.at > HeadBytes /\ End(a) <= last
      /\ \A p \in Nat : p \in Bytes(a) => ~Used(ents, blocs, p)
  <2>1. CASE found.atEnd
    <3>1. a.at = end /\ End(a) = end + size
      <4>1. a = Area(end, size)
        BY <2>1, <1>2 DEF a
      <4> QED
        BY <4>1, <1>1, AreaIs
    <3>2. a.at > HeadBytes
      BY <3>1, <1>1, SizesAre
    <3>3. last = end + size
      BY <2>1
    <3>4. ASSUME NEW p \in Nat, p \in Bytes(a), Used(ents, blocs, p) PROVE FALSE
      <4>1. ~(p < end)
        BY <3>1, <3>4, <1>4, <1>1
      <4> QED
        BY <3>4, <4>1, PlacedIs DEF Used
    <3> HIDE DEF last
    <3>5. End(a) <= last
      BY <3>1, <3>3, <1>1
    <3> QED
      BY <3>2, <3>4, <3>5
  <2>2. CASE ~found.atEnd
    <3>1. \A p \in Nat : p \in Bytes(a) => In(p, list)
      BY <2>2, <1>2
    <3>2. ~In(HeadBytes + 1, list)
      <4>1. HeadBytes + 1 \in Nat /\ HeadBytes + 1 > HeadBytes
        BY SizesAre
      <4> QED
        BY <4>1, <1>3, PlacedIs
    <3>3. a.at > HeadBytes
      <4> SUFFICES ASSUME a.at <= HeadBytes PROVE FALSE
        BY <1>4, SizesAre
      <4>1. a.len >= MinSize
        <5>1. a.len >= size
          BY <1>2 DEF a
        <5> QED
          BY <5>1, <1>4, SizesAre
      <4>2. a.at > 0
        <5>1. 0 \notin Bytes(a)
          BY <3>1 DEF Gaps
        <5> QED
          BY <5>1, <1>4
      <4>3. HeadBytes + 1 \in Nat /\ HeadBytes + 1 \in Bytes(a)
        BY <4>1, <4>2, <1>4, SizesAre
      <4> QED
        BY <4>3, <3>1, <3>2
    <3>4. End(a) <= end
      <4>1. End(a) - 1 \in Nat /\ End(a) - 1 \in Bytes(a) /\ End(a) - 1 > HeadBytes
        BY <3>3, <1>4, SizesAre
      <4>2. End(a) - 1 < end
        BY <4>1, <3>1, <1>3
      <4> QED
        BY <4>2, <1>1, <1>4
    <3>5. ASSUME NEW p \in Nat, p \in Bytes(a) PROVE ~Used(ents, blocs, p)
      <4>1. p > HeadBytes
        BY <3>3, <3>5, <1>4, SizesAre
      <4> QED
        BY <3>1, <3>5, <4>1, <1>3
    <3>6. last = end
      BY <2>2
    <3> HIDE DEF last
    <3> QED
      BY <3>3, <3>4, <3>5, <3>6
  <2> QED
    BY <2>1, <2>2, <1>2
<1>8. ASSUME NEW j \in Idents PROVE Apart(a, ents[j])
  <2>1. ents[j] \in Areas /\ ents[j].len \in Nat
    BY PlacedIs
  <2>2. CASE ents[j].len = 0
    <3>1. ents[j] = NoArea
      BY <2>2, PlacedIs
    <3> QED
      BY <3>1, <1>4, NoAreaIs DEF Apart, End
  <2>3. CASE ents[j].len > 0
    <3>1. \A p \in Nat : ~(p \in Bytes(a) /\ p \in Bytes(ents[j]))
      BY <1>7 DEF Used
    <3> QED
      BY <2>1, <2>3, <3>1, <1>2, <1>4, ApartIs DEF a
  <2> QED
    BY <2>1, <2>2, <2>3
<1>9. Placed([ents EXCEPT ![i] = a], blocs, last)
  <2>1. Placed(ents, blocs, last)
    BY <1>6, PlacedHigher
  <2>2. \A b \in 1..Len(blocs) : Apart(a, BlocOf(blocs, b))
    <3> SUFFICES ASSUME NEW b \in 1..Len(blocs) PROVE Apart(a, BlocOf(blocs, b))
      OBVIOUS
    <3>1. BlocOf(blocs, b) \in Areas /\ BlocOf(blocs, b).len > 0
      BY <1>1, ChainedIs, SizesAre
    <3>2. \A p \in Nat : ~(p \in Bytes(a) /\ p \in Bytes(BlocOf(blocs, b)))
      BY <1>7 DEF Used
    <3> QED
      BY <3>1, <3>2, <1>2, <1>4, ApartIs DEF a
  <2>3. Fit(a, i, blocs, last)
    <3>1. a.len >= MinSize
      <4>1. a.len >= size
        BY <1>2 DEF a
      <4> QED
        BY <4>1, <1>4, SizesAre
    <3>2. a.at > HeadBytes /\ End(a) <= last
      BY <1>7
    <3> HIDE DEF last
    <3> QED
      BY <3>1, <3>2, <2>2 DEF Fit
  <2>4. a \in Areas
    BY <1>2 DEF a
  <2> HIDE DEF last
  <2> QED
    BY <2>1, <2>3, <2>4, <1>8, MovedPlaced
<1>10. Gaps(found.empties, ents, blocs, last, a)
  <2>1. ASSUME NEW p \in Nat, p > HeadBytes
        PROVE  In(p, found.empties) <=> p < last /\ ~Used(ents, blocs, p) /\ p \notin Bytes(a)
    <3>1. CASE found.atEnd
      <4>1. found.empties = list /\ last = end + size /\ a.at = end /\ End(a) = end + size
        BY <3>1, <1>1, <1>2, AreaIs DEF a
      <4>2. p < end <=> p < last /\ p \notin Bytes(a)
        BY <4>1, <1>1, <1>4
      <4> QED
        BY <4>1, <4>2, <2>1, <1>3
    <3>2. CASE ~found.atEnd
      <4>1. last = end
        BY <3>2
      <4> QED
        BY <3>2, <4>1, <2>1, <1>2, <1>3 DEF a
    <3> QED
      BY <3>1, <3>2, <1>2
  <2>2. ~In(0, found.empties)
    <3>1. ~In(0, list)
      BY DEF Gaps
    <3> QED
      BY <3>1, <1>2
  <2> HIDE DEF last
  <2> QED
    BY <2>1, <2>2, <1>2 DEF Gaps
<1>11. /\ a \in Areas /\ a.len >= size /\ found.atEnd \in BOOLEAN
       /\ found.atEnd => a = Area(end, size)
  BY <1>2 DEF a
<1>12. /\ found.atEnd => last = end + size
       /\ ~found.atEnd => last = end
  OBVIOUS
<1> HIDE DEF last
<1>13. /\ a \in Areas /\ a.len >= size /\ a # NoArea
       /\ a.at > HeadBytes /\ last \in Nat /\ End(a) <= last
       /\ found.atEnd \in BOOLEAN
       /\ found.atEnd => a = Area(end, size) /\ last = end + size
       /\ ~found.atEnd => last = end
       /\ \A j \in Idents : Apart(a, ents[j])
       /\ Placed([ents EXCEPT ![i] = a], blocs, last)
       /\ Gaps(found.empties, ents, blocs, last, a)
  BY <1>5, <1>6, <1>7, <1>8, <1>9, <1>10, <1>11, <1>12
<1> QED
  BY <1>13 DEF a, found, last

\* The old area of an ident whose definition has another one, or none.
LEMMA VacatedGaps ==
  ASSUME NEW ents, NEW blocs, NEW end, NEW list, NEW i \in Idents, NEW a \in Areas,
         Placed(ents, blocs, end), Gaps(list, ents, blocs, end, a),
         Apart(a, ents[i])
  PROVE  Gaps(Vacated(list, ents[i]), [ents EXCEPT ![i] = a], blocs, end, NoArea)
<1> DEFINE old == ents[i]
           new == [ents EXCEPT ![i] = a]
           left == Vacated(list, old)
<1>1. /\ Separate(list)
      /\ \A p \in Nat : p > HeadBytes =>
           (In(p, list) <=> p < end /\ ~Used(ents, blocs, p) /\ p \notin Bytes(a))
  BY DEF Gaps
<1>2. old \in Areas /\ old.len \in Nat
  BY PlacedIs
<1>3. \A p \in Nat : p \in Bytes(old) => p > HeadBytes /\ p < end /\ Used(ents, blocs, p)
  BY PlacedIs DEF Used
<1>4. \A p \in Nat : p \in Bytes(old) => ~In(p, list)
  BY <1>1, <1>3
<1>5. /\ Separate(left)
      /\ \A p \in Nat : In(p, left) <=> In(p, list) \/ p \in Bytes(old)
  <2>1. CASE old.len = 0
    <3>1. left = list
      BY <2>1 DEF Vacated
    <3>2. old = NoArea
      BY <2>1, PlacedIs
    <3> HIDE DEF left, old
    <3> QED
      BY <3>1, <3>2, <1>1, NoAreaIs
  <2>2. CASE old.len # 0
    <3>1. left = VacateOldArea(list, old) /\ old.len > 0
      BY <2>2, <1>2 DEF Vacated
    <3> HIDE DEF left, old
    <3> QED
      BY <3>1, <1>1, <1>2, <1>4, VacatedIs
  <2> QED
    BY <2>1, <2>2
<1>6. \A j \in Idents : new[j] = IF j = i THEN a ELSE ents[j]
  BY DEF Placed
<1>7. \A p \in Nat : ~(p \in Bytes(a) /\ p \in Bytes(old))
  BY <1>2, ApartIs
<1>8. ASSUME NEW p \in Nat
      PROVE  Used(new, blocs, p)
               <=> p \in Bytes(a) \/ (Used(ents, blocs, p) /\ p \notin Bytes(old))
  <2>1. (\E j \in Idents : p \in Bytes(new[j]))
          <=> p \in Bytes(a) \/ \E j \in Idents : j # i /\ p \in Bytes(ents[j])
    BY <1>6
  <2>2. p \in Bytes(old) => /\ \A b \in 1..Len(blocs) : p \notin Bytes(BlocOf(blocs, b))
                            /\ \A j \in Idents : j # i => p \notin Bytes(ents[j])
    BY PlacedIs
  <2> HIDE DEF new
  <2> QED
    BY <2>1, <2>2 DEF Used
<1> HIDE DEF left, new, old
<1>9. ASSUME NEW p \in Nat, p > HeadBytes
      PROVE  In(p, left) <=> p < end /\ ~Used(new, blocs, p) /\ p \notin Bytes(NoArea)
  BY <1>9, <1>1, <1>3, <1>5, <1>7, <1>8, NoAreaIs
<1>10. ~In(0, left)
  <2>1. ~In(0, list)
    BY DEF Gaps
  <2>2. 0 \notin Bytes(old)
    BY <1>3, SizesAre
  <2> QED
    BY <2>1, <2>2, <1>5
<1>11. Gaps(left, new, blocs, end, NoArea)
  BY <1>5, <1>9, <1>10 DEF Gaps
<1> QED
  BY <1>11 DEF left, new, old

\* A block at the end leaves the gaps as they are.
LEMMA GrownGaps ==
  ASSUME NEW ents, NEW blocs, NEW end, NEW list,
         Placed(ents, blocs, end), Gaps(list, ents, blocs, end, NoArea)
  PROVE  Gaps(list, ents, Append(blocs, end), end + BlocBytes, NoArea)
<1>1. end \in Nat
  BY ChainedIs DEF Placed
<1>2. \A p \in Nat : p < end <=> p < end + BlocBytes /\ ~(end <= p /\ p < end + BlocBytes)
  BY <1>1, SizesAre
<1> QED
  BY <1>1, <1>2, GrownPlaced DEF Gaps

-----------------------------------------------------------------------------
(* What a reopening computes. *)

\* The values of a function on a finite set.
LEMMA FiniteValues ==
  ASSUME NEW f, NEW T, IsFiniteSet(T)
  PROVE  IsFiniteSet({f[x] : x \in T})
<1> DEFINE g == [x \in T |-> f[x]]
           S == {f[x] : x \in T}
<1>1. g \in Surjection(T, S)
  BY DEF Surjection
<1> HIDE DEF g
<1> QED
  BY <1>1, FS_Surjection

\* The areas of a set, one after the other.
LEMMA RankedIs ==
  ASSUME NEW S, IsFiniteSet(S), \A a \in S : a.at \in Nat,
         \A a \in S, b \in S : a.at = b.at => a = b
  PROVE  /\ InOrder(S) \in Seq(S) /\ Len(InOrder(S)) \in Nat
         /\ \A a \in S : \E k \in 1..Len(InOrder(S)) : InOrder(S)[k] = a
         /\ \A k \in 1..Len(InOrder(S)), l \in 1..Len(InOrder(S)) :
              k < l => InOrder(S)[k].at < InOrder(S)[l].at
<1> DEFINE n == Cardinality(S)
           Before(a) == {b \in S : b.at < a.at}
           rank == [a \in S |-> Cardinality(Before(a))]
           list == [k \in 1..n |-> CHOOSE a \in S : Cardinality(Before(a)) = k - 1]
<1>1. n \in Nat
  BY FS_CardinalityType
<1>2. ASSUME NEW a \in S PROVE IsFiniteSet(Before(a)) /\ Cardinality(Before(a)) \in 0..(n - 1)
  <2>1. Before(a) \in SUBSET (S \ {a})
    OBVIOUS
  <2>2. IsFiniteSet(S \ {a}) /\ Cardinality(S \ {a}) = n - 1
    BY FS_RemoveElement
  <2> HIDE DEF Before, n
  <2>3. IsFiniteSet(Before(a)) /\ Cardinality(Before(a)) <= n - 1
    BY <2>1, <2>2, FS_Subset
  <2> QED
    BY <2>3, <1>1, FS_CardinalityType
<1>3. ASSUME NEW a \in S, NEW b \in S, a.at < b.at PROVE rank[a] < rank[b]
  <2>1. Before(a) \cup {a} \in SUBSET Before(b)
    <3>1. \A c \in S : c.at < a.at => c.at < b.at
      BY <1>3
    <3> QED
      BY <3>1, <1>3
  <2>2. a \notin Before(a)
    OBVIOUS
  <2> HIDE DEF Before
  <2>3. Cardinality(Before(a) \cup {a}) = Cardinality(Before(a)) + 1
    BY <2>2, <1>2, FS_AddElement
  <2>4. Cardinality(Before(a) \cup {a}) <= Cardinality(Before(b))
    BY <2>1, <1>2, FS_Subset
  <2>5. Cardinality(Before(a)) \in Nat /\ Cardinality(Before(b)) \in Nat
    BY <1>2, <1>1
  <2>6. rank[a] = Cardinality(Before(a)) /\ rank[b] = Cardinality(Before(b))
    OBVIOUS
  <2> QED
    BY <2>3, <2>4, <2>5, <2>6
<1>4. ASSUME NEW a \in S, NEW b \in S, rank[a] = rank[b] PROVE a = b
  <2>1. rank[a] \in Nat /\ rank[b] \in Nat
    <3>1. Cardinality(Before(a)) \in Nat /\ Cardinality(Before(b)) \in Nat
      <4> HIDE DEF Before
      <4> QED
        BY <1>2, <1>1
    <3> QED
      BY <3>1
  <2> HIDE DEF rank
  <2> QED
    BY <2>1, <1>3, <1>4
<1>5. rank \in Injection(S, 0..(n - 1))
  <2>1. rank \in [S -> 0..(n - 1)]
    BY <1>2
  <2> HIDE DEF rank
  <2> QED
    BY <2>1, <1>4 DEF Injection, IsInjective
<1>6. \A k \in 0..(n - 1) : \E a \in S : rank[a] = k
  <2>1. IsFiniteSet(0..(n - 1)) /\ Cardinality(0..(n - 1)) = n
    BY <1>1, FS_Interval
  <2> HIDE DEF rank
  <2>2. rank \in Surjection(S, 0..(n - 1))
    BY <2>1, <1>5, FS_Injection
  <2> QED
    BY <2>2 DEF Surjection
<1>7. ASSUME NEW k \in 1..n PROVE list[k] \in S /\ rank[list[k]] = k - 1
  <2>1. k - 1 \in 0..(n - 1)
    BY <1>1
  <2>2. \E a \in S : Cardinality(Before(a)) = k - 1
    BY <2>1, <1>6
  <2> DEFINE Ranked(a) == Cardinality(Before(a)) = k - 1
  <2>3. list[k] = CHOOSE a \in S : Ranked(a)
    OBVIOUS
  <2>4. (CHOOSE a \in S : Ranked(a)) \in S /\ Ranked(CHOOSE a \in S : Ranked(a))
    <3>1. \E a \in S : Ranked(a)
      BY <2>2
    <3> HIDE DEF Ranked
    <3> QED
      BY <3>1
  <2> QED
    BY <2>3, <2>4
<1>8. list \in [1..n -> S] /\ list \in Seq(S) /\ Len(list) = n
  <2>1. list \in [1..n -> S]
    BY <1>7
  <2> HIDE DEF list
  <2> QED
    BY <2>1, <1>1, SeqDef
<1>9. ASSUME NEW a \in S PROVE \E k \in 1..n : list[k] = a
  <2>1. rank[a] \in 0..(n - 1)
    BY <1>2
  <2>2. rank[a] + 1 \in 1..n /\ rank[a] + 1 - 1 = rank[a]
    <3> HIDE DEF rank
    <3> QED
      BY <2>1, <1>1
  <2>3. rank[list[rank[a] + 1]] = rank[a] /\ list[rank[a] + 1] \in S
    <3> DEFINE k == rank[a] + 1
    <3>1. k \in 1..n /\ k - 1 = rank[a]
      <4>1. k = rank[a] + 1
        OBVIOUS
      <4>2. rank[a] \in Int
        <5> HIDE DEF rank
        <5> QED
          BY <2>1, <1>1
      <4> HIDE DEF k, rank
      <4> QED
        BY <2>2, <4>1, <4>2
    <3>2. list[k] \in S /\ rank[list[k]] = k - 1
      <4> HIDE DEF k
      <4> QED
        BY <3>1, <1>7
    <3> HIDE DEF rank, list
    <3> QED
      BY <3>1, <3>2
  <2> HIDE DEF rank, list
  <2> QED
    BY <2>2, <2>3, <1>4
<1>10. ASSUME NEW k \in 1..n, NEW l \in 1..n, k < l PROVE list[k].at < list[l].at
  <2>1. /\ list[k] \in S /\ rank[list[k]] = k - 1
        /\ list[l] \in S /\ rank[list[l]] = l - 1
    BY <1>7
  <2> HIDE DEF rank, list
  <2>2. list[k].at \in Nat /\ list[l].at \in Nat
    BY <2>1
  <2>3. CASE list[k].at = list[l].at
    BY <2>1, <2>3, <1>1, <1>10
  <2>4. CASE list[l].at < list[k].at
    BY <2>1, <2>4, <1>1, <1>3, <1>10
  <2> QED
    BY <2>2, <2>3, <2>4
<1> HIDE DEF list, n
<1>11. /\ list \in Seq(S) /\ Len(list) = n /\ n \in Nat
       /\ \A a \in S : \E k \in 1..Len(list) : list[k] = a
       /\ \A k \in 1..Len(list), l \in 1..Len(list) : k < l => list[k].at < list[l].at
  BY <1>1, <1>8, <1>9, <1>10
<1>12. list = InOrder(S)
  BY DEF list, n, InOrder
<1> HIDE DEF list
<1> QED
  BY <1>11, <1>12

\* fillEmptyAreas, of areas that are apart: what there is between them.
LEMMA SpacesAre ==
  ASSUME NEW S, IsFiniteSet(S),
         \A a \in S : a \in Areas /\ a.at > 0 /\ a.len > 0,
         \A a \in S, b \in S : a # b => Apart(a, b)
  PROVE  /\ Separate(EmptySpaces(S))
         /\ \A p \in Nat : In(p, EmptySpaces(S)) <=>
              /\ p > 0 /\ \A a \in S : p \notin Bytes(a)
              /\ \E a \in S : p < a.at
<1> DEFINE Ends(a) == {1} \cup {End(b) : b \in {c \in S : c.at < a.at}}
           Floor(a) == CHOOSE e \in Ends(a) : \A f \in Ends(a) : f <= e
           Gap(a) == Area(Floor(a), a.at - Floor(a))
           gaps == {Gap(a) : a \in {b \in S : Floor(b) < b.at}}
           list == EmptySpaces(S)
<1>1. list = InOrder(gaps)
  BY DEF EmptySpaces
<1>2. \A a \in S : /\ a.at \in Nat /\ a.len \in Nat /\ a.len > 0 /\ a.at > 0
                   /\ End(a) \in Nat /\ End(a) = a.at + a.len
                   /\ \A p \in Nat : p \in Bytes(a) <=> a.at <= p /\ p < End(a)
  BY BytesAre
<1>3. ASSUME NEW a \in S
      PROVE  Floor(a) \in Ends(a) /\ Floor(a) \in Nat /\ \A f \in Ends(a) : f <= Floor(a)
  <2> DEFINE T == {c \in S : c.at < a.at}
             end == [c \in T |-> End(c)]
  <2>1. IsFiniteSet(T)
    BY FS_Subset
  <2>2. IsFiniteSet({end[c] : c \in T})
    <3> HIDE DEF T, end
    <3> QED
      BY <2>1, FiniteValues
  <2>3. {end[c] : c \in T} = {End(c) : c \in T}
    OBVIOUS
  <2>4. IsFiniteSet({1} \cup {End(c) : c \in T})
    <3> DEFINE V == {End(c) : c \in T}
    <3>1. IsFiniteSet(V)
      BY <2>2, <2>3
    <3> HIDE DEF V
    <3>2. IsFiniteSet({1}) /\ IsFiniteSet({1} \cup V)
      BY <3>1, FS_Singleton, FS_Union
    <3> QED
      BY <3>2 DEF V
  <2>5. Ends(a) \in SUBSET Nat /\ Ends(a) # {} /\ IsFiniteSet(Ends(a))
    BY <2>4, <1>2
  <2> HIDE DEF Ends
  <2>6. \E e \in Ends(a) : \A f \in Ends(a) : f <= e
    BY <2>5, LargestExists
  <2>7. Floor(a) \in Ends(a) /\ \A f \in Ends(a) : f <= Floor(a)
    BY <2>6
  <2> HIDE DEF Floor
  <2> QED
    BY <2>5, <2>7
<1>4. \A a \in S : Floor(a) >= 1 /\ \A b \in S : b.at < a.at => End(b) <= Floor(a)
  <2> SUFFICES ASSUME NEW a \in S
               PROVE  Floor(a) >= 1 /\ \A b \in S : b.at < a.at => End(b) <= Floor(a)
    OBVIOUS
  <2>1. 1 \in Ends(a) /\ \A b \in S : b.at < a.at => End(b) \in Ends(a)
    OBVIOUS
  <2> HIDE DEF Ends, Floor
  <2> QED
    BY <2>1, <1>3
<1> HIDE DEF Floor
<1>5. \A a \in S : Floor(a) < a.at =>
        /\ Gap(a) \in Areas /\ Gap(a).at = Floor(a) /\ Gap(a).len > 0 /\ End(Gap(a)) = a.at
        /\ Floor(a) \in Nat
        /\ \A p \in Nat : p \in Bytes(Gap(a)) <=> Floor(a) <= p /\ p < a.at
  <2> SUFFICES ASSUME NEW a \in S, Floor(a) < a.at
               PROVE  /\ Gap(a) \in Areas /\ Gap(a).at = Floor(a) /\ Gap(a).len > 0
                      /\ End(Gap(a)) = a.at
                      /\ Floor(a) \in Nat
                      /\ \A p \in Nat : p \in Bytes(Gap(a)) <=> Floor(a) <= p /\ p < a.at
    OBVIOUS
  <2>1. Floor(a) \in Nat
    BY <1>3
  <2>2. a.at - Floor(a) \in Nat /\ a.at - Floor(a) > 0 /\ Floor(a) + (a.at - Floor(a)) = a.at
    BY <2>1, <1>2
  <2>3. /\ Gap(a) \in Areas /\ Gap(a).at = Floor(a) /\ Gap(a).len = a.at - Floor(a)
        /\ End(Gap(a)) = Floor(a) + (a.at - Floor(a))
        /\ \A p \in Nat : p \in Bytes(Gap(a)) <=> Floor(a) <= p /\ p < Floor(a) + (a.at - Floor(a))
    BY <2>1, <2>2, AreaIs
  <2> HIDE DEF Gap
  <2> QED
    BY <2>1, <2>2, <2>3
<1> HIDE DEF Gap, Ends
<1>6. \A a \in S, b \in S : a.at = b.at => a = b
  <2> SUFFICES ASSUME NEW a \in S, NEW b \in S, a # b, a.at = b.at PROVE FALSE
    OBVIOUS
  <2>1. End(a) <= b.at \/ End(b) <= a.at
    BY DEF Apart
  <2> QED
    BY <2>1, <1>2
\* Gaps are in the order of what they come before.
<1>7. \A a \in S, b \in S : Floor(a) < a.at /\ Floor(b) < b.at /\ a.at < b.at => a.at < Floor(b)
  <2> SUFFICES ASSUME NEW a \in S, NEW b \in S, a.at < b.at PROVE a.at < Floor(b)
    OBVIOUS
  <2>1. End(a) <= Floor(b) /\ Floor(b) \in Nat
    BY <1>3, <1>4
  <2> QED
    BY <2>1, <1>2
<1>8. IsFiniteSet(gaps)
  <2> DEFINE T == {b \in S : Floor(b) < b.at}
             gap == [a \in T |-> Gap(a)]
  <2>1. IsFiniteSet(T)
    BY FS_Subset
  <2>2. IsFiniteSet({gap[a] : a \in T})
    <3> HIDE DEF T, gap
    <3> QED
      BY <2>1, FiniteValues
  <2>3. {gap[a] : a \in T} = gaps
    OBVIOUS
  <2> QED
    BY <2>2, <2>3
<1>9. /\ \A g \in gaps : g \in Areas /\ g.at \in Nat /\ g.len > 0
      /\ \A g \in gaps, h \in gaps : g.at < h.at => End(g) < h.at
      /\ \A g \in gaps, h \in gaps : g.at = h.at => g = h
  <2>1. \A g \in gaps : g \in Areas /\ g.at \in Nat /\ g.len > 0
    BY <1>5
  <2>2. ASSUME NEW g \in gaps, NEW h \in gaps, g.at < h.at PROVE End(g) < h.at
    <3>1. PICK a \in S, b \in S : /\ Floor(a) < a.at /\ Floor(b) < b.at
                                  /\ g = Gap(a) /\ h = Gap(b)
      OBVIOUS
    <3>2. /\ g.at = Floor(a) /\ h.at = Floor(b) /\ End(g) = a.at /\ Floor(a) \in Nat /\ Floor(b) \in Nat
          /\ a.at \in Nat /\ b.at \in Nat
      BY <3>1, <1>2, <1>5
    <3>3. a.at < b.at
      <4>1. CASE a.at = b.at
        BY <4>1, <3>2, <2>2, <1>6
      <4>2. CASE b.at < a.at
        <5>1. b.at < Floor(a)
          BY <4>2, <3>1, <1>7
        <5> QED
          BY <5>1, <3>1, <3>2, <2>2
      <4> QED
        BY <4>1, <4>2, <3>2
    <3> QED
      BY <3>1, <3>2, <3>3, <1>7
  <2>3. ASSUME NEW g \in gaps, NEW h \in gaps, g.at = h.at PROVE g = h
    <3>1. PICK a \in S, b \in S : /\ Floor(a) < a.at /\ Floor(b) < b.at
                                  /\ g = Gap(a) /\ h = Gap(b)
      OBVIOUS
    <3>2. /\ g.at = Floor(a) /\ h.at = Floor(b) /\ Floor(a) \in Nat /\ Floor(b) \in Nat
          /\ a.at \in Nat /\ b.at \in Nat
      BY <3>1, <1>2, <1>5
    <3>3. ~(a.at < b.at) /\ ~(b.at < a.at)
      <4>1. Floor(a) = Floor(b)
        BY <3>2, <2>3
      <4>2. a.at < b.at => a.at < Floor(a)
        BY <4>1, <3>1, <1>7
      <4>3. b.at < a.at => b.at < Floor(b)
        BY <4>1, <3>1, <1>7
      <4> QED
        BY <4>2, <4>3, <3>1, <3>2
    <3>4. a = b
      BY <3>2, <3>3, <1>6
    <3> QED
      BY <3>1, <3>4
  <2> QED
    BY <2>1, <2>2, <2>3
<1>10. /\ list \in Seq(gaps) /\ Len(list) \in Nat
       /\ \A g \in gaps : \E k \in 1..Len(list) : list[k] = g
       /\ \A k \in 1..Len(list), l \in 1..Len(list) : k < l => list[k].at < list[l].at
  <2> HIDE DEF gaps, list
  <2>1. /\ InOrder(gaps) \in Seq(gaps) /\ Len(InOrder(gaps)) \in Nat
        /\ \A a \in gaps : \E k \in 1..Len(InOrder(gaps)) : InOrder(gaps)[k] = a
        /\ \A k \in 1..Len(InOrder(gaps)), l \in 1..Len(InOrder(gaps)) :
             k < l => InOrder(gaps)[k].at < InOrder(gaps)[l].at
    <3>1. IsFiniteSet(gaps)
      BY <1>8
    <3>2. \A a \in gaps : a.at \in Nat
      BY <1>9
    <3>3. \A a \in gaps, b \in gaps : a.at = b.at => a = b
      BY <1>9
    <3> QED
      BY <3>1, <3>2, <3>3, RankedIs
  <2> QED
    BY <2>1, <1>1
<1> HIDE DEF list
<1>11. \A k \in 1..Len(list) : list[k] \in gaps
  BY <1>10, ElementOfSeq
<1>12. Separate(list)
  <2>1. list \in Seq(Areas)
    <3>1. gaps \subseteq Areas
      BY <1>9
    <3> HIDE DEF gaps
    <3> QED
      BY <3>1, <1>10, SeqMonotonic
  <2> HIDE DEF gaps
  <2> QED
    BY <2>1, <1>9, <1>10, <1>11 DEF Separate
<1>13. ASSUME NEW p \in Nat, In(p, list)
       PROVE  /\ p > 0 /\ \A a \in S : p \notin Bytes(a)
              /\ \E a \in S : p < a.at
  <2>1. PICK g \in gaps : p \in Bytes(g)
    BY <1>11, <1>13 DEF In
  <2>2. PICK a \in S : Floor(a) < a.at /\ g = Gap(a)
    OBVIOUS
  <2>3. Floor(a) <= p /\ p < a.at /\ Floor(a) \in Nat /\ Floor(a) >= 1
    BY <2>1, <2>2, <1>4, <1>5
  <2>4. ASSUME NEW b \in S, p \in Bytes(b) PROVE FALSE
    <3>1. b.at <= p /\ p < End(b)
      BY <2>4, <1>2
    <3>2. b.at < a.at
      BY <2>3, <3>1, <1>2
    <3>3. End(b) <= Floor(a)
      BY <3>2, <1>4
    <3> QED
      BY <2>3, <3>1, <3>3, <1>2
  <2> QED
    BY <2>3, <2>4
<1>14. ASSUME NEW p \in Nat, p > 0, \A a \in S : p \notin Bytes(a), \E a \in S : p < a.at
       PROVE  In(p, list)
  <2> DEFINE starts == {a.at : a \in {b \in S : p < b.at}}
  <2>1. starts \in SUBSET Nat /\ starts # {}
    BY <1>2, <1>14
  <2>2. PICK s \in starts : \A t \in starts : s <= t
    <3> HIDE DEF starts
    <3> QED
      BY <2>1, LeastExists
  <2>3. PICK a \in S : p < a.at /\ a.at = s
    OBVIOUS
  <2>4. \A b \in S : b.at < a.at => End(b) <= p
    <3> SUFFICES ASSUME NEW b \in S, b.at < a.at PROVE End(b) <= p
      OBVIOUS
    <3>1. ~(p < b.at)
      <4>1. p < b.at => b.at \in starts
        OBVIOUS
      <4>2. a.at \in Nat /\ b.at \in Nat
        BY <1>2
      <4> HIDE DEF starts
      <4> QED
        BY <4>1, <4>2, <2>2, <2>3
    <3>2. p \notin Bytes(b)
      BY <1>14
    <3> QED
      BY <3>1, <3>2, <1>2
  <2>5. Floor(a) <= p
    <3>1. Floor(a) \in Ends(a)
      BY <1>3
    <3>2. Floor(a) = 1 \/ \E b \in S : b.at < a.at /\ Floor(a) = End(b)
      BY <3>1 DEF Ends
    <3> QED
      BY <3>2, <2>4, <1>14
  <2>6. Floor(a) < a.at /\ p \in Bytes(Gap(a))
    <3>1. Floor(a) \in Nat /\ a.at \in Nat
      BY <1>2, <1>3
    <3>2. Floor(a) < a.at
      BY <3>1, <2>3, <2>5
    <3> QED
      BY <3>2, <2>3, <2>5, <1>5
  <2>7. Gap(a) \in gaps
    BY <2>6
  <2> HIDE DEF gaps
  <2> QED
    BY <2>6, <2>7, <1>10 DEF In
<1> HIDE DEF gaps
<1>15. Separate(list) /\ \A p \in Nat : In(p, list) <=>
         /\ p > 0 /\ \A a \in S : p \notin Bytes(a)
         /\ \E a \in S : p < a.at
  BY <1>12, <1>13, <1>14
<1> QED
  BY <1>15 DEF list

-----------------------------------------------------------------------------
(* Reopening. *)

\* Definitions, blocks and queue of a placed file share no byte, and none with
\* its head.
LEMMA UsesApart ==
  ASSUME NEW ents, NEW blocs, NEW end, Placed(ents, blocs, end)
  PROVE  /\ \A a \in Occupied(ents, blocs, end) : a \in Areas /\ a.at > HeadBytes
         /\ \A a \in Occupied(ents, blocs, end), b \in Occupied(ents, blocs, end) :
              a # b => Apart(a, b)
<1> DEFINE S == Occupied(ents, blocs, end)
           queue == Area(end, QueueBytes)
<1>1. /\ end \in Nat /\ end > HeadBytes + 1 /\ DOMAIN blocs = 1..Len(blocs)
      /\ \A b \in 1..Len(blocs) :
           /\ blocs[b] \in Nat /\ blocs[b] > HeadBytes /\ blocs[b] + BlocBytes <= end
           /\ BlocOf(blocs, b) \in Areas /\ BlocOf(blocs, b).at = blocs[b]
           /\ End(BlocOf(blocs, b)) = blocs[b] + BlocBytes
      /\ \A b \in 1..Len(blocs), c \in 1..Len(blocs) :
           b # c => Apart(BlocOf(blocs, b), BlocOf(blocs, c))
  BY ChainedIs DEF Placed
<1>2. \A i \in Idents :
        /\ ents[i] \in Areas /\ End(ents[i]) <= end
        /\ ents[i] # NoArea => ents[i].at > HeadBytes
  BY PlacedIs
<1>3. queue \in Areas /\ queue.at = end
  BY <1>1, SizesAre, AreaIs
<1>4. \A a \in S : \/ \E i \in Idents : a = ents[i] /\ ents[i] # NoArea
                   \/ \E b \in 1..Len(blocs) : a = BlocOf(blocs, b)
                   \/ a = queue
  BY <1>1 DEF Occupied, BlocOf, Reach
<1> HIDE DEF S, queue
<1>5. ASSUME NEW a \in S PROVE a \in Areas /\ a.at > HeadBytes /\ (a # queue => End(a) <= end)
  <2>1. CASE \E i \in Idents : a = ents[i] /\ ents[i] # NoArea
    BY <2>1, <1>2
  <2>2. CASE \E b \in 1..Len(blocs) : a = BlocOf(blocs, b)
    BY <2>2, <1>1
  <2>3. CASE a = queue
    BY <2>3, <1>1, <1>3, SizesAre
  <2> QED
    BY <2>1, <2>2, <2>3, <1>4
<1>6. ASSUME NEW a \in S, NEW b \in S, a # b PROVE Apart(a, b)
  <2>1. /\ \A i \in Idents, j \in Idents : i # j => Apart(ents[i], ents[j])
        /\ \A i \in Idents, c \in 1..Len(blocs) : ents[i] # NoArea => Apart(ents[i], BlocOf(blocs, c))
    BY DEF Placed, Fit
  <2>2. CASE a = queue \/ b = queue
    BY <2>2, <1>3, <1>5, <1>6 DEF Apart
  <2>3. CASE a # queue /\ b # queue
    <3>1. CASE \E i \in Idents : a = ents[i] /\ ents[i] # NoArea
      <4>1. \A c \in 1..Len(blocs) : b = BlocOf(blocs, c) => Apart(a, b)
        BY <2>1, <3>1
      <4>2. \A j \in Idents : b = ents[j] => Apart(a, b)
        BY <2>1, <3>1, <1>6
      <4> QED
        BY <4>1, <4>2, <2>3, <1>4
    <3>2. CASE \E d \in 1..Len(blocs) : a = BlocOf(blocs, d)
      <4>1. \A c \in 1..Len(blocs) : b = BlocOf(blocs, c) => Apart(a, b)
        BY <1>1, <3>2, <1>6
      <4>2. \A j \in Idents : b = ents[j] /\ ents[j] # NoArea => Apart(a, b)
        BY <2>1, <3>2 DEF Apart
      <4> QED
        BY <4>1, <4>2, <2>3, <1>4
    <3> QED
      BY <3>1, <3>2, <2>3, <1>4
  <2> QED
    BY <2>2, <2>3
<1> QED
  BY <1>5, <1>6 DEF S

\* What a reopening computes from the file is what definitions and blocks leave.
LEMMA ReopenedGaps ==
  ASSUME NEW ents, NEW blocs, NEW end, Placed(ents, blocs, end)
  PROVE  Gaps(EmptySpaces(Occupied(ents, blocs, end)), ents, blocs, end, NoArea)
<1> DEFINE held == {j \in Reach(blocs) : ents[j] # NoArea}
           defs == {ents[i] : i \in held}
           blocks == {Area(blocs[b], BlocBytes) : b \in DOMAIN blocs}
           queue == Area(end, QueueBytes)
           S == Occupied(ents, blocs, end)
           list == EmptySpaces(S)
<1>1. /\ end \in Nat /\ end > HeadBytes + 1 /\ Len(blocs) \in Nat /\ Len(blocs) > 0
      /\ DOMAIN blocs = 1..Len(blocs)
      /\ \A b \in 1..Len(blocs) :
           /\ blocs[b] \in Nat /\ blocs[b] > HeadBytes /\ blocs[b] + BlocBytes <= end
           /\ BlocOf(blocs, b) \in Areas /\ BlocOf(blocs, b).at = blocs[b]
           /\ BlocOf(blocs, b).len = BlocBytes /\ End(BlocOf(blocs, b)) = blocs[b] + BlocBytes
      /\ \A b \in 1..Len(blocs), c \in 1..Len(blocs) :
           b # c => Apart(BlocOf(blocs, b), BlocOf(blocs, c))
  BY ChainedIs DEF Placed
<1>2. \A i \in Idents :
        /\ ents[i] \in Areas /\ ents[i].at \in Nat /\ ents[i].len \in Nat
        /\ End(ents[i]) = ents[i].at + ents[i].len
        /\ End(ents[i]) <= end
        /\ ents[i] # NoArea =>
             /\ ents[i].len > 0 /\ ents[i].at > HeadBytes
             /\ i \in Reach(blocs)
  BY PlacedIs
<1>3. queue \in Areas /\ queue.at = end /\ queue.len = QueueBytes
  BY <1>1, SizesAre, AreaIs
<1>4. held \subseteq Idents
  BY DEF Reach
<1>5. IsFiniteSet(S)
  <2>1. IsFiniteSet(held)
    <3>1. IsFiniteSet(Idents)
      <4>1. BlocSize * (MaxBlocs + 1) \in Int
        BY SizesAre
      <4> QED
        BY <4>1, FS_Interval DEF Idents
    <3> QED
      BY <3>1, <1>4, FS_Subset
  <2>2. IsFiniteSet(defs)
    <3> HIDE DEF held
    <3> QED
      BY <2>1, FiniteValues
  <2>3. IsFiniteSet(blocks)
    <3> DEFINE T == DOMAIN blocs
               area == [b \in T |-> Area(blocs[b], BlocBytes)]
    <3>1. IsFiniteSet(T)
      BY <1>1, FS_Interval
    <3>2. IsFiniteSet({area[b] : b \in T})
      <4> HIDE DEF T, area
      <4> QED
        BY <3>1, FiniteValues
    <3> QED
      BY <3>2
  <2>4. IsFiniteSet({queue})
    BY FS_Singleton
  <2>5. S = defs \cup blocks \cup {queue}
    BY DEF Occupied
  <2> HIDE DEF defs, blocks, queue, S
  <2> QED
    BY <2>2, <2>3, <2>4, <2>5, FS_Union
<1>6. \A a \in S : \/ \E i \in Idents : a = ents[i] /\ ents[i] # NoArea
                   \/ \E b \in 1..Len(blocs) : a = BlocOf(blocs, b)
                   \/ a = queue
  BY <1>1, <1>4 DEF Occupied, BlocOf
<1>7. /\ \A i \in Idents : ents[i] # NoArea => ents[i] \in S
      /\ \A b \in 1..Len(blocs) : BlocOf(blocs, b) \in S
      /\ queue \in S
  BY <1>1, <1>2 DEF Occupied, BlocOf
<1> HIDE DEF held, defs, blocks, S
<1>8. \A a \in S : a \in Areas /\ a.at > 0 /\ a.len > 0 /\ a.at <= end
  <2> SUFFICES ASSUME NEW a \in S PROVE a \in Areas /\ a.at > 0 /\ a.len > 0 /\ a.at <= end
    OBVIOUS
  <2>1. CASE \E i \in Idents : a = ents[i] /\ ents[i] # NoArea
    BY <2>1, <1>1, <1>2, SizesAre
  <2>2. CASE \E b \in 1..Len(blocs) : a = BlocOf(blocs, b)
    BY <2>2, <1>1, SizesAre
  <2>3. CASE a = queue
    BY <2>3, <1>1, <1>3, SizesAre
  <2> QED
    BY <2>1, <2>2, <2>3, <1>6
<1>9. \A a \in S, b \in S : a # b => Apart(a, b)
  BY UsesApart DEF S
<1>10. /\ Separate(list)
       /\ \A p \in Nat : In(p, list) <=>
            /\ p > 0 /\ \A a \in S : p \notin Bytes(a)
            /\ \E a \in S : p < a.at
  <2>1. \A a \in S : a \in Areas /\ a.at > 0 /\ a.len > 0
    BY <1>8
  <2> QED
    BY <2>1, <1>5, <1>9, SpacesAre
<1> HIDE DEF list
<1>11. \A p \in Nat : p > HeadBytes =>
         (In(p, list) <=> p < end /\ ~Used(ents, blocs, p) /\ p \notin Bytes(NoArea))
  <2> SUFFICES ASSUME NEW p \in Nat, p > HeadBytes
               PROVE  In(p, list) <=> p < end /\ ~Used(ents, blocs, p)
    BY NoAreaIs
  <2>1. (\E a \in S : p < a.at) <=> p < end
    <3>1. \A a \in S : a.at \in Nat /\ a.at <= end
      BY <1>8 DEF Areas
    <3> QED
      BY <3>1, <1>1, <1>3, <1>7
  <2>2. p \in Bytes(queue) => ~(p < end)
    BY <1>1, <1>3, BytesAre
  <2>3. p < end => ((\A a \in S : p \notin Bytes(a)) <=> ~Used(ents, blocs, p))
    <3>1. ASSUME NEW a \in S, p \in Bytes(a), p < end PROVE Used(ents, blocs, p)
      BY <3>1, <2>2, <1>6 DEF Used
    <3>2. ASSUME NEW i \in Idents, p \in Bytes(ents[i]) PROVE \E a \in S : p \in Bytes(a)
      BY <3>2, <1>7, NoAreaIs
    <3>3. ASSUME NEW b \in 1..Len(blocs), p \in Bytes(BlocOf(blocs, b))
          PROVE  \E a \in S : p \in Bytes(a)
      BY <3>3, <1>7
    <3> QED
      BY <3>1, <3>2, <3>3 DEF Used
  <2> QED
    BY <2>1, <2>3, <1>10, SizesAre
<1>12. ~In(0, list)
  BY <1>10
<1> QED
  BY <1>10, <1>11, <1>12 DEF Gaps, list, S

\* Nothing of a list of gaps touches one of its areas.
LEMMA NothingTouches ==
  ASSUME NEW list, Separate(list), NEW k \in 1..Len(list)
  PROVE  /\ ~In(End(list[k]), list)
         /\ \A p \in Nat : p + 1 = list[k].at => ~In(p, list)
<1>1. \A j \in 1..Len(list) : /\ list[j] \in Areas /\ list[j].at \in Nat /\ list[j].len \in Nat
                              /\ End(list[j]) \in Nat /\ End(list[j]) = list[j].at + list[j].len
                              /\ list[j].len > 0
                              /\ \A p \in Nat : p \in Bytes(list[j]) <=> list[j].at <= p /\ p < End(list[j])
  <2>1. \A j \in 1..Len(list) : list[j] \in Areas
    BY ElementOfSeq DEF Separate
  <2> QED
    BY <2>1, BytesAre DEF Separate, Areas
<1>2. \A j \in 1..Len(list) : (j < k => End(list[j]) < list[k].at) /\ (k < j => End(list[k]) < list[j].at)
  BY DEF Separate
<1>3. Len(list) \in Nat
  BY LenProperties DEF Separate
<1>4. ASSUME NEW j \in 1..Len(list), End(list[k]) \in Bytes(list[j]) PROVE FALSE
  <2>1. list[j].at <= End(list[k]) /\ End(list[k]) < End(list[j])
    BY <1>4, <1>1
  <2>2. /\ list[j].at \in Nat /\ End(list[j]) \in Nat
        /\ list[k].at \in Nat /\ list[k].len \in Nat /\ End(list[k]) = list[k].at + list[k].len
    BY <1>1
  <2>3. j < k \/ k < j \/ j = k
    BY <1>3
  <2>4. (j < k => End(list[j]) < list[k].at) /\ (k < j => End(list[k]) < list[j].at)
    BY <1>2
  <2> QED
    BY <2>1, <2>2, <2>3, <2>4
<1>5. ASSUME NEW p \in Nat, p + 1 = list[k].at, NEW j \in 1..Len(list), p \in Bytes(list[j])
      PROVE  FALSE
  <2>1. list[j].at <= p /\ p < End(list[j])
    BY <1>5, <1>1
  <2>2. /\ list[j].at \in Nat /\ End(list[j]) \in Nat
        /\ list[k].at \in Nat /\ list[k].len \in Nat /\ End(list[k]) = list[k].at + list[k].len
    BY <1>1
  <2>3. j < k \/ k < j \/ j = k
    BY <1>3
  <2>4. (j < k => End(list[j]) < list[k].at) /\ (k < j => End(list[k]) < list[j].at)
    BY <1>2
  <2> QED
    BY <2>1, <2>2, <2>3, <2>4, <1>5
<1> QED
  BY <1>4, <1>5 DEF In

\* Two lists of what is free beyond a byte that is not have the same areas.
LEMMA SameArea ==
  ASSUME NEW list, NEW other, Separate(list), Separate(other), NEW low \in Nat,
         \A p \in Nat : p >= low => (In(p, list) <=> In(p, other)),
         NEW k \in 1..Len(list), list[k].at > low
  PROVE  \E m \in 1..Len(other) : other[m] = list[k]
<1> DEFINE a == list[k]
<1>1. /\ a \in Areas /\ a.at \in Nat /\ End(a) \in Nat /\ a.len > 0 /\ a.len \in Nat
      /\ End(a) = a.at + a.len
  <2>1. a \in Areas
    BY ElementOfSeq DEF Separate
  <2> QED
    BY <2>1, BytesAre DEF Separate, Areas
<1>2. In(a.at, list)
  BY <1>1, BytesAre DEF In
<1>3. PICK m \in 1..Len(other) : a.at \in Bytes(other[m])
  <2>1. a.at >= low
    BY <1>1
  <2> HIDE DEF a
  <2>2. In(a.at, other)
    BY <2>1, <1>1, <1>2
  <2> QED
    BY <2>2 DEF In
<1> DEFINE b == other[m]
<1>4. b \in Areas /\ b.at \in Nat /\ End(b) \in Nat /\ End(b) = b.at + b.len /\ b.len \in Nat
  <2>1. b \in Areas
    BY ElementOfSeq DEF Separate
  <2> QED
    BY <2>1, BytesAre DEF Areas
<1>5. /\ \A p \in Nat : b.at <= p /\ p < End(b) => In(p, other)
      /\ \A p \in Nat : a.at <= p /\ p < End(a) => In(p, list)
  BY <1>1, <1>4, BytesAre DEF In
<1>6. /\ ~In(End(a), list) /\ ~In(End(b), other)
      /\ \A p \in Nat : p + 1 = a.at => ~In(p, list)
  BY NothingTouches
<1>7. b.at <= a.at /\ a.at < End(b)
  BY <1>1, <1>3, <1>4, BytesAre
<1> HIDE DEF a, b
<1>8. b.at = a.at
  <2> SUFFICES ASSUME b.at < a.at PROVE FALSE
    BY <1>1, <1>4, <1>7
  <2>1. a.at - 1 \in Nat /\ b.at <= a.at - 1 /\ a.at - 1 < End(b) /\ a.at - 1 >= low
    <3>1. a.at \in Nat /\ b.at \in Nat /\ End(b) \in Nat
      BY <1>1, <1>4
    <3>2. a.at - 1 >= low
      BY <1>1, <1>4, <1>7 DEF a
    <3> QED
      BY <3>1, <3>2, <1>7
  <2>2. In(a.at - 1, other)
    BY <2>1, <1>5
  <2>3. a.at - 1 + 1 = a.at
    BY <1>1
  <2>4. ~In(a.at - 1, list)
    BY <2>1, <2>3, <1>6
  <2> QED
    BY <2>1, <2>2, <2>4, <1>1
<1>9. End(b) = End(a)
  <2>1. ~(End(a) < End(b))
    <3> SUFFICES ASSUME End(a) < End(b) PROVE FALSE
      OBVIOUS
    <3>1. b.at <= End(a) /\ End(a) >= low
      BY <1>1, <1>8 DEF a
    <3> QED
      BY <3>1, <1>1, <1>5, <1>6
  <2>2. ~(End(b) < End(a))
    <3> SUFFICES ASSUME End(b) < End(a) PROVE FALSE
      OBVIOUS
    <3>1. a.at <= End(b) /\ End(b) >= low
      BY <1>1, <1>4, <1>7 DEF a
    <3> QED
      BY <3>1, <1>4, <1>5, <1>6
  <2> QED
    BY <2>1, <2>2, <1>1, <1>4
<1>10. a = b
  <2>1. a.len = b.len
    BY <1>1, <1>4, <1>8, <1>9
  <2> QED
    BY <2>1, <1>1, <1>4, <1>8 DEF Areas
<1> QED
  BY <1>10 DEF a, b

\* What is left between definitions and blocks makes one list, the head aside.
LEMMA SameGaps ==
  ASSUME NEW ents, NEW blocs, NEW end, Placed(ents, blocs, end), NEW list, NEW other,
         Gaps(list, ents, blocs, end, NoArea), Gaps(other, ents, blocs, end, NoArea)
  PROVE  Beyond(list) = Beyond(other)
<1> DEFINE low == HeadBytes + 1
<1>1. low \in Nat /\ low > HeadBytes /\ HeadBytes \in Nat
  BY SizesAre
<1>2. \A p \in Nat : p >= low => (In(p, list) <=> In(p, other))
  <2>1. \A p \in Nat : p >= low => p > HeadBytes
    BY <1>1
  <2> QED
    BY <2>1 DEF Gaps
<1>3. ~In(low, list) /\ ~In(low, other)
  <2>1. Used(ents, blocs, low)
    BY PlacedIs
  <2> HIDE DEF low
  <2> QED
    BY <2>1, <1>1 DEF Gaps
<1>4. Separate(list) /\ Separate(other)
  BY DEF Gaps
<1>5. \A k \in 1..Len(list) : list[k].at > HeadBytes => \E m \in 1..Len(other) : other[m] = list[k]
  <2> SUFFICES ASSUME NEW k \in 1..Len(list), list[k].at > HeadBytes
               PROVE  \E m \in 1..Len(other) : other[m] = list[k]
    OBVIOUS
  <2>1. list[k] \in Areas /\ list[k].len > 0
    BY <1>4, ElementOfSeq DEF Separate
  <2>2. list[k].at \in Nat /\ In(list[k].at, list)
    BY <2>1, BytesAre DEF In, Areas
  <2>3. list[k].at > low
    BY <1>1, <1>3, <2>2
  <2> QED
    BY <2>3, <1>1, <1>2, <1>4, SameArea
<1>6. \A k \in 1..Len(other) : other[k].at > HeadBytes => \E m \in 1..Len(list) : list[m] = other[k]
  <2> SUFFICES ASSUME NEW k \in 1..Len(other), other[k].at > HeadBytes
               PROVE  \E m \in 1..Len(list) : list[m] = other[k]
    OBVIOUS
  <2>1. other[k] \in Areas /\ other[k].len > 0
    BY <1>4, ElementOfSeq DEF Separate
  <2>2. other[k].at \in Nat /\ In(other[k].at, other)
    BY <2>1, BytesAre DEF In, Areas
  <2>3. other[k].at > low
    BY <1>1, <1>3, <2>2
  <2> QED
    BY <2>3, <1>1, <1>2, <1>4, SameArea
<1>7. DOMAIN list = 1..Len(list) /\ DOMAIN other = 1..Len(other)
  BY <1>4, LenProperties DEF Separate
<1> QED
  BY <1>5, <1>6, <1>7 DEF Beyond, Range

-----------------------------------------------------------------------------
(* Bytes written. *)

\* The length of a sequence given cell by cell.
LEMMA CellsAre ==
  ASSUME NEW n \in Nat, NEW d, d = [p \in 1..n |-> d[p]]
  PROVE  Len(d) = n /\ DOMAIN d = 1..n /\ IsBytes(d)
<1> DEFINE T == {d[p] : p \in 1..n}
<1>1. d \in [1..n -> T]
  <2>1. \A p \in 1..n : d[p] \in T
    OBVIOUS
  <2> HIDE DEF T
  <2> QED
    BY <2>1
<1> HIDE DEF T
<1>2. d \in Seq(T)
  BY <1>1, SeqDef
<1>3. DOMAIN d = 1..n
  BY <1>1
<1>4. Len(d) \in Nat /\ DOMAIN d = 1..Len(d)
  BY <1>2, LenProperties
<1>5. Len(d) = n
  BY <1>3, <1>4
<1> QED
  BY <1>3, <1>5 DEF IsBytes

LEMMA DiskIs ==
  ASSUME NEW d, IsBytes(d)
  PROVE  Len(d) \in Nat /\ DOMAIN d = 1..Len(d)
BY CellsAre DEF IsBytes

\* What a write leaves: the cells written, and those of before.
LEMMA WrittenIs ==
  ASSUME NEW d, IsBytes(d), NEW cells, IsBytes(cells), NEW at \in Nat, at > 0
  PROVE  LET w == Written(d, at, cells)
             last == at + Len(cells) - 1
         IN  /\ IsBytes(w)
             /\ Len(w) = IF last > Len(d) THEN last ELSE Len(d)
             /\ \A p \in 1..Len(w) :
                  w[p] = IF p \in at..last THEN cells[p - at + 1] ELSE d[p]
<1> DEFINE w == Written(d, at, cells)
           last == at + Len(cells) - 1
           n == IF last > Len(d) THEN last ELSE Len(d)
<1>1. Len(d) \in Nat /\ Len(cells) \in Nat
  BY DiskIs
<1>2. n \in Nat
  BY <1>1
<1>3. w = [p \in 1..n |-> IF p \in at..last THEN cells[p - at + 1] ELSE d[p]]
  BY DEF Written
<1> HIDE DEF w, n, last
<1>4. \A p \in 1..n : w[p] = IF p \in at..last THEN cells[p - at + 1] ELSE d[p]
  BY <1>3
<1>5. w = [p \in 1..n |-> w[p]]
  BY <1>3
<1>6. Len(w) = n /\ IsBytes(w)
  BY <1>2, <1>5, CellsAre
<1> QED
  BY <1>4, <1>6 DEF w, n, last

\* The cells of what is written.
LEMMA BlocIs ==
  IsBytes(Bloc) /\ Len(Bloc) = BlocBytes
<1>1. BlocBytes \in Nat
  BY SizesAre
<1>2. Bloc = [k \in 1..BlocBytes |-> Bloc[k]]
  BY DEF Bloc
<1> QED
  BY <1>1, <1>2, CellsAre

LEMMA QueueIs ==
  ASSUME NEW s
  PROVE  IsBytes(Queue(s)) /\ Len(Queue(s)) = QueueBytes
<1>1. QueueBytes \in Nat
  BY SizesAre
<1>2. Queue(s) = [k \in 1..QueueBytes |-> Queue(s)[k]]
  BY DEF Queue
<1> QED
  BY <1>1, <1>2, CellsAre

\* The one definition of a content.
LEMMA ContentIs ==
  ASSUME NEW v \in Values
  PROVE  /\ ContentSize({v}) = Size[v]
         /\ \A i : Definition(i, {v}) = [k \in 1..Size[v] |-> <<"definition", i, v, k>>]
BY DEF ContentSize, Definition

LEMMA DefinitionIs ==
  ASSUME NEW v \in Values, NEW i
  PROVE  /\ IsBytes(Definition(i, {v})) /\ Len(Definition(i, {v})) = Size[v]
         /\ \A k \in 1..Size[v] : Definition(i, {v})[k] = <<"definition", i, v, k>>
<1>1. Size[v] \in Nat
  BY SizesAre
<1>2. Definition(i, {v}) = [k \in 1..Size[v] |-> <<"definition", i, v, k>>]
  BY ContentIs
<1>3. \A k \in 1..Size[v] : Definition(i, {v})[k] = <<"definition", i, v, k>>
  BY <1>2
<1>4. Definition(i, {v}) = [k \in 1..Size[v] |-> Definition(i, {v})[k]]
  BY <1>2
<1> QED
  BY <1>1, <1>3, <1>4, CellsAre

\* A write apart from an area leaves what it holds.
LEMMA KeptIs ==
  ASSUME NEW d, IsBytes(d), NEW cells, IsBytes(cells), NEW at \in Nat, at > 0,
         NEW a \in Areas, a.at > 0, End(a) <= Len(d) + 1,
         End(a) <= at \/ at + Len(cells) <= a.at,
         NEW i, NEW v \in Values
  PROVE  Holds(Written(d, at, cells), a, i, v) <=> Holds(d, a, i, v)
<1> DEFINE w == Written(d, at, cells)
           last == at + Len(cells) - 1
<1>1. Len(d) \in Nat /\ Len(cells) \in Nat
  BY DiskIs
<1>2. /\ Len(w) = IF last > Len(d) THEN last ELSE Len(d)
      /\ \A p \in 1..Len(w) : w[p] = IF p \in at..last THEN cells[p - at + 1] ELSE d[p]
  BY WrittenIs
<1>3. a.at \in Nat /\ a.len \in Nat /\ End(a) = a.at + a.len /\ Size[v] \in Nat
  BY BytesAre, SizesAre DEF Areas, End
<1>4. Len(w) \in Nat /\ Len(w) >= Len(d)
  BY <1>1, <1>2
<1> HIDE DEF w
<1>5. ASSUME Size[v] <= a.len, NEW k \in 1..Size[v]
      PROVE  w[a.at + k - 1] = d[a.at + k - 1]
  <2>1. a.at + k - 1 \in 1..Len(w)
    BY <1>1, <1>3, <1>4, <1>5
  <2>2. a.at + k - 1 \notin at..last
    BY <1>1, <1>3, <1>5
  <2> HIDE DEF last
  <2> QED
    BY <1>2, <2>1, <2>2
<1>6. Size[v] <= a.len => (a.at + Size[v] - 1 <= Len(d) /\ a.at + Size[v] - 1 <= Len(w))
  BY <1>1, <1>3, <1>4
<1> HIDE DEF last
<1> QED
  BY <1>5, <1>6 DEF Holds, w

\* A definition written is held.
LEMMA WrittenHolds ==
  ASSUME NEW d, IsBytes(d), NEW a \in Areas, a.at > 0, NEW i, NEW v \in Values,
         Size[v] <= a.len
  PROVE  \A u \in Values : Holds(Written(d, a.at, Definition(i, {v})), a, i, u) <=> u = v
<1> DEFINE cells == Definition(i, {v})
           w == Written(d, a.at, cells)
           last == a.at + Len(cells) - 1
<1>1. Len(d) \in Nat /\ Len(cells) = Size[v] /\ IsBytes(cells) /\ Size[v] \in Nat /\ Size[v] > 0
      /\ \A k \in 1..Size[v] : cells[k] = <<"definition", i, v, k>>
  BY DiskIs, DefinitionIs, SizesAre
<1>2. a.at \in Nat
  BY DEF Areas
<1> HIDE DEF cells
<1>3. /\ Len(w) = IF last > Len(d) THEN last ELSE Len(d)
      /\ \A p \in 1..Len(w) : w[p] = IF p \in a.at..last THEN cells[p - a.at + 1] ELSE d[p]
  <2>1. IsBytes(cells)
    BY <1>1
  <2> QED
    BY <2>1, <1>2, WrittenIs
<1> HIDE DEF w
<1>4. Len(w) \in Nat /\ a.at + Size[v] - 1 <= Len(w)
  BY <1>1, <1>2, <1>3
<1>5. \A k \in 1..Size[v] : w[a.at + k - 1] = <<"definition", i, v, k>>
  <2> SUFFICES ASSUME NEW k \in 1..Size[v]
               PROVE  w[a.at + k - 1] = <<"definition", i, v, k>>
    OBVIOUS
  <2>1. a.at + k - 1 \in 1..Len(w) /\ a.at + k - 1 \in a.at..last /\ (a.at + k - 1) - a.at + 1 = k
    <3>1. a.at \in Nat /\ a.at > 0 /\ k \in Nat /\ 1 <= k /\ k <= Size[v] /\ Size[v] \in Nat
      BY <1>1, <1>2
    <3>2. last = a.at + Size[v] - 1
      BY <1>1
    <3> HIDE DEF last
    <3> QED
      BY <3>1, <3>2, <1>4
  <2> HIDE DEF last
  <2>2. w[a.at + k - 1] = cells[(a.at + k - 1) - a.at + 1]
    BY <1>3, <2>1
  <2>3. cells[k] = <<"definition", i, v, k>>
    BY <1>1
  <2> QED
    BY <2>1, <2>2, <2>3
<1>6. Holds(w, a, i, v)
  BY <1>4, <1>5 DEF Holds
<1>7. ASSUME NEW u \in Values, Holds(w, a, i, u) PROVE u = v
  <2>1. 1 \in 1..Size[v] /\ 1 \in 1..Size[u]
    BY SizesAre
  <2>2. w[a.at + 1 - 1] = <<"definition", i, v, 1>> /\ w[a.at + 1 - 1] = <<"definition", i, u, 1>>
    BY <2>1, <1>5, <1>7 DEF Holds
  <2> QED
    BY <2>2
<1> QED
  BY <1>6, <1>7 DEF w, cells

\* Bytes one after the other.
LEMMA JoinedIs ==
  ASSUME NEW c, IsBytes(c), NEW d, IsBytes(d)
  PROVE  IsBytes(c \o d) /\ Len(c \o d) = Len(c) + Len(d)
<1>1. Len(c) \in Nat /\ DOMAIN c = 1..Len(c) /\ Len(d) \in Nat /\ DOMAIN d = 1..Len(d)
  BY DiskIs
<1> DEFINE T == {c[p] : p \in 1..Len(c)} \cup {d[p] : p \in 1..Len(d)}
<1>2. c \in Seq(T) /\ d \in Seq(T)
  <2>1. PICK n \in Nat : c = [p \in 1..n |-> c[p]]
    BY DEF IsBytes
  <2>2. PICK m \in Nat : d = [p \in 1..m |-> d[p]]
    BY DEF IsBytes
  <2>3. n = Len(c) /\ m = Len(d)
    BY <2>1, <2>2, CellsAre
  <2>4. (\A p \in 1..n : c[p] \in T) /\ (\A p \in 1..m : d[p] \in T)
    BY <2>3
  <2> HIDE DEF T
  <2>5. c \in [1..n -> T] /\ d \in [1..m -> T]
    BY <2>1, <2>2, <2>4
  <2> QED
    BY <2>5, SeqDef
<1> HIDE DEF T
<1>3. c \o d \in Seq(T) /\ Len(c \o d) = Len(c) + Len(d)
  BY <1>2, ConcatProperties
<1> DEFINE both == c \o d
<1> HIDE DEF both
<1>4. PICK n \in Nat : both \in [1..n -> T]
  <2>1. both \in Seq(T)
    BY <1>3 DEF both
  <2> QED
    BY <2>1, SeqDef
<1>5. both = [p \in 1..n |-> both[p]]
  BY <1>4
<1> QED
  BY <1>3, <1>5 DEF IsBytes, both

\* The queue written somewhere.
LEMMA QueueWritten ==
  ASSUME NEW d, IsBytes(d), NEW at \in Nat, at > 0, NEW s
  PROVE  LET w == Written(d, at, Queue(s))
             last == at + QueueBytes - 1
         IN  IsBytes(w) /\ Len(w) = IF last > Len(d) THEN last ELSE Len(d)
<1> DEFINE cells == Queue(s)
<1>1. IsBytes(cells) /\ Len(cells) = QueueBytes
  BY QueueIs
<1> HIDE DEF cells
<1>2. /\ IsBytes(Written(d, at, cells))
      /\ Len(Written(d, at, cells)) = IF at + Len(cells) - 1 > Len(d) THEN at + Len(cells) - 1
                                      ELSE Len(d)
  BY <1>1, WrittenIs
<1> QED
  BY <1>1, <1>2 DEF cells

\* The queue written beyond an area leaves what it holds.
LEMMA KeptByQueue ==
  ASSUME NEW d, IsBytes(d), NEW at \in Nat, at > 0, NEW s,
         NEW a \in Areas, a.at > 0, End(a) <= Len(d) + 1, End(a) <= at,
         NEW i, NEW v \in Values
  PROVE  Holds(Written(d, at, Queue(s)), a, i, v) <=> Holds(d, a, i, v)
<1> DEFINE cells == Queue(s)
<1>1. IsBytes(cells)
  BY QueueIs
<1> HIDE DEF cells
<1>2. Holds(Written(d, at, cells), a, i, v) <=> Holds(d, a, i, v)
  BY <1>1, KeptIs
<1> QED
  BY <1>2 DEF cells

\* A definition written below the end of the file leaves its length.
LEMMA DefinitionWritten ==
  ASSUME NEW d, IsBytes(d), NEW at \in Nat, at > 0, NEW i, NEW v \in Values
  PROVE  LET w == Written(d, at, Definition(i, {v}))
             last == at + Size[v] - 1
         IN  IsBytes(w) /\ Len(w) = IF last > Len(d) THEN last ELSE Len(d)
<1> DEFINE cells == Definition(i, {v})
<1>1. IsBytes(cells) /\ Len(cells) = Size[v]
  BY DefinitionIs
<1> HIDE DEF cells
<1>2. /\ IsBytes(Written(d, at, cells))
      /\ Len(Written(d, at, cells)) = IF at + Len(cells) - 1 > Len(d) THEN at + Len(cells) - 1
                                      ELSE Len(d)
  BY <1>1, WrittenIs
<1> QED
  BY <1>1, <1>2 DEF cells
=============================================================================
