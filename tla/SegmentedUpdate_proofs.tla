----------------------- MODULE SegmentedUpdate_proofs -----------------------
(***************************************************************************)
(* For every number of documents, segments and batches, every content and  *)
(* every merge policy: a document is live in one segment, ids given are    *)
(* free, the frequencies are exact, the segments implement the corpus of   *)
(* module Corpus, and the merges of a commit end, with nothing left to     *)
(* merge.                                                                  *)
(*                                                                         *)
(* The argument is one of views.  In an index whose segments are apart (no *)
(* document live in two of them) the view is the union of their live       *)
(* documents (ViewOf); masks take documents out of it, a new segment adds  *)
(* its own to it, and merges leave it as it is.  IInv says what the view   *)
(* of the new generation is at each step of a commit.                      *)
(*                                                                         *)
(* The sums of the model are folds over sets of segments.  What they are   *)
(* equal to is proved by induction on the size of the set, as the least    *)
(* counterexample that there is none of (SumExists, SumIsUnion).           *)
(***************************************************************************)
EXTENDS SegmentedUpdate, FiniteSetTheorems, TLAPS

\* No document is live in two segments.
Apart(index) ==
  \A p \in DOMAIN index, q \in DOMAIN index :
    \A d \in Docs : d \in LiveIds(index[p]) /\ d \in LiveIds(index[q]) => p = q

Sound(index) == IsIndex(index) /\ Apart(index)

-----------------------------------------------------------------------------
(* Finite sets of numbers. *)

\* The least element of a finite set of numbers is in it, and below the others.
LEMMA MinIsLeast ==
  ASSUME NEW S \in SUBSET Nat, IsFiniteSet(S), S # {}
  PROVE  Min(S) \in S /\ \A y \in S : Min(S) <= y
<1> DEFINE Below(x) == {y \in S : y < x}
           Belows == {Below(x) : x \in S}
<1>1. Belows \subseteq FiniteSubsetsOf(S) /\ Belows # {}
  <2>1. \A x \in S : Below(x) \in SUBSET S /\ IsFiniteSet(Below(x))
    BY FS_Subset DEF Below
  <2> QED
    BY <2>1 DEF FiniteSubsetsOf, Belows
<1>2. PICK U \in Belows : \A V \in Belows : ~ (<<V, U>> \in StrictSubsetOrdering(S))
  BY <1>1, FS_StrictSubsetOrderingWellFounded, WFMin
<1>3. PICK x \in S : U = Below(x)
  BY <1>2 DEF Belows
<1>4. ASSUME NEW y \in S, y < x PROVE FALSE
  <2>1. Below(y) \subseteq Below(x) /\ y \in Below(x) /\ y \notin Below(y)
    <3>1. \A z \in S : z < y => z < x
      BY <1>4
    <3>2. ~(y < y)
      BY <1>4
    <3>3. Below(y) \subseteq Below(x)
      BY <3>1 DEF Below
    <3>4. y \in Below(x)
      BY <1>4 DEF Below
    <3>5. y \notin Below(y)
      BY <3>2 DEF Below
    <3> QED
      BY <3>3, <3>4, <3>5
  <2>2. <<Below(y), U>> \in StrictSubsetOrdering(S)
    BY <2>1, <1>3 DEF StrictSubsetOrdering, Below
  <2> QED
    BY <1>2, <2>2 DEF Belows
<1>5. \A y \in S : x <= y
  BY <1>4
<1> QED
  BY <1>5 DEF Min

\* The largest one is in it, and above the others.
LEMMA MaxIsLargest ==
  ASSUME NEW S \in SUBSET Nat, IsFiniteSet(S), S # {}
  PROVE  Max(S) \in S /\ \A y \in S : Max(S) >= y
<1> DEFINE Above(x) == {y \in S : y > x}
           Aboves == {Above(x) : x \in S}
<1>1. Aboves \subseteq FiniteSubsetsOf(S) /\ Aboves # {}
  <2>1. \A x \in S : Above(x) \in SUBSET S /\ IsFiniteSet(Above(x))
    BY FS_Subset DEF Above
  <2> QED
    BY <2>1 DEF FiniteSubsetsOf, Aboves
<1>2. PICK U \in Aboves : \A V \in Aboves : ~ (<<V, U>> \in StrictSubsetOrdering(S))
  BY <1>1, FS_StrictSubsetOrderingWellFounded, WFMin
<1>3. PICK x \in S : U = Above(x)
  BY <1>2 DEF Aboves
<1>4. ASSUME NEW y \in S, y > x PROVE FALSE
  <2>1. Above(y) \subseteq Above(x) /\ y \in Above(x) /\ y \notin Above(y)
    <3>1. \A z \in S : z > y => z > x
      BY <1>4
    <3>2. ~(y > y)
      BY <1>4
    <3>3. Above(y) \subseteq Above(x)
      BY <3>1 DEF Above
    <3>4. y \in Above(x)
      BY <1>4 DEF Above
    <3>5. y \notin Above(y)
      BY <3>2 DEF Above
    <3> QED
      BY <3>3, <3>4, <3>5
  <2>2. <<Above(y), U>> \in StrictSubsetOrdering(S)
    BY <2>1, <1>3 DEF StrictSubsetOrdering, Above
  <2> QED
    BY <1>2, <2>2 DEF Aboves
<1>5. \A y \in S : x >= y
  BY <1>4
<1> QED
  BY <1>5 DEF Max

-----------------------------------------------------------------------------
(* Views. *)

\* Apart is what LiveInOneSegment says of an index.
LEMMA ApartIsDisjoint ==
  ASSUME NEW index, IsIndex(index), Apart(index)
  PROVE  Disjoint(index)
<1> SUFFICES ASSUME NEW d \in Docs PROVE Cardinality(Places(index, d)) <= 1
  BY DEF Disjoint
<1>1. CASE Places(index, d) = {}
  BY <1>1, FS_EmptySet
<1>2. CASE Places(index, d) # {}
  <2>1. PICK p : p \in Places(index, d)
    BY <1>2
  <2>2. Places(index, d) = {p}
    BY <2>1 DEF Places, Apart
  <2>3. Cardinality({p}) = 1
    BY FS_Singleton
  <2> QED
    BY <2>2, <2>3
<1> QED
  BY <1>1, <1>2

\* The ids of an index are below the next one.
LEMMA NextIdAbove ==
  ASSUME NEW index, IsIndex(index)
  PROVE  /\ NextId(index) \in 0..(MaxDoc + 1)
         /\ \A d \in AllIds(index) : d \in Docs /\ d < NextId(index)
<1>1. AllIds(index) \subseteq Docs
  BY DEF AllIds, IsIndex, IsSegment
<1>2. Docs \in SUBSET Nat /\ IsFiniteSet(Docs)
  BY MaxDocAssumption, FS_Interval DEF Docs
<1>3. IsFiniteSet(AllIds(index)) /\ AllIds(index) \in SUBSET Nat
  BY <1>1, <1>2, FS_Subset
<1>4. CASE AllIds(index) = {}
  BY <1>4, MaxDocAssumption DEF NextId
<1>5. CASE AllIds(index) # {}
  <2>1. Max(AllIds(index)) \in AllIds(index) /\ \A d \in AllIds(index) : Max(AllIds(index)) >= d
    BY <1>3, <1>5, MaxIsLargest
  <2> QED
    BY <1>1, <1>3, <1>5, <2>1, MaxDocAssumption DEF NextId, Docs
<1> QED
  BY <1>4, <1>5

\* The live documents of a segment are found there.
LEMMA LocateIs ==
  ASSUME NEW index, Sound(index), NEW p \in DOMAIN index, NEW d \in LiveIds(index[p])
  PROVE  Places(index, d) = {p} /\ Locate(index, d) = p /\ d \in AllIds(index)
<1>1. d \in Docs /\ d \in AllIds(index)
  BY DEF Sound, IsIndex, IsSegment, LiveIds, AllIds
<1>2. Places(index, d) = {p}
  BY <1>1 DEF Places, Sound, Apart
<1>3. p \in Nat
  BY DEF Sound, IsIndex
<1>4. IsFiniteSet({p})
  BY FS_Singleton
<1>5. Min({p}) = p
  BY <1>3, <1>4, MinIsLeast
<1> QED
  BY <1>1, <1>2, <1>5 DEF Locate

\* The view of an index is the union of the live documents of its segments.
LEMMA ViewOf ==
  ASSUME NEW index, Sound(index)
  PROVE  /\ View(index) = [d \in DOMAIN View(index) |-> View(index)[d]]
         /\ \A d : d \in DOMAIN View(index) <=> \E p \in DOMAIN index : d \in LiveIds(index[p])
         /\ \A p \in DOMAIN index : \A d \in LiveIds(index[p]) :
              View(index)[d] = index[p].docs[d]
<1>1. DOMAIN View(index) = {d \in AllIds(index) : Places(index, d) # {}}
  BY DEF View
<1>2. \A d : d \in DOMAIN View(index) <=> \E p \in DOMAIN index : d \in LiveIds(index[p])
  BY <1>1, LocateIs DEF Places
<1>3. ASSUME NEW p \in DOMAIN index, NEW d \in LiveIds(index[p])
      PROVE  View(index)[d] = index[p].docs[d]
  BY <1>3, <1>1, <1>2, LocateIs DEF View
<1>4. View(index) = [d \in DOMAIN View(index) |-> View(index)[d]]
  BY DEF View
<1> QED
  BY <1>2, <1>3, <1>4

\* Documents of the view have ids and contents.
LEMMA ViewType ==
  ASSUME NEW index, Sound(index)
  PROVE  /\ DOMAIN View(index) \subseteq Docs
         /\ View(index) \in [DOMAIN View(index) -> Contents]
         /\ \A d \in DOMAIN View(index) : d < NextId(index)
<1>1. ASSUME NEW d \in DOMAIN View(index)
      PROVE  d \in Docs /\ View(index)[d] \in Contents /\ d < NextId(index)
  <2>1. PICK p \in DOMAIN index : d \in LiveIds(index[p])
    BY <1>1, ViewOf
  <2>2. View(index)[d] = index[p].docs[d] /\ d \in AllIds(index)
    BY <2>1, ViewOf, LocateIs
  <2>3. index[p].docs[d] \in Contents
    BY <2>1 DEF Sound, IsIndex, IsSegment, LiveIds
  <2> QED
    BY <2>2, <2>3, NextIdAbove DEF Sound
<1> QED
  BY <1>1, ViewOf

-----------------------------------------------------------------------------
(* What masks, new segments and merges do to views. *)

\* A segment with more deleted documents.
LEMMA DeleteDocumentsIs ==
  ASSUME NEW s, IsSegment(s), NEW gone \in SUBSET Ids(s)
  PROVE  /\ IsSegment(DeleteDocuments(s, gone))
         /\ DeleteDocuments(s, gone).docs = s.docs
         /\ LiveIds(DeleteDocuments(s, gone)) = LiveIds(s) \ gone
<1> DEFINE m == DeleteDocuments(s, gone)
<1>1. ASSUME NEW t \in Terms PROVE Cardinality({d \in gone : t \in s.docs[d]}) \in Nat
  <2>1. {d \in gone : t \in s.docs[d]} \subseteq Docs
    BY DEF IsSegment
  <2>2. IsFiniteSet(Docs)
    BY MaxDocAssumption, FS_Interval DEF Docs
  <2> QED
    BY <2>1, <2>2, FS_Subset, FS_CardinalityType
<1>2. /\ m = [docs |-> m.docs, dead |-> m.dead, counts |-> m.counts]
      /\ m.docs = s.docs /\ m.dead = s.dead \cup gone
  BY DEF DeleteDocuments
<1>3. m.counts \in [Terms -> Nat]
  BY <1>1 DEF DeleteDocuments, IsSegment
<1>4. Ids(m) = Ids(s) /\ LiveIds(m) = LiveIds(s) \ gone
  BY <1>2 DEF Ids, LiveIds
<1>5. IsSegment(m)
  BY <1>2, <1>3, <1>4 DEF IsSegment
<1> QED
  BY <1>2, <1>4, <1>5

\* A segment of new documents.
LEMMA NewSegmentIs ==
  ASSUME NEW D \in SUBSET Docs, D # {}, NEW docs \in [D -> Contents]
  PROVE  /\ IsSegment(NewSegment(docs))
         /\ NewSegment(docs).docs = docs
         /\ LiveIds(NewSegment(docs)) = D
  BY DEF IsSegment, NewSegment, Ids, LiveIds

\* Masks take the changed documents out of the segments.
LEMMA MaskedIs ==
  ASSUME NEW index, Sound(index), NEW changed
  PROVE  /\ Sound(Masked(index, changed))
         /\ DOMAIN Masked(index, changed) = DOMAIN index
         /\ \A p \in DOMAIN index :
              /\ Masked(index, changed)[p].docs = index[p].docs
              /\ LiveIds(Masked(index, changed)[p]) = LiveIds(index[p]) \ changed
<1> DEFINE gone(p) == changed \cap LiveIds(index[p])
           masked == Masked(index, changed)
<1>1. ASSUME NEW p \in DOMAIN index PROVE masked[p] = DeleteDocuments(index[p], gone(p))
  <2>1. \A d \in LiveIds(index[p]) : d < NextId(index) /\ Locate(index, d) = p
    BY LocateIs, NextIdAbove DEF Sound
  <2>2. {d \in changed : /\ d < NextId(index)
                         /\ d \in LiveIds(index[p])
                         /\ Locate(index, d) = p} = gone(p)
    BY <2>1 DEF gone
  <2> QED
    BY <2>2 DEF Masked
<1>2. masked = [p \in DOMAIN index |-> masked[p]] /\ DOMAIN masked = DOMAIN index
  BY DEF Masked
<1>3. ASSUME NEW p \in DOMAIN index
      PROVE  /\ IsSegment(masked[p])
             /\ masked[p].docs = index[p].docs
             /\ LiveIds(masked[p]) = LiveIds(index[p]) \ changed
  <2>1. IsSegment(index[p]) /\ gone(p) \in SUBSET Ids(index[p])
    BY DEF Sound, IsIndex, LiveIds, gone
  <2>2. LiveIds(index[p]) \ gone(p) = LiveIds(index[p]) \ changed
    BY DEF gone
  <2>3. /\ IsSegment(DeleteDocuments(index[p], gone(p)))
        /\ DeleteDocuments(index[p], gone(p)).docs = index[p].docs
        /\ LiveIds(DeleteDocuments(index[p], gone(p))) = LiveIds(index[p]) \ gone(p)
    BY <2>1, DeleteDocumentsIs
  <2> HIDE DEF masked, gone
  <2> QED
    BY <1>1, <2>2, <2>3
<1>4. IsIndex(masked)
  BY <1>2, <1>3 DEF IsIndex, Sound
<1>5. Apart(masked)
  BY <1>2, <1>3 DEF Apart, Sound
<1> QED
  BY <1>2, <1>3, <1>4, <1>5 DEF Sound

\* The view loses the changed documents.
LEMMA MaskedView ==
  ASSUME NEW index, Sound(index), NEW changed
  PROVE  View(Masked(index, changed)) =
           [d \in DOMAIN View(index) \ changed |-> View(index)[d]]
<1> DEFINE masked == Masked(index, changed)
<1>1. \A d : d \in DOMAIN View(masked) <=> d \in DOMAIN View(index) \ changed
  BY MaskedIs, ViewOf
<1>2. ASSUME NEW d \in DOMAIN View(masked) PROVE View(masked)[d] = View(index)[d]
  <2>1. PICK p \in DOMAIN masked : d \in LiveIds(masked[p])
    BY MaskedIs, ViewOf
  <2> QED
    BY <2>1, MaskedIs, ViewOf
<1>3. DOMAIN View(masked) = DOMAIN View(index) \ changed
  BY <1>1
<1>4. View(masked) = [d \in DOMAIN View(masked) |-> View(masked)[d]]
  BY MaskedIs, ViewOf
<1> QED
  BY <1>2, <1>3, <1>4

\* Two views are the same when they have the same documents.
LEMMA SameView ==
  ASSUME NEW index, NEW other, Sound(index), Sound(other),
         \A d : d \in DOMAIN View(index) <=> d \in DOMAIN View(other),
         \A d \in DOMAIN View(index) : View(index)[d] = View(other)[d]
  PROVE  View(index) = View(other)
<1>1. DOMAIN View(index) = DOMAIN View(other)
  OBVIOUS
<1>2. /\ View(index) = [d \in DOMAIN View(index) |-> View(index)[d]]
      /\ View(other) = [d \in DOMAIN View(other) |-> View(other)[d]]
  BY ViewOf
<1> QED
  BY <1>1, <1>2

\* The documents a batch stores.
StoredIds(changes) == {d \in DOMAIN changes : changes[d] # {}}

\* The place of a new segment is none of those taken.
LEMMA LastIsFree ==
  ASSUME NEW index, IsIndex(index), DOMAIN index # {}
  PROVE  Max(DOMAIN index) + 1 \in Nat \ {0} /\ Max(DOMAIN index) + 1 \notin DOMAIN index
<1>1. DOMAIN index \in SUBSET Nat /\ IsFiniteSet(DOMAIN index)
  BY DEF IsIndex
<1>2. Max(DOMAIN index) \in Nat /\ \A p \in DOMAIN index : Max(DOMAIN index) >= p
  BY <1>1, MaxIsLargest
<1> QED
  BY <1>1, <1>2

\* A new segment of documents that are live nowhere else is sound, and the view
\* gets them.
LEMMA AppendedIs ==
  ASSUME NEW index, Sound(index), NEW changes,
         DOMAIN changes \subseteq Docs, changes \in [DOMAIN changes -> Contents \cup {{}}],
         DOMAIN View(index) \cap DOMAIN changes = {}
  PROVE  /\ Sound(Appended(index, changes))
         /\ View(Appended(index, changes)) =
              [d \in DOMAIN View(index) \cup StoredIds(changes) |->
                 IF d \in StoredIds(changes) THEN changes[d] ELSE View(index)[d]]
<1> DEFINE stored == StoredIds(changes)
           last == IF DOMAIN index = {} THEN 1 ELSE Max(DOMAIN index) + 1
           docs == [d \in stored |-> changes[d]]
           appended == Appended(index, changes)
<1>1. CASE stored = {}
  <2>1. appended = index
    BY <1>1 DEF Appended, StoredIds
  <2> QED
    BY <1>1, <2>1, ViewOf
<1>2. CASE stored # {}
  <2>1. last \in Nat \ {0} /\ last \notin DOMAIN index
    BY LastIsFree DEF Sound
  <2>2. appended = [p \in DOMAIN index \cup {last} |->
                      IF p = last THEN NewSegment(docs) ELSE index[p]]
    BY <1>2 DEF Appended, StoredIds
  <2>3. stored \in SUBSET Docs /\ docs \in [stored -> Contents]
    BY DEF StoredIds
  <2>4. /\ IsSegment(NewSegment(docs))
        /\ NewSegment(docs).docs = docs
        /\ LiveIds(NewSegment(docs)) = stored
    BY <1>2, <2>3, NewSegmentIs
  <2> HIDE DEF stored, last, docs, appended
  <2>5. /\ DOMAIN appended = DOMAIN index \cup {last}
        /\ appended[last] = NewSegment(docs)
        /\ \A p \in DOMAIN index : appended[p] = index[p]
    BY <2>1, <2>2
  <2>6. \A p \in DOMAIN index : \A d \in LiveIds(index[p]) : d \notin stored
    BY ViewOf DEF stored, StoredIds
  <2>7. IsIndex(appended)
    <3>1. IsFiniteSet(DOMAIN index \cup {last})
      BY FS_AddElement DEF Sound, IsIndex
    <3>2. \A p \in DOMAIN appended : IsSegment(appended[p])
      BY <2>4, <2>5 DEF Sound, IsIndex
    <3>3. appended = [p \in DOMAIN appended |-> appended[p]]
      BY <2>2
    <3> QED
      BY <2>1, <2>5, <3>1, <3>2, <3>3 DEF Sound, IsIndex
  <2>8. Apart(appended)
    <3> SUFFICES ASSUME NEW p \in DOMAIN appended, NEW q \in DOMAIN appended, NEW d \in Docs,
                        d \in LiveIds(appended[p]), d \in LiveIds(appended[q])
                 PROVE  p = q
      BY DEF Apart
    <3>1. CASE p \in DOMAIN index /\ q \in DOMAIN index
      BY <2>5, <3>1 DEF Sound, Apart
    <3>2. CASE p = last \/ q = last
      BY <2>4, <2>5, <2>6, <3>2
    <3> QED
      BY <2>5, <3>1, <3>2
  <2>9. Sound(appended)
    BY <2>7, <2>8 DEF Sound
  <2>10. \A d : d \in DOMAIN View(appended) <=> d \in DOMAIN View(index) \cup stored
    BY <2>4, <2>5, <2>9, ViewOf
  <2>11. ASSUME NEW d \in DOMAIN View(appended)
         PROVE  View(appended)[d] = IF d \in stored THEN changes[d] ELSE View(index)[d]
    <3>1. CASE d \in stored
      <4>1. View(appended)[d] = appended[last].docs[d]
        BY <2>4, <2>5, <2>9, <3>1, ViewOf
      <4> QED
        BY <2>4, <2>5, <3>1, <4>1 DEF docs
    <3>2. CASE d \notin stored
      <4>1. PICK p \in DOMAIN index : d \in LiveIds(index[p])
        BY <2>10, <3>2, ViewOf
      <4> QED
        BY <2>5, <2>9, <3>2, <4>1, ViewOf
    <3> QED
      BY <3>1, <3>2
  <2>12. DOMAIN View(appended) = DOMAIN View(index) \cup stored
    BY <2>10
  <2>13. View(appended) = [d \in DOMAIN View(appended) |-> View(appended)[d]]
    BY <2>9, ViewOf
  <2>14. View(appended) = [d \in DOMAIN View(index) \cup stored |->
                             IF d \in stored THEN changes[d] ELSE View(index)[d]]
    BY <2>11, <2>12, <2>13
  <2> QED
    BY <2>9, <2>14 DEF appended, stored
<1> QED
  BY <1>1, <1>2

\* Some segments of an index make a sound index, of their documents.
LEMMA RestrictIs ==
  ASSUME NEW index, Sound(index), NEW chosen \in SUBSET DOMAIN index
  PROVE  /\ Sound(Restrict(index, chosen))
         /\ DOMAIN Restrict(index, chosen) = chosen
         /\ \A p \in chosen : Restrict(index, chosen)[p] = index[p]
<1> DEFINE some == Restrict(index, chosen)
<1>1. DOMAIN some = chosen /\ \A p \in chosen : some[p] = index[p]
  BY DEF Restrict
<1>2. some = [p \in DOMAIN some |-> some[p]]
  BY DEF Restrict
<1>3. IsFiniteSet(chosen)
  BY FS_Subset DEF Sound, IsIndex
<1> HIDE DEF some
<1>4. IsIndex(some)
  BY <1>1, <1>2, <1>3 DEF Sound, IsIndex
<1>5. Apart(some)
  BY <1>1 DEF Sound, Apart
<1> QED
  BY <1>1, <1>4, <1>5 DEF Sound, some

\* A merge makes a sound index of the same documents.
LEMMA MergedIs ==
  ASSUME NEW index, Sound(index), NEW chosen \in SUBSET DOMAIN index, chosen # {}
  PROVE  /\ Sound(Merged(index, chosen))
         /\ View(Merged(index, chosen)) = View(index)
<1> DEFINE some == Restrict(index, chosen)
           docs == View(some)
           kept == DOMAIN index \ chosen
           first == Min(chosen)
           merged == Merged(index, chosen)
<1>1. first \in chosen /\ first \in Nat \ {0} /\ first \notin kept
  <2>1. chosen \in SUBSET Nat /\ IsFiniteSet(chosen)
    BY FS_Subset DEF Sound, IsIndex
  <2> QED
    BY <2>1, MinIsLeast DEF Sound, IsIndex
<1>2. /\ merged = [p \in DOMAIN merged |-> merged[p]]
      /\ DOMAIN merged = kept \cup (IF DOMAIN docs = {} THEN {} ELSE {first})
      /\ \A p \in kept : merged[p] = index[p]
      /\ DOMAIN docs # {} => merged[first] = NewSegment(docs)
  BY <1>1 DEF Merged
<1>3. /\ Sound(some) /\ DOMAIN some = chosen
      /\ \A p \in chosen : some[p] = index[p]
  BY RestrictIs
<1>4. \A d : d \in DOMAIN docs <=> \E p \in chosen : d \in LiveIds(index[p])
  BY <1>3, ViewOf
<1>5. \A p \in chosen : \A d \in LiveIds(index[p]) : docs[d] = index[p].docs[d]
  BY <1>3, ViewOf
<1>6. DOMAIN docs \in SUBSET Docs /\ docs \in [DOMAIN docs -> Contents]
  BY <1>3, ViewType
<1>7. DOMAIN docs # {} => /\ IsSegment(NewSegment(docs))
                          /\ NewSegment(docs).docs = docs
                          /\ LiveIds(NewSegment(docs)) = DOMAIN docs
  BY <1>6, NewSegmentIs
<1> HIDE DEF some, docs, kept, first, merged
<1>8. DOMAIN index = kept \cup chosen
  BY DEF kept
<1>9. \A p \in kept : p \notin chosen
  BY DEF kept
<1>10. IsIndex(merged)
  <2>0. IsFiniteSet(kept)
    BY FS_Subset DEF Sound, IsIndex, kept
  <2>1. IsFiniteSet(kept \cup {first})
    BY <2>0, FS_AddElement
  <2>2. IsFiniteSet(DOMAIN merged)
    <3>1. DOMAIN merged = kept \/ DOMAIN merged = kept \cup {first}
      BY <1>2
    <3> QED
      BY <2>0, <2>1, <3>1
  <2>3. \A p \in DOMAIN merged : IsSegment(merged[p])
    BY <1>2, <1>7, <1>8 DEF Sound, IsIndex
  <2>4. DOMAIN merged \subseteq Nat \ {0}
    BY <1>1, <1>2, <1>8 DEF Sound, IsIndex
  <2> QED
    BY <1>2, <2>2, <2>3, <2>4 DEF IsIndex
<1>11. \A p \in kept : \A d \in LiveIds(index[p]) : d \in Docs /\ d \notin DOMAIN docs
  <2> SUFFICES ASSUME NEW p \in kept, NEW d \in LiveIds(index[p]), d \in DOMAIN docs PROVE FALSE
    BY <1>8 DEF Sound, IsIndex, IsSegment, LiveIds
  <2>1. PICK q \in chosen : d \in LiveIds(index[q])
    BY <1>4
  <2>2. d \in Docs
    BY <1>8 DEF Sound, IsIndex, IsSegment, LiveIds
  <2> QED
    BY <1>8, <1>9, <2>1, <2>2 DEF Sound, Apart
<1>12. Apart(merged)
  <2> SUFFICES ASSUME NEW p \in DOMAIN merged, NEW q \in DOMAIN merged, NEW d \in Docs,
                      d \in LiveIds(merged[p]), d \in LiveIds(merged[q])
               PROVE  p = q
    BY DEF Apart
  <2>1. CASE p \in kept /\ q \in kept
    BY <1>2, <1>8, <2>1 DEF Sound, Apart
  <2>2. CASE p \notin kept \/ q \notin kept
    BY <1>2, <1>7, <1>11, <2>2
  <2> QED
    BY <2>1, <2>2
<1>13. Sound(merged)
  BY <1>10, <1>12 DEF Sound
<1>14. \A d : d \in DOMAIN View(merged) <=> d \in DOMAIN View(index)
  <2>1. ASSUME NEW d, d \in DOMAIN View(merged) PROVE d \in DOMAIN View(index)
    <3>1. PICK p \in DOMAIN merged : d \in LiveIds(merged[p])
      BY <1>13, <2>1, ViewOf
    <3> QED
      BY <1>2, <1>4, <1>7, <1>8, <3>1, ViewOf
  <2>2. ASSUME NEW d, d \in DOMAIN View(index) PROVE d \in DOMAIN View(merged)
    <3>1. PICK p \in DOMAIN index : d \in LiveIds(index[p])
      BY <2>2, ViewOf
    <3>2. CASE p \in kept
      BY <1>2, <1>13, <3>1, <3>2, ViewOf
    <3>3. CASE p \in chosen
      <4>1. d \in DOMAIN docs
        BY <1>4, <3>1, <3>3
      <4>2. first \in DOMAIN merged /\ d \in LiveIds(merged[first])
        BY <1>2, <1>7, <4>1
      <4> QED
        BY <1>13, <4>2, ViewOf
    <3> QED
      BY <1>8, <3>2, <3>3
  <2> QED
    BY <2>1, <2>2
<1>15. ASSUME NEW d \in DOMAIN View(merged) PROVE View(merged)[d] = View(index)[d]
  <2>1. PICK p \in DOMAIN merged : d \in LiveIds(merged[p])
    BY <1>13, ViewOf
  <2>2. CASE p \in kept
    BY <1>2, <1>8, <1>13, <2>1, <2>2, ViewOf
  <2>3. CASE p \notin kept
    <3>1. p = first /\ DOMAIN docs # {} /\ d \in DOMAIN docs
      BY <1>2, <1>7, <2>1, <2>3
    <3>2. View(merged)[d] = docs[d]
      BY <1>2, <1>7, <1>13, <2>1, <3>1, ViewOf
    <3>3. PICK q \in chosen : d \in LiveIds(index[q])
      BY <1>4, <3>1
    <3> QED
      BY <1>5, <1>8, <3>2, <3>3, ViewOf
  <2> QED
    BY <2>2, <2>3
<1>16. View(merged) = View(index)
  BY <1>13, <1>14, <1>15, SameView
<1> QED
  BY <1>13, <1>16 DEF merged

\* What the policy asks to merge are segments of the index.
LEMMA SegmentsToMergeIs ==
  ASSUME NEW index, IsIndex(index)
  PROVE  SegmentsToMerge(index) \subseteq DOMAIN index
<1> DEFINE rewritten == {p \in DOMAIN index : OverHalfDeleted(index[p])}
<1>1. CASE rewritten # {}
  <2>1. rewritten \in SUBSET Nat /\ IsFiniteSet(rewritten)
    BY FS_Subset DEF IsIndex
  <2>2. Min(rewritten) \in rewritten
    BY <1>1, <2>1, MinIsLeast
  <2> QED
    BY <1>1, <2>2 DEF SegmentsToMerge
<1>2. CASE rewritten = {}
  <2>1. \A k : Fitting(index, InTier(index, k)) \subseteq DOMAIN index
    BY DEF Fitting, InTier
  <2> QED
    BY <1>2, <2>1 DEF SegmentsToMerge
<1> QED
  BY <1>1, <1>2

-----------------------------------------------------------------------------
(* The invariant. *)

\* What the view of the new generation is at each step of a commit.
Progress ==
  /\ phase = "editing" => work = published
  /\ phase = "masked" =>
       View(work) = [d \in DOMAIN View(published) \ DOMAIN pending |-> View(published)[d]]
  /\ phase = "merging" => View(work) = Documents!Apply(View(published), pending)

\* The next id is above those of the index, and those of the batch.
Above ==
  phase = "editing" => next >= NextId(published) /\ \A d \in DOMAIN pending : d < next

\* The bound on the batches: one in progress can be published.
Bounded == phase # "idle" => commits < MaxCommits

IInv == TypeOK /\ Sound(published) /\ Sound(work) /\ Progress /\ Above /\ Bounded

\* The constants a step needs.
LEMMA Numbers == MaxDoc \in Nat /\ Docs \subseteq Nat /\ MaxCommits \in Nat
  BY MaxDocAssumption, MaxCommitsAssumption DEF Docs

\* An index is built with each document in one segment.
LEMMA BuildIs ==
  ASSUME NEW build \in Builds, NEW content \in Contents
  PROVE  Sound([p \in DOMAIN build |-> NewSegment([d \in build[p] |-> content])])
<1> DEFINE index == [p \in DOMAIN build |-> NewSegment([d \in build[p] |-> content])]
<1>1. ASSUME NEW p \in DOMAIN build
      PROVE  IsSegment(index[p]) /\ LiveIds(index[p]) = build[p]
  <2>1. build[p] \in SUBSET Docs /\ build[p] # {}
    BY BuildsAssumption
  <2>2. [d \in build[p] |-> content] \in [build[p] -> Contents]
    OBVIOUS
  <2> QED
    BY <2>1, <2>2, NewSegmentIs
<1>2. index = [p \in DOMAIN index |-> index[p]] /\ DOMAIN index = DOMAIN build
  OBVIOUS
<1> HIDE DEF index
<1>3. IsIndex(index)
  BY <1>1, <1>2, BuildsAssumption DEF IsIndex
<1>4. Apart(index)
  BY <1>1, <1>2, BuildsAssumption DEF Apart
<1> QED
  BY <1>3, <1>4 DEF Sound, index

\* It holds at first.
LEMMA InitInv == Init => IInv
<1> SUFFICES ASSUME Init PROVE IInv
  OBVIOUS
<1>1. PICK build \in Builds, content \in Contents :
        published = [p \in DOMAIN build |-> NewSegment([d \in build[p] |-> content])]
  BY DEF Init
<1>2. Sound(published) /\ Sound(work)
  BY <1>1, BuildIs DEF Init
<1>3. NextId(published) \in 0..(MaxDoc + 1)
  BY <1>2, NextIdAbove DEF Sound
<1>4. TypeOK
  BY <1>2, <1>3, Numbers DEF Init, TypeOK, Sound, NoDocs
<1> QED
  BY <1>2, <1>4 DEF IInv, Init, Progress, Above, Bounded

\* A change of the batch.
LEMMA AddInv ==
  ASSUME IInv, NEW d \in Docs, NEW content \in Contents \cup {{}}, Add(d, content)
  PROVE  IInv'
<1>1. /\ DOMAIN pending' = DOMAIN pending \cup {d}
      /\ pending' \in [DOMAIN pending' -> Contents \cup {{}}]
  BY DEF Add, IInv, TypeOK
<1>2. next' \in 0..(MaxDoc + 1)
  BY Numbers DEF Add, IInv, TypeOK, Docs
<1>3. TypeOK'
  BY <1>1, <1>2 DEF Add, IInv, TypeOK
<1>4. NextId(published) \in Nat /\ NextId(published') = NextId(published)
  BY NextIdAbove, Numbers DEF IInv, Sound, Add
<1>5. next' >= NextId(published') /\ \A e \in DOMAIN pending' : e < next'
  BY <1>1, <1>4, Numbers DEF Add, IInv, TypeOK, Above
<1> QED
  BY <1>3, <1>5 DEF Add, IInv, Progress, Above, Bounded

\* A removal, from the index or from the batch.
LEMMA RemoveInv ==
  ASSUME IInv, NEW d \in Docs, Remove(d)
  PROVE  IInv'
<1>1. CASE d < NextId(published) /\ d \in DOMAIN View(published)
  <2>1. /\ DOMAIN pending' = DOMAIN pending \cup {d}
        /\ pending' \in [DOMAIN pending' -> Contents \cup {{}}]
    BY <1>1 DEF Remove, IInv, TypeOK
  <2>2. NextId(published) \in Nat
    BY NextIdAbove, Numbers DEF IInv, Sound
  <2>3. \A e \in DOMAIN pending' : e < next'
    BY <1>1, <2>1, <2>2, Numbers DEF Remove, IInv, TypeOK, Above
  <2> QED
    BY <2>1, <2>3 DEF Remove, IInv, TypeOK, Progress, Above, Bounded
<1>2. CASE ~(d < NextId(published) /\ d \in DOMAIN View(published))
  <2>1. /\ DOMAIN pending' = DOMAIN pending \ {d}
        /\ pending' \in [DOMAIN pending' -> Contents \cup {{}}]
    BY <1>2 DEF Remove, IInv, TypeOK, Restrict
  <2> QED
    BY <2>1 DEF Remove, IInv, TypeOK, Progress, Above, Bounded
<1> QED
  BY <1>1, <1>2

\* The masks.
LEMMA MaskInv == ASSUME IInv, Mask PROVE IInv'
<1>1. Sound(work') /\ View(work') = [d \in DOMAIN View(work) \ DOMAIN pending |-> View(work)[d]]
  BY MaskedIs, MaskedView DEF IInv, Mask
<1> QED
  BY <1>1 DEF IInv, TypeOK, Sound, Mask, Progress, Above, Bounded

\* The new segment.
LEMMA AppendInv == ASSUME IInv, Append PROVE IInv'
<1>1. /\ Sound(work') 
      /\ View(work') = [d \in DOMAIN View(work) \cup StoredIds(pending) |->
                          IF d \in StoredIds(pending) THEN pending[d] ELSE View(work)[d]]
  <2>1. DOMAIN View(work) \cap DOMAIN pending = {}
    BY DEF IInv, Append, Progress
  <2>2. DOMAIN pending \subseteq Docs /\ pending \in [DOMAIN pending -> Contents \cup {{}}]
    BY DEF IInv, TypeOK
  <2> QED
    BY <2>1, <2>2, AppendedIs DEF IInv, Append
<1>2. View(work') = Documents!Apply(View(published), pending)
  <2>1. View(work) = [d \in DOMAIN View(published) \ DOMAIN pending |-> View(published)[d]]
    BY DEF IInv, Append, Progress
  <2>2. DOMAIN View(work) \cup StoredIds(pending) =
          {d \in DOMAIN View(published) \cup DOMAIN pending :
             d \in DOMAIN pending => pending[d] # {}}
    BY <2>1 DEF StoredIds
  <2>3. ASSUME NEW d \in DOMAIN View(work) \cup StoredIds(pending)
        PROVE  (IF d \in StoredIds(pending) THEN pending[d] ELSE View(work)[d])
                 = (IF d \in DOMAIN pending THEN pending[d] ELSE View(published)[d])
    BY <2>1 DEF StoredIds
  <2> QED
    BY <1>1, <2>2, <2>3 DEF Documents!Apply
<1> QED
  BY <1>1, <1>2 DEF IInv, TypeOK, Sound, Append, Progress, Above, Bounded

\* A merge.
LEMMA MergeInv == ASSUME IInv, Merge PROVE IInv' /\ View(work') = View(work)
<1>1. Sound(work') /\ View(work') = View(work)
  BY SegmentsToMergeIs, MergedIs DEF IInv, Sound, Merge
<1> QED
  BY <1>1 DEF IInv, TypeOK, Sound, Merge, Progress, Above, Bounded

\* The end of a batch, published or not, and the beginning of the next.
LEMMA BatchInv == ASSUME IInv, Begin \/ Publish \/ Abandon PROVE IInv'
<1>1. NextId(published) \in 0..(MaxDoc + 1) /\ NextId(work) \in 0..(MaxDoc + 1)
  BY NextIdAbove DEF IInv, Sound
<1>2. CASE Begin
  BY <1>1, <1>2, Numbers DEF Begin, IInv, TypeOK, Sound, Progress, Above, Bounded, NoDocs
<1>3. CASE Publish
  <2>1. commits' \in 0..MaxCommits
    BY <1>3, Numbers DEF Publish, IInv, TypeOK, Bounded
  <2>2. highest' \in 0..(MaxDoc + 1)
    BY <1>1, <1>3, Numbers DEF Publish, IInv, TypeOK
  <2>3. next' \in 0..(MaxDoc + 1)
    BY <1>3, Numbers DEF Publish
  <2>4. IsIndex(published') /\ IsIndex(work') /\ Apart(published') /\ Apart(work')
    BY <1>3 DEF Publish, IInv, Sound
  <2>5. TypeOK'
    BY <1>3, <2>1, <2>2, <2>3, <2>4 DEF Publish, TypeOK, NoDocs
  <2> QED
    BY <1>3, <2>4, <2>5 DEF Publish, IInv, Sound, Progress, Above, Bounded
<1>4. CASE Abandon
  BY <1>1, <1>4, Numbers DEF Abandon, IInv, TypeOK, Sound, Progress, Above, Bounded, NoDocs
<1> QED
  BY <1>2, <1>3, <1>4

\* force_merge.
LEMMA ForceMergeInv ==
  ASSUME IInv, ForceMerge PROVE IInv' /\ View(published') = View(published)
<1>1. DOMAIN published # {}
  BY FS_EmptySet DEF ForceMerge
<1>2. Sound(published') /\ View(published') = View(published)
  BY <1>1, MergedIs DEF IInv, ForceMerge
<1> QED
  BY <1>2 DEF IInv, TypeOK, Sound, ForceMerge, Progress, Above, Bounded

\* Every step keeps it.
LEMMA NextInv == IInv /\ [Next]_vars => IInv'
<1> SUFFICES ASSUME IInv, [Next]_vars PROVE IInv'
  OBVIOUS
<1>1. CASE UNCHANGED vars
  BY <1>1 DEF vars, IInv, TypeOK, Progress, Above, Bounded
<1>2. CASE Begin \/ Publish \/ Abandon
  BY <1>2, BatchInv
<1>3. CASE Mask
  BY <1>3, MaskInv
<1>4. CASE Append
  BY <1>4, AppendInv
<1>5. CASE Merge
  BY <1>5, MergeInv
<1>6. CASE ForceMerge
  BY <1>6, ForceMergeInv
<1>7. ASSUME NEW content \in Contents \cup {{}}, AddNew(content) PROVE IInv'
  BY <1>7, AddInv DEF AddNew
<1>8. ASSUME NEW content \in Contents \cup {{}}, NEW d \in Docs, Add(d, content) PROVE IInv'
  BY <1>8, AddInv
<1>9. ASSUME NEW d \in Docs, Remove(d) PROVE IInv'
  BY <1>9, RemoveInv
<1> QED
  BY <1>1, <1>2, <1>3, <1>4, <1>5, <1>6, <1>7, <1>8, <1>9 DEF Next, CommitStep

\* The conjunction of everything above holds in every reachable state.
THEOREM Invariant == Spec => []IInv
  BY InitInv, NextInv, PTL DEF Spec

\* Every variable stays in its domain.
THEOREM TypeCorrect == Spec => []TypeOK
<1>1. IInv => TypeOK
  BY DEF IInv
<1> QED
  BY Invariant, <1>1, PTL

\* However documents are replaced and segments merged, a document is live in
\* one segment, of the published index and of the one being made.
THEOREM OneSegment == Spec => []LiveInOneSegment
<1>1. IInv => LiveInOneSegment
  BY ApartIsDisjoint DEF IInv, Sound, LiveInOneSegment
<1> QED
  BY Invariant, <1>1, PTL

\* An id given to a document is that of no other, of the index or the batch.
THEOREM IdIsFree == Spec => []AutoIdIsFree
<1>1. ASSUME IInv, phase = "editing" PROVE next \notin DOMAIN View(published) \cup DOMAIN pending
  <2>1. \A d \in DOMAIN View(published) : d \in Docs /\ d < NextId(published)
    BY <1>1, ViewType DEF IInv
  <2>2. NextId(published) \in Nat /\ next \in Nat
    BY <1>1, NextIdAbove, Numbers DEF IInv, Sound, TypeOK
  <2> QED
    BY <1>1, <2>1, <2>2, Numbers DEF IInv, Above
<1>2. IInv => AutoIdIsFree
  BY <1>1 DEF AutoIdIsFree
<1> QED
  BY Invariant, <1>2, PTL

-----------------------------------------------------------------------------
(* The segments implement the corpus. *)

\* An index is built from some corpus.
LEMMA InitRefines == Init => Documents!Init
<1> SUFFICES ASSUME Init PROVE Documents!Init
  OBVIOUS
<1>1. DOMAIN View(published) \in SUBSET Docs /\ View(published) \in [DOMAIN View(published) -> Contents]
  BY InitInv, ViewType DEF IInv
<1>2. View(published) \in Documents!Maps(Contents)
  BY <1>1 DEF Documents!Maps
<1> QED
  BY <1>2 DEF Init, Documents!Init, NoDocs, Documents!NoDocs

\* Each step of an update changes the documents as the corpus may change.
LEMMA StepRefines == IInv /\ [Next]_vars => [Documents!Next]_(Documents!vars)
<1> SUFFICES ASSUME IInv, [Next]_vars
             PROVE  Documents!Next \/ UNCHANGED Documents!vars
  OBVIOUS
<1>1. CASE UNCHANGED vars
  BY <1>1 DEF vars, Documents!vars
<1>2. CASE Begin
  BY <1>2 DEF Begin, Documents!Next, Documents!Begin, NoDocs, Documents!NoDocs
<1>3. CASE Mask \/ Append \/ Merge
  BY <1>3 DEF Mask, Append, Merge, Documents!vars
<1>4. CASE Publish
  BY <1>4 DEF IInv, Progress, Publish, Documents!Next, Documents!Publish, NoDocs, Documents!NoDocs
<1>5. CASE Abandon
  BY <1>5 DEF Abandon, Documents!Next, Documents!Abandon, NoDocs, Documents!NoDocs
<1>6. CASE ForceMerge
  BY <1>6, ForceMergeInv DEF ForceMerge, Documents!vars
<1>7. ASSUME NEW d \in Docs, NEW content \in Contents \cup {{}}, Add(d, content)
      PROVE  Documents!Next
  <2>1. Documents!Change(d, content)
    BY <1>7 DEF Add, Documents!Change
  <2> QED
    BY <2>1 DEF Documents!Next
<1>8. ASSUME NEW content \in Contents \cup {{}}, AddNew(content) PROVE Documents!Next
  BY <1>7, <1>8 DEF AddNew
<1>9. ASSUME NEW d \in Docs, Remove(d) PROVE Documents!Next
  <2>1. CASE d \in DOMAIN View(published)
    <3>1. d < NextId(published)
      BY <2>1, ViewType DEF IInv
    <3>2. Documents!Change(d, {})
      BY <1>9, <2>1, <3>1 DEF Remove, Documents!Change
    <3> QED
      BY <3>2 DEF Documents!Next
  <2>2. CASE d \notin DOMAIN View(published)
    <3>1. Documents!Withdraw(d)
      BY <1>9, <2>2 DEF Remove, Documents!Withdraw, Restrict
    <3> QED
      BY <3>1 DEF Documents!Next
  <2> QED
    BY <2>1, <2>2
<1> QED
  BY <1>1, <1>2, <1>3, <1>4, <1>5, <1>6, <1>7, <1>8, <1>9 DEF Next, CommitStep

\* Whatever the masks, the new segment and the merges, those who search see the
\* documents changed as those of one index, by a whole batch or not at all.
THEOREM Refines == Spec => RefinesCorpus
  BY Invariant, InitRefines, StepRefines, PTL DEF Spec, RefinesCorpus, Documents!Spec

-----------------------------------------------------------------------------
(* The merges of a commit end. *)

\* Where merged segments go, and what they keep.
LEMMA MergedPlaces ==
  ASSUME NEW index, Sound(index), NEW chosen \in SUBSET DOMAIN index, chosen # {}
  PROVE  /\ Min(chosen) \in chosen
         /\ DOMAIN Merged(index, chosen) \subseteq (DOMAIN index \ chosen) \cup {Min(chosen)}
         /\ \A p \in DOMAIN index \ chosen : Merged(index, chosen)[p] = index[p]
         /\ Min(chosen) \in DOMAIN Merged(index, chosen) =>
              \A d \in Ids(Merged(index, chosen)[Min(chosen)]) :
                \E q \in chosen : d \in LiveIds(index[q])
<1> DEFINE docs == View(Restrict(index, chosen))
           merged == Merged(index, chosen)
           first == Min(chosen)
<1>1. first \in chosen
  <2>1. chosen \in SUBSET Nat /\ IsFiniteSet(chosen)
    BY FS_Subset DEF Sound, IsIndex
  <2> QED
    BY <2>1, MinIsLeast
<1>2. /\ DOMAIN merged = (DOMAIN index \ chosen) \cup (IF DOMAIN docs = {} THEN {} ELSE {first})
      /\ \A p \in DOMAIN index \ chosen : merged[p] = index[p]
      /\ DOMAIN docs # {} => merged[first] = NewSegment(docs)
  BY <1>1 DEF Merged
<1>3. \A d : d \in DOMAIN docs <=> \E p \in chosen : d \in LiveIds(index[p])
  BY RestrictIs, ViewOf
<1>4. Ids(NewSegment(docs)) = DOMAIN docs
  BY DEF NewSegment, Ids
<1> HIDE DEF docs, merged, first
<1>5. DOMAIN merged \subseteq (DOMAIN index \ chosen) \cup {first}
  BY <1>2
<1>6. first \in DOMAIN merged => \A d \in Ids(merged[first]) : \E q \in chosen : d \in LiveIds(index[q])
  BY <1>1, <1>2, <1>3, <1>4
<1> QED
  BY <1>1, <1>2, <1>5, <1>6 DEF merged, first

\* The policy asks for one segment over half deleted, or for several.
LEMMA SegmentsToMergeGain ==
  ASSUME NEW index, IsIndex(index), SegmentsToMerge(index) # {}
  PROVE  \/ \E p \in DOMAIN index : /\ SegmentsToMerge(index) = {p}
                                    /\ OverHalfDeleted(index[p])
         \/ Cardinality(SegmentsToMerge(index)) >= 2
<1> DEFINE rewritten == {p \in DOMAIN index : OverHalfDeleted(index[p])}
<1>1. CASE rewritten # {}
  <2>1. rewritten \in SUBSET Nat /\ IsFiniteSet(rewritten)
    BY FS_Subset DEF IsIndex
  <2>2. Min(rewritten) \in rewritten
    BY <1>1, <2>1, MinIsLeast
  <2> QED
    BY <1>1, <2>2 DEF SegmentsToMerge
<1>2. CASE rewritten = {}
  <2>1. /\ Mergeable(index) # {}
        /\ SegmentsToMerge(index) = Fitting(index, InTier(index, Min(Mergeable(index))))
    BY <1>2 DEF SegmentsToMerge
  <2>2. Mergeable(index) \in SUBSET Nat /\ IsFiniteSet(Mergeable(index))
    <3>1. IsFiniteSet(0..(MaxDoc + 1)) /\ 0..(MaxDoc + 1) \subseteq Nat
      BY Numbers, FS_Interval
    <3> QED
      BY <3>1, FS_Subset DEF Mergeable
  <2>3. Min(Mergeable(index)) \in Mergeable(index)
    BY <2>1, <2>2, MinIsLeast
  <2> QED
    BY <2>1, <2>3 DEF Mergeable
<1> QED
  BY <1>1, <1>2

\* The documents stored, with their places.
StoredAt(index) == UNION {{p} \X Ids(index[p]) : p \in DOMAIN index}

\* There are finitely many pairs of a place and a document.
LEMMA PairsAreFinite ==
  ASSUME NEW places, IsFiniteSet(places), NEW S,
         \A x \in S : \E p \in places, d \in Docs : x = <<p, d>>
  PROVE  IsFiniteSet(S)
<1>1. IsFiniteSet(Docs)
  BY Numbers, FS_Interval DEF Docs
<1>2. IsFiniteSet(places \X Docs)
  BY <1>1, FS_Product, Zenon
<1>3. S \in SUBSET (places \X Docs)
  OBVIOUS
<1> QED
  BY <1>2, <1>3, FS_Subset

\* Which ones they are, finitely many.
LEMMA StoredIs ==
  ASSUME NEW index, IsIndex(index)
  PROVE  /\ IsFiniteSet(StoredAt(index))
         /\ \A p, d : <<p, d>> \in StoredAt(index) <=> p \in DOMAIN index /\ d \in Ids(index[p])
<1>1. \A p, d : <<p, d>> \in StoredAt(index) <=> p \in DOMAIN index /\ d \in Ids(index[p])
  BY DEF StoredAt
<1>2. \A p \in DOMAIN index : Ids(index[p]) \subseteq Docs
  BY DEF IsIndex, IsSegment
<1>3. \A x \in StoredAt(index) : \E p \in DOMAIN index, d \in Docs : x = <<p, d>>
  BY <1>2 DEF StoredAt
<1>4. IsFiniteSet(DOMAIN index)
  BY DEF IsIndex
<1>5. IsFiniteSet(StoredAt(index))
  BY <1>3, <1>4, PairsAreFinite
<1> QED
  BY <1>1, <1>5

\* A segment over half deleted has deleted documents.
LEMMA HasDeleted ==
  ASSUME NEW s, IsSegment(s), OverHalfDeleted(s)
  PROVE  \E d \in s.dead : d \in Ids(s)
<1>0. IsFiniteSet(Docs) /\ Ids(s) \in SUBSET Docs /\ s.dead \subseteq Ids(s)
  BY Numbers, FS_Interval DEF IsSegment, Docs
<1>1. IsFiniteSet(Ids(s))
  BY <1>0, FS_Subset
<1>2. DocsNb(s) \in Nat
  BY <1>1, FS_CardinalityType DEF DocsNb
<1>3. s.dead # {}
  <2> SUFFICES ASSUME s.dead = {} PROVE FALSE
    OBVIOUS
  <2>1. DeletedNb(s) = 0
    BY FS_EmptySet DEF DeletedNb
  <2> QED
    BY <1>2, <2>1 DEF OverHalfDeleted
<1> QED
  BY <1>0, <1>3

\* One segment rewritten: no more of them, and fewer documents.
LEMMA RewriteShrinks ==
  ASSUME NEW index, Sound(index), NEW p \in DOMAIN index, OverHalfDeleted(index[p])
  PROVE  \/ Cardinality(DOMAIN Merged(index, {p})) < Cardinality(DOMAIN index)
         \/ /\ Cardinality(DOMAIN Merged(index, {p})) = Cardinality(DOMAIN index)
            /\ Stored(Merged(index, {p})) < Stored(index)
<1> DEFINE merged == Merged(index, {p})
<1>1. Sound(merged)
  BY MergedIs
<1>2. Min({p}) = p
  BY MergedPlaces
<1>3. /\ DOMAIN merged \in SUBSET DOMAIN index
      /\ \A q \in DOMAIN index \ {p} : merged[q] = index[q]
      /\ p \in DOMAIN merged => Ids(merged[p]) \subseteq LiveIds(index[p])
  BY <1>2, MergedPlaces
<1> HIDE DEF merged
<1>4. StoredAt(merged) \in SUBSET StoredAt(index)
  <2>1. ASSUME NEW x \in StoredAt(merged) PROVE x \in StoredAt(index)
    <3>1. PICK q \in DOMAIN merged : \E d \in Ids(merged[q]) : x = <<q, d>>
      BY DEF StoredAt
    <3>2. PICK d \in Ids(merged[q]) : x = <<q, d>>
      BY <3>1
    <3>3. d \in Ids(index[q])
      BY <1>3, <3>1, <3>2 DEF LiveIds
    <3> QED
      BY <1>3, <3>1, <3>2, <3>3, StoredIs DEF Sound
  <2> QED
    BY <2>1
<1>5. StoredAt(merged) # StoredAt(index)
  <2>1. PICK d \in index[p].dead : d \in Ids(index[p])
    BY HasDeleted DEF Sound, IsIndex
  <2>2. <<p, d>> \in StoredAt(index)
    BY <2>1, StoredIs DEF Sound
  <2>3. <<p, d>> \notin StoredAt(merged)
    <3>1. d \notin LiveIds(index[p])
      BY <2>1 DEF LiveIds
    <3> QED
      BY <1>1, <1>3, <3>1, StoredIs DEF Sound
  <2> QED
    BY <2>2, <2>3
<1>6. IsFiniteSet(StoredAt(index)) /\ IsFiniteSet(StoredAt(merged))
  BY <1>1, StoredIs DEF Sound
<1>7. Cardinality(StoredAt(merged)) < Cardinality(StoredAt(index))
  BY <1>4, <1>5, <1>6, FS_Subset, FS_CardinalityType
<1>8. Cardinality(DOMAIN merged) <= Cardinality(DOMAIN index)
  BY <1>3, FS_Subset DEF Sound, IsIndex
<1>9. Cardinality(DOMAIN merged) \in Nat /\ Cardinality(DOMAIN index) \in Nat
  BY <1>1, FS_CardinalityType DEF Sound, IsIndex
<1> QED
  BY <1>7, <1>8, <1>9 DEF Stored, StoredAt, merged

\* Several segments merged: fewer of them.
LEMMA MergeShrinks ==
  ASSUME NEW index, Sound(index), NEW chosen \in SUBSET DOMAIN index,
         Cardinality(chosen) >= 2
  PROVE  Cardinality(DOMAIN Merged(index, chosen)) < Cardinality(DOMAIN index)
<1> DEFINE places == DOMAIN Merged(index, chosen)
<1>1. IsFiniteSet(DOMAIN index) /\ IsFiniteSet(chosen)
  BY FS_Subset DEF Sound, IsIndex
<1>2. chosen # {}
  BY FS_EmptySet
<1>3. Min(chosen) \in chosen /\ places \subseteq (DOMAIN index \ chosen) \cup {Min(chosen)}
  BY <1>2, MergedPlaces
<1> HIDE DEF places
<1>4. PICK p \in chosen : p # Min(chosen)
  <2>1. Cardinality({Min(chosen)}) = 1
    BY FS_Singleton
  <2>2. chosen # {Min(chosen)}
    BY <2>1
  <2> QED
    BY <1>2, <2>2
<1>5. places \in SUBSET DOMAIN index /\ places # DOMAIN index
  BY <1>3, <1>4
<1>6. IsFiniteSet(places) /\ Cardinality(places) <= Cardinality(DOMAIN index)
      /\ Cardinality(places) # Cardinality(DOMAIN index)
  BY <1>1, <1>5, FS_Subset
<1>7. Cardinality(places) \in Nat /\ Cardinality(DOMAIN index) \in Nat
  BY <1>1, <1>6, FS_CardinalityType
<1> QED
  BY <1>6, <1>7 DEF places

\* The loop of merges of a commit ends, whatever the limit and the factor: each
\* merge leaves fewer segments, or as many and fewer documents stored.
THEOREM LoopEnds == Spec => MergesShrink
<1> DEFINE Shrinks == phase = "merging" /\ phase' = "merging" =>
             \/ Cardinality(DOMAIN work') < Cardinality(DOMAIN work)
             \/ /\ Cardinality(DOMAIN work') = Cardinality(DOMAIN work)
                /\ Stored(work') < Stored(work)
<1>1. ASSUME IInv, Merge PROVE Shrinks
  <2> DEFINE chosen == SegmentsToMerge(work)
  <2>1. Sound(work) /\ IsIndex(work) /\ chosen # {} /\ chosen \in SUBSET DOMAIN work
    BY <1>1, SegmentsToMergeIs DEF IInv, Sound, Merge
  <2>2. work' = Merged(work, chosen)
    BY <1>1 DEF Merge
  <2>3. CASE \E p \in DOMAIN work : chosen = {p} /\ OverHalfDeleted(work[p])
    BY <2>1, <2>2, <2>3, RewriteShrinks
  <2>4. CASE Cardinality(chosen) >= 2
    BY <2>1, <2>2, <2>4, MergeShrinks
  <2> QED
    BY <2>1, <2>3, <2>4, SegmentsToMergeGain
<1>2. ASSUME IInv, [Next]_vars PROVE [Shrinks]_vars
  <2>1. CASE UNCHANGED vars
    BY <2>1
  <2>2. CASE Merge
    BY <1>1, <1>2, <2>2
  <2>3. CASE phase # "merging" \/ phase' # "merging"
    BY <2>3
  <2>4. ASSUME Next, ~Merge PROVE phase # "merging" \/ phase' # "merging"
    BY <2>4 DEF Next, CommitStep, Begin, Mask, Append, Publish, Abandon, ForceMerge,
                AddNew, Add, Remove
  <2> HIDE DEF Shrinks
  <2> QED
    BY <1>2, <2>1, <2>2, <2>3, <2>4
<1>3. []IInv /\ [][Next]_vars => [][Shrinks]_vars
  BY <1>2, PTL
<1> QED
  BY Invariant, <1>3, PTL DEF Spec, MergesShrink

-----------------------------------------------------------------------------
(* Sums. *)

\* The element of a set that a sum takes first.
First(T) == CHOOSE x \in T : TRUE

\* A sum of v over any part of S, one element after the other, as MapThenSumSet
\* does it.
IsSum(sum, v, S) ==
  sum = [T \in SUBSET S |-> IF T = {} THEN 0 ELSE v[First(T)] + sum[T \ {First(T)}]]

\* It, for the parts of at most n elements.
SumsUpTo(sum, v, S, n) ==
  \A T \in SUBSET S : Cardinality(T) <= n =>
    sum[T] = IF T = {} THEN 0 ELSE v[First(T)] + sum[T \ {First(T)}]

LEMMA FirstIs == ASSUME NEW T, T # {} PROVE First(T) \in T
BY DEF First

\* There is one, by induction on the number of elements: no least one fails.
LEMMA SumExists ==
  ASSUME NEW S, IsFiniteSet(S), NEW v
  PROVE  \E sum : IsSum(sum, v, S)
<1> DEFINE N == Cardinality(S)
           Bad == {n \in 0..N : ~ \E sum : sum = [T \in SUBSET S |-> sum[T]] /\ SumsUpTo(sum, v, S, n)}
<1>1. N \in Nat /\ \A T \in SUBSET S : IsFiniteSet(T) /\ Cardinality(T) \in Nat /\ Cardinality(T) <= N
  BY FS_Subset, FS_CardinalityType
<1>2. Bad = {}
  <2> SUFFICES ASSUME Bad # {} PROVE FALSE
    OBVIOUS
  <2>1. PICK n \in Bad : \A m \in Bad : n <= m
    <3>1. Bad \in SUBSET (0..N) /\ IsFiniteSet(0..N)
      BY <1>1, FS_Interval
    <3>2. Bad \in SUBSET Nat /\ IsFiniteSet(Bad)
      BY <1>1, <3>1, FS_Subset
    <3> HIDE DEF Bad
    <3> QED
      BY <3>2, MinIsLeast
  <2>2. n \in Nat /\ n <= N
    BY <1>1
  <2>3. CASE n = 0
    <3> DEFINE sum == [T \in SUBSET S |-> 0]
    <3>1. \A T \in SUBSET S : Cardinality(T) <= 0 => T = {}
      BY <1>1, FS_EmptySet
    <3>2. SumsUpTo(sum, v, S, 0)
      BY <3>1 DEF SumsUpTo
    <3>3. sum = [T \in SUBSET S |-> sum[T]]
      OBVIOUS
    <3> HIDE DEF sum
    <3> QED
      BY <2>1, <2>3, <3>2, <3>3
  <2>4. CASE n # 0
    <3>1. n - 1 \in 0..N /\ n - 1 \notin Bad
      <4> HIDE DEF Bad
      <4> QED
        BY <2>1, <2>2, <2>4, <1>1
    <3>2. PICK less : less = [T \in SUBSET S |-> less[T]] /\ SumsUpTo(less, v, S, n - 1)
      BY <3>1
    <3> DEFINE sum == [T \in SUBSET S |-> IF T = {} THEN 0 ELSE v[First(T)] + less[T \ {First(T)}]]
    <3>3. ASSUME NEW T \in SUBSET S, Cardinality(T) <= n - 1 PROVE sum[T] = less[T]
      BY <3>2, <3>3 DEF SumsUpTo
    <3>4. ASSUME NEW T \in SUBSET S, Cardinality(T) <= n, T # {}
          PROVE  sum[T] = v[First(T)] + sum[T \ {First(T)}]
      <4>1. First(T) \in T
        BY <3>4, FirstIs
      <4>2. Cardinality(T \ {First(T)}) <= n - 1 /\ T \ {First(T)} \in SUBSET S
        <5>1. Cardinality(T \ {First(T)}) = Cardinality(T) - 1
          BY <4>1, <1>1, FS_RemoveElement
        <5> QED
          BY <5>1, <3>4, <2>2, <1>1
      <4>3. sum[T \ {First(T)}] = less[T \ {First(T)}]
        BY <4>2, <3>3
      <4> QED
        BY <4>3, <3>4
    <3>5. SumsUpTo(sum, v, S, n)
      BY <3>4 DEF SumsUpTo
    <3>6. sum = [T \in SUBSET S |-> sum[T]]
      OBVIOUS
    <3> HIDE DEF sum
    <3> QED
      BY <2>1, <3>5, <3>6
  <2> QED
    BY <2>3, <2>4
<1>3. PICK sum : sum = [T \in SUBSET S |-> sum[T]] /\ SumsUpTo(sum, v, S, N)
  <2>1. N \in 0..N /\ N \notin Bad
    <3> HIDE DEF Bad
    <3> QED
      BY <1>1, <1>2
  <2> QED
    BY <2>1
<1>4. \A T \in SUBSET S : sum[T] = IF T = {} THEN 0 ELSE v[First(T)] + sum[T \ {First(T)}]
  BY <1>1, <1>3 DEF SumsUpTo
<1>5. [T \in SUBSET S |-> sum[T]]
        = [T \in SUBSET S |-> IF T = {} THEN 0 ELSE v[First(T)] + sum[T \ {First(T)}]]
  BY <1>4
<1>6. IsSum(sum, v, S)
  BY <1>3, <1>5 DEF IsSum
<1> QED
  BY <1>6

\* The elements of sets that are apart, counted set by set.
LEMMA SumIsUnion ==
  ASSUME NEW S, IsFiniteSet(S), NEW C, NEW v, NEW sum, IsSum(sum, v, S),
         \A p \in S : IsFiniteSet(C[p]) /\ v[p] = Cardinality(C[p]),
         \A p \in S, q \in S : p # q => C[p] \cap C[q] = {}
  PROVE  sum[S] = Cardinality(UNION {C[p] : p \in S})
<1> DEFINE All(T) == UNION {C[p] : p \in T}
           Right(T) == IsFiniteSet(All(T)) /\ sum[T] = Cardinality(All(T))
           Bad == {n \in 0..Cardinality(S) : \E T \in SUBSET S : Cardinality(T) = n /\ ~Right(T)}
<1>1. /\ Cardinality(S) \in Nat
      /\ \A T \in SUBSET S :
           IsFiniteSet(T) /\ Cardinality(T) \in Nat /\ Cardinality(T) <= Cardinality(S)
  BY FS_Subset, FS_CardinalityType
<1>2. ASSUME NEW T \in SUBSET S, T # {}, Right(T \ {First(T)}) PROVE Right(T)
  <2> DEFINE x == First(T)
             rest == All(T \ {x})
  <2>1. x \in T /\ x \in S
    BY <1>2, FirstIs
  <2>2. All(T) = C[x] \cup rest
    BY <2>1
  <2>3. C[x] \cap rest = {}
    BY <2>1
  <2>4. IsFiniteSet(C[x]) /\ IsFiniteSet(rest) /\ sum[T \ {x}] = Cardinality(rest)
    BY <1>2, <2>1
  <2>5. v[x] = Cardinality(C[x])
    BY <2>1
  <2>6. sum[T] = v[x] + sum[T \ {x}]
    BY <1>2 DEF IsSum
  <2> HIDE DEF x, rest, All
  <2>7. /\ IsFiniteSet(C[x] \cup rest) /\ IsFiniteSet(C[x] \cap rest)
        /\ Cardinality(C[x] \cup rest) = Cardinality(C[x]) + Cardinality(rest)
                                           - Cardinality(C[x] \cap rest)
    BY <2>4, FS_Union, FS_Intersection
  <2>8. Cardinality(C[x] \cap rest) = 0
    BY <2>3, FS_EmptySet
  <2>9. Cardinality(C[x]) \in Nat /\ Cardinality(rest) \in Nat
    BY <2>4, FS_CardinalityType
  <2> QED
    BY <2>2, <2>4, <2>5, <2>6, <2>7, <2>8, <2>9
<1>3. Right({})
  <2>1. All({}) = {}
    OBVIOUS
  <2>2. sum[{}] = 0
    BY DEF IsSum
  <2> HIDE DEF All
  <2> QED
    BY <2>1, <2>2, FS_EmptySet
<1> HIDE DEF Right
<1>4. Bad = {}
  <2> SUFFICES ASSUME Bad # {} PROVE FALSE
    OBVIOUS
  <2>1. PICK n \in Bad : \A m \in Bad : n <= m
    <3>1. Bad \in SUBSET (0..Cardinality(S)) /\ IsFiniteSet(0..Cardinality(S))
      BY <1>1, FS_Interval
    <3>2. Bad \in SUBSET Nat /\ IsFiniteSet(Bad)
      BY <1>1, <3>1, FS_Subset
    <3> HIDE DEF Bad
    <3> QED
      BY <3>2, MinIsLeast
  <2>2. PICK T \in SUBSET S : Cardinality(T) = n /\ ~Right(T)
    OBVIOUS
  <2>3. T # {}
    BY <1>3, <2>2
  <2>4. First(T) \in T
    BY <2>3, FirstIs
  <2>5. ~Right(T \ {First(T)}) /\ Cardinality(T \ {First(T)}) = n - 1 /\ n - 1 \in Nat
    <3>1. Cardinality(T \ {First(T)}) = n - 1
      BY <1>1, <2>2, <2>4, FS_RemoveElement
    <3>2. T \ {First(T)} \in SUBSET S
      OBVIOUS
    <3> QED
      BY <1>1, <1>2, <2>2, <2>3, <3>1, <3>2
  <2>6. n - 1 \in Bad
    <3>1. n - 1 \in 0..Cardinality(S)
      BY <1>1, <2>5
    <3> QED
      BY <2>5, <3>1
  <2>7. n \in Nat
    BY <1>1
  <2> HIDE DEF Bad
  <2> QED
    BY <2>1, <2>6, <2>7
<1>5. Right(S)
  <2>1. Cardinality(S) \in 0..Cardinality(S) /\ Cardinality(S) \notin Bad
    BY <1>1, <1>4
  <2> QED
    BY <2>1
<1> QED
  BY <1>5 DEF Right

-----------------------------------------------------------------------------
(* Document frequencies. *)

\* What .ninddeletes counts: the postings of the deleted documents.
Counted(s) ==
  \A t \in Terms : s.counts[t] = Cardinality({d \in s.dead : t \in s.docs[d]})
AllCounted(index) == \A p \in DOMAIN index : Counted(index[p])

\* The documents that have a term, among those of a segment.
Having(s, t, ids) == {d \in ids : t \in s.docs[d]}

\* They are finitely many, and some are deleted and the others live.
LEMMA HavingIs ==
  ASSUME NEW s, IsSegment(s), NEW t
  PROVE  /\ \A ids \in SUBSET Ids(s) :
              IsFiniteSet(Having(s, t, ids)) /\ Cardinality(Having(s, t, ids)) \in Nat
         /\ Postings(s, t)
              = Cardinality(Having(s, t, s.dead)) + Cardinality(Having(s, t, LiveIds(s)))
<1>1. IsFiniteSet(Ids(s))
  <2>1. IsFiniteSet(Docs)
    BY Numbers, FS_Interval DEF Docs
  <2> QED
    BY <2>1, FS_Subset DEF IsSegment
<1>2. \A ids \in SUBSET Ids(s) :
        IsFiniteSet(Having(s, t, ids)) /\ Cardinality(Having(s, t, ids)) \in Nat
  <2> SUFFICES ASSUME NEW ids \in SUBSET Ids(s)
               PROVE  IsFiniteSet(Having(s, t, ids)) /\ Cardinality(Having(s, t, ids)) \in Nat
    OBVIOUS
  <2>1. Having(s, t, ids) \in SUBSET Ids(s)
    BY DEF Having
  <2> QED
    BY <1>1, <2>1, FS_Subset, FS_CardinalityType
<1> DEFINE A == Having(s, t, s.dead)
           B == Having(s, t, LiveIds(s))
<1>3. A \cup B = {d \in Ids(s) : t \in s.docs[d]} /\ A \cap B = {}
  BY DEF Having, LiveIds, IsSegment
<1>4. IsFiniteSet(A) /\ IsFiniteSet(B) /\ Cardinality(A) \in Nat /\ Cardinality(B) \in Nat
  BY <1>2 DEF LiveIds, IsSegment
<1>5. Postings(s, t) = Cardinality(A \cup B)
  BY <1>3 DEF Postings
<1> HIDE DEF A, B
<1>6. Cardinality(A \cup B) = Cardinality(A) + Cardinality(B) - Cardinality(A \cap B)
  BY <1>4, FS_Union
<1>7. Cardinality(A \cap B) = 0
  BY <1>3, FS_EmptySet
<1>8. Postings(s, t) = Cardinality(A) + Cardinality(B)
  BY <1>4, <1>5, <1>6, <1>7
<1> QED
  BY <1>2, <1>8 DEF A, B

\* The counts of a new segment: nothing is deleted from it.
LEMMA NewCounted == ASSUME NEW docs PROVE Counted(NewSegment(docs))
<1>1. ASSUME NEW t \in Terms PROVE {d \in {} : t \in docs[d]} = {}
  OBVIOUS
<1> QED
  BY <1>1, FS_EmptySet DEF Counted, NewSegment

\* Live documents of a segment are deleted, and counted.
LEMMA DeletedCounted ==
  ASSUME NEW s, IsSegment(s), Counted(s), NEW gone \in SUBSET LiveIds(s)
  PROVE  Counted(DeleteDocuments(s, gone))
<1> SUFFICES ASSUME NEW t \in Terms
             PROVE  DeleteDocuments(s, gone).counts[t]
                      = Cardinality({d \in s.dead \cup gone : t \in s.docs[d]})
  BY DEF Counted, DeleteDocuments
<1> DEFINE A == Having(s, t, s.dead)
           B == Having(s, t, gone)
<1>1. {d \in s.dead \cup gone : t \in s.docs[d]} = A \cup B /\ A \cap B = {}
  BY DEF Having, LiveIds
<1>2. /\ s.counts[t] = Cardinality(A)
      /\ DeleteDocuments(s, gone).counts[t] = s.counts[t] + Cardinality(B)
  BY DEF Counted, DeleteDocuments, Having
<1>3. IsFiniteSet(A) /\ IsFiniteSet(B) /\ Cardinality(A) \in Nat /\ Cardinality(B) \in Nat
  BY HavingIs DEF LiveIds, IsSegment
<1> HIDE DEF A, B
<1>4. Cardinality(A \cup B) = Cardinality(A) + Cardinality(B) - Cardinality(A \cap B)
  BY <1>3, FS_Union
<1>5. Cardinality(A \cap B) = 0
  BY <1>1, FS_EmptySet
<1>6. DeleteDocuments(s, gone).counts[t] = Cardinality(A \cup B)
  <2> HIDE DEF A
  <2> QED
    BY <1>2, <1>3, <1>4, <1>5
<1> QED
  BY <1>1, <1>6

\* Masks count what they delete.
LEMMA MaskedCounted ==
  ASSUME NEW index, Sound(index), AllCounted(index), NEW changed
  PROVE  AllCounted(Masked(index, changed))
<1> SUFFICES ASSUME NEW p \in DOMAIN index PROVE Counted(Masked(index, changed)[p])
  BY DEF AllCounted, Masked
<1> DEFINE gone == {d \in changed : /\ d < NextId(index)
                                    /\ d \in LiveIds(index[p])
                                    /\ Locate(index, d) = p}
<1>1. Masked(index, changed)[p] = DeleteDocuments(index[p], gone)
  BY DEF Masked
<1>2. gone \in SUBSET LiveIds(index[p]) /\ IsSegment(index[p]) /\ Counted(index[p])
  BY DEF Sound, IsIndex, AllCounted
<1> HIDE DEF gone
<1> QED
  BY <1>1, <1>2, DeletedCounted

\* A new segment, and a merge.
LEMMA AppendedCounted ==
  ASSUME NEW index, AllCounted(index), NEW changes
  PROVE  AllCounted(Appended(index, changes))
<1> DEFINE appended == Appended(index, changes)
<1>1. \A p \in DOMAIN appended :
        (p \in DOMAIN index /\ appended[p] = index[p]) \/ \E docs : appended[p] = NewSegment(docs)
  BY DEF Appended
<1> HIDE DEF appended
<1>2. AllCounted(appended)
  BY <1>1, NewCounted DEF AllCounted
<1> QED
  BY <1>2 DEF appended

LEMMA MergedCounted ==
  ASSUME NEW index, AllCounted(index), NEW chosen
  PROVE  AllCounted(Merged(index, chosen))
<1> DEFINE merged == Merged(index, chosen)
<1>1. \A p \in DOMAIN merged :
        (p \in DOMAIN index /\ merged[p] = index[p]) \/ \E docs : merged[p] = NewSegment(docs)
  BY DEF Merged
<1> HIDE DEF merged
<1>2. AllCounted(merged)
  BY <1>1, NewCounted DEF AllCounted
<1> QED
  BY <1>2 DEF merged

\* What a segment adds to the frequency of a term.
Frequency(s, t) ==
  LET postings == Postings(s, t)
      deleted == s.counts[t]
  IN  IF postings > deleted THEN postings - deleted ELSE 0

\* documentFrequency adds them up.
LEMMA FrequencyIsSum ==
  ASSUME NEW index, IsFiniteSet(DOMAIN index), NEW t
  PROVE  \E sum : /\ IsSum(sum, [p \in DOMAIN index |-> Frequency(index[p], t)], DOMAIN index)
                  /\ DocumentFrequency(index, t) = sum[DOMAIN index]
<1> DEFINE S == DOMAIN index
           v == [p \in S |-> Frequency(index[p], t)]
           Term(p) == IF Postings(index[p], t) > index[p].counts[t]
                      THEN Postings(index[p], t) - index[p].counts[t] ELSE 0
           Defines(sum) == sum = [T \in SUBSET S |->
                             IF T = {} THEN 0
                             ELSE Term(CHOOSE x \in T : TRUE) + sum[T \ {CHOOSE x \in T : TRUE}]]
           chosen == CHOOSE sum : Defines(sum)
<1>1. DocumentFrequency(index, t) = chosen[S]
  BY DEF DocumentFrequency, MapThenSumSet, MapThenFoldSet
<1>2. ASSUME NEW sum PROVE IsSum(sum, v, S) <=> Defines(sum)
  <2>1. \A T \in SUBSET S : T # {} => v[First(T)] = Term(CHOOSE x \in T : TRUE)
    BY FirstIs DEF First, Frequency
  <2> HIDE DEF S, v, Term
  <2> QED
    BY <2>1 DEF IsSum, First
<1>3. Defines(chosen)
  <2> HIDE DEF S, v, Defines
  <2>1. \E sum : Defines(sum)
    BY <1>2, SumExists DEF S
  <2> QED
    BY <2>1
<1> HIDE DEF Defines, chosen
<1> QED
  BY <1>1, <1>2, <1>3

\* An index whose deletions are counted has the frequencies of its view.
LEMMA CountedIsExact ==
  ASSUME NEW index, Sound(index), AllCounted(index)
  PROVE  Exact(index)
<1> SUFFICES ASSUME NEW t \in Terms
             PROVE  DocumentFrequency(index, t)
                      = Cardinality({d \in DOMAIN View(index) : t \in View(index)[d]})
  BY DEF Exact
<1> DEFINE S == DOMAIN index
           v == [p \in S |-> Frequency(index[p], t)]
           C == [p \in S |-> Having(index[p], t, LiveIds(index[p]))]
<1>1. IsFiniteSet(S)
  BY DEF Sound, IsIndex
<1>2. ASSUME NEW p \in S PROVE IsFiniteSet(C[p]) /\ v[p] = Cardinality(C[p])
  <2> DEFINE s == index[p]
  <2>1. IsSegment(s) /\ Counted(s)
    BY DEF Sound, IsIndex, AllCounted
  <2> HIDE DEF s
  <2>2. /\ IsFiniteSet(Having(s, t, LiveIds(s)))
        /\ Cardinality(Having(s, t, LiveIds(s))) \in Nat
        /\ Cardinality(Having(s, t, s.dead)) \in Nat
        /\ Postings(s, t)
             = Cardinality(Having(s, t, s.dead)) + Cardinality(Having(s, t, LiveIds(s)))
    <3>1. LiveIds(s) \in SUBSET Ids(s) /\ s.dead \in SUBSET Ids(s)
      BY <2>1 DEF LiveIds, IsSegment
    <3> QED
      BY <2>1, <3>1, HavingIs
  <2>3. s.counts[t] = Cardinality(Having(s, t, s.dead))
    BY <2>1 DEF Counted, Having
  <2>4. Frequency(s, t) = Cardinality(Having(s, t, LiveIds(s)))
    BY <2>2, <2>3 DEF Frequency
  <2> QED
    BY <2>2, <2>4 DEF s
<1>3. ASSUME NEW p \in S, NEW q \in S, p # q PROVE C[p] \cap C[q] = {}
  <2> SUFFICES ASSUME NEW d, d \in C[p], d \in C[q] PROVE FALSE
    OBVIOUS
  <2>1. d \in LiveIds(index[p]) /\ d \in LiveIds(index[q])
    BY DEF Having
  <2>2. d \in Docs
    BY <2>1 DEF Sound, IsIndex, IsSegment, LiveIds
  <2> QED
    BY <1>3, <2>1, <2>2 DEF Sound, Apart
<1>4. UNION {C[p] : p \in S} = {d \in DOMAIN View(index) : t \in View(index)[d]}
  <2>1. ASSUME NEW d PROVE d \in UNION {C[p] : p \in S} <=> \E p \in S : d \in C[p]
    OBVIOUS
  <2>2. ASSUME NEW d, NEW p \in S, d \in C[p]
        PROVE  d \in DOMAIN View(index) /\ t \in View(index)[d]
    BY <2>2, ViewOf DEF Having
  <2>3. ASSUME NEW d \in DOMAIN View(index), t \in View(index)[d] PROVE \E p \in S : d \in C[p]
    <3>1. PICK p \in S : d \in LiveIds(index[p])
      BY <2>3, ViewOf
    <3>2. d \in C[p]
      BY <2>3, <3>1, ViewOf DEF Having
    <3> QED
      BY <3>2
  <2> HIDE DEF S, C
  <2> QED
    BY <2>1, <2>2, <2>3
<1>5. PICK sum : IsSum(sum, v, S) /\ DocumentFrequency(index, t) = sum[S]
  BY <1>1, FrequencyIsSum
<1> HIDE DEF S, v, C
<1>6. sum[S] = Cardinality(UNION {C[p] : p \in S})
  BY <1>1, <1>2, <1>3, <1>5, SumIsUnion
<1> QED
  BY <1>4, <1>5, <1>6

CountInv == AllCounted(published) /\ AllCounted(work)

LEMMA CountInitInv == Init => CountInv
<1> SUFFICES ASSUME Init PROVE CountInv
  OBVIOUS
<1>1. \A p \in DOMAIN published : \E docs : published[p] = NewSegment(docs)
  BY DEF Init
<1> QED
  BY <1>1, NewCounted DEF Init, CountInv, AllCounted

LEMMA CountNextInv == IInv /\ CountInv /\ [Next]_vars => CountInv'
<1> SUFFICES ASSUME IInv, CountInv, [Next]_vars PROVE CountInv'
  OBVIOUS
<1>1. CASE Mask
  <2>1. AllCounted(work') /\ published' = published
    BY <1>1, MaskedCounted DEF IInv, CountInv, Mask
  <2> QED
    BY <2>1 DEF CountInv
<1>2. CASE Append
  <2>1. AllCounted(work') /\ published' = published
    BY <1>2, AppendedCounted DEF CountInv, Append
  <2> QED
    BY <2>1 DEF CountInv
<1>3. CASE Merge
  <2>1. AllCounted(work') /\ published' = published
    BY <1>3, MergedCounted DEF CountInv, Merge
  <2> QED
    BY <2>1 DEF CountInv
<1>4. CASE ForceMerge
  <2>1. AllCounted(published') /\ work' = published'
    BY <1>4, MergedCounted DEF CountInv, ForceMerge
  <2> QED
    BY <2>1 DEF CountInv
<1>5. ASSUME {published', work'} \subseteq {published, work} PROVE CountInv'
  BY <1>5 DEF CountInv
<1>6. CASE Begin \/ Publish \/ Abandon \/ UNCHANGED vars
  BY <1>5, <1>6 DEF Begin, Publish, Abandon, vars
<1>7. ASSUME NEW d, NEW content, Add(d, content) PROVE CountInv'
  BY <1>5, <1>7 DEF Add
<1>8. ASSUME NEW d, Remove(d) PROVE CountInv'
  BY <1>5, <1>8 DEF Remove
<1> QED
  BY <1>1, <1>2, <1>3, <1>4, <1>6, <1>7, <1>8 DEF Next, CommitStep, AddNew

\* However many batches replace and remove documents, and whatever is merged, the
\* frequency of a term is the number of the live documents that have it: each
\* deletion is counted once.
THEOREM CountsAreExact == Spec => []FrequenciesExact
<1>1. IInv /\ CountInv => FrequenciesExact
  BY CountedIsExact DEF IInv, CountInv, FrequenciesExact
<1>2. Spec => []CountInv
  BY Invariant, CountInitInv, CountNextInv, PTL DEF Spec
<1> QED
  BY Invariant, <1>1, <1>2, PTL

-----------------------------------------------------------------------------
(* What commit leaves. *)

LEMMA LiveNbIs ==
  ASSUME NEW index, IsIndex(index), NEW p \in DOMAIN index
  PROVE  LiveNb(index[p]) \in Nat
<1> DEFINE ids == Ids(index[p])
           dead == index[p].dead
<1>1. ids \subseteq Docs /\ dead \subseteq ids
  BY DEF IsIndex, IsSegment
<1>2. IsFiniteSet(Docs)
  BY Numbers, FS_Interval DEF Docs
<1>3. /\ IsFiniteSet(ids) /\ IsFiniteSet(dead) /\ Cardinality(dead) <= Cardinality(ids)
      /\ Cardinality(ids) \in Nat /\ Cardinality(dead) \in Nat
  BY <1>1, <1>2, FS_Subset, FS_CardinalityType
<1> HIDE DEF ids, dead
<1> QED
  BY <1>3 DEF LiveNb, DocsNb, DeletedNb, ids, dead

\* What a segment and those before it hold is a sum.
UpTo(index, tier, p) == {q \in tier : NotAfter(index, q, p)}
LiveNbs(index, S) == [q \in S |-> LiveNb(index[q])]

LEMMA LiveNbUpToIs ==
  ASSUME NEW index, NEW tier, IsFiniteSet(tier), NEW p
  PROVE  \E sum : /\ IsSum(sum, LiveNbs(index, UpTo(index, tier, p)), UpTo(index, tier, p))
                  /\ LiveNbUpTo(index, tier, p) = sum[UpTo(index, tier, p)]
<1> DEFINE S == {q \in tier : NotAfter(index, q, p)}
           v == [q \in S |-> LiveNb(index[q])]
           Defines(sum) == sum = [T \in SUBSET S |->
                             IF T = {} THEN 0
                             ELSE LiveNb(index[CHOOSE x \in T : TRUE])
                                    + sum[T \ {CHOOSE x \in T : TRUE}]]
           chosen == CHOOSE sum : Defines(sum)
<1>1. LiveNbUpTo(index, tier, p) = chosen[S]
  BY DEF LiveNbUpTo, MapThenSumSet, MapThenFoldSet
<1>2. IsFiniteSet(S)
  BY FS_Subset
<1>3. ASSUME NEW sum PROVE IsSum(sum, v, S) <=> Defines(sum)
  <2>1. \A T \in SUBSET S : T # {} => v[First(T)] = LiveNb(index[CHOOSE x \in T : TRUE])
    BY FirstIs DEF First
  <2> HIDE DEF S, v
  <2> QED
    BY <2>1 DEF IsSum, First
<1>4. Defines(chosen)
  <2> HIDE DEF S, v, Defines
  <2>1. \E sum : Defines(sum)
    BY <1>2, <1>3, SumExists
  <2> QED
    BY <2>1
<1> HIDE DEF Defines, chosen
<1> QED
  BY <1>1, <1>3, <1>4 DEF UpTo, LiveNbs

\* Sums of one and of two numbers.
LEMMA SumOfTwo ==
  ASSUME NEW a, NEW b, NEW S, S = {a, b}, NEW v, v[a] \in Nat, v[b] \in Nat,
         NEW sum, IsSum(sum, v, S)
  PROVE  sum[S] = IF a = b THEN v[a] ELSE v[a] + v[b]
<1>1. \A T \in SUBSET S : sum[T] = IF T = {} THEN 0 ELSE v[First(T)] + sum[T \ {First(T)}]
  BY DEF IsSum
<1>2. ASSUME NEW c \in S PROVE sum[{c}] = v[c]
  <2>1. First({c}) = c
    BY FirstIs
  <2>2. {c} \ {First({c})} = {}
    BY <2>1
  <2>3. sum[{c}] = v[c] + sum[{}] /\ sum[{}] = 0
    BY <1>1, <2>1, <2>2
  <2> QED
    BY <2>3
<1>3. CASE a = b
  BY <1>2, <1>3
<1>4. CASE a # b
  <2>1. First(S) \in S /\ sum[S] = v[First(S)] + sum[S \ {First(S)}]
    BY <1>1, FirstIs
  <2>2. CASE First(S) = a
    <3>1. S \ {First(S)} = {b}
      BY <1>4, <2>2
    <3>2. sum[{b}] = v[b] /\ sum[S] = v[a] + sum[{b}]
      BY <1>2, <2>1, <2>2, <3>1
    <3> QED
      BY <1>4, <3>2
  <2>3. CASE First(S) = b
    <3>1. S \ {First(S)} = {a}
      BY <1>4, <2>3
    <3>2. sum[{a}] = v[a] /\ sum[S] = v[b] + sum[{a}]
      BY <1>2, <2>1, <2>3, <3>1
    <3> QED
      BY <1>4, <3>2
  <2> QED
    BY <2>1, <2>2, <2>3
<1> QED
  BY <1>3, <1>4

\* Some segment comes before the others: the smallest, the first of the equal ones.
LEMMA SmallestExists ==
  ASSUME NEW index, IsIndex(index), NEW tier \in SUBSET DOMAIN index, tier # {}
  PROVE  \E p \in tier : \A q \in tier : NotAfter(index, p, q)
<1> DEFINE Size(q) == LiveNb(index[q])
           Sizes == {Size(q) : q \in tier}
<1>1. IsFiniteSet(tier) /\ tier \subseteq Nat
  BY FS_Subset DEF IsIndex
<1>2. \A q \in tier : Size(q) \in Nat
  BY LiveNbIs
<1> HIDE DEF Size
<1>3. Sizes \subseteq Nat /\ Sizes # {} /\ IsFiniteSet(Sizes)
  <2>1. IsFiniteSet(Sizes)
    <3>1. [q \in tier |-> Size(q)] \in Surjection(tier, Sizes)
      BY DEF Surjection
    <3> QED
      BY <1>1, <3>1, FS_Surjection
  <2> QED
    BY <1>2, <2>1
<1>4. Min(Sizes) \in Sizes /\ \A size \in Sizes : Min(Sizes) <= size
  BY <1>3, MinIsLeast
<1> DEFINE Smallest == {q \in tier : Size(q) = Min(Sizes)}
<1>5. Smallest \subseteq Nat /\ Smallest # {} /\ IsFiniteSet(Smallest)
  BY <1>1, <1>4, FS_Subset
<1>6. Min(Smallest) \in Smallest /\ \A q \in Smallest : Min(Smallest) <= q
  <2> HIDE DEF Smallest
  <2> QED
    BY <1>5, MinIsLeast
<1>7. ASSUME NEW q \in tier PROVE NotAfter(index, Min(Smallest), q)
  <2>1. Size(Min(Smallest)) = Min(Sizes) /\ Min(Sizes) <= Size(q) /\ Min(Sizes) \in Nat
    BY <1>3, <1>4, <1>6
  <2>2. Size(q) = Min(Sizes) => Min(Smallest) <= q
    BY <1>6
  <2> HIDE DEF Smallest, Sizes
  <2> QED
    BY <1>2, <2>1, <2>2 DEF NotAfter, Size
<1> QED
  BY <1>6, <1>7

\* The two smallest segments of a tier, none full, always fit: at least two are
\* merged.
LEMMA TwoFit ==
  ASSUME NEW index, IsIndex(index), NEW k,
         Cardinality(InTier(index, k)) >= 2
  PROVE  Cardinality(Fitting(index, InTier(index, k))) >= 2
<1> DEFINE tier == InTier(index, k)
           Size(q) == LiveNb(index[q])
<1>1. /\ tier \subseteq DOMAIN index /\ IsFiniteSet(tier) /\ tier \subseteq Nat
      /\ \A q \in tier : ~Full(index[q])
  BY FS_Subset DEF InTier, IsIndex
<1>2. \A q \in tier : Size(q) \in Nat
  BY <1>1, LiveNbIs
<1>3. tier # {} /\ Cardinality(tier) >= 2
  BY FS_EmptySet
<1> HIDE DEF tier
<1>4. PICK a \in tier : \A q \in tier : NotAfter(index, a, q)
  BY <1>1, <1>3, SmallestExists
<1>5. tier \ {a} # {} /\ tier \ {a} \subseteq DOMAIN index
  <2>1. Cardinality(tier \ {a}) = Cardinality(tier) - 1 /\ Cardinality(tier) \in Nat
    BY <1>1, FS_RemoveElement, FS_CardinalityType
  <2> QED
    BY <1>1, <1>3, <2>1, FS_EmptySet
<1>6. PICK b \in tier \ {a} : \A q \in tier \ {a} : NotAfter(index, b, q)
  BY <1>5, SmallestExists
<1>7. ASSUME NEW p \in tier, NEW q \in tier, NotAfter(index, p, q), NotAfter(index, q, p)
      PROVE  p = q
  BY <1>1, <1>2, <1>7 DEF NotAfter
<1>8. ASSUME NEW p \in tier PROVE NotAfter(index, p, p)
  BY <1>1, <1>2 DEF NotAfter
<1>9. {q \in tier : NotAfter(index, q, a)} = {a, a}
  BY <1>4, <1>7, <1>8
<1>10. {q \in tier : NotAfter(index, q, b)} = {a, b}
  BY <1>4, <1>6, <1>7, <1>8
<1>11. ASSUME NEW p \in {a, b} PROVE p \in Fitting(index, tier)
  <2>1. p \in tier /\ {q \in tier : NotAfter(index, q, p)} = {a, p}
    BY <1>6, <1>9, <1>10
  <2> DEFINE S == UpTo(index, tier, p)
             v == LiveNbs(index, S)
  <2>2. PICK sum : IsSum(sum, v, S) /\ LiveNbUpTo(index, tier, p) = sum[S]
    BY <1>1, LiveNbUpToIs
  <2>3. v[a] = Size(a) /\ v[p] = Size(p) /\ Size(a) \in Nat /\ Size(p) \in Nat
    BY <1>2, <2>1 DEF UpTo, LiveNbs
  <2>4. S = {a, p}
    BY <2>1 DEF UpTo
  <2> HIDE DEF S, v, Size
  <2>5. sum[S] = IF a = p THEN v[a] ELSE v[a] + v[p]
    <3>1. v[a] \in Nat /\ v[p] \in Nat /\ IsSum(sum, v, S)
      BY <2>2, <2>3
    <3> HIDE DEF S
    <3> QED
      BY <2>4, <3>1, SumOfTwo
  <2>6. sum[S] <= Size(a) + Size(p)
    BY <2>3, <2>5
  <2>7. MaxMergedDocs # 0 => Size(a) * 2 < MaxMergedDocs /\ Size(p) * 2 < MaxMergedDocs
    BY <1>1, <2>1, <2>3, MaxMergedDocsAssumption DEF Full, Size
  <2>8. MaxMergedDocs # 0 => sum[S] <= MaxMergedDocs
    BY <2>3, <2>5, <2>6, <2>7, MaxMergedDocsAssumption
  <2> QED
    BY <2>1, <2>2, <2>8 DEF Fitting
<1>12. {a, b} \subseteq Fitting(index, tier) /\ IsFiniteSet(Fitting(index, tier))
  BY <1>1, <1>11, FS_Subset DEF Fitting
<1>13. Cardinality({a, b}) = 2
  <2>1. IsFiniteSet({a}) /\ Cardinality({a}) = 1 /\ b \notin {a} /\ {a} \cup {b} = {a, b}
    BY <1>6, FS_Singleton
  <2> QED
    BY <2>1, FS_AddElement
<1>14. /\ Cardinality({a, b}) <= Cardinality(Fitting(index, tier))
       /\ Cardinality(Fitting(index, tier)) \in Nat
  BY <1>12, FS_Subset, FS_CardinalityType
<1> QED
  BY <1>13, <1>14 DEF tier

\* With nothing to merge, nothing is left to merge.
LEMMA NothingToMerge ==
  ASSUME NEW index, IsIndex(index), MergeFactor >= 2, SegmentsToMerge(index) = {}
  PROVE  Settled(index)
<1> DEFINE rewritten == {p \in DOMAIN index : OverHalfDeleted(index[p])}
<1>1. rewritten = {}
  BY DEF SegmentsToMerge
<1>2. ASSUME Mergeable(index) # {} PROVE FALSE
  <2>1. Mergeable(index) \subseteq Nat /\ IsFiniteSet(Mergeable(index))
    <3>1. IsFiniteSet(0..(MaxDoc + 1))
      BY Numbers, FS_Interval
    <3> QED
      BY <3>1, Numbers, FS_Subset DEF Mergeable
  <2>2. Min(Mergeable(index)) \in Mergeable(index)
    BY <1>2, <2>1, MinIsLeast
  <2> DEFINE fitting == Fitting(index, InTier(index, Min(Mergeable(index))))
  <2>3. fitting = {}
    BY <1>1, <1>2 DEF SegmentsToMerge
  <2>4. Cardinality(fitting) >= 2
    BY <2>2 DEF Mergeable
  <2> HIDE DEF fitting
  <2> QED
    BY <2>3, <2>4, FS_EmptySet
<1>3. ASSUME NEW k \in 0..(MaxDoc + 1) PROVE Cardinality(InTier(index, k)) < MergeFactor
  <2>1. Cardinality(InTier(index, k)) \in Nat
    <3>1. IsFiniteSet(InTier(index, k))
      BY FS_Subset DEF InTier, IsIndex
    <3> QED
      BY <3>1, FS_CardinalityType
  <2>2. SUFFICES ASSUME Cardinality(InTier(index, k)) >= MergeFactor PROVE FALSE
    BY <2>1, MergeFactorAssumption
  <2>3. Cardinality(Fitting(index, InTier(index, k))) >= 2
    BY <2>1, <2>2, TwoFit, MergeFactorAssumption
  <2> QED
    BY <1>2, <2>2, <2>3 DEF Mergeable
<1> QED
  BY <1>1, <1>3 DEF Settled

\* A commit that merges (with MergeFactor 0 or 1 none does) leaves no segment over
\* half deleted and fewer than MergeFactor segments in each tier: the limit on
\* merged documents never keeps a tier from being merged.
THEOREM CommitsSettle == MergeFactor >= 2 => (Spec => TiersSettled)
<1> SUFFICES ASSUME MergeFactor >= 2 PROVE Spec => TiersSettled
  OBVIOUS
<1>1. IInv /\ [Next]_vars => [phase = "merging" /\ published' # published
                                => Settled(published')]_vars
  <2> SUFFICES ASSUME IInv, [Next]_vars, phase = "merging", published' # published
               PROVE  Settled(published')
    OBVIOUS
  <2>1. CASE Publish
    <3>1. IsIndex(work) /\ SegmentsToMerge(work) = {} /\ published' = work
      BY <2>1 DEF Publish, IInv, TypeOK
    <3> QED
      BY <3>1, NothingToMerge
  <2>2. CASE Begin \/ Abandon \/ ForceMerge \/ Mask \/ Append \/ Merge \/ UNCHANGED vars
    BY <2>2 DEF Begin, Abandon, ForceMerge, Mask, Append, Merge, vars
  <2>3. ASSUME NEW d, NEW content, Add(d, content) PROVE FALSE
    BY <2>3 DEF Add
  <2>4. ASSUME NEW d, Remove(d) PROVE FALSE
    BY <2>4 DEF Remove
  <2> QED
    BY <2>1, <2>2, <2>3, <2>4 DEF Next, CommitStep, AddNew
<1> QED
  BY Invariant, <1>1, PTL DEF Spec, TiersSettled

=============================================================================
