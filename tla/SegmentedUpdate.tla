--------------------------- MODULE SegmentedUpdate ---------------------------
(***************************************************************************)
(* Updates of an index made of segments: IndexUpdate                       *)
(* (src/py/nind/nind_engine.py) collects the changes of one batch, then    *)
(* NindSegmentedUpdate::commit (src/cpp/NindIndex) masks the replaced and  *)
(* removed documents in their segments, writes the added ones into a new   *)
(* segment, and merges segments by tiers of their live documents.  All of  *)
(* it is done in a new generation (module IndexStore): readers see the     *)
(* published one until the end, and a batch that raises leaves no trace.   *)
(*                                                                         *)
(* An index is a function from places to segments: the manifest lists the  *)
(* segments by increasing place.  A document's content is the set of its   *)
(* terms; one category of postings.                                        *)
(***************************************************************************)
EXTENDS Naturals, FiniteSets, FiniteSetsExt, Functions

CONSTANTS
  MaxDoc,         \* the largest document id: bounds the ids
  Contents,       \* what a document can hold: sets of terms, none empty
  MergeFactor,    \* MERGE_FACTOR: segments of a tier merged at once; 0: no merge
  MaxMergedDocs,  \* MAX_MERGED_DOCS: no merge into more live documents; 0: no limit
  MaxCommits,     \* batches published: bounds the behaviours
  MaxChanges,     \* documents changed by one batch: bounds the behaviours
  Builds          \* the indexes there may be at first: sets of documents, one per segment

Docs == 0..MaxDoc

ASSUME MaxDocAssumption == MaxDoc \in Nat
ASSUME ContentsAssumption == {} \notin Contents
ASSUME MergeFactorAssumption == MergeFactor \in Nat
ASSUME MaxMergedDocsAssumption == MaxMergedDocs \in Nat
ASSUME MaxCommitsAssumption == MaxCommits \in Nat
\* Sharded builds give each document to one segment.
ASSUME BuildsAssumption ==
  \A build \in Builds :
    /\ IsFiniteSet(DOMAIN build) /\ DOMAIN build \subseteq Nat \ {0}
    /\ \A p \in DOMAIN build : build[p] \subseteq Docs /\ build[p] # {}
    /\ \A p \in DOMAIN build, q \in DOMAIN build : p # q => build[p] \cap build[q] = {}

VARIABLES
  published,    \* the index CURRENT names
  work,         \* the index in the new generation
  phase,        \* where the update is
  pending,      \* _pending: the changes of the batch; {}: no token, the document is removed
  next,         \* _next_id
  commits,      \* batches published so far
  highest       \* history: one more than the largest id ever published

vars == <<published, work, phase, pending, next, commits, highest>>

Terms == UNION Contents
NoDocs == [d \in {} |-> {}]

-----------------------------------------------------------------------------
(* Segments and indexes: NindSegmentedIndex. *)

NewSegment(docs) == [docs |-> docs, dead |-> {}, counts |-> [t \in Terms |-> 0]]

Ids(segment) == DOMAIN segment.docs
LiveIds(segment) == Ids(segment) \ segment.dead
DocsNb(segment) == Cardinality(Ids(segment))
DeletedNb(segment) == Cardinality(segment.dead)
LiveNb(segment) == DocsNb(segment) - DeletedNb(segment)

AllIds(index) == UNION {Ids(index[p]) : p \in DOMAIN index}

\* locate, partOf: the first segment where a document is live.
Places(index, d) == {p \in DOMAIN index : d \in LiveIds(index[p])}
Locate(index, d) == Min(Places(index, d))

\* The live documents, as readers see them.
View(index) ==
  [d \in {d \in AllIds(index) : Places(index, d) # {}} |-> index[Locate(index, d)].docs[d]]

\* documentFrequency: the postings of each segment, less those it counts as
\* deleted, never below 0.
Postings(segment, t) == Cardinality({d \in Ids(segment) : t \in segment.docs[d]})
DocumentFrequency(index, t) ==
  MapThenSumSet(LAMBDA p : LET postings == Postings(index[p], t)
                               deleted == index[p].counts[t]
                           IN  IF postings > deleted THEN postings - deleted ELSE 0,
                DOMAIN index)

\* getMaxDocIdent, plus one; 0 without any document.
NextId(index) == IF AllIds(index) = {} THEN 0 ELSE Max(AllIds(index)) + 1

-----------------------------------------------------------------------------
(* The steps of commit. *)

\* Mutant of DeleteDocuments: the counts of earlier deletions are lost.
DeleteDocumentsAnew(segment, gone) ==
  [docs |-> segment.docs,
   dead |-> segment.dead \cup gone,
   counts |-> [t \in Terms |-> Cardinality({d \in gone : t \in segment.docs[d]})]]

\* deleteDocuments: the documents gone from a segment, and their postings, are
\* added to its .ninddeletes.
DeleteDocuments(segment, gone) ==
  [docs |-> segment.docs,
   dead |-> segment.dead \cup gone,
   counts |-> [t \in Terms |->
     segment.counts[t] + Cardinality({d \in gone : t \in segment.docs[d]})]]

\* Mutant of Masked: the largest document is taken for a new one.
MaskedBelow(index, changed) ==
  [p \in DOMAIN index |->
     DeleteDocuments(index[p], {d \in changed : /\ d + 1 < NextId(index)
                                                /\ d \in LiveIds(index[p])
                                                /\ Locate(index, d) = p})]

\* The changed documents the index may have, masked where they are located.
Masked(index, changed) ==
  [p \in DOMAIN index |->
     DeleteDocuments(index[p], {d \in changed : /\ d < NextId(index)
                                                /\ d \in LiveIds(index[p])
                                                /\ Locate(index, d) = p})]

\* Mutant of Appended: documents without token are stored.
AppendedAll(index, changes) ==
  LET last == IF DOMAIN index = {} THEN 1 ELSE Max(DOMAIN index) + 1
  IN  [p \in DOMAIN index \cup {last} |->
         IF p = last THEN NewSegment(changes) ELSE index[p]]

\* writeSegment: the documents with tokens, last in the manifest.
Appended(index, changes) ==
  LET stored == {d \in DOMAIN changes : changes[d] # {}}
      last == IF DOMAIN index = {} THEN 1 ELSE Max(DOMAIN index) + 1
  IN  IF stored = {} THEN index
      ELSE [p \in DOMAIN index \cup {last} |->
              IF p = last THEN NewSegment([d \in stored |-> changes[d]]) ELSE index[p]]

\* Mutant of Merged: the deleted documents come back.
MergedWhole(index, chosen) ==
  LET ids == AllIds(Restrict(index, chosen))
      kept == DOMAIN index \ chosen
      first(d) == Min({p \in chosen : d \in Ids(index[p])})
  IN  [p \in kept \cup {Min(chosen)} |->
         IF p \in kept THEN index[p] ELSE NewSegment([d \in ids |-> index[first(d)].docs[d]])]

\* mergeSegments: the live documents of the chosen segments make a new one, at
\* the place of the first; nothing is left of segments without live documents.
Merged(index, chosen) ==
  LET docs == View(Restrict(index, chosen))
      kept == DOMAIN index \ chosen
  IN  [p \in kept \cup (IF DOMAIN docs = {} THEN {} ELSE {Min(chosen)}) |->
         IF p \in kept THEN index[p] ELSE NewSegment(docs)]

\* segmentsToMerge.  Over half deleted: rewritten alone.  Half the limit: full.
OverHalfDeleted(segment) == DeletedNb(segment) * 2 > DocsNb(segment)
Full(segment) == MaxMergedDocs # 0 /\ LiveNb(segment) * 2 >= MaxMergedDocs
Tier(segment) == Cardinality({k \in 1..LiveNb(segment) : MergeFactor ^ k <= LiveNb(segment)})
InTier(index, k) == {p \in DOMAIN index : ~Full(index[p]) /\ Tier(index[p]) = k}

\* The smallest segments of a tier that fit under the limit, in the order of
\* the manifest when they are equal.
NotAfter(index, q, p) ==
  \/ LiveNb(index[q]) < LiveNb(index[p])
  \/ LiveNb(index[q]) = LiveNb(index[p]) /\ q <= p

\* What p and the segments before it would merge into.
LiveNbUpTo(index, tier, p) ==
  MapThenSumSet(LAMBDA q : LiveNb(index[q]), {q \in tier : NotAfter(index, q, p)})
Fitting(index, tier) ==
  {p \in tier : MaxMergedDocs = 0 \/ LiveNbUpTo(index, tier, p) <= MaxMergedDocs}

\* Mutant of Mergeable: one segment more than MergeFactor is waited for.
MergeableLate(index) ==
  {k \in 0..(MaxDoc + 1) : /\ Cardinality(InTier(index, k)) > MergeFactor
                           /\ Cardinality(Fitting(index, InTier(index, k))) >= 2}

Mergeable(index) ==
  {k \in 0..(MaxDoc + 1) : /\ Cardinality(InTier(index, k)) >= MergeFactor
                           /\ Cardinality(Fitting(index, InTier(index, k))) >= 2}

SegmentsToMerge(index) ==
  LET rewritten == {p \in DOMAIN index : OverHalfDeleted(index[p])} IN
  IF rewritten # {} THEN {Min(rewritten)}
  ELSE IF Mergeable(index) # {} THEN Fitting(index, InTier(index, Min(Mergeable(index))))
  ELSE {}

-----------------------------------------------------------------------------

Init ==
  /\ \E build \in Builds :
       published \in {[p \in DOMAIN build |-> NewSegment([d \in build[p] |-> content])] :
                        content \in Contents}
  /\ work = published
  /\ phase = "idle"
  /\ pending = NoDocs
  /\ next = 0
  /\ commits = 0
  /\ highest = NextId(published)

\* __enter__: the writer lock is taken and the published index linked.
Begin ==
  /\ phase = "idle"
  /\ commits < MaxCommits
  /\ phase' = "editing"
  /\ work' = published
  /\ pending' = NoDocs
  /\ next' = NextId(published)
  /\ UNCHANGED <<published, commits, highest>>

\* Mutant of Add: the next id follows the last one given.
AddFollowing(d, content) ==
  /\ phase = "editing"
  /\ Cardinality(DOMAIN pending \cup {d}) <= MaxChanges
  /\ pending' = [e \in DOMAIN pending \cup {d} |-> IF e = d THEN content ELSE pending[e]]
  /\ next' = d + 1
  /\ UNCHANGED <<published, work, phase, commits, highest>>

\* add_tokens, with the id the caller gives.
Add(d, content) ==
  /\ phase = "editing"
  /\ Cardinality(DOMAIN pending \cup {d}) <= MaxChanges
  /\ pending' = [e \in DOMAIN pending \cup {d} |-> IF e = d THEN content ELSE pending[e]]
  /\ next' = IF next > d + 1 THEN next ELSE d + 1
  /\ UNCHANGED <<published, work, phase, commits, highest>>

\* add_tokens without an id (nor a name): the next one is given.
AddNew(content) == next \in Docs /\ Add(next, content)

\* remove: a document not in the index is only removed from the batch.
Remove(d) ==
  /\ phase = "editing"
  /\ Cardinality(DOMAIN pending \cup {d}) <= MaxChanges
  /\ pending' =
       IF d < NextId(published) /\ d \in DOMAIN View(published)
       THEN [e \in DOMAIN pending \cup {d} |-> IF e = d THEN {} ELSE pending[e]]
       ELSE Restrict(pending, DOMAIN pending \ {d})
  /\ UNCHANGED <<published, work, phase, next, commits, highest>>

\* commit, 1) the replaced and removed documents.
Mask ==
  /\ phase = "editing"
  /\ DOMAIN pending # {}
  /\ work' = Masked(work, DOMAIN pending)
  /\ phase' = "masked"
  /\ UNCHANGED <<published, pending, next, commits, highest>>

\* 2) the new segment.
Append ==
  /\ phase = "masked"
  /\ work' = Appended(work, pending)
  /\ phase' = "merging"
  /\ UNCHANGED <<published, pending, next, commits, highest>>

\* 3) the merges, one after the other.
Merge ==
  /\ phase = "merging"
  /\ MergeFactor >= 2
  /\ SegmentsToMerge(work) # {}
  /\ work' = Merged(work, SegmentsToMerge(work))
  /\ UNCHANGED <<published, phase, pending, next, commits, highest>>

\* Nothing left to merge: the generation is published.
Publish ==
  /\ phase = "merging"
  /\ MergeFactor >= 2 => SegmentsToMerge(work) = {}
  /\ published' = work
  /\ phase' = "idle"
  /\ pending' = NoDocs
  /\ next' = 0
  /\ commits' = commits + 1
  /\ highest' = IF highest > NextId(work) THEN highest ELSE NextId(work)
  /\ UNCHANGED work

\* The block or a step of commit raises, the process is killed, or the batch
\* changes nothing (_CancelUpdate): the new generation is dropped.
Abandon ==
  /\ phase # "idle"
  /\ phase' = "idle"
  /\ work' = published
  /\ pending' = NoDocs
  /\ next' = 0
  /\ UNCHANGED <<published, commits, highest>>

\* force_merge: every segment into one, published at once.
ForceMerge ==
  /\ phase = "idle"
  /\ Cardinality(DOMAIN published) > 1 \/ \E p \in DOMAIN published : published[p].dead # {}
  /\ published' = Merged(published, DOMAIN published)
  /\ work' = published'
  /\ UNCHANGED <<phase, pending, next, commits, highest>>

CommitStep == Mask \/ Append \/ Merge \/ Publish

Next ==
  \/ Begin \/ CommitStep \/ Abandon \/ ForceMerge
  \/ \E content \in Contents \cup {{}} : AddNew(content) \/ \E d \in Docs : Add(d, content)
  \/ \E d \in Docs : Remove(d)

Spec == Init /\ [][Next]_vars

-----------------------------------------------------------------------------
(* Properties. *)

IsSegment(s) ==
  /\ s = [docs |-> s.docs, dead |-> s.dead, counts |-> s.counts]
  /\ Ids(s) \subseteq Docs /\ Ids(s) # {}
  /\ s.docs \in [Ids(s) -> Contents]
  /\ s.dead \subseteq Ids(s)
  /\ s.counts \in [Terms -> Nat]

IsIndex(index) ==
  /\ index = [p \in DOMAIN index |-> index[p]]
  /\ IsFiniteSet(DOMAIN index) /\ DOMAIN index \subseteq Nat \ {0}
  /\ \A p \in DOMAIN index : IsSegment(index[p])

TypeOK ==
  /\ IsIndex(published) /\ IsIndex(work)
  /\ phase \in {"idle", "editing", "masked", "merging"}
  /\ DOMAIN pending \subseteq Docs
  /\ pending \in [DOMAIN pending -> Contents \cup {{}}]
  /\ next \in 0..(MaxDoc + 1)
  /\ commits \in 0..MaxCommits
  /\ highest \in 0..(MaxDoc + 1)

\* "A document id is live in at most one segment", at every step of a commit
\* too: a search would return the document twice and count it twice.
Disjoint(index) == \A d \in Docs : Cardinality(Places(index, d)) <= 1
LiveInOneSegment == Disjoint(published) /\ Disjoint(work)

\* "every df [is] the corpus's, deletions subtracted": the counts kept in each
\* .ninddeletes are exact through replacements, removals and merges.
Exact(index) ==
  \A t \in Terms :
    DocumentFrequency(index, t) = Cardinality({d \in DOMAIN View(index) : t \in View(index)[d]})
FrequenciesExact == Exact(published) /\ Exact(work)

\* A document added without an id replaces neither a live document nor one of
\* the batch (_next_id, getMaxDocIdent).
AutoIdIsFree ==
  phase = "editing" => next \notin DOMAIN View(published) \cup DOMAIN pending

\* "one more than the highest id ever given in the index": an id is not given
\* again, even once the document that had it was removed.
AutoIdIsNew == phase = "editing" => next >= highest

\* Every batch, its masks, its segment and the merges that follow change the
\* documents as one index would be changed, at once; merges change nothing.
Documents == INSTANCE Corpus WITH
  corpus <- View(published), batch <- phase # "idle", draft <- pending
RefinesCorpus == Documents!Spec

\* What commit leaves: no segment over half deleted, and fewer than
\* MergeFactor segments that are not full in each tier.
Settled(index) ==
  /\ \A p \in DOMAIN index : ~OverHalfDeleted(index[p])
  /\ \A k \in 0..(MaxDoc + 1) : Cardinality(InTier(index, k)) < MergeFactor
TiersSettled == [][phase = "merging" /\ published' # published => Settled(published')]_vars

\* The loop of merges ends: each one leaves fewer segments, or as many with
\* fewer documents in their files (deleted ones dropped).
Stored(index) == Cardinality(UNION {{p} \X Ids(index[p]) : p \in DOMAIN index})
MergesShrink ==
  [][phase = "merging" /\ phase' = "merging" =>
       \/ Cardinality(DOMAIN work') < Cardinality(DOMAIN work)
       \/ /\ Cardinality(DOMAIN work') = Cardinality(DOMAIN work)
          /\ Stored(work') < Stored(work)]_vars

=============================================================================
