----------------------------- MODULE UpdateNames -----------------------------
(***************************************************************************)
(* The names of documents in an update (IndexUpdate,                       *)
(* src/py/nind/nind_engine.py): a name is unique in the index, and adding  *)
(* a document with the name of another one replaces it.  An update looks a *)
(* name up in its own changes (_names, _ids_by_name), then in the          *)
(* published index, whose answer its changes may have made stale.          *)
(*                                                                         *)
(* The index is a function from places to segments, as in SegmentedUpdate; *)
(* each has its documents (.ninddoclengths), those masked since            *)
(* (.ninddeletes), and its file of names if it has one (module DocNames):  *)
(* the name of a masked document stays there.  Contents, and which         *)
(* segments are merged when, are the business of SegmentedUpdate: here,    *)
(* any are.                                                                *)
(***************************************************************************)
EXTENDS DocNames

CONSTANTS
  MaxDoc,       \* the largest document id: bounds the ids
  Names,        \* the names callers give
  Blank,        \* the empty string: a build stores it, an update stores none instead
  NoName,       \* no name
  Contents,     \* what callers add: "tokens", or "nothing" that can be stored
  MaxSegments,  \* bound on the segments
  MaxCommits,   \* bound on the batches published
  MaxChanges    \* bound on the documents an update changes

ASSUME NoNameAssumption == NoName \notin Names
ASSUME MaxDocAssumption == MaxDoc \in Nat
ASSUME NamesAssumption == Range(NameOrder) = Names \cup {Blank} /\ NoName # Blank
ASSUME ContentsAssumption == Contents \subseteq {"tokens", "nothing"}

VARIABLES
  index,        \* the published index: [docs, dead, file] by place
  editing,      \* whether an update is in progress
  limit,        \* _max_published + 1, 0 for None
  next,         \* _next_id
  pending,      \* _pending: id -> "tokens", "nothing", or "removed"
  names,        \* _names: id -> name, NoName for None
  idsByName,    \* _ids_by_name: name -> id
  commits       \* batches published so far

vars == <<index, editing, limit, next, pending, names, idsByName, commits>>

Docs == 0..MaxDoc
None == [d \in {} |-> NoName]
NoSegments == [p \in {} |-> {}]
Unique(named) ==
  \A d, e \in DOMAIN named : named[d] = named[e] /\ named[d] # NoName => d = e

\* map[key] = value, and map.pop(key, None).
Put(map, key, value) == [k \in DOMAIN map \cup {key} |-> IF k = key THEN value ELSE map[k]]
Pop(map, keys) == Restrict(map, DOMAIN map \ keys)

-----------------------------------------------------------------------------
(* The published index: NindSegmentedIndex. *)

\* partOf: the first segment where a document is live.
Live(segment, d) == d \in segment.docs \ segment.dead
PartsOf(segments, d) == {p \in DOMAIN segments : Live(segments[p], d)}

IsLiveIn(segments, d) == PartsOf(segments, d) # {}
PartOf(segments, d) == Min(PartsOf(segments, d))

\* getName, {} when it has none.
NameOf(segments, d) ==
  IF IsLiveIn(segments, d)
  THEN UNION {GetName(file, d) : file \in segments[PartOf(segments, d)].file}
  ELSE {}

Found(segment, name) == UNION {GetDocIdent(file, name) : file \in segment.file}

\* Mutant of IdentOf: the first segment that has the name.
IdentOfFirst(segments, name) ==
  LET having == {p \in DOMAIN segments : Found(segments[p], name) # {}}
      first == Min(having)
  IN IF having = {} THEN {} ELSE {d \in Found(segments[first], name) : Live(segments[first], d)}

\* getDocIdent: the first segment where the name is a live document's.
IdentOf(segments, name) ==
  LET having == {p \in DOMAIN segments : \E d \in Found(segments[p], name) : Live(segments[p], d)}
  IN IF having = {} THEN {} ELSE Found(segments[Min(having)], name)

AllDocs(segments) == UNION {segments[p].docs : p \in DOMAIN segments}

\* getMaxDocIdent, plus one: the last document of each segment, live or not.
Limit(segments) == IF AllDocs(segments) = {} THEN 0 ELSE Max(AllDocs(segments)) + 1

Documents(segments) == {d \in Docs : IsLiveIn(segments, d)}
PublishedName(segments, d) ==
  LET name == NameOf(segments, d) IN IF name = {} THEN NoName ELSE CHOOSE n \in name : TRUE
Published(segments) == [d \in Documents(segments) |-> PublishedName(segments, d)]

-----------------------------------------------------------------------------
(* What a commit writes: NindSegmentedUpdate. *)

\* The file of the names there are, if there is one: {} when it is refused.
NamesOf(named) ==
  LET given == Restrict(named, {d \in DOMAIN named : named[d] # NoName})
  IN IF DOMAIN given = {} THEN {{}} ELSE {{written} : written \in Written(given)}

\* deleteDocuments, of the changed documents the index may have.
Masked(segments, changed) ==
  [p \in DOMAIN segments |->
     [docs |-> segments[p].docs,
      dead |-> segments[p].dead \cup
                 {d \in changed : IsLiveIn(segments, d) /\ PartOf(segments, d) = p},
      file |-> segments[p].file]]

\* writeSegment, last in the manifest.
WithNew(segments, named) ==
  LET last == IF DOMAIN segments = {} THEN 1 ELSE Max(DOMAIN segments) + 1
  IN IF DOMAIN named = {} THEN {segments}
     ELSE {Put(segments, last, [docs |-> DOMAIN named, dead |-> {}, file |-> file]) :
             file \in NamesOf(named)}

\* Mutant of Deletes: the names of deleted documents are merged too.
DeletesNone(segment) == {}

\* The documents of .ninddeletes, left out of the merge.
Deletes(segment) == segment.dead

\* mergeSegments: the files of those that have one; at the place of the first, or
\* nowhere if no document is left.
MergedSegments(segments, chosen) ==
  LET named == {p \in chosen : segments[p].file # {}}
      merged == IF named = {} THEN {{}}
                ELSE {{written} : written \in
                        Merge([p \in named |-> CHOOSE file \in segments[p].file : TRUE],
                              [p \in named |-> Deletes(segments[p])])}
      docs == UNION {segments[p].docs \ segments[p].dead : p \in chosen}
      kept == Restrict(segments, DOMAIN segments \ chosen)
  IN IF docs = {} THEN {kept}
     ELSE {Put(kept, Min(chosen), [docs |-> docs, dead |-> {}, file |-> file]) : file \in merged}

-----------------------------------------------------------------------------
(* The update's own names. *)

Stored(name) == IF name = Blank THEN NoName ELSE name

Removed(d) == d \in DOMAIN pending /\ pending[d] = "removed"

\* _owner: the document of a name, or none.
Owner(name) ==
  IF name \in DOMAIN idsByName THEN {idsByName[name]}
  ELSE {d \in IdentOf(index, name) : limit > 0 /\ d \notin DOMAIN names /\ ~Removed(d)}

\* _commit: the names given to the documents stored; a replaced document keeps its
\* own, except "".
Given(d) ==
  IF d \in DOMAIN names THEN Stored(names[d])
  ELSE IF d < limit THEN Stored(PublishedName(index, d)) ELSE NoName
NewNames == [d \in {d \in DOMAIN pending : pending[d] = "tokens"} |-> Given(d)]

\* commit, up to the merges; {} when it is refused.
Committed == WithNew(Masked(index, DOMAIN pending), NewNames)

\* What would be published now.
Draft ==
  LET given == NewNames
  IN [d \in DOMAIN given \cup (Documents(index) \ DOMAIN pending) |->
        IF d \in DOMAIN given THEN given[d] ELSE PublishedName(index, d)]

-----------------------------------------------------------------------------

NothingChanged ==
  /\ pending' = None /\ names' = None /\ idsByName' = None

\* An index built at once, if there is one: it numbers documents from 0, and names
\* all of them or none.
Init ==
  /\ \E size \in 0..(MaxDoc + 1) :
       LET ids == {d \in Docs : d < size}
       IN \E named \in [ids -> {NoName}] \cup [ids -> Names] : index \in WithNew(NoSegments, named)
  /\ editing = FALSE
  /\ limit = 0 /\ next = 0
  /\ pending = None /\ names = None /\ idsByName = None
  /\ commits = 0

\* __enter__.
Begin ==
  /\ ~editing /\ commits < MaxCommits
  /\ editing' = TRUE
  /\ limit' = Limit(index)
  /\ next' = limit'
  /\ NothingChanged
  /\ UNCHANGED <<index, commits>>

Previous(d) == IF d \in DOMAIN names THEN {names[d]} ELSE {}

\* Mutants of SetName: None is taken for a name; the name the document had stays
\* its own.
SetNameAlways(d, name) ==
  /\ names' = Put(names, d, name)
  /\ idsByName' = Put(Pop(idsByName, Previous(d)), name, d)

SetNameOnly(d, name) ==
  /\ names' = Put(names, d, name)
  /\ idsByName' = IF name = NoName THEN idsByName ELSE Put(idsByName, name, d)

\* _set_name.
SetName(d, name) ==
  LET left == Pop(idsByName, Previous(d)) IN
  /\ names' = Put(names, d, name)
  /\ idsByName' = IF name = NoName THEN left ELSE Put(left, name, d)

Change(d, content) ==
  /\ editing
  /\ Cardinality(DOMAIN pending \cup {d}) <= MaxChanges
  /\ pending' = Put(pending, d, content)
  /\ next' = IF next > d + 1 THEN next ELSE d + 1
  /\ UNCHANGED <<index, editing, limit, commits>>

\* add_tokens without a name.
Add(d, content) ==
  /\ Change(d, content)
  /\ UNCHANGED <<names, idsByName>>

\* add_tokens with an id and a name: ValueError, and nothing changed, if
\* another document has that name.
AddNamed(d, content, name) ==
  /\ Change(d, content)
  /\ Owner(name) \subseteq {d}
  /\ SetName(d, name)

\* add_tokens without an id: the document of that name is replaced.
AddNew(content) == next \in Docs /\ Add(next, content)

AddNewNamed(content, name) ==
  /\ editing
  /\ \E d \in IF Owner(name) # {} THEN Owner(name) ELSE {next} \cap Docs :
       AddNamed(d, content, name)

\* remove.
RemoveDoc(d) ==
  /\ editing
  /\ SetName(d, NoName)
  /\ Cardinality(DOMAIN pending \cup {d}) <= MaxChanges
  /\ pending' = IF d < limit /\ IsLiveIn(index, d)
                THEN Put(pending, d, "removed") ELSE Pop(pending, {d})
  /\ UNCHANGED <<index, editing, limit, next, commits>>

\* The block ends: _commit, with its merges, then the publication.
Commit ==
  /\ editing /\ DOMAIN pending # {}
  /\ \E segments \in Committed : \E chosen \in SUBSET DOMAIN segments :
       index' \in MergedSegments(segments, chosen)
  /\ Cardinality(DOMAIN index') <= MaxSegments
  /\ commits' = commits + 1
  /\ editing' = FALSE
  /\ limit' = 0 /\ next' = 0
  /\ NothingChanged

\* It raises, or changes nothing.
Abandon ==
  /\ editing
  /\ editing' = FALSE
  /\ limit' = 0 /\ next' = 0
  /\ NothingChanged
  /\ UNCHANGED <<index, commits>>

\* force_merge.
ForceMerge ==
  /\ ~editing
  /\ Cardinality(DOMAIN index) > 1 \/ \E p \in DOMAIN index : index[p].dead # {}
  /\ index' \in MergedSegments(index, DOMAIN index)
  /\ UNCHANGED <<editing, limit, next, pending, names, idsByName, commits>>

Next ==
  \/ Begin \/ Commit \/ Abandon \/ ForceMerge
  \/ \E content \in Contents :
       \/ AddNew(content)
       \/ \E d \in Docs : Add(d, content)
       \/ \E name \in Names : \/ AddNewNamed(content, name)
                              \/ \E d \in Docs : AddNamed(d, content, name)
  \/ \E d \in Docs : RemoveDoc(d)

Spec == Init /\ [][Next]_vars

-----------------------------------------------------------------------------
(* Properties. *)

\* Every variable stays in its domain, and every file of names opens.
TypeOK ==
  /\ DOMAIN index \subseteq Nat \ {0} /\ IsFiniteSet(DOMAIN index)
  /\ \A segment \in Range(index) :
       /\ segment = [docs |-> segment.docs, dead |-> segment.dead, file |-> segment.file]
       /\ segment.docs \subseteq Docs /\ segment.docs # {} /\ segment.dead \subseteq segment.docs
       /\ \A file \in segment.file : Opens(file)
  /\ editing \in BOOLEAN
  /\ limit \in 0..(MaxDoc + 1) /\ next \in 0..(MaxDoc + 1)
  /\ DOMAIN pending \subseteq Docs
  /\ \A d \in DOMAIN pending : pending[d] \in Contents \cup {"removed"}
  /\ DOMAIN names \subseteq Docs
  /\ \A d \in DOMAIN names : names[d] \in Names \cup {NoName}
  /\ DOMAIN idsByName \subseteq Names
  /\ \A name \in DOMAIN idsByName : idsByName[name] \in Docs

\* "unique in the index": whatever names the changes of a batch give, take
\* away and give again, two documents never get the same one; so a commit is
\* never refused for a name, nor its merges, whichever they are.
NamesUnique ==
  /\ Unique(Published(index))
  /\ editing => LET committed == Committed IN
       /\ Unique(Draft) /\ committed # {}
       /\ \A segments \in committed : MergedSegments(segments, DOMAIN segments) # {}

\* The document that has a name in the update is the one _owner finds, and the
\* only one: a name is never given twice for want of finding who has it.
HolderFound ==
  editing => LET draft == Draft IN
    \A d \in DOMAIN draft : draft[d] # NoName => Owner(draft[d]) = {d}

\* doc_id: "The identifier of the document named name (None if there is none),
\* changes of this update included".
OwnerHasName ==
  editing => \A name \in Names : \A d \in Owner(name) : d \in DOMAIN Draft /\ Draft[d] = name

\* An update of which every document is stored or removed gives every name back
\* that nobody has any more: the next document may have it.
FreedNames ==
  editing /\ "nothing" \notin {pending[d] : d \in DOMAIN pending} =>
    \A name \in Names \ {Blank} : Owner(name) # {} => name \in Range(Draft)

=============================================================================
