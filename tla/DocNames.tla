------------------------------- MODULE DocNames -------------------------------
(***************************************************************************)
(* The file of the names of documents (src/cpp/NindIndex/NindDocNames.cpp, *)
(* .ninddocnames): written once, merged from the files of shards without   *)
(* their deleted documents, looked up in both directions.                  *)
(*                                                                         *)
(* A file is its arrays: the ids (none when they follow one another: FLAG_ *)
(* IDENTS is not set), the names by id, and the ranks by name.  Ranks      *)
(* start from 1.  What raises gives {}, what returns x gives {x}.          *)
(***************************************************************************)
EXTENDS Naturals, Sequences, FiniteSets, FiniteSetsExt, Functions

CONSTANT NameOrder   \* the names there may be, by increasing bytes

ASSUME NameOrderAssumption == NameOrder \in Seq(Range(NameOrder)) /\ IsInjective(NameOrder)

PlaceOf(name) == CHOOSE i \in DOMAIN NameOrder : NameOrder[i] = name
Less(name, other) == PlaceOf(name) < PlaceOf(other)

\* The place of an element of a set sorted by key, and the set sorted; keys differ.
RankIn(S, key, x) == Cardinality({y \in S : key[y] <= key[x]})
Sorted(S, key) == [k \in 1..Cardinality(S) |-> CHOOSE x \in S : RankIn(S, key, x) = k]

File(ids, names, byName) ==
  LET size == Len(ids)
      dense == size = 0 \/ ids[size] - ids[1] = size - 1
  IN [size |-> size, first |-> IF size = 0 THEN 0 ELSE ids[1],
      ids |-> IF dense THEN <<>> ELSE ids, names |-> names, byName |-> byName]

\* docIdentAt.
IdAt(file, rank) == IF file.ids = <<>> THEN file.first + rank - 1 ELSE file.ids[rank]

\* write, of a function from ids to names: refused when a name is given twice,
\* to ranks that are then next to each other by name.
Written(named) ==
  LET ids == Sorted(DOMAIN named, [d \in DOMAIN named |-> d])
      names == [r \in DOMAIN ids |-> named[ids[r]]]
      byName == Sorted(DOMAIN ids, [r \in DOMAIN ids |-> PlaceOf(names[r])])
  IN IF ~IsInjective(names) THEN {} ELSE {File(ids, names, byName)}

-----------------------------------------------------------------------------
(* merge, of files and deleted documents by shard. *)

\* (shard, rank) of the documents kept.
Kept(files, deleted) ==
  {item \in UNION {{s} \X (1..files[s].size) : s \in DOMAIN files} :
     IdAt(files[item[1]], item[2]) \notin deleted[item[1]]}

\* A cursor in a shard's order of names, at a document kept or at the end.
Advance(file, deleted, place) ==
  Min({p \in place..(file.size + 1) :
         p <= file.size => IdAt(file, file.byName[p]) \notin deleted})

NameAt(files, cursors, s) == files[s].names[files[s].byName[cursors[s]]]

\* The shards' orders of names merged, a heap of cursors: the least name first.
\* Refused when two shards have the same name.
NextByName(state, files, deleted, ranks) ==
  LET nameAt(s) == NameAt(files, state.cursors, s)
      open == {s \in DOMAIN files : state.cursors[s] <= files[s].size}
      least == CHOOSE s \in open : \A t \in open : ~Less(nameAt(t), nameAt(s))
      again == state.previous # <<>> /\ state.previous[1] # least
                 /\ ~Less(state.previous[2], nameAt(least))
  IN [refused |-> state.refused \/ again,
      previous |-> <<least, nameAt(least)>>,
      byName |-> Append(state.byName, ranks[<<least, files[least].byName[state.cursors[least]]>>]),
      cursors |-> [s \in DOMAIN files |->
                     IF s = least
                     THEN Advance(files[s], deleted[s], state.cursors[s] + 1)
                     ELSE state.cursors[s]]]

Merge(files, deleted) ==
  LET kept == Kept(files, deleted)
      idOf == [item \in kept |-> IdAt(files[item[1]], item[2])]
      items == Sorted(kept, idOf)
      ranks == [item \in kept |-> RankIn(kept, idOf, item)]
      start == [refused |-> FALSE, previous |-> <<>>, byName |-> <<>>,
                cursors |-> [s \in DOMAIN files |-> Advance(files[s], deleted[s], 1)]]
      merged[i \in 0..Cardinality(kept)] ==
        IF i = 0 THEN start
        ELSE IF merged[i - 1].refused THEN merged[i - 1]
        ELSE NextByName(merged[i - 1], files, deleted, ranks)
      end == merged[Cardinality(kept)]
  IN IF ~IsInjective(idOf) \/ end.refused THEN {}
     ELSE {File([i \in DOMAIN items |-> idOf[items[i]]],
                [i \in DOMAIN items |-> files[items[i][1]].names[items[i][2]]],
                end.byName)}

-----------------------------------------------------------------------------
(* Reading. *)

\* The constructor: what it checks of a file, besides the sizes of its arrays.
Opens(file) ==
  /\ \A r \in 2..Len(file.ids) : file.ids[r - 1] < file.ids[r]
  /\ Len(file.byName) = file.size /\ Range(file.byName) \subseteq 1..file.size
  /\ \A r \in 2..file.size : Less(file.names[file.byName[r - 1]], file.names[file.byName[r]])

\* Binary search: the first place of 1..size that is not in below.
LowerBound(size, below) ==
  LET search[range \in {r \in (1..(size + 1)) \X (1..(size + 1)) : r[1] <= r[2]}] ==
        LET low == range[1]
            high == range[2]
            middle == low + (high - low) \div 2
        IN IF low = high THEN low
           ELSE IF middle \in below THEN search[<<middle + 1, high>>]
           ELSE search[<<low, middle>>]
  IN search[<<1, size + 1>>]

\* getName.
GetName(file, d) ==
  LET rank == IF file.ids = <<>>
              THEN IF d < file.first THEN file.size + 1 ELSE d - file.first + 1
              ELSE LowerBound(file.size, {r \in 1..file.size : file.ids[r] < d})
  IN IF rank <= file.size /\ IdAt(file, rank) = d THEN {file.names[rank]} ELSE {}

\* getDocIdent.
GetDocIdent(file, name) ==
  LET place == LowerBound(file.size, {p \in 1..file.size : Less(file.names[file.byName[p]], name)})
  IN IF place <= file.size /\ file.names[file.byName[place]] = name
     THEN {IdAt(file, file.byName[place])} ELSE {}

=============================================================================
