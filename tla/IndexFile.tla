------------------------------ MODULE IndexFile ------------------------------
(***************************************************************************)
(* The file that lexicons, inverted and local indexes are made of: NindIndex *)
(* over NindPadFile.  Blocks of indirections (ident -> area of the file)   *)
(* are chained from the head; definitions fill the rest, in areas that are *)
(* vacated, kept in a list, split, merged and used again; the specifics    *)
(* and identification (the queue) end the file.  One writer, whose writes  *)
(* reach the file in order, each at once (fflush), and that may die        *)
(* between two of them; or bulk mode, whose indirections stay in memory.   *)
(*                                                                         *)
(* Positions start at 1 (the code's offset plus one), and 0 is none.       *)
(***************************************************************************)
EXTENDS Integers, Sequences, FiniteSets, SequencesExt

CONSTANTS
  Values,      \* definitions
  Size,        \* of each, in bytes
  MinSize,     \* m_definitionMinimumSize
  BlocSize,    \* idents of a block of indirections
  BlocBytes,   \* what a block takes
  HeadBytes,   \* <tailleEntreje> <tailleSpejcifiques>
  QueueBytes,  \* specifics and identification
  MaxBlocs,    \* bound on the blocks of a file
  MaxBytes     \* bound on the size of a file

\* "on est sur que l'entree a une taille superieure ou egale a
\* m_definitionMinimumSize": callers pad to it.
ASSUME SizesAssumption ==
  /\ BlocSize \in Nat \ {0} /\ BlocBytes \in Nat \ {0}
  /\ HeadBytes \in Nat \ {0} /\ QueueBytes \in Nat \ {0}
  /\ MaxBlocs \in Nat \ {0}
  /\ MaxBytes \in Nat /\ MaxBytes >= HeadBytes + BlocBytes + QueueBytes
  /\ MinSize \in Nat /\ MinSize > HeadBytes
  /\ Values # {} /\ Size \in [Values -> Nat]
  /\ \A v \in Values : Size[v] >= MinSize

\* The last ones stay out of reach even with a block more.
Idents == 0..(BlocSize * (MaxBlocs + 1) - 1)
Contents == {{}} \cup {{v} : v \in Values}

VARIABLES
  disk,      \* the bytes of the file, blocks of indirections as one cell each
  chain,     \* where each linked block starts, as the file has it
  entries,   \* the indirections, as the file has them
  pc,        \* where the writer is
  op,        \* the operation under way
  target,    \* the area its definition goes to
  areas,     \* m_emptyAreas
  bulk       \* m_bulkIndirections, m_bulkEnd, m_bulkTail

vars == <<disk, chain, entries, pc, op, target, areas, bulk>>

-----------------------------------------------------------------------------
(* Areas and bytes. *)

Area(at, len) == [at |-> at, len |-> len]
NoArea == Area(0, 0)
End(a) == a.at + a.len
Bytes(a) == a.at..(End(a) - 1)

ContentSize(content) == IF content = {} THEN 0 ELSE Size[CHOOSE v \in content : TRUE]
Definition(i, content) ==
  LET v == CHOOSE v \in content : TRUE
  IN  [k \in 1..Size[v] |-> <<"definition", i, v, k>>]
Bloc == [k \in 1..BlocBytes |-> <<"bloc", k>>]
\* The specifics are those of an operation, or the zeros a new block comes with.
Queue(specifics) == [k \in 1..QueueBytes |-> <<"queue", specifics, k>>]

Written(d, at, cells) ==
  [p \in 1..(IF at + Len(cells) - 1 > Len(d) THEN at + Len(cells) - 1 ELSE Len(d)) |->
     IF p \in at..(at + Len(cells) - 1) THEN cells[p - at + 1] ELSE d[p]]

QueueAt(d) == Len(d) - QueueBytes + 1
HasQueue(d) == \E s \in BOOLEAN : SubSeq(d, QueueAt(d), Len(d)) = Queue(s)

\* Idents in reach of n blocks of indirections.
Reach(blocs) == {i \in Idents : i < BlocSize * Len(blocs)}

-----------------------------------------------------------------------------
(* The list of empty areas. *)

First(indices) == CHOOSE k \in indices : \A j \in indices : k <= j

\* Mutant of FindNewArea: a split area keeps its beginning.
FindNewAreaUncut(empties, size, end) ==
  LET large == {k \in DOMAIN empties : empties[k].len >= size}
  IN  IF large # {}
      THEN [area |-> Area(empties[First(large)].at, size), atEnd |-> FALSE,
            empties |-> [empties EXCEPT ![First(large)] = Area(@.at, @.len - size)]]
      ELSE [area |-> Area(end, size), atEnd |-> TRUE, empties |-> empties]

\* findNewArea: the first area neither too small nor too large, else a part of
\* the smallest of the others, else the end of the file.
FindNewArea(empties, size, end) ==
  LET fitting == {k \in DOMAIN empties : empties[k].len \in size..(size + MinSize - 1)}
      larger == {k \in DOMAIN empties : empties[k].len >= size + MinSize}
      k == IF fitting # {} THEN First(fitting)
           ELSE First({j \in larger : \A l \in larger : empties[j].len <= empties[l].len})
  IN  IF fitting # {}
      THEN [area |-> empties[k], atEnd |-> FALSE, empties |-> RemoveAt(empties, k)]
      ELSE IF larger # {}
      THEN [area |-> Area(empties[k].at, size), atEnd |-> FALSE,
            empties |-> [empties EXCEPT ![k] = Area(@.at + size, @.len - size)]]
      ELSE [area |-> Area(end, IF size > MinSize THEN size ELSE MinSize), atEnd |-> TRUE,
            empties |-> empties]

\* Mutant of VacateOldArea: not merged with the area after as well.
VacateOldAreaBefore(empties, old) ==
  LET hits == {k \in DOMAIN empties : End(empties[k]) = old.at \/ empties[k].at > old.at}
      k == First(hits)
  IN  IF hits = {} THEN Append(empties, old)
      ELSE IF End(empties[k]) = old.at
      THEN [empties EXCEPT ![k] = Area(@.at, @.len + old.len)]
      ELSE IF empties[k].at = End(old)
      THEN [empties EXCEPT ![k] = Area(old.at, @.len + old.len)]
      ELSE InsertAt(empties, k, old)

\* vacateOldArea: merged with the area before, and with the one after too, or
\* with the one after, or inserted before the first area beyond it.
VacateOldArea(empties, old) ==
  LET hits == {k \in DOMAIN empties : End(empties[k]) = old.at \/ empties[k].at > old.at}
      k == First(hits)
      before == [empties EXCEPT ![k] = Area(@.at, @.len + old.len)]
  IN  IF hits = {} THEN Append(empties, old)
      ELSE IF End(empties[k]) = old.at
      THEN IF k < Len(empties) /\ End(before[k]) = empties[k + 1].at
           THEN RemoveAt([before EXCEPT ![k] = Area(@.at, @.len + empties[k + 1].len)], k + 1)
           ELSE before
      ELSE IF empties[k].at = End(old)
      THEN [empties EXCEPT ![k] = Area(old.at, @.len + old.len)]
      ELSE InsertAt(empties, k, old)

\* Mutant of Vacated: an ident without a definition vacates its area.
VacatedAlways(empties, old) == VacateOldArea(empties, old)

Vacated(empties, old) == IF old.len # 0 THEN VacateOldArea(empties, old) ELSE empties

\* Definitions, blocks and queue; not the head, which mapEmptySpaces forgets.
Occupied(indirections, blocs, end) ==
  {indirections[i] : i \in {j \in Reach(blocs) : indirections[j] # NoArea}}
    \cup {Area(blocs[b], BlocBytes) : b \in DOMAIN blocs}
    \cup {Area(end, QueueBytes)}

\* Areas by position.
InOrder(spaces) ==
  [k \in 1..Cardinality(spaces) |->
     CHOOSE a \in spaces : Cardinality({b \in spaces : b.at < a.at}) = k - 1]

\* mapEmptySpaces, fillEmptyAreas: what is left between them.
EmptySpaces(occupied) ==
  LET ends(a) == {1} \cup {End(b) : b \in {c \in occupied : c.at < a.at}}
      last(a) == CHOOSE e \in ends(a) : \A f \in ends(a) : f <= e
      gaps == {Area(last(a), a.at - last(a)) : a \in {b \in occupied : last(b) < b.at}}
  IN  InOrder(gaps)

-----------------------------------------------------------------------------
(* The writer, one operation after the other. *)

NoBulk == [entries |-> <<>>, end |-> 0, specifics |-> FALSE]
NoOp == [ident |-> 0, content |-> {}]

\* A new file: head, one block, queue.
Init ==
  /\ disk = [k \in 1..HeadBytes |-> <<"head", k>>] \o Bloc \o Queue(FALSE)
  /\ chain = <<HeadBytes + 1>>
  /\ entries = [i \in Idents |-> NoArea]
  /\ pc = "ready"
  /\ op = NoOp
  /\ target = NoArea
  /\ areas = <<>>
  /\ bulk = NoBulk

\* Bounds of the model: the file stays small, and has few blocks.
Fits(i, end) ==
  /\ i \in Reach(chain) \/ Len(chain) < MaxBlocs
  /\ \A v \in Values : end + QueueBytes + BlocBytes + Size[v] <= MaxBytes + 1

\* setTermDef, setLocalDef...: checkExtendIndirection, then setDefinition.
Set(i, content) ==
  /\ pc = "ready"
  /\ Fits(i, QueueAt(disk))
  /\ op' = [ident |-> i, content |-> content]
  /\ pc' = IF i \in Reach(chain) THEN "place" ELSE "bloc"
  /\ UNCHANGED <<disk, chain, entries, target, areas, bulk>>

\* addEntriesBlock: over the queue, the block; the queue again, its specifics
\* zero; and the link.
AddBloc ==
  /\ pc = "bloc"
  /\ disk' = Written(disk, QueueAt(disk), Bloc)
  /\ target' = Area(QueueAt(disk), BlocBytes)
  /\ pc' = "blocQueue"
  /\ UNCHANGED <<chain, entries, op, areas, bulk>>

AddBlocQueue ==
  /\ pc = "blocQueue"
  /\ disk' = Written(disk, End(target), Queue(FALSE))
  /\ pc' = "link"
  /\ UNCHANGED <<chain, entries, op, target, areas, bulk>>

\* One block is all checkExtendIndirection adds: it throws beyond.
LinkBloc ==
  /\ pc = "link"
  /\ chain' = Append(chain, target.at)
  /\ target' = NoArea
  /\ pc' = IF op.ident \in Reach(chain') THEN "place" ELSE "ready"
  /\ op' = IF op.ident \in Reach(chain') THEN op ELSE NoOp
  /\ UNCHANGED <<disk, entries, areas, bulk>>

Old == entries[op.ident]
Needed == ContentSize(op.content)

\* EFFACEMENT: the area is vacated and the queue written, then the indirection.
Erase ==
  /\ pc = "place"
  /\ op.content = {}
  /\ areas' = Vacated(areas, Old)
  /\ disk' = Written(disk, QueueAt(disk), Queue(TRUE))
  /\ target' = NoArea
  /\ pc' = "entry"
  /\ UNCHANGED <<chain, entries, op, bulk>>

\* REMPLACEMENT AU MESME ENDROIT, its length unchanged, then the queue.
Rewrite ==
  /\ pc = "place"
  /\ op.content # {}
  /\ Needed <= Old.len
  /\ disk' = Written(disk, Old.at, Definition(op.ident, op.content))
  /\ target' = NoArea
  /\ pc' = "queue"
  /\ UNCHANGED <<chain, entries, op, areas, bulk>>

\* Mutant of Move: the old area is vacated first.
MoveVacatingFirst ==
  LET found == FindNewArea(Vacated(areas, Old), Needed, QueueAt(disk)) IN
  /\ pc = "place"
  /\ op.content # {}
  /\ Needed > Old.len
  /\ areas' = found.empties
  /\ target' = found.area
  /\ disk' = Written(disk, found.area.at, Definition(op.ident, op.content))
  /\ pc' = IF found.atEnd THEN "queueAtEnd" ELSE "queue"
  /\ UNCHANGED <<chain, entries, op, bulk>>

\* NOUVEL ENDROIT: the definition, in an empty area or over the queue.
Move ==
  LET found == FindNewArea(areas, Needed, QueueAt(disk)) IN
  /\ pc = "place"
  /\ op.content # {}
  /\ Needed > Old.len
  /\ areas' = found.empties
  /\ target' = found.area
  /\ disk' = Written(disk, found.area.at, Definition(op.ident, op.content))
  /\ pc' = IF found.atEnd THEN "queueAtEnd" ELSE "queue"
  /\ UNCHANGED <<chain, entries, op, bulk>>

\* The queue: after a definition written at the end (one fwrite for both, that
\* the C library may cut in two), or where it was.  The old area is vacated.
WriteQueue ==
  /\ pc \in {"queue", "queueAtEnd"}
  /\ disk' = Written(disk, IF pc = "queue" THEN QueueAt(disk) ELSE End(target), Queue(TRUE))
  /\ IF target = NoArea
     THEN /\ pc' = "ready" /\ op' = NoOp
          /\ UNCHANGED areas
     ELSE /\ pc' = "entry" /\ UNCHANGED op
          /\ areas' = Vacated(areas, Old)
  /\ UNCHANGED <<chain, entries, target, bulk>>

\* setIndirection.
WriteEntry ==
  /\ pc = "entry"
  /\ entries' = [entries EXCEPT ![op.ident] = target]
  /\ pc' = "ready"
  /\ op' = NoOp
  /\ target' = NoArea
  /\ UNCHANGED <<disk, chain, areas, bulk>>

Writing == {"bloc", "blocQueue", "link", "place", "queue", "queueAtEnd", "entry"}

\* The writer closes the file, or dies between two writes.
Stop ==
  /\ pc \in {"ready"} \cup Writing
  /\ pc' = "closed"
  /\ op' = NoOp /\ target' = NoArea /\ areas' = <<>>
  /\ UNCHANGED <<disk, chain, entries, bulk>>

\* NindPadFile::NindPadFile: checkSpejcifiques, checkIdentification; then
\* mapEmptySpaces.
Open ==
  /\ pc = "closed"
  /\ HasQueue(disk)
  /\ pc' = "ready"
  /\ areas' = EmptySpaces(Occupied(entries, chain, QueueAt(disk)))
  /\ UNCHANGED <<disk, chain, entries, op, target, bulk>>

RefuseToOpen ==
  /\ pc = "closed"
  /\ ~HasQueue(disk)
  /\ pc' = "refused"
  /\ UNCHANGED <<disk, chain, entries, op, target, areas, bulk>>

-----------------------------------------------------------------------------
(* Bulk mode: indirections and queue in memory until it ends. *)

BeginBulk ==
  /\ pc = "ready"
  /\ bulk' = [entries |-> entries, end |-> QueueAt(disk),
              specifics |-> disk[Len(disk)][2]]
  /\ pc' = "bulk"
  /\ UNCHANGED <<disk, chain, entries, op, target, areas>>

\* addEntriesBlock and setDefinitionBulk: the places are those of normal mode.
SetBulk(i, content) ==
  LET grown == i \notin Reach(chain)
      blocAt == bulk.end
      disk1 == IF grown THEN Written(disk, blocAt, Bloc) ELSE disk
      end1 == IF grown THEN blocAt + BlocBytes ELSE bulk.end
      old == bulk.entries[i]
      size == ContentSize(content)
      found == FindNewArea(areas, size, end1)
      place == IF size <= old.len THEN old ELSE found.area
      moved == content # {} /\ size > old.len
  IN
  /\ pc = "bulk"
  /\ Fits(i, bulk.end)
  /\ chain' = IF grown THEN Append(chain, blocAt) ELSE chain
  /\ IF i \notin Reach(chain')
     THEN /\ disk' = disk1
          /\ bulk' = [bulk EXCEPT !.end = end1]
          /\ UNCHANGED areas
     ELSE /\ disk' = IF content = {} THEN disk1
                     ELSE Written(disk1, place.at, Definition(i, content))
          /\ areas' = IF content = {} THEN Vacated(areas, old)
                      ELSE IF moved THEN Vacated(found.empties, old)
                      ELSE areas
          /\ bulk' = [entries |-> [bulk.entries EXCEPT
                                     ![i] = IF content = {} THEN NoArea ELSE place],
                      end |-> IF moved /\ found.atEnd THEN end1 + size ELSE end1,
                      specifics |-> TRUE]
  /\ UNCHANGED <<entries, pc, op, target>>

EndBulk ==
  /\ pc = "bulk"
  /\ entries' = bulk.entries
  /\ disk' = Written(disk, bulk.end, Queue(bulk.specifics))
  /\ bulk' = NoBulk
  /\ pc' = "ready"
  /\ UNCHANGED <<chain, op, target, areas>>

\* "a crash leaves it unusable".
CrashInBulk ==
  /\ pc = "bulk"
  /\ pc' = "lost"
  /\ bulk' = NoBulk
  /\ areas' = <<>>
  /\ UNCHANGED <<disk, chain, entries, op, target>>

Step ==
  \/ AddBloc \/ AddBlocQueue \/ LinkBloc \/ Erase \/ Rewrite \/ Move \/ WriteQueue
  \/ WriteEntry

Next ==
  \/ \E i \in Idents, content \in Contents : Set(i, content) \/ SetBulk(i, content)
  \/ Step \/ Stop \/ Open \/ RefuseToOpen
  \/ BeginBulk \/ EndBulk \/ CrashInBulk

Spec == Init /\ [][Next]_vars

-----------------------------------------------------------------------------
(* Properties. *)

\* The indirections, and the end of the data, that the writer goes by.
Current == IF pc = "bulk" THEN bulk.entries ELSE entries
DataEnd == IF pc = "bulk" THEN bulk.end ELSE QueueAt(disk)

IsArea(a) == a = Area(a.at, a.len) /\ a.at \in Nat /\ a.len \in Nat

TypeOK ==
  /\ Len(disk) <= MaxBytes
  /\ chain \in Seq(1..MaxBytes) /\ Len(chain) <= MaxBlocs
  /\ \A i \in Idents : IsArea(entries[i])
  /\ pc \in {"ready", "bulk", "closed", "refused", "lost"} \cup Writing
  /\ op.ident \in Idents /\ op.content \in Contents
  /\ IsArea(target)
  /\ \A k \in DOMAIN areas : IsArea(areas[k]) /\ areas[k].len > 0

\* No byte has two uses (head, blocks, definitions, the area a definition is
\* moved to, queue), at every step and as a crash leaves the file.
Uses ==
  {Area(1, HeadBytes)}
    \cup Occupied(Current, chain, DataEnd)
    \cup (IF pc \in {"queue", "entry"} /\ target # NoArea THEN {target} ELSE {})
Distinct(uses) == \A a \in uses, b \in uses : a = b \/ Bytes(a) \cap Bytes(b) = {}
NoOverlap ==
  pc # "lost" =>
    /\ Distinct(Uses)
    /\ \A i \in Reach(chain), j \in Reach(chain) :
         i # j /\ Current[i] # NoArea => Current[i] # Current[j]

\* The list kept in memory is what a reopening would compute, in order and
\* merged as far as can be (the head aside, which only a reopening counts):
\* nothing is lost to it, and nothing in use is in it.
Beyond(list) == {a \in Range(list) : a.at > HeadBytes}
EmptiesAreGaps ==
  pc \in {"ready", "bulk"} =>
    /\ Beyond(areas) = Beyond(EmptySpaces(Occupied(Current, chain, DataEnd)))
    /\ \A k \in DOMAIN areas, l \in DOMAIN areas : k < l => End(areas[k]) < areas[l].at

\* What a reader of the file finds at an indirection.
Readable(i) ==
  {v \in Values :
     /\ Current[i] # NoArea
     /\ Size[v] <= Current[i].len
     /\ Current[i].at + Size[v] - 1 <= Len(disk)
     /\ \A k \in 1..Size[v] : disk[Current[i].at + k - 1] = <<"definition", i, v, k>>}

\* Where the operation under way still has no effect on what is read.
Undone ==
  \/ pc \in {"bloc", "blocQueue", "link", "place", "queueAtEnd", "entry"}
  \/ pc = "queue" /\ target # NoArea

\* What the file stands for, seen as a dictionary.
Dict == [i \in Idents |-> IF pc = "lost" THEN {} ELSE Readable(i)]
Room == BlocSize * Len(chain)
UnderWay == IF Undone THEN {op} ELSE {}
Mode ==
  CASE pc \in {"ready"} \cup Writing -> "ready"
    [] pc \in {"refused", "lost"} -> "unusable"
    [] OTHER -> pc

Promised == INSTANCE Dictionary WITH dict <- Dict, room <- Room, asked <- UnderWay, mode <- Mode

\* Every ident keeps its definition, whole, whatever is written, moved, vacated
\* or erased for the others; a crash at any step leaves it as it was before or
\* after the operation under way; bulk mode changes the same things.
RefinesDictionary == Promised!Spec

=============================================================================
