-------------------------- MODULE IndexFile_proofs --------------------------
(***************************************************************************)
(* For every size of blocks, queue and definitions: no byte of an index    *)
(* file has two uses, the list of empty areas is what a reopening would    *)
(* compute, and the file implements the dictionary of module Dictionary.   *)
(*                                                                         *)
(* IInv says between which definitions, blocks and end the places of       *)
(* IndexFile_lemmas are kept at each step of an operation, and which       *)
(* definition is written already.                                          *)
(*                                                                         *)
(* Then, for any interleaving of reads with the writes (FileReader): the   *)
(* lookups of a reader of a file that grows are right.  The writer's part  *)
(* (WriterInv) adds that an indirection is only ever set once, and to a    *)
(* definition that is there.  The reader's (WalkInv, LookupInv) says what  *)
(* its map is worth: every block that was linked before the file grew      *)
(* beyond the size it is kept with is in it.                               *)
(***************************************************************************)
EXTENDS FileReader, IndexFile_lemmas

-----------------------------------------------------------------------------
(* The inductive invariant. *)

\* The indirections as they will be when the operation under way is over.
Coming == [entries EXCEPT ![op.ident] = target]

Types ==
  /\ IsBytes(disk) /\ Len(disk) <= MaxBytes
  /\ chain \in Seq(1..MaxBytes) /\ Len(chain) <= MaxBlocs
  /\ entries \in [Idents -> Areas]
  /\ pc \in {"ready", "bulk", "closed", "refused", "lost"} \cup Writing
  /\ op \in [ident : Idents, content : Contents]
  /\ target \in Areas
  /\ Separate(areas)

\* Whatever happens, what the file says is placed.
PlacesInv ==
  pc \notin {"bulk", "lost"} => Placed(entries, chain, QueueAt(disk))

\* Before the operation has taken or vacated anything.
WholeInv ==
  pc \in {"ready", "bloc", "place"} \/ (pc = "queue" /\ target = NoArea) =>
    Gaps(areas, entries, chain, QueueAt(disk), NoArea)

ReachInv ==
  /\ pc \in {"bloc", "blocQueue", "link"} => op.ident \notin Reach(chain) /\ Len(chain) < MaxBlocs
  /\ pc \in {"place", "queue", "queueAtEnd", "entry"} => op.ident \in Reach(chain)

\* Room for what is still to be written.
RoomInv ==
  \A v \in Values :
    /\ pc = "bloc" => Len(disk) + BlocBytes + Size[v] <= MaxBytes
    /\ pc \in {"blocQueue", "link"} => End(target) + QueueBytes - 1 + Size[v] <= MaxBytes
    /\ pc = "place" => Len(disk) + Size[v] <= MaxBytes

\* A block is being added, where the queue was.
GrowthInv ==
  pc \in {"blocQueue", "link"} =>
    /\ target.len = BlocBytes
    /\ Placed(entries, chain, target.at)
    /\ Gaps(areas, entries, chain, target.at, NoArea)
    /\ Len(disk) <= End(target) + QueueBytes - 1
    /\ pc = "link" => QueueAt(disk) = End(target)

\* A definition has been written elsewhere than where it was, or is erased.
MoveInv ==
  /\ pc \in {"queue", "queueAtEnd", "entry"} /\ target # NoArea =>
       /\ op.content # {}
       /\ \A v \in op.content : Holds(disk, target, op.ident, v)
       /\ Apart(target, Old)
  /\ pc = "queue" /\ target # NoArea =>
       /\ Placed(Coming, chain, QueueAt(disk))
       /\ Gaps(areas, entries, chain, QueueAt(disk), target)
  /\ pc = "queueAtEnd" =>
       /\ target # NoArea
       /\ Placed(entries, chain, target.at)
       /\ Placed(Coming, chain, End(target))
       /\ Gaps(areas, entries, chain, End(target), target)
       /\ End(target) - 1 <= Len(disk) /\ Len(disk) <= End(target) + QueueBytes - 1
       /\ End(target) + QueueBytes - 1 <= MaxBytes
  /\ pc = "entry" =>
       /\ target = NoArea => op.content = {}
       /\ Placed(Coming, chain, QueueAt(disk))
       /\ Gaps(areas, Coming, chain, QueueAt(disk), NoArea)

BulkInv ==
  pc = "bulk" =>
    /\ bulk = [entries |-> bulk.entries, end |-> bulk.end, specifics |-> bulk.specifics]
    /\ Placed(bulk.entries, chain, bulk.end)
    /\ Gaps(areas, bulk.entries, chain, bulk.end, NoArea)
    /\ bulk.end <= Len(disk) + 1 /\ Len(disk) <= bulk.end + QueueBytes - 1
    /\ bulk.end + QueueBytes - 1 <= MaxBytes

IInv ==
  /\ Types /\ PlacesInv /\ WholeInv /\ ReachInv /\ RoomInv /\ GrowthInv /\ MoveInv /\ BulkInv


-----------------------------------------------------------------------------
(* It holds at first, and every step keeps it. *)

LEMMA ZeroIsIdent == 0 \in Idents
<1>1. BlocSize * (MaxBlocs + 1) = BlocSize * MaxBlocs + BlocSize
  BY SizesAre
<1>2. BlocSize * MaxBlocs \in Nat
  BY SizesAre
<1> QED
  BY <1>1, <1>2, SizesAre DEF Idents

\* An operation under way, and none.
LEMMA NoOpIs == NoOp \in [ident : Idents, content : Contents]
BY ZeroIsIdent DEF NoOp, Contents

\* The end of the data, when the file has its queue.
LEMMA EndIs ==
  ASSUME Types, PlacesInv, pc \notin {"bulk", "lost"}
  PROVE  /\ Len(disk) \in Nat /\ QueueAt(disk) \in Nat /\ QueueAt(disk) > HeadBytes + 1
         /\ QueueAt(disk) + QueueBytes - 1 = Len(disk)
         /\ Placed(entries, chain, QueueAt(disk))
<1>1. Len(disk) \in Nat
  BY DiskIs DEF Types
<1>2. Placed(entries, chain, QueueAt(disk))
  BY DEF PlacesInv
<1>3. QueueAt(disk) \in Nat /\ QueueAt(disk) > HeadBytes + 1
  BY <1>2, ChainedIs DEF Placed
<1> QED
  BY <1>1, <1>2, <1>3, SizesAre DEF QueueAt

\* The first file is placed, and leaves nothing.
LEMMA InitHolds == Init => IInv
<1> SUFFICES ASSUME Init PROVE IInv
  OBVIOUS
<1> DEFINE n == HeadBytes + BlocBytes + QueueBytes
           head == [k \in 1..HeadBytes |-> <<"head", k>>]
<1>1. IsBytes(disk) /\ Len(disk) = n
  <2>1. head = [k \in 1..HeadBytes |-> head[k]]
    OBVIOUS
  <2> HIDE DEF head
  <2>2. IsBytes(head) /\ Len(head) = HeadBytes
    BY <2>1, SizesAre, CellsAre
  <2>3. /\ IsBytes(head \o Bloc) /\ Len(head \o Bloc) = HeadBytes + BlocBytes
    BY <2>2, BlocIs, JoinedIs
  <2>4. IsBytes((head \o Bloc) \o Queue(FALSE)) /\ Len((head \o Bloc) \o Queue(FALSE)) = n
    <3>1. IsBytes(Queue(FALSE)) /\ Len(Queue(FALSE)) = QueueBytes
      BY QueueIs
    <3>2. /\ IsBytes((head \o Bloc) \o Queue(FALSE))
          /\ Len((head \o Bloc) \o Queue(FALSE)) = Len(head \o Bloc) + Len(Queue(FALSE))
      BY <2>3, <3>1, JoinedIs
    <3> QED
      BY <2>3, <3>1, <3>2
  <2> QED
    BY <2>4 DEF Init, head
<1>2. n \in Nat /\ n <= MaxBytes /\ QueueAt(disk) = HeadBytes + BlocBytes + 1
  BY <1>1, SizesAre, SizesAssumption DEF QueueAt
<1>3. /\ chain = <<HeadBytes + 1>> /\ Len(chain) = 1 /\ chain[1] = HeadBytes + 1
      /\ chain \in Seq(1..MaxBytes) /\ chain \in Seq(Nat)
  BY <1>2, SizesAre DEF Init
<1>4. entries = [i \in Idents |-> NoArea] /\ target = NoArea /\ areas = <<>> /\ pc = "ready"
      /\ op = NoOp
  BY DEF Init
<1>5. Chained(chain, QueueAt(disk))
  <2>1. \A b \in 1..Len(chain) : b = 1
    BY <1>3
  <2>2. QueueAt(disk) \in Nat
    BY <1>2, SizesAre
  <2>3. \A b \in 1..Len(chain) : chain[b] + BlocBytes <= QueueAt(disk)
    BY <2>1, <1>2, <1>3, SizesAre
  <2> QED
    BY <2>1, <2>2, <2>3, <1>3 DEF Chained
<1>6. Placed(entries, chain, QueueAt(disk))
  <2>1. entries \in [Idents -> Areas]
    BY <1>4, NoAreaIs
  <2>2. \A i \in Idents : entries[i] = NoArea
    BY <1>4
  <2>3. Apart(NoArea, NoArea)
    BY NoAreaIs DEF Apart, End
  <2> QED
    BY <1>5, <2>1, <2>2, <2>3 DEF Placed, Fit
<1>7. Separate(areas) /\ \A p \in Nat : ~In(p, areas)
  BY <1>4 DEF Separate, In
<1>8. Gaps(areas, entries, chain, QueueAt(disk), NoArea)
  <2> SUFFICES ASSUME NEW p \in Nat, p > HeadBytes, p < QueueAt(disk)
               PROVE  Used(entries, chain, p)
    BY <1>7, SizesAre DEF Gaps
  <2>1. BlocOf(chain, 1) = Area(HeadBytes + 1, BlocBytes)
    BY <1>3 DEF BlocOf
  <2>2. p \in Bytes(BlocOf(chain, 1))
    BY <2>1, <1>2, AreaIs, SizesAre
  <2> QED
    BY <2>2, <1>3 DEF Used
<1>9. Types
  <2>1. Len(chain) <= MaxBlocs /\ Len(disk) <= MaxBytes
    BY <1>1, <1>2, <1>3, SizesAre
  <2>2. entries \in [Idents -> Areas] /\ target \in Areas
    BY <1>4, NoAreaIs
  <2>3. op \in [ident : Idents, content : Contents]
    BY <1>4, NoOpIs
  <2> QED
    BY <2>1, <2>2, <2>3, <1>1, <1>3, <1>4, <1>7 DEF Types
<1> QED
  BY <1>4, <1>6, <1>8, <1>9
     DEF IInv, PlacesInv, WholeInv, ReachInv, RoomInv, GrowthInv, MoveInv, BulkInv

\* checkExtendIndirection, first: nothing is written yet.
LEMMA SetKeeps ==
  ASSUME IInv, NEW i \in Idents, NEW content \in Contents, Set(i, content)
  PROVE  IInv'
<1> USE DEF IInv, Set
<1>1. Len(disk) \in Nat /\ QueueAt(disk) + QueueBytes - 1 = Len(disk) /\ QueueAt(disk) \in Nat
  BY EndIs
<1>2. Types'
  BY DEF Types, Writing
<1>3. PlacesInv' /\ WholeInv'
  BY DEF PlacesInv, WholeInv
<1>4. ReachInv'
  BY DEF ReachInv, Fits
<1>5. RoomInv'
  <2> SUFFICES ASSUME NEW v \in Values
               PROVE  /\ Len(disk) + BlocBytes + Size[v] <= MaxBytes
                      /\ Len(disk) + Size[v] <= MaxBytes
    BY DEF RoomInv
  <2>1. QueueAt(disk) + QueueBytes + BlocBytes + Size[v] <= MaxBytes + 1
    BY DEF Fits
  <2>2. Size[v] \in Nat /\ BlocBytes \in Nat /\ QueueBytes \in Nat /\ MaxBytes \in Nat
    BY SizesAre
  <2> QED
    BY <2>1, <2>2, <1>1
<1>6. GrowthInv' /\ MoveInv' /\ BulkInv'
  BY DEF GrowthInv, MoveInv, BulkInv
<1> QED
  BY <1>2, <1>3, <1>4, <1>5, <1>6

\* A block goes over the queue.
LEMMA AddBlocKeeps ==
  ASSUME IInv, AddBloc
  PROVE  IInv'
<1> USE DEF IInv
<1> DEFINE end == QueueAt(disk)
<1>1. /\ pc = "bloc" /\ pc' = "blocQueue" /\ chain' = chain /\ entries' = entries /\ op' = op
      /\ areas' = areas /\ bulk' = bulk
      /\ target' = Area(end, BlocBytes) /\ disk' = Written(disk, end, Bloc)
  BY DEF AddBloc
<1>2. /\ Len(disk) \in Nat /\ end \in Nat /\ end > HeadBytes + 1
      /\ end + QueueBytes - 1 = Len(disk) /\ Placed(entries, chain, end)
  BY <1>1, EndIs
<1> HIDE DEF end
<1>3. /\ IsBytes(disk')
      /\ Len(disk') = IF end + BlocBytes - 1 > Len(disk) THEN end + BlocBytes - 1 ELSE Len(disk)
  <2>1. IsBytes(disk) /\ IsBytes(Bloc) /\ Len(Bloc) = BlocBytes /\ end > 0
    BY <1>2, BlocIs, SizesAre DEF Types
  <2> QED
    BY <2>1, <1>1, <1>2, WrittenIs
<1>4. /\ target' \in Areas /\ target'.at = end /\ target'.len = BlocBytes
      /\ End(target') = end + BlocBytes
  BY <1>1, <1>2, AreaIs, SizesAre
<1>5. \A v \in Values : Len(disk) + BlocBytes + Size[v] <= MaxBytes
  BY <1>1 DEF RoomInv
<1>6. Len(disk') \in Nat /\ Len(disk) <= Len(disk') /\ Len(disk') <= Len(disk) + BlocBytes
  BY <1>2, <1>3, SizesAre
<1>7. Types'
  <2>1. PICK v \in Values : TRUE
    BY SizesAssumption
  <2>2. Len(disk') <= MaxBytes
    BY <2>1, <1>2, <1>5, <1>6, SizesAre
  <2> QED
    BY <2>2, <1>1, <1>3, <1>4 DEF Types, Writing
<1>8. PlacesInv'
  <2>1. QueueAt(disk') \in Nat /\ end <= QueueAt(disk')
    BY <1>2, <1>6, SizesAre DEF QueueAt
  <2> QED
    BY <2>1, <1>1, <1>2, PlacedHigher DEF PlacesInv
<1>9. GrowthInv'
  <2>1. Gaps(areas, entries, chain, end, NoArea)
    BY <1>1 DEF WholeInv, end
  <2>2. Len(disk') <= End(target') + QueueBytes - 1
    BY <1>2, <1>4, <1>6, SizesAre
  <2> QED
    BY <2>1, <2>2, <1>1, <1>2, <1>4 DEF GrowthInv
<1>10. RoomInv'
  <2>1. \A v \in Values : End(target') + QueueBytes - 1 + Size[v] <= MaxBytes
    BY <1>2, <1>4, <1>5, SizesAre
  <2> QED
    BY <2>1, <1>1 DEF RoomInv
<1>11. WholeInv' /\ ReachInv' /\ MoveInv' /\ BulkInv'
  BY <1>1 DEF WholeInv, ReachInv, MoveInv, BulkInv
<1> QED
  BY <1>7, <1>8, <1>9, <1>10, <1>11

\* The queue goes after it.
LEMMA AddBlocQueueKeeps ==
  ASSUME IInv, AddBlocQueue
  PROVE  IInv'
<1> USE DEF IInv
<1> DEFINE end == End(target)
<1>1. /\ pc = "blocQueue" /\ pc' = "link" /\ chain' = chain /\ entries' = entries /\ op' = op
      /\ areas' = areas /\ bulk' = bulk /\ target' = target
      /\ disk' = Written(disk, end, Queue(FALSE))
  BY DEF AddBlocQueue
<1>2. /\ target.len = BlocBytes
      /\ Placed(entries, chain, target.at)
      /\ Gaps(areas, entries, chain, target.at, NoArea)
      /\ Len(disk) <= end + QueueBytes - 1
  BY <1>1 DEF GrowthInv
<1>3. /\ Len(disk) \in Nat /\ end \in Nat /\ end > HeadBytes + 1 /\ target.at \in Nat
      /\ target.at <= end
  <2>1. target.at > HeadBytes + 1
    BY <1>2, ChainedIs DEF Placed
  <2> QED
    BY <2>1, DiskIs, SizesAre DEF Types, Areas, End
<1> HIDE DEF end
<1>4. IsBytes(disk') /\ Len(disk') = end + QueueBytes - 1
  <2>1. /\ IsBytes(disk')
        /\ Len(disk') = IF end + QueueBytes - 1 > Len(disk) THEN end + QueueBytes - 1 ELSE Len(disk)
    <3>1. IsBytes(disk) /\ end > 0
      BY <1>3, SizesAre DEF Types
    <3> QED
      BY <3>1, <1>1, <1>3, QueueWritten
  <2> QED
    BY <2>1, <1>2, <1>3, SizesAre
<1>5. QueueAt(disk') = end
  BY <1>3, <1>4, SizesAre DEF QueueAt
<1>6. \A v \in Values : end + QueueBytes - 1 + Size[v] <= MaxBytes
  BY <1>1 DEF RoomInv, end
<1>7. Types'
  <2>1. PICK v \in Values : TRUE
    BY SizesAssumption
  <2>2. Len(disk') <= MaxBytes
    BY <2>1, <1>3, <1>4, <1>6, SizesAre
  <2> QED
    BY <2>2, <1>1, <1>4 DEF Types, Writing
<1>8. PlacesInv'
  BY <1>1, <1>2, <1>3, <1>5, PlacedHigher DEF PlacesInv
<1>9. GrowthInv'
  <2>1. end = End(target)'
    BY <1>1 DEF end, End
  <2>2. Len(disk') <= end + QueueBytes - 1
    BY <1>3, <1>4, SizesAre
  <2> QED
    BY <2>1, <2>2, <1>1, <1>2, <1>5 DEF GrowthInv
<1>10. RoomInv'
  <2>1. end = End(target)'
    BY <1>1 DEF end, End
  <2> QED
    BY <2>1, <1>1, <1>6 DEF RoomInv
<1>11. WholeInv' /\ ReachInv' /\ MoveInv' /\ BulkInv'
  BY <1>1 DEF WholeInv, ReachInv, MoveInv, BulkInv
<1> QED
  BY <1>7, <1>8, <1>9, <1>10, <1>11

\* The block is linked: the idents of the operation may be in reach.
LEMMA LinkBlocKeeps ==
  ASSUME IInv, LinkBloc
  PROVE  IInv'
<1> USE DEF IInv
<1> DEFINE more == Append(chain, target.at)
<1>1. /\ pc = "link" /\ chain' = more /\ target' = NoArea /\ disk' = disk /\ entries' = entries
      /\ areas' = areas /\ bulk' = bulk
      /\ \/ op.ident \in Reach(chain') /\ pc' = "place" /\ op' = op
         \/ op.ident \notin Reach(chain') /\ pc' = "ready" /\ op' = NoOp
  BY DEF LinkBloc
<1>2. /\ target.len = BlocBytes
      /\ Placed(entries, chain, target.at)
      /\ Gaps(areas, entries, chain, target.at, NoArea)
      /\ Len(disk) <= End(target) + QueueBytes - 1
      /\ QueueAt(disk) = End(target)
  BY <1>1 DEF GrowthInv
<1>3. target.at \in Nat /\ target.at > HeadBytes + 1
  BY <1>2, ChainedIs DEF Placed
<1>4. End(target) = target.at + BlocBytes
  BY <1>2 DEF End
<1>5. /\ Placed(entries, more, QueueAt(disk))
      /\ Gaps(areas, entries, more, QueueAt(disk), NoArea)
  BY <1>2, <1>3, <1>4, GrownPlaced, GrownGaps
<1>6. \A v \in Values : End(target) + QueueBytes - 1 + Size[v] <= MaxBytes
  BY <1>1 DEF RoomInv
<1>7. more \in Seq(1..MaxBytes) /\ Len(more) <= MaxBlocs
  <2>1. PICK v \in Values : TRUE
    BY SizesAssumption
  <2>2. target.at \in 1..MaxBytes
    BY <2>1, <1>3, <1>4, <1>6, SizesAre
  <2>3. chain \in Seq(1..MaxBytes) /\ Len(chain) < MaxBlocs
    BY <1>1 DEF Types, ReachInv
  <2>4. /\ Append(chain, target.at) \in Seq(1..MaxBytes)
        /\ Len(Append(chain, target.at)) = Len(chain) + 1
    BY <2>2, <2>3, AppendProperties
  <2>5. Len(chain) \in Nat
    BY <2>3, LenProperties
  <2> QED
    BY <2>3, <2>4, <2>5, SizesAre
<1> HIDE DEF more
<1>8. Types'
  BY <1>1, <1>7, NoAreaIs, NoOpIs DEF Types, Writing
<1>9. PlacesInv' /\ WholeInv'
  BY <1>1, <1>5 DEF PlacesInv, WholeInv
<1>10. RoomInv'
  <2>1. \A v \in Values : Len(disk) + Size[v] <= MaxBytes
    <3>1. Len(disk) \in Nat
      BY DiskIs DEF Types
    <3> QED
      BY <3>1, <1>2, <1>3, <1>4, <1>6, SizesAre
  <2> QED
    BY <2>1, <1>1 DEF RoomInv
<1>11. ReachInv' /\ GrowthInv' /\ MoveInv' /\ BulkInv'
  BY <1>1 DEF ReachInv, GrowthInv, MoveInv, BulkInv
<1> QED
  BY <1>8, <1>9, <1>10, <1>11

\* What an operation under way is about.
LEMMA PlaceIs ==
  ASSUME Types, PlacesInv, WholeInv, ReachInv, pc = "place"
  PROVE  /\ op.ident \in Idents /\ op.ident \in Reach(chain) /\ Old \in Areas
         /\ op.content = {} \/ \E v \in Values : op.content = {v} /\ Needed = Size[v]
         /\ Placed(entries, chain, QueueAt(disk))
         /\ Gaps(areas, entries, chain, QueueAt(disk), NoArea)
<1>1. op.ident \in Idents /\ op.content \in Contents
  BY DEF Types
<1>2. op.content = {} \/ \E v \in Values : op.content = {v} /\ Needed = Size[v]
  BY <1>1, ContentIs DEF Contents, Needed
<1> QED
  BY <1>1, <1>2 DEF Types, PlacesInv, WholeInv, ReachInv, Old

\* EFFACEMENT.
LEMMA EraseKeeps ==
  ASSUME IInv, Erase
  PROVE  IInv'
<1> USE DEF IInv
<1> DEFINE end == QueueAt(disk)
<1>1. /\ pc = "place" /\ op.content = {} /\ areas' = Vacated(areas, Old)
      /\ disk' = Written(disk, end, Queue(TRUE)) /\ target' = NoArea /\ pc' = "entry"
      /\ chain' = chain /\ entries' = entries /\ op' = op /\ bulk' = bulk
  BY DEF Erase
<1>2. /\ Len(disk) \in Nat /\ end \in Nat /\ end > HeadBytes + 1
      /\ end + QueueBytes - 1 = Len(disk)
  BY <1>1, EndIs
<1>3. /\ op.ident \in Idents /\ op.ident \in Reach(chain) /\ Old \in Areas
      /\ Placed(entries, chain, end) /\ Gaps(areas, entries, chain, end, NoArea)
  BY <1>1, PlaceIs
<1> HIDE DEF end
<1>4. IsBytes(disk') /\ Len(disk') = Len(disk) /\ QueueAt(disk') = end
  <2>1. IsBytes(disk) /\ end > 0
    BY <1>2, SizesAre DEF Types
  <2>2. IsBytes(disk') /\ Len(disk') = IF end + QueueBytes - 1 > Len(disk)
                                       THEN end + QueueBytes - 1 ELSE Len(disk)
    BY <2>1, <1>1, <1>2, QueueWritten
  <2> QED
    BY <2>2, <1>2 DEF QueueAt, end
<1> DEFINE coming == [entries EXCEPT ![op.ident] = NoArea]
<1>5. Coming' = coming
  BY <1>1 DEF Coming
<1>6. \A a \in Areas : Apart(NoArea, a)
  BY NoAreaIs DEF Apart, End, Areas
<1>7. Placed(coming, chain, end)
  <2>1. \A j \in Idents : op.ident # j => Apart(NoArea, entries[j])
    BY <1>3, <1>6 DEF Placed
  <2>2. Fit(NoArea, op.ident, chain, end)
    BY DEF Fit
  <2> QED
    BY <2>1, <2>2, <1>3, NoAreaIs, MovedPlaced
<1>8. Gaps(areas', coming, chain, end, NoArea)
  BY <1>1, <1>3, <1>6, NoAreaIs, VacatedGaps DEF Old
<1> HIDE DEF coming
<1>9. Types'
  BY <1>1, <1>4, <1>8, NoAreaIs DEF Types, Gaps, Writing
<1>10. PlacesInv'
  BY <1>1, <1>3, <1>4 DEF PlacesInv
<1>11. MoveInv'
  BY <1>1, <1>4, <1>5, <1>7, <1>8 DEF MoveInv
<1>12. WholeInv' /\ ReachInv' /\ RoomInv' /\ GrowthInv' /\ BulkInv'
  BY <1>1, <1>3 DEF WholeInv, ReachInv, RoomInv, GrowthInv, BulkInv
<1> QED
  BY <1>9, <1>10, <1>11, <1>12

\* REMPLACEMENT AU MESME ENDROIT.
LEMMA RewriteKeeps ==
  ASSUME IInv, Rewrite
  PROVE  IInv'
<1> USE DEF IInv
<1>1. /\ pc = "place" /\ op.content # {} /\ Needed <= Old.len
      /\ disk' = Written(disk, Old.at, Definition(op.ident, op.content))
      /\ target' = NoArea /\ pc' = "queue"
      /\ chain' = chain /\ entries' = entries /\ op' = op /\ areas' = areas /\ bulk' = bulk
  BY DEF Rewrite
<1>2. /\ Len(disk) \in Nat /\ QueueAt(disk) \in Nat
      /\ QueueAt(disk) + QueueBytes - 1 = Len(disk)
  BY <1>1, EndIs
<1>3. /\ op.ident \in Idents /\ op.ident \in Reach(chain) /\ Old \in Areas
      /\ Placed(entries, chain, QueueAt(disk))
      /\ Gaps(areas, entries, chain, QueueAt(disk), NoArea)
  BY <1>1, PlaceIs
<1>4. PICK v \in Values : op.content = {v} /\ Needed = Size[v]
  BY <1>1, PlaceIs
<1>5. /\ Old.at \in Nat /\ Old.len \in Nat /\ End(Old) = Old.at + Old.len
      /\ End(Old) <= QueueAt(disk) /\ Old.at > HeadBytes
  <2>1. Old.len > 0 /\ Old # NoArea
    BY <1>1, <1>3, <1>4, SizesAre, NoAreaIs DEF Areas
  <2> QED
    BY <2>1, <1>3, PlacedIs DEF Old
<1>6. IsBytes(disk') /\ Len(disk') = Len(disk)
  <2>1. Old.at > 0 /\ IsBytes(disk)
    BY <1>5, SizesAre DEF Types
  <2>2. IsBytes(disk') /\ Len(disk') = IF Old.at + Size[v] - 1 > Len(disk)
                                       THEN Old.at + Size[v] - 1 ELSE Len(disk)
    BY <2>1, <1>1, <1>4, <1>5, DefinitionWritten
  <2>3. Old.at + Size[v] - 1 <= Len(disk)
    BY <1>1, <1>2, <1>4, <1>5, SizesAre
  <2> QED
    BY <2>2, <2>3, <1>2, <1>5, SizesAre
<1>7. QueueAt(disk') = QueueAt(disk)
  BY <1>6 DEF QueueAt
<1>8. Types'
  BY <1>1, <1>6, NoAreaIs DEF Types, Writing
<1>9. PlacesInv' /\ WholeInv'
  BY <1>1, <1>3, <1>7 DEF PlacesInv, WholeInv
<1>10. ReachInv' /\ RoomInv' /\ GrowthInv' /\ MoveInv' /\ BulkInv'
  BY <1>1, <1>3 DEF ReachInv, RoomInv, GrowthInv, MoveInv, BulkInv
<1> QED
  BY <1>8, <1>9, <1>10

\* NOUVEL ENDROIT.
LEMMA MoveKeeps ==
  ASSUME IInv, Move
  PROVE  IInv'
<1> USE DEF IInv
<1> DEFINE end == QueueAt(disk)
           found == FindNewArea(areas, Needed, end)
           a == found.area
           last == IF found.atEnd THEN end + Needed ELSE end
<1>1. /\ pc = "place" /\ op.content # {} /\ Needed > Old.len
      /\ disk' = Written(disk, a.at, Definition(op.ident, op.content))
      /\ target' = a /\ areas' = found.empties
      /\ pc' = IF found.atEnd THEN "queueAtEnd" ELSE "queue"
      /\ chain' = chain /\ entries' = entries /\ op' = op /\ bulk' = bulk
  BY DEF Move
<1>2. /\ Len(disk) \in Nat /\ end \in Nat /\ end > HeadBytes + 1
      /\ end + QueueBytes - 1 = Len(disk)
  BY <1>1, EndIs
<1>3. /\ op.ident \in Idents /\ op.ident \in Reach(chain)
      /\ Placed(entries, chain, end) /\ Gaps(areas, entries, chain, end, NoArea)
  BY <1>1, PlaceIs
<1>4. PICK v \in Values : op.content = {v} /\ Needed = Size[v]
  BY <1>1, PlaceIs
<1> DEFINE coming == [entries EXCEPT ![op.ident] = a]
<1>5. /\ a \in Areas /\ a.len >= Needed /\ a # NoArea
      /\ a.at > HeadBytes /\ last \in Nat /\ End(a) <= last
      /\ found.atEnd \in BOOLEAN
      /\ found.atEnd => a = Area(end, Needed) /\ last = end + Needed
      /\ ~found.atEnd => last = end
      /\ \A j \in Idents : Apart(a, entries[j])
      /\ Placed(coming, chain, last)
      /\ Gaps(found.empties, entries, chain, last, a)
  <2>1. Needed \in Nat /\ Needed >= MinSize
    BY <1>4, SizesAre
  <2> HIDE DEF end
  <2> QED
    BY <2>1, <1>3, FoundPlaced
<1>6. Needed \in Nat /\ Needed > 0 /\ a.at \in Nat /\ a.at > 0 /\ End(a) = a.at + a.len
      /\ a.len \in Nat
  BY <1>4, <1>5, SizesAre DEF Areas, End
<1>7. Coming' = coming /\ Old' = Old
  BY <1>1 DEF Coming, Old
<1> HIDE DEF coming, a, last, end, found
<1>8. IsBytes(disk') /\ Len(disk') = IF a.at + Needed - 1 > Len(disk)
                                     THEN a.at + Needed - 1 ELSE Len(disk)
  <2>1. IsBytes(disk)
    BY DEF Types
  <2> DEFINE at == a.at
             w == Written(disk, at, Definition(op.ident, {v}))
  <2>2. at \in Nat /\ at > 0
    BY <1>6
  <2>3. disk' = w /\ Needed = Size[v]
    BY <1>1, <1>4
  <2> HIDE DEF at
  <2>4. IsBytes(w) /\ Len(w) = IF at + Size[v] - 1 > Len(disk) THEN at + Size[v] - 1 ELSE Len(disk)
    BY <2>1, <2>2, DefinitionWritten
  <2> HIDE DEF w
  <2>5. IsBytes(disk') /\ Len(disk') = IF at + Needed - 1 > Len(disk) THEN at + Needed - 1 ELSE Len(disk)
    BY <2>3, <2>4
  <2> QED
    BY <2>5 DEF at
<1>9. \A u \in op.content : Holds(disk', a, op.ident, u)
  <2>1. Size[v] <= a.len
    BY <1>4, <1>5, <1>6
  <2>2. IsBytes(disk)
    BY DEF Types
  <2>3. Holds(Written(disk, a.at, Definition(op.ident, {v})), a, op.ident, v)
    BY <2>1, <2>2, <1>5, <1>6, WrittenHolds
  <2> QED
    BY <2>3, <1>1, <1>4
<1>10. Apart(a, Old)
  BY <1>3, <1>5 DEF Old
<1>11. Len(disk) + Needed <= MaxBytes
  BY <1>1, <1>4 DEF RoomInv
<1>12. Len(disk') \in Nat /\ Len(disk) <= Len(disk') /\ Len(disk') <= last + QueueBytes - 1
       /\ last + QueueBytes - 1 <= MaxBytes
       /\ (~found.atEnd => Len(disk') = Len(disk))
  <2>1. CASE found.atEnd
    <3>1. a.at = end /\ last = end + Needed
      BY <2>1, <1>2, <1>5, <1>6, AreaIs
    <3> QED
      BY <3>1, <2>1, <1>2, <1>6, <1>8, <1>11, SizesAre
  <2>2. CASE ~found.atEnd
    <3>1. a.at + Needed - 1 <= Len(disk)
      BY <2>2, <1>2, <1>5, <1>6, SizesAre
    <3> QED
      BY <3>1, <2>2, <1>2, <1>5, <1>6, <1>8, <1>11, SizesAre
  <2> QED
    BY <2>1, <2>2
<1>13. QueueAt(disk') \in Nat /\ end <= QueueAt(disk') /\ (~found.atEnd => QueueAt(disk') = end)
  BY <1>2, <1>12, SizesAre DEF QueueAt, end
<1>14. pc' \in Writing /\ pc' \in {"queue", "queueAtEnd"}
  BY <1>1 DEF Writing
<1>15. Types'
  <2>1. Len(disk') <= MaxBytes
    BY <1>12, <1>5, SizesAre
  <2> QED
    BY <2>1, <1>1, <1>5, <1>8, <1>14 DEF Types, Gaps
<1>16. PlacesInv'
  <2>1. Placed(entries, chain, QueueAt(disk'))
    BY <1>3, <1>13, PlacedHigher
  <2> QED
    BY <2>1, <1>1 DEF PlacesInv
<1>17. MoveInv'
  <2>1. target' # NoArea /\ Apart(target', Old')
    BY <1>1, <1>5, <1>7, <1>10
  <2>2. op'.content # {} /\ \A u \in op'.content : Holds(disk', target', op'.ident, u)
    BY <1>1, <1>9
  <2>3. CASE found.atEnd
    <3>1. pc' = "queueAtEnd"
      BY <2>3, <1>1
    <3>2. a = Area(end, Needed) /\ last = end + Needed /\ a.at = end /\ End(a) = last
      BY <2>3, <1>2, <1>5, <1>6, AreaIs
    <3>3. /\ Placed(entries', chain', target'.at)
          /\ Placed(Coming', chain', End(target'))
          /\ Gaps(areas', entries', chain', End(target'), target')
      BY <3>2, <1>1, <1>3, <1>5, <1>7
    <3>4. /\ End(target') - 1 <= Len(disk') /\ Len(disk') <= End(target') + QueueBytes - 1
          /\ End(target') + QueueBytes - 1 <= MaxBytes
      <4>1. End(a) - 1 <= Len(disk')
        BY <3>2, <1>2, <1>6, <1>8, <1>12
      <4> QED
        BY <4>1, <3>2, <1>1, <1>12
    <3> QED
      BY <3>1, <3>3, <3>4, <2>1, <2>2 DEF MoveInv
  <2>4. CASE ~found.atEnd
    <3>1. pc' = "queue" /\ last = end /\ QueueAt(disk') = end
      BY <2>4, <1>1, <1>5, <1>13
    <3>2. /\ Placed(Coming', chain', QueueAt(disk'))
          /\ Gaps(areas', entries', chain', QueueAt(disk'), target')
      BY <3>1, <1>1, <1>5, <1>7
    <3> QED
      BY <3>1, <3>2, <2>1, <2>2 DEF MoveInv
  <2> QED
    BY <2>3, <2>4
<1>18. WholeInv'
  <2>1. target' # NoArea
    BY <1>1, <1>5
  <2> QED
    BY <2>1, <1>14 DEF WholeInv
<1>19. ReachInv' /\ RoomInv' /\ GrowthInv' /\ BulkInv'
  BY <1>1, <1>3, <1>14 DEF ReachInv, RoomInv, GrowthInv, BulkInv
<1> QED
  BY <1>15, <1>16, <1>17, <1>18, <1>19

\* The queue, and the vacation of the old place.
LEMMA WriteQueueKeeps ==
  ASSUME IInv, WriteQueue
  PROVE  IInv'
<1> USE DEF IInv
<1> DEFINE end == IF pc = "queue" THEN QueueAt(disk) ELSE End(target)
<1>1. /\ pc \in {"queue", "queueAtEnd"} /\ disk' = Written(disk, end, Queue(TRUE))
      /\ chain' = chain /\ entries' = entries /\ target' = target /\ bulk' = bulk
      /\ target = NoArea => pc' = "ready" /\ op' = NoOp /\ areas' = areas
      /\ target # NoArea => pc' = "entry" /\ op' = op /\ areas' = Vacated(areas, Old)
  BY DEF WriteQueue
<1>2. Len(disk) \in Nat /\ QueueAt(disk) \in Nat /\ QueueAt(disk) > HeadBytes + 1
      /\ QueueAt(disk) + QueueBytes - 1 = Len(disk) /\ Placed(entries, chain, QueueAt(disk))
  BY <1>1, EndIs
<1>3. target # NoArea =>
        /\ op.content # {}
        /\ \A v \in op.content : Holds(disk, target, op.ident, v)
        /\ Apart(target, Old)
  BY <1>1 DEF MoveInv
<1>4. /\ end \in Nat /\ end > 0 /\ Len(disk) <= end + QueueBytes - 1 /\ end - 1 <= Len(disk)
      /\ end + QueueBytes - 1 <= MaxBytes
      /\ Placed(entries, chain, end)
      /\ target # NoArea => Placed(Coming, chain, end) /\ Gaps(areas, entries, chain, end, target)
  <2>1. CASE pc = "queue"
    <3>1. end = QueueAt(disk)
      BY <2>1
    <3>2. Len(disk) <= MaxBytes
      BY DEF Types
    <3>3. target # NoArea =>
            Placed(Coming, chain, QueueAt(disk)) /\ Gaps(areas, entries, chain, QueueAt(disk), target)
      BY <2>1 DEF MoveInv
    <3> HIDE DEF end
    <3> QED
      BY <3>1, <3>2, <3>3, <1>2, SizesAre
  <2>2. CASE pc = "queueAtEnd"
    <3>1. end = End(target)
      BY <2>2
    <3>2. /\ Placed(entries, chain, target.at)
          /\ Placed(Coming, chain, End(target))
          /\ Gaps(areas, entries, chain, End(target), target)
          /\ End(target) - 1 <= Len(disk) /\ Len(disk) <= End(target) + QueueBytes - 1
          /\ End(target) + QueueBytes - 1 <= MaxBytes
      BY <2>2 DEF MoveInv
    <3>3. End(target) \in Nat /\ End(target) > 0 /\ target.at <= End(target)
      <4>1. target.at \in Nat /\ target.len \in Nat /\ End(target) = target.at + target.len
        BY DEF Types, Areas, End
      <4>2. target.at > HeadBytes + 1
        BY <3>2, ChainedIs DEF Placed
      <4> QED
        BY <4>1, <4>2, SizesAre
    <3>4. Placed(entries, chain, End(target))
      BY <3>2, <3>3, PlacedHigher
    <3> HIDE DEF end
    <3> QED
      BY <3>1, <3>2, <3>3, <3>4
  <2> QED
    BY <2>1, <2>2, <1>1
<1>5. target = NoArea => pc = "queue" /\ end = QueueAt(disk)
  BY <1>1 DEF MoveInv
<1> HIDE DEF end
<1>6. IsBytes(disk') /\ Len(disk') = end + QueueBytes - 1
  <2>1. IsBytes(disk)
    BY DEF Types
  <2>2. IsBytes(disk') /\ Len(disk') = IF end + QueueBytes - 1 > Len(disk)
                                       THEN end + QueueBytes - 1 ELSE Len(disk)
    BY <2>1, <1>1, <1>4, QueueWritten
  <2> QED
    BY <2>2, <1>2, <1>4, SizesAre
<1>7. QueueAt(disk') = end
  BY <1>4, <1>6, SizesAre DEF QueueAt
<1>8. PlacesInv'
  BY <1>1, <1>4, <1>7 DEF PlacesInv
<1>9. op.ident \in Idents /\ op.ident \in Reach(chain)
  BY <1>1 DEF Types, ReachInv
<1>10. CASE target = NoArea
  <2>1. Gaps(areas, entries, chain, end, NoArea)
    BY <1>5, <1>10 DEF WholeInv
  <2>2. Types'
    BY <1>1, <1>4, <1>6, <1>10, NoOpIs, SizesAre DEF Types
  <2>3. WholeInv' /\ ReachInv' /\ RoomInv' /\ GrowthInv' /\ MoveInv' /\ BulkInv'
    BY <2>1, <1>1, <1>7, <1>10
       DEF WholeInv, ReachInv, RoomInv, GrowthInv, MoveInv, BulkInv
  <2> QED
    BY <2>2, <2>3, <1>8
<1>11. CASE target # NoArea
  <2>1. Coming' = Coming /\ Old' = Old /\ Coming = [entries EXCEPT ![op.ident] = target]
    BY <1>1, <1>11 DEF Coming, Old
  <2>2. target \in Areas
    BY DEF Types
  <2>3. Gaps(areas', Coming, chain, end, NoArea)
    <3>1. Apart(target, entries[op.ident]) /\ areas' = Vacated(areas, entries[op.ident])
      BY <1>1, <1>3, <1>11 DEF Old
    <3>2. Gaps(Vacated(areas, entries[op.ident]), [entries EXCEPT ![op.ident] = target],
               chain, end, NoArea)
      BY <3>1, <2>2, <1>4, <1>9, <1>11, VacatedGaps
    <3> QED
      BY <3>1, <3>2, <2>1
  <2>4. Types'
    BY <2>3, <1>1, <1>4, <1>6, <1>11, SizesAre DEF Types, Gaps, Writing
  <2>5. \A v \in op.content : Holds(disk', target, op.ident, v)
    <3> SUFFICES ASSUME NEW v \in op.content PROVE Holds(disk', target, op.ident, v)
      OBVIOUS
    <3>1. v \in Values /\ Holds(disk, target, op.ident, v)
      BY <1>3, <1>11 DEF Types, Contents
    <3>2. /\ target.at \in Nat /\ target.at > 0 /\ End(target) <= end /\ End(target) \in Nat
      <4>1. entries \in [Idents -> Areas]
        BY DEF Types
      <4>2. Coming[op.ident] = target
        BY <4>1, <1>9 DEF Coming
      <4>3. Placed(Coming, chain, end)
        BY <1>4, <1>11
      <4>4. target.at \in Nat /\ End(target) \in Nat /\ End(target) <= end /\ target.at > HeadBytes
        BY <4>2, <4>3, <1>9, <1>11, PlacedIs
      <4> QED
        BY <4>4, SizesAre
    <3>3. End(target) <= Len(disk) + 1
      BY <3>2, <1>2, <1>4
    <3> QED
      BY <3>1, <3>2, <3>3, <2>2, <1>1, <1>4, KeptByQueue DEF Types
  <2>6. MoveInv'
    BY <2>1, <2>3, <2>5, <1>1, <1>3, <1>4, <1>7, <1>11 DEF MoveInv
  <2>7. WholeInv' /\ ReachInv' /\ RoomInv' /\ GrowthInv' /\ BulkInv'
    BY <1>1, <1>9, <1>11 DEF WholeInv, ReachInv, RoomInv, GrowthInv, BulkInv
  <2> QED
    BY <2>4, <2>6, <2>7, <1>8
<1> QED
  BY <1>10, <1>11

\* setIndirection.
LEMMA WriteEntryKeeps ==
  ASSUME IInv, WriteEntry
  PROVE  IInv'
<1> USE DEF IInv
<1>1. /\ pc = "entry" /\ pc' = "ready" /\ op' = NoOp /\ target' = NoArea /\ entries' = Coming
      /\ disk' = disk /\ chain' = chain /\ areas' = areas /\ bulk' = bulk
  BY DEF WriteEntry, Coming
<1>2. /\ Placed(Coming, chain, QueueAt(disk))
      /\ Gaps(areas, Coming, chain, QueueAt(disk), NoArea)
  BY <1>1 DEF MoveInv
<1>3. Types'
  BY <1>1, <1>2, NoOpIs, NoAreaIs DEF Types, Placed
<1>4. PlacesInv' /\ WholeInv'
  BY <1>1, <1>2 DEF PlacesInv, WholeInv
<1>5. ReachInv' /\ RoomInv' /\ GrowthInv' /\ MoveInv' /\ BulkInv'
  BY <1>1 DEF ReachInv, RoomInv, GrowthInv, MoveInv, BulkInv
<1> QED
  BY <1>3, <1>4, <1>5

\* The end of the writer, at any step.
LEMMA StopKeeps ==
  ASSUME IInv, Stop
  PROVE  IInv'
<1> USE DEF IInv
<1>1. /\ pc \in {"ready"} \cup Writing /\ pc' = "closed" /\ op' = NoOp /\ target' = NoArea
      /\ areas' = <<>> /\ disk' = disk /\ chain' = chain /\ entries' = entries /\ bulk' = bulk
  BY DEF Stop
<1>2. pc \notin {"bulk", "lost"}
  BY <1>1 DEF Writing
<1>3. Types'
  <2>1. Separate(<<>>)
    BY DEF Separate
  <2> QED
    BY <2>1, <1>1, NoOpIs, NoAreaIs DEF Types
<1>4. PlacesInv'
  BY <1>1, <1>2 DEF PlacesInv
<1>5. WholeInv' /\ ReachInv' /\ RoomInv' /\ GrowthInv' /\ MoveInv' /\ BulkInv'
  BY <1>1 DEF WholeInv, ReachInv, RoomInv, GrowthInv, MoveInv, BulkInv
<1> QED
  BY <1>3, <1>4, <1>5

\* mapEmptySpaces.
LEMMA OpenKeeps ==
  ASSUME IInv, Open
  PROVE  IInv'
<1> USE DEF IInv
<1>1. /\ pc = "closed" /\ pc' = "ready"
      /\ areas' = EmptySpaces(Occupied(entries, chain, QueueAt(disk)))
      /\ disk' = disk /\ chain' = chain /\ entries' = entries /\ op' = op
      /\ target' = target /\ bulk' = bulk
  BY DEF Open
<1>2. Placed(entries, chain, QueueAt(disk))
  BY <1>1, EndIs
<1>3. Gaps(areas', entries, chain, QueueAt(disk), NoArea)
  BY <1>1, <1>2, ReopenedGaps
<1>4. Types'
  BY <1>1, <1>3 DEF Types, Gaps
<1>5. PlacesInv' /\ WholeInv'
  BY <1>1, <1>2, <1>3 DEF PlacesInv, WholeInv
<1>6. ReachInv' /\ RoomInv' /\ GrowthInv' /\ MoveInv' /\ BulkInv'
  BY <1>1 DEF ReachInv, RoomInv, GrowthInv, MoveInv, BulkInv
<1> QED
  BY <1>4, <1>5, <1>6

LEMMA RefuseToOpenKeeps ==
  ASSUME IInv, RefuseToOpen
  PROVE  IInv'
BY DEF IInv, RefuseToOpen, Types, PlacesInv, WholeInv, ReachInv, RoomInv, GrowthInv, MoveInv, BulkInv

LEMMA BeginBulkKeeps ==
  ASSUME IInv, BeginBulk
  PROVE  IInv'
<1> USE DEF IInv
<1>1. /\ pc = "ready" /\ pc' = "bulk" /\ bulk'.entries = entries /\ bulk'.end = QueueAt(disk)
      /\ bulk' = [entries |-> bulk'.entries, end |-> bulk'.end, specifics |-> bulk'.specifics]
      /\ disk' = disk /\ chain' = chain /\ entries' = entries /\ op' = op
      /\ target' = target /\ areas' = areas
  BY DEF BeginBulk
<1>2. /\ Len(disk) \in Nat /\ QueueAt(disk) \in Nat /\ QueueAt(disk) + QueueBytes - 1 = Len(disk)
      /\ Placed(entries, chain, QueueAt(disk))
  BY <1>1, EndIs
<1>3. Types'
  BY <1>1 DEF Types
<1>4. BulkInv'
  <2>1. QueueAt(disk) <= Len(disk) + 1 /\ Len(disk) <= QueueAt(disk) + QueueBytes - 1
    BY <1>2, SizesAre
  <2>2. QueueAt(disk) + QueueBytes - 1 <= MaxBytes
    BY <1>2 DEF Types
  <2>3. Gaps(areas, entries, chain, QueueAt(disk), NoArea)
    BY <1>1 DEF WholeInv
  <2> QED
    BY <2>1, <2>2, <2>3, <1>1, <1>2 DEF BulkInv
<1>5. PlacesInv' /\ WholeInv' /\ ReachInv' /\ RoomInv' /\ GrowthInv' /\ MoveInv'
  BY <1>1 DEF PlacesInv, WholeInv, ReachInv, RoomInv, GrowthInv, MoveInv
<1> QED
  BY <1>3, <1>4, <1>5

\* Indirections and queue are written at once.
LEMMA EndBulkKeeps ==
  ASSUME IInv, EndBulk
  PROVE  IInv'
<1> USE DEF IInv
<1> DEFINE end == bulk.end
<1>1. /\ pc = "bulk" /\ pc' = "ready" /\ entries' = bulk.entries
      /\ disk' = Written(disk, end, Queue(bulk.specifics))
      /\ chain' = chain /\ op' = op /\ target' = target /\ areas' = areas
  BY DEF EndBulk
<1>2. /\ Placed(bulk.entries, chain, end)
      /\ Gaps(areas, bulk.entries, chain, end, NoArea)
      /\ end <= Len(disk) + 1 /\ Len(disk) <= end + QueueBytes - 1
      /\ end + QueueBytes - 1 <= MaxBytes
  BY <1>1 DEF BulkInv
<1> HIDE DEF end
<1>3. end \in Nat /\ end > 0 /\ Len(disk) \in Nat /\ IsBytes(disk)
  <2>1. end \in Nat /\ end > HeadBytes + 1
    BY <1>2, ChainedIs DEF Placed
  <2> QED
    BY <2>1, DiskIs, SizesAre DEF Types
<1>4. IsBytes(disk') /\ Len(disk') = end + QueueBytes - 1
  <2>1. IsBytes(disk') /\ Len(disk') = IF end + QueueBytes - 1 > Len(disk)
                                       THEN end + QueueBytes - 1 ELSE Len(disk)
    BY <1>1, <1>3, QueueWritten
  <2> QED
    BY <2>1, <1>2, <1>3, SizesAre
<1>5. QueueAt(disk') = end
  BY <1>3, <1>4, SizesAre DEF QueueAt
<1>6. Types'
  BY <1>1, <1>2, <1>3, <1>4, SizesAre DEF Types, Placed
<1>7. PlacesInv' /\ WholeInv'
  BY <1>1, <1>2, <1>5 DEF PlacesInv, WholeInv
<1>8. ReachInv' /\ RoomInv' /\ GrowthInv' /\ MoveInv' /\ BulkInv'
  BY <1>1 DEF ReachInv, RoomInv, GrowthInv, MoveInv, BulkInv
<1> QED
  BY <1>6, <1>7, <1>8

LEMMA CrashInBulkKeeps ==
  ASSUME IInv, CrashInBulk
  PROVE  IInv'
<1> USE DEF IInv
<1>1. Types'
  BY DEF CrashInBulk, Types, Separate
<1> QED
  BY <1>1 DEF CrashInBulk, PlacesInv, WholeInv, ReachInv, RoomInv, GrowthInv, MoveInv, BulkInv

\* In bulk mode, the blocks, the end and the file once an ident has its
\* block, or may be beyond it.
Grown(i) == i \notin Reach(chain)
BulkChain(i) == IF Grown(i) THEN Append(chain, bulk.end) ELSE chain
BulkEnd(i) == IF Grown(i) THEN bulk.end + BlocBytes ELSE bulk.end
BulkDisk(i) == IF Grown(i) THEN Written(disk, bulk.end, Bloc) ELSE disk

LEMMA BulkGrows ==
  ASSUME Types, BulkInv, pc = "bulk", NEW i \in Idents, Fits(i, bulk.end)
  PROVE  /\ BulkEnd(i) \in Nat /\ BulkEnd(i) > HeadBytes + 1
         /\ BulkChain(i) \in Seq(1..MaxBytes) /\ Len(BulkChain(i)) <= MaxBlocs
         /\ IsBytes(BulkDisk(i)) /\ Len(BulkDisk(i)) \in Nat
         /\ Placed(bulk.entries, BulkChain(i), BulkEnd(i))
         /\ Gaps(areas, bulk.entries, BulkChain(i), BulkEnd(i), NoArea)
         /\ BulkEnd(i) <= Len(BulkDisk(i)) + 1
         /\ Len(BulkDisk(i)) <= BulkEnd(i) + QueueBytes - 1
         /\ \A v \in Values : BulkEnd(i) + Size[v] + QueueBytes - 1 <= MaxBytes
<1> DEFINE end == bulk.end
<1>1. /\ Placed(bulk.entries, chain, end)
      /\ Gaps(areas, bulk.entries, chain, end, NoArea)
      /\ end <= Len(disk) + 1 /\ Len(disk) <= end + QueueBytes - 1
      /\ end + QueueBytes - 1 <= MaxBytes
  BY DEF BulkInv
<1>2. /\ end \in Nat /\ end > HeadBytes + 1 /\ Len(disk) \in Nat /\ IsBytes(disk)
  BY <1>1, ChainedIs, DiskIs DEF Types, Placed
<1>3. /\ \A v \in Values : end + QueueBytes + BlocBytes + Size[v] <= MaxBytes + 1
      /\ Grown(i) => Len(chain) < MaxBlocs
  BY DEF Fits, Grown
<1>4. chain \in Seq(1..MaxBytes) /\ Len(chain) <= MaxBlocs /\ Len(chain) \in Nat
  BY LenProperties DEF Types
<1> HIDE DEF end
<1>5. CASE Grown(i)
  <2>1. /\ BulkEnd(i) = end + BlocBytes /\ BulkChain(i) = Append(chain, end)
        /\ BulkDisk(i) = Written(disk, end, Bloc)
    BY <1>5 DEF BulkEnd, BulkChain, BulkDisk, end
  <2>2. /\ Placed(bulk.entries, Append(chain, end), end + BlocBytes)
        /\ Gaps(areas, bulk.entries, Append(chain, end), end + BlocBytes, NoArea)
    BY <1>1, GrownPlaced, GrownGaps
  <2>3. Append(chain, end) \in Seq(1..MaxBytes) /\ Len(Append(chain, end)) <= MaxBlocs
    <3>1. end \in 1..MaxBytes
      BY <1>1, <1>2, SizesAre
    <3>2. /\ Append(chain, end) \in Seq(1..MaxBytes)
          /\ Len(Append(chain, end)) = Len(chain) + 1
      BY <3>1, <1>4, AppendProperties
    <3> QED
      BY <3>2, <1>3, <1>4, <1>5, SizesAre
  <2>4. /\ IsBytes(BulkDisk(i))
        /\ Len(BulkDisk(i)) = IF end + BlocBytes - 1 > Len(disk) THEN end + BlocBytes - 1
                              ELSE Len(disk)
    <3>1. IsBytes(Bloc) /\ Len(Bloc) = BlocBytes /\ end > 0
      BY <1>2, BlocIs, SizesAre
    <3> QED
      BY <3>1, <2>1, <1>2, WrittenIs
  <2>5. Len(BulkDisk(i)) \in Nat /\ end + BlocBytes <= Len(BulkDisk(i)) + 1
        /\ Len(BulkDisk(i)) <= end + BlocBytes + QueueBytes - 1
    BY <2>4, <1>1, <1>2, SizesAre
  <2>6. \A v \in Values : end + BlocBytes + Size[v] + QueueBytes - 1 <= MaxBytes
    BY <1>2, <1>3, SizesAre
  <2>7. end + BlocBytes \in Nat /\ end + BlocBytes > HeadBytes + 1
    BY <1>2, SizesAre
  <2> QED
    BY <2>1, <2>2, <2>3, <2>4, <2>5, <2>6, <2>7
<1>6. CASE ~Grown(i)
  <2>1. BulkEnd(i) = end /\ BulkChain(i) = chain /\ BulkDisk(i) = disk
    BY <1>6 DEF BulkEnd, BulkChain, BulkDisk, end
  <2>2. \A v \in Values : end + Size[v] + QueueBytes - 1 <= MaxBytes
    BY <1>2, <1>3, SizesAre
  <2> QED
    BY <2>1, <2>2, <1>1, <1>2, <1>4
<1> QED
  BY <1>5, <1>6

\* What a step of bulk mode has to show.
LEMMA BulkKeeps ==
  ASSUME IInv, pc = "bulk", pc' = pc, entries' = entries, op' = op, target' = target,
         chain' \in Seq(1..MaxBytes), Len(chain') <= MaxBlocs,
         IsBytes(disk'),
         bulk' = [entries |-> bulk'.entries, end |-> bulk'.end, specifics |-> bulk'.specifics],
         Placed(bulk'.entries, chain', bulk'.end),
         Gaps(areas', bulk'.entries, chain', bulk'.end, NoArea),
         bulk'.end <= Len(disk') + 1, Len(disk') <= bulk'.end + QueueBytes - 1,
         bulk'.end + QueueBytes - 1 <= MaxBytes
  PROVE  IInv'
<1> USE DEF IInv
<1>1. BulkInv'
  BY DEF BulkInv
<1>2. Types'
  <2>1. Len(disk') \in Nat /\ bulk'.end \in Nat
    BY DiskIs, ChainedIs DEF Placed
  <2>2. Len(disk') <= MaxBytes
    BY <2>1, SizesAre
  <2> QED
    BY <2>2 DEF Types, Gaps
<1>3. PlacesInv' /\ WholeInv' /\ ReachInv' /\ RoomInv' /\ GrowthInv' /\ MoveInv'
  BY DEF PlacesInv, WholeInv, ReachInv, RoomInv, GrowthInv, MoveInv
<1> QED
  BY <1>1, <1>2, <1>3

\* The cases of setDefinitionBulk.
BulkFound(i, content) == FindNewArea(areas, ContentSize(content), BulkEnd(i))
BulkOld(i) == bulk.entries[i]

LEMMA SetBulkIs ==
  ASSUME IInv, NEW i \in Idents, NEW content \in Contents, SetBulk(i, content)
  PROVE  /\ pc = "bulk" /\ pc' = pc /\ entries' = entries /\ op' = op /\ target' = target
         /\ Fits(i, bulk.end) /\ chain' = BulkChain(i)
         /\ \/ /\ i \notin Reach(chain')
               /\ disk' = BulkDisk(i) /\ areas' = areas
               /\ bulk' = [entries |-> bulk.entries, end |-> BulkEnd(i),
                           specifics |-> bulk.specifics]
            \/ /\ i \in Reach(chain') /\ content = {}
               /\ disk' = BulkDisk(i) /\ areas' = Vacated(areas, BulkOld(i))
               /\ bulk' = [entries |-> [bulk.entries EXCEPT ![i] = NoArea],
                           end |-> BulkEnd(i), specifics |-> TRUE]
            \/ /\ i \in Reach(chain') /\ content # {}
               /\ ContentSize(content) <= BulkOld(i).len
               /\ disk' = Written(BulkDisk(i), BulkOld(i).at, Definition(i, content))
               /\ areas' = areas
               /\ bulk' = [entries |-> [bulk.entries EXCEPT ![i] = BulkOld(i)],
                           end |-> BulkEnd(i), specifics |-> TRUE]
            \/ /\ i \in Reach(chain') /\ content # {}
               /\ ContentSize(content) > BulkOld(i).len
               /\ disk' = Written(BulkDisk(i), BulkFound(i, content).area.at, Definition(i, content))
               /\ areas' = Vacated(BulkFound(i, content).empties, BulkOld(i))
               /\ bulk' = [entries |-> [bulk.entries EXCEPT ![i] = BulkFound(i, content).area],
                           end |-> IF BulkFound(i, content).atEnd
                                   THEN BulkEnd(i) + ContentSize(content) ELSE BulkEnd(i),
                           specifics |-> TRUE]
<1> DEFINE old == BulkOld(i)
           size == ContentSize(content)
           found == BulkFound(i, content)
           place == IF size <= old.len THEN old ELSE found.area
           moved == content # {} /\ size > old.len
<1>1. /\ pc = "bulk" /\ pc' = pc /\ entries' = entries /\ op' = op /\ target' = target
      /\ Fits(i, bulk.end) /\ chain' = BulkChain(i)
      /\ IF i \notin Reach(chain')
         THEN /\ disk' = BulkDisk(i)
              /\ bulk' = [bulk EXCEPT !.end = BulkEnd(i)]
              /\ areas' = areas
         ELSE /\ disk' = IF content = {} THEN BulkDisk(i)
                         ELSE Written(BulkDisk(i), place.at, Definition(i, content))
              /\ areas' = IF content = {} THEN Vacated(areas, old)
                          ELSE IF moved THEN Vacated(found.empties, old)
                          ELSE areas
              /\ bulk' = [entries |-> [bulk.entries EXCEPT
                                         ![i] = IF content = {} THEN NoArea ELSE place],
                          end |-> IF moved /\ found.atEnd THEN BulkEnd(i) + size ELSE BulkEnd(i),
                          specifics |-> TRUE]
  BY DEF SetBulk, BulkChain, BulkEnd, BulkDisk, BulkFound, BulkOld, Grown
<1>2. bulk = [entries |-> bulk.entries, end |-> bulk.end, specifics |-> bulk.specifics]
  BY <1>1 DEF IInv, BulkInv
<1>3. [bulk EXCEPT !.end = BulkEnd(i)]
        = [entries |-> bulk.entries, end |-> BulkEnd(i), specifics |-> bulk.specifics]
  BY <1>2
<1>4. size \in Nat /\ old.len \in Nat
  <2>1. Placed(bulk.entries, chain, bulk.end)
    BY <1>1 DEF IInv, BulkInv
  <2>2. old \in Areas
    BY <2>1 DEF Placed, BulkOld
  <2>3. content = {} \/ \E v \in Values : content = {v}
    BY DEF Contents
  <2>4. size \in Nat
    BY <2>3, ContentIs, SizesAre DEF ContentSize
  <2> QED
    BY <2>2, <2>4 DEF Areas
<1> HIDE DEF old, size, found
<1>5. CASE i \notin Reach(chain')
  BY <1>1, <1>3, <1>5
<1>6. CASE i \in Reach(chain') /\ content = {}
  BY <1>1, <1>6 DEF old
<1>7. CASE i \in Reach(chain') /\ content # {} /\ size <= old.len
  <2>1. place = old /\ ~moved
    BY <1>4, <1>7
  <2> QED
    BY <2>1, <1>1, <1>7 DEF old, size, found
<1>8. CASE i \in Reach(chain') /\ content # {} /\ size > old.len
  <2>1. place = found.area /\ moved
    BY <1>4, <1>8
  <2> QED
    BY <2>1, <1>1, <1>8 DEF old, size, found
<1> QED
  BY <1>4, <1>5, <1>6, <1>7, <1>8

LEMMA SetBulkKeeps ==
  ASSUME IInv, NEW i \in Idents, NEW content \in Contents, SetBulk(i, content)
  PROVE  IInv'
<1> DEFINE blocs == BulkChain(i)
           end == BulkEnd(i)
           bytes == BulkDisk(i)
           ents == bulk.entries
           old == BulkOld(i)
           size == ContentSize(content)
           found == BulkFound(i, content)
<1>1. /\ pc = "bulk" /\ pc' = pc /\ entries' = entries /\ op' = op /\ target' = target
      /\ Fits(i, bulk.end) /\ chain' = blocs
  BY SetBulkIs
<1>2. /\ end \in Nat /\ end > HeadBytes + 1
      /\ blocs \in Seq(1..MaxBytes) /\ Len(blocs) <= MaxBlocs
      /\ IsBytes(bytes) /\ Len(bytes) \in Nat
      /\ Placed(ents, blocs, end)
      /\ Gaps(areas, ents, blocs, end, NoArea)
      /\ end <= Len(bytes) + 1
      /\ Len(bytes) <= end + QueueBytes - 1
      /\ \A v \in Values : end + Size[v] + QueueBytes - 1 <= MaxBytes
  BY <1>1, BulkGrows DEF IInv
<1>3. end + QueueBytes - 1 <= MaxBytes
  <2>1. PICK v \in Values : TRUE
    BY SizesAssumption
  <2>2. end + Size[v] + QueueBytes - 1 <= MaxBytes
    BY <1>2
  <2> HIDE DEF end
  <2> QED
    BY <2>2, <1>2, SizesAre
<1>4. old \in Areas /\ old = ents[i]
  BY <1>2 DEF Placed, BulkOld
<1>5. CASE /\ i \notin Reach(chain')
           /\ disk' = bytes /\ areas' = areas
           /\ bulk' = [entries |-> ents, end |-> end, specifics |-> bulk.specifics]
  <2>1. bulk'.entries = ents /\ bulk'.end = end
        /\ bulk' = [entries |-> bulk'.entries, end |-> bulk'.end, specifics |-> bulk'.specifics]
    BY <1>5
  <2> HIDE DEF blocs, end, bytes, ents
  <2> QED
    BY <2>1, <1>1, <1>2, <1>3, <1>5, BulkKeeps
<1>6. CASE /\ i \in Reach(chain') /\ content = {}
           /\ disk' = bytes /\ areas' = Vacated(areas, old)
           /\ bulk' = [entries |-> [ents EXCEPT ![i] = NoArea], end |-> end, specifics |-> TRUE]
  <2> DEFINE more == [ents EXCEPT ![i] = NoArea]
  <2>1. bulk'.entries = more /\ bulk'.end = end
        /\ bulk' = [entries |-> bulk'.entries, end |-> bulk'.end, specifics |-> bulk'.specifics]
    BY <1>6
  <2> HIDE DEF blocs, end, bytes, ents, old
  <2>2. \A a \in Areas : Apart(NoArea, a)
    BY NoAreaIs DEF Apart, End, Areas
  <2>3. Placed(more, blocs, end)
    <3>1. \A j \in Idents : i # j => Apart(NoArea, ents[j])
      BY <2>2, <1>2 DEF Placed
    <3>2. Fit(NoArea, i, blocs, end)
      BY DEF Fit
    <3> QED
      BY <3>1, <3>2, <1>2, NoAreaIs, MovedPlaced
  <2>4. Gaps(areas', more, blocs, end, NoArea)
    <3>1. Apart(NoArea, ents[i])
      BY <2>2, <1>4
    <3>2. Gaps(Vacated(areas, ents[i]), more, blocs, end, NoArea)
      BY <3>1, <1>2, NoAreaIs, VacatedGaps
    <3> QED
      BY <3>2, <1>4, <1>6
  <2> HIDE DEF more
  <2> QED
    BY <2>1, <2>3, <2>4, <1>1, <1>2, <1>3, <1>6, BulkKeeps
<1>7. CASE /\ i \in Reach(chain') /\ content # {}
           /\ size <= old.len
           /\ disk' = Written(bytes, old.at, Definition(i, content))
           /\ areas' = areas
           /\ bulk' = [entries |-> [ents EXCEPT ![i] = old], end |-> end, specifics |-> TRUE]
  <2>1. [ents EXCEPT ![i] = old] = ents
    BY <1>2, <1>4 DEF Placed
  <2>2. bulk'.entries = ents /\ bulk'.end = end
        /\ bulk' = [entries |-> bulk'.entries, end |-> bulk'.end, specifics |-> bulk'.specifics]
    BY <2>1, <1>7
  <2>3. PICK v \in Values : content = {v} /\ size = Size[v]
    BY <1>7, ContentIs DEF Contents
  <2> HIDE DEF blocs, end, bytes, ents, old, size
  <2>4. old.at \in Nat /\ old.at > 0 /\ old.at + Size[v] - 1 <= Len(bytes)
    <3>1. old.len > 0 /\ old.len \in Nat
      BY <2>3, <1>4, <1>7, SizesAre DEF Areas
    <3>2. old.at \in Nat /\ End(old) = old.at + old.len /\ End(old) <= end /\ old.at > HeadBytes
      <4>1. ents[i] # NoArea
        BY <3>1, <1>4, NoAreaIs
      <4> QED
        BY <4>1, <1>2, <1>4, PlacedIs
    <3>3. old.at > 0 /\ size <= old.len /\ size \in Nat /\ size = Size[v]
      BY <2>3, <3>2, <1>7, SizesAre
    <3>4. old.at + size - 1 <= Len(bytes)
      BY <3>1, <3>2, <3>3, <1>2
    <3> QED
      BY <3>2, <3>3, <3>4
  <2>5. IsBytes(disk') /\ Len(disk') = Len(bytes)
    <3> DEFINE at == old.at
               w == Written(bytes, at, Definition(i, {v}))
    <3>1. disk' = w /\ at \in Nat /\ at > 0 /\ at + Size[v] - 1 <= Len(bytes)
      BY <2>3, <2>4, <1>7
    <3> HIDE DEF at
    <3>2. IsBytes(w) /\ Len(w) = IF at + Size[v] - 1 > Len(bytes) THEN at + Size[v] - 1 ELSE Len(bytes)
      BY <3>1, <1>2, DefinitionWritten
    <3> HIDE DEF w
    <3>3. Size[v] \in Nat
      BY SizesAre
    <3> QED
      BY <3>1, <3>2, <3>3, <1>2
  <2> QED
    BY <2>2, <2>5, <1>1, <1>2, <1>3, <1>7, BulkKeeps
<1>8. CASE /\ i \in Reach(chain') /\ content # {}
           /\ size > old.len
           /\ disk' = Written(bytes, found.area.at, Definition(i, content))
           /\ areas' = Vacated(found.empties, old)
           /\ bulk' = [entries |-> [ents EXCEPT ![i] = found.area],
                       end |-> IF found.atEnd THEN end + size ELSE end,
                       specifics |-> TRUE]
  <2> DEFINE a == found.area
             last == IF found.atEnd THEN end + size ELSE end
             more == [ents EXCEPT ![i] = a]
  <2>1. bulk'.entries = more /\ bulk'.end = last
        /\ bulk' = [entries |-> bulk'.entries, end |-> bulk'.end, specifics |-> bulk'.specifics]
    BY <1>8
  <2>2. PICK v \in Values : content = {v} /\ size = Size[v]
    BY <1>8, ContentIs DEF Contents
  <2>3. found = FindNewArea(areas, size, end)
    BY DEF BulkFound
  <2> HIDE DEF blocs, end, bytes, ents, old, size, found
  <2>4. size \in Nat /\ size >= MinSize /\ size > 0
    BY <2>2, SizesAre
  <2>5. /\ a \in Areas /\ a.len >= size /\ a # NoArea
        /\ a.at > HeadBytes /\ last \in Nat /\ End(a) <= last
        /\ found.atEnd \in BOOLEAN
        /\ found.atEnd => a = Area(end, size) /\ last = end + size
        /\ ~found.atEnd => last = end
        /\ \A j \in Idents : Apart(a, ents[j])
        /\ Placed(more, blocs, last)
        /\ Gaps(found.empties, ents, blocs, last, a)
    <3>1. i \in Reach(blocs)
      BY <1>1, <1>8
    <3>2. Placed(ents, blocs, end) /\ Gaps(areas, ents, blocs, end, NoArea)
      BY <1>2
    <3> QED
      BY <2>3, <2>4, <3>1, <3>2, FoundPlaced
  <2>6. end <= last /\ Placed(ents, blocs, last)
    <3>1. end <= last
      BY <2>4, <2>5, <1>2
    <3> QED
      BY <3>1, <2>5, <1>2, PlacedHigher
  <2>7. Gaps(areas', more, blocs, last, NoArea)
    <3>1. Apart(a, ents[i])
      BY <2>5
    <3> HIDE DEF a, last
    <3>2. Gaps(Vacated(found.empties, ents[i]), more, blocs, last, NoArea)
      BY <3>1, <2>5, <2>6, VacatedGaps
    <3> QED
      BY <3>2, <1>4, <1>8
  <2>8. a.at \in Nat /\ a.len \in Nat /\ a.at > 0 /\ End(a) = a.at + a.len
    BY <2>5, SizesAre DEF Areas, End
  <2>9. IsBytes(disk') /\ Len(disk') = IF a.at + size - 1 > Len(bytes) THEN a.at + size - 1
                                       ELSE Len(bytes)
    <3> DEFINE at == a.at
               w == Written(bytes, at, Definition(i, {v}))
    <3>1. disk' = w /\ at \in Nat /\ at > 0
      BY <2>2, <2>8, <1>8
    <3> HIDE DEF at
    <3>2. IsBytes(w) /\ Len(w) = IF at + Size[v] - 1 > Len(bytes) THEN at + Size[v] - 1 ELSE Len(bytes)
      BY <3>1, <1>2, DefinitionWritten
    <3> HIDE DEF w
    <3>3. IsBytes(disk') /\ Len(disk') = IF at + size - 1 > Len(bytes) THEN at + size - 1
                                         ELSE Len(bytes)
      BY <3>1, <3>2, <2>2
    <3> QED
      BY <3>3 DEF at
  <2>10. last <= Len(disk') + 1 /\ Len(disk') <= last + QueueBytes - 1
    <3>1. CASE found.atEnd
      <4> HIDE DEF a, last
      <4>1. a.at = end /\ last = end + size
        <5>1. a = Area(end, size) /\ last = end + size
          BY <3>1, <2>5
        <5>2. Area(end, size).at = end
          BY <2>4, <1>2, AreaIs
        <5> QED
          BY <5>1, <5>2
      <4> QED
        BY <4>1, <2>4, <2>9, <1>2, SizesAre
    <3>2. CASE ~found.atEnd
      <4>1. last = end /\ a.at + size - 1 <= Len(bytes)
        BY <3>2, <2>4, <2>5, <2>8, <1>2
      <4> HIDE DEF a, last
      <4> QED
        BY <4>1, <2>4, <2>8, <2>9, <1>2
    <3> QED
      BY <3>1, <3>2
  <2>11. last + QueueBytes - 1 <= MaxBytes
    BY <2>2, <2>4, <1>2, <1>3, SizesAre
  <2> HIDE DEF a, last, more
  <2> QED
    BY <2>1, <2>5, <2>7, <2>9, <2>10, <2>11, <1>1, <1>2, BulkKeeps
<1> QED
  BY <1>5, <1>6, <1>7, <1>8, SetBulkIs

\* Every step.
LEMMA NextKeeps ==
  ASSUME IInv, [Next]_vars
  PROVE  IInv'
<1>1. CASE \E i \in Idents, content \in Contents : Set(i, content) \/ SetBulk(i, content)
  BY <1>1, SetKeeps, SetBulkKeeps
<1>2. CASE Step
  BY <1>2, AddBlocKeeps, AddBlocQueueKeeps, LinkBlocKeeps, EraseKeeps, RewriteKeeps, MoveKeeps,
     WriteQueueKeeps, WriteEntryKeeps DEF Step
<1>3. CASE Stop \/ Open \/ RefuseToOpen
  BY <1>3, StopKeeps, OpenKeeps, RefuseToOpenKeeps
<1>4. CASE BeginBulk \/ EndBulk \/ CrashInBulk
  BY <1>4, BeginBulkKeeps, EndBulkKeeps, CrashInBulkKeeps
<1>5. CASE UNCHANGED vars
  BY <1>5 DEF vars, IInv, Types, PlacesInv, WholeInv, ReachInv, RoomInv, GrowthInv, MoveInv,
              BulkInv, Coming, Old
<1> QED
  BY <1>1, <1>2, <1>3, <1>4, <1>5 DEF Next

\* Definitions, blocks and empty areas are where the invariant says, at every
\* step of an operation and after a crash between any two.
THEOREM FileInvariant == Spec => []IInv
<1>1. IInv /\ [Next]_vars => IInv'
  BY NextKeeps
<1> QED
  BY InitHolds, <1>1, PTL DEF Spec

-----------------------------------------------------------------------------
(* What it says of the file. *)

LEMMA IsAreaIs ==
  ASSUME NEW a \in Areas
  PROVE  IsArea(a)
BY DEF IsArea, Area, Areas

\* Types of the variables, and the file within its bound.
THEOREM FileTypes == Spec => []TypeOK
<1>1. IInv => TypeOK
  <2> SUFFICES ASSUME IInv PROVE TypeOK
    OBVIOUS
  <2>1. Types
    BY DEF IInv
  <2>2. \A i \in Idents : IsArea(entries[i])
    BY <2>1, IsAreaIs DEF Types
  <2>3. \A k \in DOMAIN areas : IsArea(areas[k]) /\ areas[k].len > 0
    <3>1. Separate(areas)
      BY <2>1 DEF Types
    <3>2. DOMAIN areas = 1..Len(areas) /\ \A k \in 1..Len(areas) : areas[k] \in Areas
      BY <3>1, LenProperties, ElementOfSeq DEF Separate
    <3> QED
      BY <3>1, <3>2, IsAreaIs DEF Separate
  <2> QED
    BY <2>1, <2>2, <2>3, IsAreaIs DEF TypeOK, Types
<1> QED
  BY FileInvariant, <1>1, PTL

\* The places the writer goes by.
LEMMA CurrentPlaced ==
  ASSUME IInv, pc # "lost"
  PROVE  Placed(Current, chain, DataEnd)
BY EndIs DEF IInv, BulkInv, Current, DataEnd

\* The area a definition is moved to is apart from all that is used.
LEMMA TargetApart ==
  ASSUME IInv, pc \in {"queue", "entry"}, target # NoArea
  PROVE  \A a \in Occupied(Current, chain, DataEnd) : Apart(target, a)
<1> DEFINE end == QueueAt(disk)
<1>1. Current = entries /\ DataEnd = end
  BY DEF Current, DataEnd
<1>2. /\ Apart(target, Old) /\ Placed(Coming, chain, end)
  BY DEF IInv, MoveInv
<1>3. /\ op.ident \in Idents /\ target \in Areas
      /\ Coming \in [Idents -> Areas] /\ Coming[op.ident] = target
      /\ \A j \in Idents : j # op.ident => Coming[j] = entries[j]
  BY DEF IInv, Types, Coming
<1>4. end \in Nat /\ DOMAIN chain = 1..Len(chain)
  BY <1>2, ChainedIs DEF Placed
<1> HIDE DEF end
<1>5. \A j \in Idents : Apart(target, entries[j])
  BY <1>2, <1>3 DEF Placed, Old
<1>6. \A b \in 1..Len(chain) : Apart(target, Area(chain[b], BlocBytes))
  BY <1>2, <1>3 DEF Placed, Fit, BlocOf
<1>7. Apart(target, Area(end, QueueBytes))
  <2>1. End(target) <= end
    BY <1>2, <1>3 DEF Placed, Fit
  <2>2. Area(end, QueueBytes).at = end
    BY <1>4, AreaIs, SizesAre
  <2> QED
    BY <2>1, <2>2 DEF Apart
<1> QED
  BY <1>1, <1>4, <1>5, <1>6, <1>7 DEF Occupied, Reach

\* At every step, and as a crash leaves the file, no byte has two uses: head,
\* blocks, definitions, the place of a definition being moved, queue.
THEOREM BytesHaveOneUse == Spec => []NoOverlap
<1>1. IInv => NoOverlap
  <2> SUFFICES ASSUME IInv, pc # "lost"
               PROVE  /\ Distinct(Uses)
                      /\ \A i \in Reach(chain), j \in Reach(chain) :
                           i # j /\ Current[i] # NoArea => Current[i] # Current[j]
    BY DEF NoOverlap
  <2> DEFINE used == Occupied(Current, chain, DataEnd)
             head == Area(1, HeadBytes)
             moved == IF pc \in {"queue", "entry"} /\ target # NoArea THEN {target} ELSE {}
  <2>1. Placed(Current, chain, DataEnd)
    BY CurrentPlaced
  <2>2. /\ \A a \in used : a \in Areas /\ a.at > HeadBytes
        /\ \A a \in used, b \in used : a # b => Apart(a, b)
    BY <2>1, UsesApart
  <2>3. head \in Areas /\ End(head) = 1 + HeadBytes
    BY AreaIs, SizesAre
  <2>4. \A a \in moved : /\ a = target /\ a \in Areas /\ a.at > HeadBytes
                         /\ \A b \in used : Apart(a, b)
    <3> SUFFICES ASSUME pc \in {"queue", "entry"}, target # NoArea
                 PROVE  /\ target \in Areas /\ target.at > HeadBytes
                        /\ \A b \in used : Apart(target, b)
      OBVIOUS
    <3>1. Placed(Coming, chain, QueueAt(disk))
      BY DEF IInv, MoveInv
    <3>2. op.ident \in Idents /\ Coming[op.ident] = target /\ target \in Areas
      BY DEF IInv, Types, Coming
    <3> QED
      BY <3>1, <3>2, TargetApart DEF Placed, Fit
  <2>5. Uses = {head} \cup used \cup moved
    BY DEF Uses
  <2> HIDE DEF used, head, moved
  <2>6. \A a \in Areas : a.at > HeadBytes => Apart(head, a)
    BY <2>3, SizesAre DEF Apart, Areas
  <2>7. \A a \in Uses : a \in Areas
    BY <2>2, <2>3, <2>4, <2>5
  <2>8. \A a \in Uses, b \in Uses : a = b \/ Apart(a, b)
    <3> SUFFICES ASSUME NEW a \in Uses, NEW b \in Uses, a # b PROVE Apart(a, b)
      OBVIOUS
    <3>1. CASE a = head \/ b = head
      <4>1. \A c \in Uses : c # head => Apart(head, c)
        BY <2>2, <2>4, <2>5, <2>6
      <4> QED
        BY <3>1, <4>1 DEF Apart
    <3>2. CASE a \in used /\ b \in used
      BY <3>2, <2>2
    <3>3. CASE a \in moved \/ b \in moved
      <4>1. \A c \in moved, d \in used : Apart(c, d) /\ Apart(d, c)
        BY <2>4 DEF Apart
      <4>2. \A c \in moved, d \in moved : c = d
        BY <2>4
      <4> QED
        BY <3>1, <3>3, <4>1, <4>2, <2>5
    <3> QED
      BY <3>1, <3>2, <3>3, <2>5
  <2>9. Distinct(Uses)
    <3> SUFFICES ASSUME NEW a \in Uses, NEW b \in Uses, Apart(a, b)
                 PROVE  Bytes(a) \cap Bytes(b) = {}
      BY <2>8 DEF Distinct
    <3>1. \A p \in Bytes(a) : p \in Nat
      BY <2>7 DEF Bytes, Areas
    <3>2. \A p \in Nat : ~(p \in Bytes(a) /\ p \in Bytes(b))
      BY <2>7, ApartIs
    <3> QED
      BY <3>1, <3>2
  <2>10. ASSUME NEW i \in Reach(chain), NEW j \in Reach(chain), i # j, Current[i] # NoArea,
                Current[i] = Current[j]
         PROVE  FALSE
    <3>1. i \in Idents /\ j \in Idents
      BY DEF Reach
    <3>2. Apart(Current[i], Current[i])
      BY <3>1, <2>1, <2>10 DEF Placed
    <3>3. Current[i].len > 0 /\ Current[i].at \in Nat /\ Current[i].len \in Nat
          /\ End(Current[i]) = Current[i].at + Current[i].len
      BY <3>1, <2>1, <2>10, PlacedIs
    <3> QED
      BY <3>2, <3>3 DEF Apart
  <2> QED
    BY <2>9, <2>10
<1> QED
  BY FileInvariant, <1>1, PTL

\* The list of empty areas in memory is the one a reopening would compute from
\* the file, in order, none touching another: whatever moved, grew or was
\* erased, no place is lost and none in use is in it.
THEOREM EmptiesAreWhatIsLeft == Spec => []EmptiesAreGaps
<1>1. IInv => EmptiesAreGaps
  <2> SUFFICES ASSUME IInv, pc \in {"ready", "bulk"}
               PROVE  /\ Beyond(areas) = Beyond(EmptySpaces(Occupied(Current, chain, DataEnd)))
                      /\ \A k \in DOMAIN areas, l \in DOMAIN areas :
                           k < l => End(areas[k]) < areas[l].at
    BY DEF EmptiesAreGaps
  <2>1. Placed(Current, chain, DataEnd)
    BY CurrentPlaced
  <2>2. Gaps(areas, Current, chain, DataEnd, NoArea)
    BY DEF IInv, WholeInv, BulkInv, Current, DataEnd
  <2>3. Gaps(EmptySpaces(Occupied(Current, chain, DataEnd)), Current, chain, DataEnd, NoArea)
    BY <2>1, ReopenedGaps
  <2>4. Beyond(areas) = Beyond(EmptySpaces(Occupied(Current, chain, DataEnd)))
    BY <2>1, <2>2, <2>3, SameGaps
  <2>5. Separate(areas)
    BY <2>2 DEF Gaps
  <2>6. DOMAIN areas = 1..Len(areas)
    BY <2>5, LenProperties DEF Separate
  <2> QED
    BY <2>4, <2>5, <2>6 DEF Separate
<1> QED
  BY FileInvariant, <1>1, PTL

-----------------------------------------------------------------------------
(* The dictionary. *)

\* What is read of an ident, by its bytes and its place.
ReadIn(d, a, i) == {v \in Values : a # NoArea /\ Holds(d, a, i, v)}

LEMMA ReadableIs == \A i : Readable(i) = ReadIn(disk, Current[i], i)
BY DEF Readable, ReadIn, Holds

\* Nothing is read of an ident without a place.
LEMMA NothingRead == \A d, i : ReadIn(d, NoArea, i) = {}
BY DEF ReadIn

\* A definition that is held is what is read.
LEMMA HeldIsRead ==
  ASSUME NEW d, NEW a, a # NoArea, NEW i, NEW v \in Values, Holds(d, a, i, v)
  PROVE  ReadIn(d, a, i) = {v}
<1>1. ASSUME NEW u \in Values, Holds(d, a, i, u) PROVE u = v
  <2>1. 1 \in 1..Size[v] /\ 1 \in 1..Size[u]
    BY SizesAre
  <2>2. d[a.at + 1 - 1] = <<"definition", i, v, 1>> /\ d[a.at + 1 - 1] = <<"definition", i, u, 1>>
    BY <2>1, <1>1 DEF Holds
  <2> QED
    BY <2>2
<1> QED
  BY <1>1 DEF ReadIn

\* A write apart from where an ident is, in the file, leaves what is read of it.
LEMMA ReadKept ==
  ASSUME NEW d, IsBytes(d), NEW cells, IsBytes(cells), NEW at \in Nat, at > 0,
         NEW a \in Areas,
         a # NoArea => /\ a.at > 0 /\ End(a) <= Len(d) + 1
                       /\ End(a) <= at \/ at + Len(cells) <= a.at,
         NEW i
  PROVE  ReadIn(Written(d, at, cells), a, i) = ReadIn(d, a, i)
<1>1. ASSUME a # NoArea, NEW v \in Values
      PROVE  Holds(Written(d, at, cells), a, i, v) <=> Holds(d, a, i, v)
  BY <1>1, KeptIs
<1> QED
  BY <1>1 DEF ReadIn

\* Nothing written beyond the definitions changes what is read.
LEMMA ReadBelow ==
  ASSUME NEW d, IsBytes(d), NEW cells, IsBytes(cells),
         NEW ents, NEW blocs, NEW end, Placed(ents, blocs, end), end <= Len(d) + 1,
         NEW at \in Nat, end <= at, NEW i \in Idents
  PROVE  ReadIn(Written(d, at, cells), ents[i], i) = ReadIn(d, ents[i], i)
<1>1. end \in Nat /\ end > HeadBytes + 1
  BY ChainedIs DEF Placed
<1>2. /\ ents[i] \in Areas /\ End(ents[i]) \in Nat /\ End(ents[i]) <= end
      /\ ents[i].at \in Nat
      /\ ents[i] # NoArea => ents[i].at > HeadBytes
  BY PlacedIs
<1>3. Len(d) \in Nat /\ at > 0
  BY <1>1, DiskIs, SizesAre
<1> DEFINE a == ents[i]
<1>4. a # NoArea => a.at > 0 /\ End(a) <= Len(d) + 1 /\ End(a) <= at
  BY <1>1, <1>2, <1>3, SizesAre
<1>5. a \in Areas
  BY <1>2
<1> HIDE DEF a
<1>6. ReadIn(Written(d, at, cells), a, i) = ReadIn(d, a, i)
  BY <1>3, <1>4, <1>5, ReadKept
<1> QED
  BY <1>6 DEF a

LEMMA ReadBelowQueue ==
  ASSUME NEW d, IsBytes(d), NEW s,
         NEW ents, NEW blocs, NEW end, Placed(ents, blocs, end), end <= Len(d) + 1,
         NEW at \in Nat, end <= at
  PROVE  \A i \in Idents : ReadIn(Written(d, at, Queue(s)), ents[i], i) = ReadIn(d, ents[i], i)
<1> DEFINE cells == Queue(s)
<1>1. IsBytes(cells)
  BY QueueIs
<1> HIDE DEF cells
<1>2. \A i \in Idents : ReadIn(Written(d, at, cells), ents[i], i) = ReadIn(d, ents[i], i)
  BY <1>1, ReadBelow
<1> QED
  BY <1>2 DEF cells

\* A definition written in an area apart from where an ident is.
LEMMA ReadApart ==
  ASSUME NEW d, IsBytes(d), NEW a \in Areas, a.at > 0, NEW i, NEW v \in Values, Size[v] <= a.len,
         NEW ents, NEW blocs, NEW end, Placed(ents, blocs, end), end <= Len(d) + 1,
         NEW j \in Idents, Apart(a, ents[j])
  PROVE  ReadIn(Written(d, a.at, Definition(i, {v})), ents[j], j) = ReadIn(d, ents[j], j)
<1> DEFINE cells == Definition(i, {v})
           b == ents[j]
           at == a.at
<1>1. IsBytes(cells) /\ Len(cells) = Size[v]
  BY DefinitionIs
<1>2. end \in Nat
  BY ChainedIs DEF Placed
<1>3. /\ b \in Areas /\ End(b) \in Nat /\ End(b) <= end /\ b.at \in Nat
      /\ b # NoArea => b.at > HeadBytes
  BY PlacedIs
<1>4. Len(d) \in Nat
  BY DiskIs
<1>5. End(a) <= b.at \/ End(b) <= a.at
  BY DEF Apart
<1>6. at \in Nat /\ a.len \in Nat /\ End(a) = at + a.len /\ at > 0 /\ at = a.at
  BY DEF Areas, End
<1> HIDE DEF cells, b, at
<1>7. b # NoArea => /\ b.at > 0 /\ End(b) <= Len(d) + 1
                    /\ End(b) <= at \/ at + Len(cells) <= b.at
  <2> SUFFICES ASSUME b # NoArea
               PROVE  /\ b.at > 0 /\ End(b) <= Len(d) + 1
                      /\ End(b) <= at \/ at + Len(cells) <= b.at
    OBVIOUS
  <2>1. b.at > HeadBytes /\ HeadBytes \in Nat
    BY <1>3, SizesAre
  <2>2. b.at > 0
    BY <2>1, <1>3
  <2>3. End(b) <= Len(d) + 1
    BY <1>2, <1>3, <1>4
  <2>4. End(b) <= at \/ at + Len(cells) <= b.at
    <3>1. Size[v] \in Nat /\ Size[v] <= a.len
      BY SizesAre
    <3>2. Len(cells) = Size[v]
      BY <1>1
    <3>3. at \in Nat /\ a.len \in Nat /\ b.at \in Nat /\ End(a) = at + a.len /\ at = a.at
      BY <1>3, <1>6
    <3> QED
      BY <3>1, <3>2, <3>3, <1>5
  <2> QED
    BY <2>2, <2>3, <2>4
<1>8. ReadIn(Written(d, at, cells), b, j) = ReadIn(d, b, j)
  BY <1>1, <1>3, <1>6, <1>7, ReadKept
<1> QED
  BY <1>8 DEF cells, b, at

\* What a step that writes no definition leaves.
LEMMA DictKept ==
  ASSUME pc # "lost", pc' # "lost",
         \A i \in Idents : ReadIn(disk', Current'[i], i) = ReadIn(disk, Current[i], i)
  PROVE  Dict' = Dict
<1>1. \A i : Readable(i)' = ReadIn(disk', Current'[i], i)
  BY DEF Readable, ReadIn, Holds
<1>2. \A i : Readable(i) = ReadIn(disk, Current[i], i)
  BY ReadableIs
<1> QED
  BY <1>1, <1>2 DEF Dict

\* What a step that changes the definition of one ident leaves.
LEMMA DictChanged ==
  ASSUME pc # "lost", pc' # "lost", NEW i \in Idents, NEW content,
         ReadIn(disk', Current'[i], i) = content,
         \A j \in Idents : j # i => ReadIn(disk', Current'[j], j) = ReadIn(disk, Current[j], j)
  PROVE  Dict' = [Dict EXCEPT ![i] = content]
<1>1. \A j : Readable(j)' = ReadIn(disk', Current'[j], j)
  BY DEF Readable, ReadIn, Holds
<1>2. \A j : Readable(j) = ReadIn(disk, Current[j], j)
  BY ReadableIs
<1>3. /\ Dict = [j \in Idents |-> Readable(j)]
      /\ Dict' = [j \in Idents |-> Readable(j)']
  BY DEF Dict
<1> QED
  BY <1>1, <1>2, <1>3

\* An ident is in reach when it is below the room there is.
LEMMA RoomIs ==
  ASSUME NEW blocs, Len(blocs) \in Nat, NEW i \in Idents
  PROVE  i \in Reach(blocs) <=> i < BlocSize * Len(blocs)
BY DEF Reach

LEMMA RoomGrows ==
  ASSUME NEW blocs, NEW S, blocs \in Seq(S), NEW at \in S
  PROVE  /\ Len(blocs) \in Nat /\ Len(Append(blocs, at)) = Len(blocs) + 1
         /\ BlocSize * Len(Append(blocs, at)) = BlocSize * Len(blocs) + BlocSize
         /\ BlocSize * Len(blocs) \in Nat
<1>1. Len(blocs) \in Nat
  BY LenProperties
<1>2. Len(Append(blocs, at)) = Len(blocs) + 1
  BY AppendProperties
<1>3. \A n \in Nat : BlocSize * (n + 1) = BlocSize * n + BlocSize /\ BlocSize * n \in Nat
  BY SizesAre
<1> QED
  BY <1>1, <1>2, <1>3

\* Where the writer is, outside of bulk mode.
LEMMA ModeIs ==
  /\ pc \in {"ready"} \cup Writing => Mode = "ready" /\ Current = entries /\ pc # "lost"
  /\ pc = "closed" => Mode = "closed" /\ UnderWay = {} /\ Current = entries
  /\ pc = "bulk" => Mode = "bulk" /\ UnderWay = {} /\ Current = bulk.entries
  /\ pc \in {"refused", "lost"} => Mode = "unusable" /\ UnderWay = {} /\ Current = entries
  /\ pc = "ready" => UnderWay = {}
  /\ pc \in {"bloc", "blocQueue", "link", "place", "queueAtEnd", "entry"} => UnderWay = {op}
  /\ pc = "queue" => UnderWay = IF target # NoArea THEN {op} ELSE {}
BY DEF Mode, UnderWay, Undone, Writing, Current

LEMMA ModeWillBe ==
  /\ pc' \in {"ready"} \cup Writing => Mode' = "ready" /\ Current' = entries' /\ pc' # "lost"
  /\ pc' = "closed" => Mode' = "closed" /\ UnderWay' = {} /\ Current' = entries'
  /\ pc' = "bulk" => Mode' = "bulk" /\ UnderWay' = {} /\ Current' = bulk'.entries
  /\ pc' \in {"refused", "lost"} => Mode' = "unusable" /\ UnderWay' = {} /\ Current' = entries'
  /\ pc' = "ready" => UnderWay' = {}
  /\ pc' \in {"bloc", "blocQueue", "link", "place", "queueAtEnd", "entry"} => UnderWay' = {op'}
  /\ pc' = "queue" => UnderWay' = IF target' # NoArea THEN {op'} ELSE {}
BY DEF Mode, UnderWay, Undone, Writing, Current

LEMMA InitRefines == Init => Promised!Init
<1> SUFFICES ASSUME Init PROVE Promised!Init
  OBVIOUS
<1>1. pc = "ready" /\ entries = [i \in Idents |-> NoArea] /\ chain = <<HeadBytes + 1>>
  BY DEF Init
<1>2. Mode = "ready" /\ UnderWay = {} /\ Current = entries
  BY <1>1, ModeIs
<1>3. Dict = [i \in Idents |-> {}]
  <2>1. \A i \in Idents : Readable(i) = {}
    BY <1>1, <1>2, ReadableIs, NothingRead
  <2> QED
    BY <2>1, <1>1 DEF Dict
<1>4. Room = BlocSize
  <2>1. Len(chain) = 1
    BY <1>1
  <2> QED
    BY <2>1, SizesAre DEF Room
<1> QED
  BY <1>2, <1>3, <1>4 DEF Promised!Init

LEMMA SetRefines ==
  ASSUME IInv, NEW i \in Idents, NEW content \in Contents, Set(i, content)
  PROVE  Promised!Next
<1>1. /\ pc = "ready" /\ pc' \in {"place", "bloc"} /\ op' = [ident |-> i, content |-> content]
      /\ disk' = disk /\ chain' = chain /\ entries' = entries
  BY DEF Set
<1>2. Mode = "ready" /\ UnderWay = {} /\ Current = entries
  BY <1>1, ModeIs
<1>3. Mode' = "ready" /\ UnderWay' = {op'} /\ Current' = entries'
  BY <1>1, ModeWillBe DEF Writing
<1>4. Dict' = Dict
  BY <1>1, <1>2, <1>3, DictKept
<1>5. Room' = Room
  BY <1>1 DEF Room
<1>6. Promised!Ask(i, content)
  BY <1>1, <1>2, <1>3, <1>4, <1>5 DEF Promised!Ask
<1> QED
  BY <1>6 DEF Promised!Next, Contents, Promised!Contents

\* A block is added: nothing happens until it is linked.
LEMMA AddBlocRefines ==
  ASSUME IInv, AddBloc \/ AddBlocQueue
  PROVE  UNCHANGED Promised!vars
<1>1. /\ pc \in {"bloc", "blocQueue"} /\ pc' \in {"blocQueue", "link"} /\ op' = op
      /\ chain' = chain /\ entries' = entries
  BY DEF AddBloc, AddBlocQueue
<1>2. /\ Mode = "ready" /\ UnderWay = {op} /\ Current = entries
      /\ Mode' = "ready" /\ UnderWay' = {op'} /\ Current' = entries'
  BY <1>1, ModeIs, ModeWillBe DEF Writing
<1>3. /\ Len(disk) \in Nat /\ QueueAt(disk) \in Nat /\ IsBytes(disk)
      /\ QueueAt(disk) + QueueBytes - 1 = Len(disk) /\ Placed(entries, chain, QueueAt(disk))
  BY <1>1, EndIs DEF IInv, Types
<1>4. \A i \in Idents : ReadIn(disk', entries[i], i) = ReadIn(disk, entries[i], i)
  <2>1. CASE AddBloc
    <3>1. disk' = Written(disk, QueueAt(disk), Bloc)
      BY <2>1 DEF AddBloc
    <3>2. QueueAt(disk) <= Len(disk) + 1
      BY <1>3, SizesAre
    <3> DEFINE end == QueueAt(disk)
    <3> HIDE DEF end
    <3>3. \A i \in Idents : ReadIn(Written(disk, end, Bloc), entries[i], i)
                              = ReadIn(disk, entries[i], i)
      <4>1. end \in Nat /\ end <= end /\ end <= Len(disk) + 1 /\ Placed(entries, chain, end)
        BY <3>2, <1>3 DEF end
      <4> QED
        BY <4>1, <1>3, BlocIs, ReadBelow
    <3> QED
      BY <3>1, <3>3 DEF end
  <2>2. CASE AddBlocQueue
    <3> DEFINE end == QueueAt(disk)
               at == End(target)
    <3>1. disk' = Written(disk, at, Queue(FALSE)) /\ pc = "blocQueue"
      BY <2>2 DEF AddBlocQueue
    <3>2. target \in Areas /\ Len(disk) <= at + QueueBytes - 1
      BY <3>1 DEF IInv, GrowthInv, Types
    <3>3. at \in Nat
      BY <3>2, BytesAre
    <3> HIDE DEF at
    <3>4. end <= at /\ end <= Len(disk) + 1
      BY <3>2, <3>3, <1>3, SizesAre
    <3>5. end \in Nat /\ Placed(entries, chain, end)
      BY <1>3
    <3> HIDE DEF end
    <3>6. IsBytes(disk)
      BY <1>3
    <3> DEFINE s == FALSE
    <3>7. disk' = Written(disk, at, Queue(s))
      BY <3>1
    <3> HIDE DEF s
    <3>8. \A i \in Idents : ReadIn(Written(disk, at, Queue(s)), entries[i], i)
                              = ReadIn(disk, entries[i], i)
      BY <3>3, <3>4, <3>5, <3>6, ReadBelowQueue
    <3> QED
      BY <3>7, <3>8
  <2> QED
    BY <2>1, <2>2
<1>5. Dict' = Dict
  BY <1>1, <1>2, <1>4, DictKept
<1> QED
  BY <1>1, <1>2, <1>5 DEF Promised!vars, Room

LEMMA LinkBlocRefines ==
  ASSUME IInv, LinkBloc
  PROVE  Promised!Next
<1>1. /\ pc = "link" /\ chain' = Append(chain, target.at) /\ disk' = disk /\ entries' = entries
      /\ \/ op.ident \in Reach(chain') /\ pc' = "place" /\ op' = op
         \/ op.ident \notin Reach(chain') /\ pc' = "ready" /\ op' = NoOp
  BY DEF LinkBloc
<1>2. /\ Mode = "ready" /\ UnderWay = {op} /\ Current = entries
      /\ Mode' = "ready" /\ Current' = entries'
      /\ UnderWay' = IF op.ident \in Reach(chain') THEN {op} ELSE {}
  BY <1>1, ModeIs, ModeWillBe DEF Writing
<1>3. Dict' = Dict
  BY <1>1, <1>2, DictKept DEF Writing
<1>4. target.at \in Nat /\ chain \in Seq(Nat)
  BY <1>1 DEF IInv, GrowthInv, Types, Placed, Chained, Areas
<1>5. /\ Len(chain) \in Nat /\ Len(chain') \in Nat /\ Room' = Room + BlocSize
  BY <1>1, <1>4, RoomGrows DEF Room
<1>6. op.ident \in Idents /\ op.ident \notin Reach(chain)
  BY <1>1 DEF IInv, Types, ReachInv
<1>7. op.ident >= Room /\ (op.ident \in Reach(chain') <=> op.ident < Room')
  <2>1. Room \in Nat /\ op.ident \in Int
    <3>1. BlocSize * Len(chain) \in Nat
      BY <1>4, RoomGrows
    <3>2. op.ident \in Int
      BY <1>6 DEF Idents
    <3> QED
      BY <3>1, <3>2 DEF Room
  <2>2. ~(op.ident < Room) /\ (op.ident \in Reach(chain') <=> op.ident < Room')
    BY <1>5, <1>6, RoomIs DEF Room
  <2> QED
    BY <2>1, <2>2
<1>8. UnderWay' = {o \in UnderWay : o.ident < Room'}
  BY <1>2, <1>7
<1>9. Promised!Grow
  BY <1>2, <1>3, <1>5, <1>7, <1>8 DEF Promised!Grow
<1> QED
  BY <1>9 DEF Promised!Next

\* The place is vacated; the definition is there until the indirection goes.
LEMMA EraseRefines ==
  ASSUME IInv, Erase
  PROVE  UNCHANGED Promised!vars
<1> DEFINE end == QueueAt(disk)
<1>1. /\ pc = "place" /\ pc' = "entry" /\ disk' = Written(disk, end, Queue(TRUE))
      /\ chain' = chain /\ entries' = entries /\ op' = op
  BY DEF Erase
<1>2. /\ Mode = "ready" /\ UnderWay = {op} /\ Current = entries
      /\ Mode' = "ready" /\ UnderWay' = {op'} /\ Current' = entries'
  BY <1>1, ModeIs, ModeWillBe DEF Writing
<1>3. /\ Len(disk) \in Nat /\ end \in Nat /\ IsBytes(disk) /\ end <= Len(disk) + 1
      /\ Placed(entries, chain, end)
  BY <1>1, EndIs, SizesAre DEF IInv, Types
<1> HIDE DEF end
<1>4. \A i \in Idents : ReadIn(disk', entries[i], i) = ReadIn(disk, entries[i], i)
  <2>1. end \in Nat /\ IsBytes(disk) /\ end <= Len(disk) + 1 /\ end <= end
        /\ Placed(entries, chain, end)
    BY <1>3
  <2> DEFINE s == TRUE
  <2>2. disk' = Written(disk, end, Queue(s))
    BY <1>1
  <2> HIDE DEF s
  <2>3. \A i \in Idents : ReadIn(Written(disk, end, Queue(s)), entries[i], i)
                            = ReadIn(disk, entries[i], i)
    BY <2>1, ReadBelowQueue
  <2> QED
    BY <2>2, <2>3
<1>5. Dict' = Dict
  BY <1>1, <1>2, <1>4, DictKept
<1> QED
  BY <1>1, <1>2, <1>5 DEF Promised!vars, Room

\* The definition that is written over its old one takes effect at once.
LEMMA RewriteRefines ==
  ASSUME IInv, Rewrite
  PROVE  Promised!Next
<1> DEFINE i == op.ident
<1>1. /\ pc = "place" /\ op.content # {} /\ Needed <= Old.len
      /\ disk' = Written(disk, Old.at, Definition(i, op.content))
      /\ target' = NoArea /\ pc' = "queue"
      /\ chain' = chain /\ entries' = entries
  BY DEF Rewrite
<1>2. /\ Mode = "ready" /\ UnderWay = {op} /\ Current = entries
      /\ Mode' = "ready" /\ UnderWay' = {} /\ Current' = entries'
  BY <1>1, ModeIs, ModeWillBe DEF Writing
<1>3. /\ Len(disk) \in Nat /\ QueueAt(disk) \in Nat /\ IsBytes(disk)
      /\ QueueAt(disk) <= Len(disk) + 1
      /\ Placed(entries, chain, QueueAt(disk))
  BY <1>1, EndIs, SizesAre DEF IInv, Types
<1>4. i \in Idents /\ i \in Reach(chain) /\ Old = entries[i] /\ Old \in Areas
  BY <1>1, PlaceIs DEF IInv, Old
<1>5. PICK v \in Values : op.content = {v} /\ Needed = Size[v]
  BY <1>1, PlaceIs DEF IInv
<1>6. Size[v] <= Old.len /\ Old # NoArea /\ Old.at \in Nat /\ Old.at > 0
  <2>1. Old # NoArea
    BY <1>1, <1>5, SizesAre, NoAreaIs
  <2> QED
    BY <2>1, <1>1, <1>3, <1>4, <1>5, PlacedIs, SizesAre
<1> HIDE DEF i
<1>7. disk' = Written(disk, Old.at, Definition(i, {v}))
  BY <1>1, <1>5
<1>8. ReadIn(disk', Old, i) = {v}
  <2>1. Holds(disk', Old, i, v)
    BY <1>3, <1>4, <1>6, <1>7, WrittenHolds
  <2> QED
    BY <2>1, <1>6, HeldIsRead
<1>9. ASSUME NEW j \in Idents, j # i
      PROVE  ReadIn(disk', entries[j], j) = ReadIn(disk, entries[j], j)
  <2>1. Apart(Old, entries[j])
    BY <1>3, <1>4, <1>9 DEF Placed
  <2>2. ReadIn(Written(disk, Old.at, Definition(i, {v})), entries[j], j)
          = ReadIn(disk, entries[j], j)
    <3>1. Old \in Areas /\ Old.at > 0 /\ Size[v] <= Old.len /\ IsBytes(disk)
      BY <1>3, <1>4, <1>6
    <3>2. Placed(entries, chain, QueueAt(disk)) /\ QueueAt(disk) <= Len(disk) + 1
      BY <1>3
    <3> QED
      BY <2>1, <3>1, <3>2, ReadApart
  <2> QED
    BY <2>2, <1>7
<1>10. Dict' = [Dict EXCEPT ![i] = op.content]
  <2>1. ReadIn(disk', Current'[i], i) = op.content
    BY <1>1, <1>2, <1>4, <1>5, <1>8
  <2>2. \A j \in Idents : j # i =>
          ReadIn(disk', Current'[j], j) = ReadIn(disk, Current[j], j)
    BY <1>1, <1>2, <1>9
  <2> QED
    BY <2>1, <2>2, <1>1, <1>4, DictChanged
<1>11. i < Room
  <2>1. Len(chain) \in Nat
    BY <1>3, ChainedIs DEF Placed
  <2> QED
    BY <2>1, <1>4, RoomIs DEF Room
<1>12. Promised!Apply
  BY <1>1, <1>2, <1>10, <1>11 DEF Promised!Apply, Room, i
<1> QED
  BY <1>12 DEF Promised!Next

\* A definition that is written elsewhere has no effect yet.
LEMMA MoveRefines ==
  ASSUME IInv, Move
  PROVE  UNCHANGED Promised!vars
<1> DEFINE end == QueueAt(disk)
           found == FindNewArea(areas, Needed, end)
           a == found.area
           i == op.ident
<1>1. /\ pc = "place" /\ op.content # {} /\ Needed > Old.len
      /\ disk' = Written(disk, a.at, Definition(i, op.content))
      /\ target' = a /\ pc' \in {"queueAtEnd", "queue"}
      /\ chain' = chain /\ entries' = entries /\ op' = op
  BY DEF Move
<1>2. /\ Len(disk) \in Nat /\ end \in Nat /\ IsBytes(disk) /\ end <= Len(disk) + 1
      /\ Placed(entries, chain, end) /\ Gaps(areas, entries, chain, end, NoArea)
      /\ i \in Idents /\ i \in Reach(chain)
  BY <1>1, EndIs, SizesAre, PlaceIs DEF IInv, Types
<1>3. PICK v \in Values : op.content = {v} /\ Needed = Size[v]
  BY <1>1, PlaceIs DEF IInv
<1>4. /\ a \in Areas /\ a.len >= Needed /\ a # NoArea /\ a.at > HeadBytes
      /\ \A j \in Idents : Apart(a, entries[j])
  <2>1. Needed \in Nat /\ Needed >= MinSize
    BY <1>3, SizesAre
  <2>2. Placed(entries, chain, end) /\ Gaps(areas, entries, chain, end, NoArea)
        /\ i \in Idents /\ i \in Reach(chain)
    BY <1>2
  <2> DEFINE last == IF found.atEnd THEN end + Needed ELSE end
  <2> HIDE DEF end, i
  <2>3. /\ a \in Areas /\ a.len >= Needed /\ a # NoArea /\ a.at > HeadBytes
        /\ \A j \in Idents : Apart(a, entries[j])
        /\ Placed([entries EXCEPT ![i] = a], chain, last)
    BY <2>1, <2>2, FoundPlaced
  <2> QED
    BY <2>3
<1> HIDE DEF a, found, i, end
<1>5. /\ Mode = "ready" /\ UnderWay = {op} /\ Current = entries
      /\ Mode' = "ready" /\ UnderWay' = {op'} /\ Current' = entries'
  BY <1>1, <1>4, ModeIs, ModeWillBe DEF Writing
<1>6. a.at > 0 /\ a.at \in Nat /\ Size[v] <= a.len
  BY <1>3, <1>4, SizesAre DEF Areas
<1>7. disk' = Written(disk, a.at, Definition(i, {v}))
  BY <1>1, <1>3
<1>8. ASSUME NEW j \in Idents
      PROVE  ReadIn(disk', entries[j], j) = ReadIn(disk, entries[j], j)
  <2>1. ReadIn(Written(disk, a.at, Definition(i, {v})), entries[j], j)
          = ReadIn(disk, entries[j], j)
    <3>1. a \in Areas /\ a.at > 0 /\ Size[v] <= a.len /\ IsBytes(disk) /\ Apart(a, entries[j])
      BY <1>2, <1>4, <1>6
    <3>2. Placed(entries, chain, end) /\ end <= Len(disk) + 1
      BY <1>2
    <3> QED
      BY <3>1, <3>2, ReadApart
  <2> QED
    BY <2>1, <1>7
<1>9. Dict' = Dict
  <2>1. pc # "lost" /\ pc' # "lost"
    BY <1>1
  <2> QED
    BY <2>1, <1>1, <1>5, <1>8, DictKept
<1> QED
  BY <1>1, <1>5, <1>9 DEF Promised!vars, Room

LEMMA WriteQueueRefines ==
  ASSUME IInv, WriteQueue
  PROVE  UNCHANGED Promised!vars
<1> DEFINE end == QueueAt(disk)
           at == IF pc = "queue" THEN QueueAt(disk) ELSE End(target)
           s == TRUE
<1>1. /\ pc \in {"queue", "queueAtEnd"} /\ disk' = Written(disk, at, Queue(s))
      /\ chain' = chain /\ entries' = entries /\ target' = target
      /\ target = NoArea => pc' = "ready"
      /\ target # NoArea => pc' = "entry" /\ op' = op
  BY DEF WriteQueue
<1>2. target = NoArea => pc = "queue"
  BY <1>1 DEF IInv, MoveInv
<1>3. /\ Mode = "ready" /\ UnderWay = IF target # NoArea THEN {op} ELSE {}
      /\ Mode' = "ready" /\ UnderWay' = IF target # NoArea THEN {op} ELSE {}
      /\ Current = entries /\ Current' = entries'
  BY <1>1, <1>2, ModeIs, ModeWillBe DEF Writing
<1>4. /\ Len(disk) \in Nat /\ end \in Nat /\ IsBytes(disk) /\ end <= Len(disk) + 1
      /\ end + QueueBytes - 1 = Len(disk) /\ Placed(entries, chain, end)
  BY <1>1, EndIs, SizesAre DEF IInv, Types
<1>5. at \in Nat /\ end <= at
  <2>1. CASE pc = "queue"
    BY <2>1, <1>4
  <2>2. CASE pc = "queueAtEnd"
    <3>1. at = End(target)
      BY <2>2
    <3>2. target \in Areas /\ Len(disk) <= End(target) + QueueBytes - 1
      BY <2>2 DEF IInv, MoveInv, Types
    <3>3. End(target) \in Nat
      BY <3>2, BytesAre
    <3> HIDE DEF at, end
    <3> QED
      BY <3>1, <3>2, <3>3, <1>4, SizesAre
  <2> QED
    BY <2>1, <2>2, <1>1
<1> HIDE DEF end, at, s
<1>6. \A i \in Idents : ReadIn(Written(disk, at, Queue(s)), entries[i], i)
                          = ReadIn(disk, entries[i], i)
  BY <1>4, <1>5, ReadBelowQueue
<1>7. Dict' = Dict
  <2>1. pc # "lost" /\ pc' # "lost"
    BY <1>1
  <2> QED
    BY <2>1, <1>1, <1>3, <1>6, DictKept
<1> QED
  BY <1>1, <1>3, <1>7 DEF Promised!vars, Room

\* The indirection is what makes an operation take effect.
LEMMA WriteEntryRefines ==
  ASSUME IInv, WriteEntry
  PROVE  Promised!Next
<1> DEFINE i == op.ident
<1>1. /\ pc = "entry" /\ pc' = "ready" /\ entries' = Coming /\ disk' = disk /\ chain' = chain
  BY DEF WriteEntry, Coming
<1>2. /\ Mode = "ready" /\ UnderWay = {op} /\ Current = entries
      /\ Mode' = "ready" /\ UnderWay' = {} /\ Current' = entries'
  BY <1>1, ModeIs, ModeWillBe DEF Writing
<1>3. /\ i \in Idents /\ i \in Reach(chain) /\ op.content \in Contents
      /\ Coming[i] = target /\ \A j \in Idents : j # i => Coming[j] = entries[j]
  BY <1>1 DEF IInv, Types, ReachInv, Coming
<1>4. /\ target = NoArea => op.content = {}
      /\ target # NoArea => /\ op.content # {}
                            /\ \A v \in op.content : Holds(disk, target, i, v)
      /\ Placed(Coming, chain, QueueAt(disk))
  BY <1>1 DEF IInv, MoveInv
<1> HIDE DEF i
<1>5. ReadIn(disk, target, i) = op.content
  <2>1. CASE target = NoArea
    BY <2>1, <1>4, NothingRead
  <2>2. CASE target # NoArea
    <3>1. PICK v \in Values : op.content = {v}
      BY <2>2, <1>3, <1>4 DEF Contents
    <3> QED
      BY <2>2, <3>1, <1>4, HeldIsRead
  <2> QED
    BY <2>1, <2>2
<1>6. Dict' = [Dict EXCEPT ![i] = op.content]
  <2>1. ReadIn(disk', Current'[i], i) = op.content
    BY <1>1, <1>2, <1>3, <1>5
  <2>2. \A j \in Idents : j # i =>
          ReadIn(disk', Current'[j], j) = ReadIn(disk, Current[j], j)
    BY <1>1, <1>2, <1>3
  <2>3. pc # "lost" /\ pc' # "lost"
    BY <1>1
  <2> QED
    BY <2>1, <2>2, <2>3, <1>3, DictChanged
<1>7. i < Room
  <2>1. Len(chain) \in Nat
    BY <1>4, ChainedIs DEF Placed
  <2> QED
    BY <2>1, <1>3, RoomIs DEF Room
<1>8. Promised!Apply
  BY <1>1, <1>2, <1>6, <1>7 DEF Promised!Apply, Room, i
<1> QED
  BY <1>8 DEF Promised!Next

\* The end of the writer changes nothing of what the file holds.
LEMMA StopRefines ==
  ASSUME IInv, Stop
  PROVE  Promised!Next
<1>1. /\ pc \in {"ready"} \cup Writing /\ pc' = "closed"
      /\ disk' = disk /\ chain' = chain /\ entries' = entries
  BY DEF Stop
<1>2. /\ Mode = "ready" /\ Current = entries /\ pc # "lost"
      /\ Mode' = "closed" /\ UnderWay' = {} /\ Current' = entries'
  BY <1>1, ModeIs, ModeWillBe
<1>3. Dict' = Dict
  BY <1>1, <1>2, DictKept
<1>4. Promised!Die
  BY <1>1, <1>2, <1>3 DEF Promised!Die, Room
<1> QED
  BY <1>4 DEF Promised!Next

LEMMA OpenRefines ==
  ASSUME IInv, Open \/ RefuseToOpen
  PROVE  Promised!Next
<1>1. /\ pc = "closed" /\ pc' \in {"ready", "refused"}
      /\ disk' = disk /\ chain' = chain /\ entries' = entries
  BY DEF Open, RefuseToOpen
<1>2. /\ Mode = "closed" /\ UnderWay = {} /\ Current = entries
      /\ Mode' \in {"ready", "unusable"} /\ UnderWay' = {} /\ Current' = entries'
  BY <1>1, ModeIs, ModeWillBe
<1>3. Dict' = Dict
  BY <1>1, <1>2, DictKept
<1>4. Promised!Reopen
  BY <1>1, <1>2, <1>3 DEF Promised!Reopen, Room
<1> QED
  BY <1>4 DEF Promised!Next

LEMMA BeginBulkRefines ==
  ASSUME IInv, BeginBulk
  PROVE  Promised!Next
<1>1. /\ pc = "ready" /\ pc' = "bulk" /\ bulk'.entries = entries
      /\ disk' = disk /\ chain' = chain
  BY DEF BeginBulk
<1>2. /\ Mode = "ready" /\ UnderWay = {} /\ Current = entries
      /\ Mode' = "bulk" /\ UnderWay' = {} /\ Current' = entries
  BY <1>1, ModeIs, ModeWillBe
<1>3. Dict' = Dict
  BY <1>1, <1>2, DictKept
<1>4. Promised!BeginBulk
  BY <1>1, <1>2, <1>3 DEF Promised!BeginBulk, Room
<1> QED
  BY <1>4 DEF Promised!Next

LEMMA EndBulkRefines ==
  ASSUME IInv, EndBulk
  PROVE  Promised!Next
<1> DEFINE end == bulk.end
           ents == bulk.entries
           s == bulk.specifics
<1>1. /\ pc = "bulk" /\ pc' = "ready" /\ entries' = ents
      /\ disk' = Written(disk, end, Queue(s)) /\ chain' = chain
  BY DEF EndBulk
<1>2. /\ Mode = "bulk" /\ UnderWay = {} /\ Current = ents
      /\ Mode' = "ready" /\ UnderWay' = {} /\ Current' = entries'
  BY <1>1, ModeIs, ModeWillBe
<1>3. Placed(ents, chain, end) /\ end <= Len(disk) + 1 /\ IsBytes(disk)
  BY <1>1 DEF IInv, BulkInv, Types
<1> HIDE DEF end, ents, s
<1>4. end \in Nat /\ end <= end
  BY <1>3, ChainedIs DEF Placed
<1>5. \A i \in Idents : ReadIn(Written(disk, end, Queue(s)), ents[i], i) = ReadIn(disk, ents[i], i)
  BY <1>3, <1>4, ReadBelowQueue
<1>6. Dict' = Dict
  <2>1. pc # "lost" /\ pc' # "lost"
    BY <1>1
  <2> QED
    BY <2>1, <1>1, <1>2, <1>5, DictKept
<1>7. Promised!EndBulk
  BY <1>1, <1>2, <1>6 DEF Promised!EndBulk, Room
<1> QED
  BY <1>7 DEF Promised!Next

LEMMA CrashInBulkRefines ==
  ASSUME IInv, CrashInBulk
  PROVE  Promised!Next
<1>1. pc = "bulk" /\ pc' = "lost" /\ chain' = chain
  BY DEF CrashInBulk
<1>2. Mode = "bulk" /\ UnderWay = {} /\ Mode' = "unusable" /\ UnderWay' = {}
  BY <1>1, ModeIs, ModeWillBe
<1>3. Dict' = [i \in Idents |-> {}]
  BY <1>1 DEF Dict
<1>4. Promised!LoseBulk
  BY <1>1, <1>2, <1>3 DEF Promised!LoseBulk, Room
<1> QED
  BY <1>4 DEF Promised!Next

\* A definition of bulk mode, in memory what it is once bulk mode is over.
LEMMA SetBulkRefines ==
  ASSUME IInv, NEW i \in Idents, NEW content \in Contents, SetBulk(i, content)
  PROVE  Promised!Next
<1> DEFINE blocs == BulkChain(i)
           end == BulkEnd(i)
           bytes == BulkDisk(i)
           ents == bulk.entries
           old == BulkOld(i)
           size == ContentSize(content)
           found == BulkFound(i, content)
           a == found.area
<1>1. /\ pc = "bulk" /\ pc' = "bulk" /\ chain' = blocs /\ Fits(i, bulk.end)
      /\ \/ /\ i \notin Reach(chain')
            /\ disk' = bytes /\ bulk'.entries = ents
         \/ /\ i \in Reach(chain') /\ content = {}
            /\ disk' = bytes /\ bulk'.entries = [ents EXCEPT ![i] = NoArea]
         \/ /\ i \in Reach(chain') /\ content # {} /\ size <= old.len
            /\ disk' = Written(bytes, old.at, Definition(i, content))
            /\ bulk'.entries = [ents EXCEPT ![i] = old]
         \/ /\ i \in Reach(chain') /\ content # {}
            /\ disk' = Written(bytes, a.at, Definition(i, content))
            /\ bulk'.entries = [ents EXCEPT ![i] = a]
            /\ size > old.len
  <2>1. pc = "bulk" /\ pc' = "bulk" /\ chain' = blocs /\ Fits(i, bulk.end)
    BY SetBulkIs
  <2> QED
    BY <2>1, SetBulkIs
<1>2. /\ Mode = "bulk" /\ UnderWay = {} /\ Current = ents
      /\ Mode' = "bulk" /\ UnderWay' = {} /\ Current' = bulk'.entries
      /\ pc # "lost" /\ pc' # "lost"
  BY <1>1, ModeIs, ModeWillBe
<1>3. /\ end \in Nat /\ end > HeadBytes + 1 /\ IsBytes(bytes)
      /\ Placed(ents, blocs, end)
      /\ Gaps(areas, ents, blocs, end, NoArea)
      /\ end <= Len(bytes) + 1
  BY <1>1, BulkGrows DEF IInv
<1>4. \A j \in Idents : ReadIn(bytes, ents[j], j) = ReadIn(disk, ents[j], j)
  <2>1. CASE Grown(i)
    <3> DEFINE low == bulk.end
    <3>1. bytes = Written(disk, low, Bloc)
      BY <2>1 DEF BulkDisk
    <3>2. Placed(ents, chain, low) /\ low <= Len(disk) + 1 /\ IsBytes(disk)
      BY <1>1 DEF IInv, BulkInv, Types
    <3> HIDE DEF bytes, ents, low
    <3>3. low \in Nat /\ low <= low
      BY <3>2, ChainedIs DEF Placed
    <3>4. \A j \in Idents : ReadIn(Written(disk, low, Bloc), ents[j], j) = ReadIn(disk, ents[j], j)
      BY <3>2, <3>3, BlocIs, ReadBelow
    <3> QED
      BY <3>1, <3>4
  <2>2. CASE ~Grown(i)
    BY <2>2 DEF BulkDisk
  <2> QED
    BY <2>1, <2>2
<1>5. Room' = (IF i < Room THEN Room ELSE Room + BlocSize) /\ (i \in Reach(chain') <=> i < Room')
  <2>1. chain \in Seq(Nat) /\ bulk.end \in Nat
    BY <1>1, ChainedIs DEF IInv, BulkInv, Placed, Chained
  <2>2. /\ Len(chain) \in Nat /\ Len(Append(chain, bulk.end)) = Len(chain) + 1
        /\ BlocSize * Len(Append(chain, bulk.end)) = BlocSize * Len(chain) + BlocSize
    BY <2>1, RoomGrows
  <2>3. Grown(i) <=> ~(i < BlocSize * Len(chain))
    BY <2>2, RoomIs DEF Grown
  <2>4. Room' = IF i < Room THEN Room ELSE Room + BlocSize
    BY <2>2, <2>3, <1>1 DEF Room, BulkChain
  <2>5. Len(chain') \in Nat
    BY <2>2, <1>1 DEF BulkChain
  <2>6. i \in Reach(chain') <=> i < BlocSize * Len(chain')
    BY <2>5, RoomIs
  <2> QED
    BY <2>4, <2>6 DEF Room
<1> DEFINE changed == [Dict EXCEPT ![i] = content]
<1>6. CASE i \notin Reach(chain') /\ disk' = bytes /\ bulk'.entries = ents
  <2>1. Dict' = Dict
    BY <1>2, <1>4, <1>6, DictKept
  <2>2. Promised!SetBulk(i, content)
    BY <2>1, <1>2, <1>5, <1>6 DEF Promised!SetBulk
  <2> QED
    BY <2>2 DEF Promised!Next, Contents, Promised!Contents
<1>7. ASSUME i \in Reach(chain'), NEW b \in Areas, bulk'.entries = [ents EXCEPT ![i] = b],
             ReadIn(disk', b, i) = content,
             \A j \in Idents : j # i => ReadIn(disk', ents[j], j) = ReadIn(bytes, ents[j], j)
      PROVE  Promised!Next
  <2>1. ents \in [Idents -> Areas]
    BY <1>3 DEF Placed
  <2>2. ReadIn(disk', Current'[i], i) = content
    BY <2>1, <1>2, <1>7
  <2>3. \A j \in Idents : j # i =>
          ReadIn(disk', Current'[j], j) = ReadIn(disk, Current[j], j)
    BY <2>1, <1>2, <1>4, <1>7
  <2>4. Dict' = changed
    BY <2>2, <2>3, <1>2, DictChanged
  <2>5. Promised!SetBulk(i, content)
    BY <2>4, <1>2, <1>5, <1>7 DEF Promised!SetBulk
  <2> QED
    BY <2>5 DEF Promised!Next, Contents, Promised!Contents
<1>8. CASE i \in Reach(chain') /\ content = {} /\ disk' = bytes
           /\ bulk'.entries = [ents EXCEPT ![i] = NoArea]
  BY <1>7, <1>8, NoAreaIs, NothingRead
\* Written in an area apart from where the others are.
<1>9. ASSUME i \in Reach(chain'), content # {}, NEW b \in Areas, b # NoArea, b.at > HeadBytes,
             size <= b.len,
             disk' = Written(bytes, b.at, Definition(i, content)),
             bulk'.entries = [ents EXCEPT ![i] = b],
             \A j \in Idents : j # i => Apart(b, ents[j])
      PROVE  Promised!Next
  <2>1. PICK v \in Values : content = {v} /\ size = Size[v]
    BY <1>9, ContentIs DEF Contents
  <2>2. b.at > 0 /\ Size[v] <= b.len /\ b.at \in Nat
    BY <2>1, <1>9, SizesAre DEF Areas
  <2>3. disk' = Written(bytes, b.at, Definition(i, {v}))
    BY <2>1, <1>9
  <2> HIDE DEF bytes, ents, blocs, end
  <2>4. ReadIn(disk', b, i) = content
    <3>1. Holds(disk', b, i, v)
      BY <2>2, <2>3, <1>3, WrittenHolds
    <3> QED
      BY <2>1, <3>1, <1>9, HeldIsRead
  <2>5. ASSUME NEW j \in Idents, j # i
        PROVE  ReadIn(disk', ents[j], j) = ReadIn(bytes, ents[j], j)
    <3>1. Apart(b, ents[j])
      BY <2>5, <1>9
    <3>2. IsBytes(bytes) /\ Placed(ents, blocs, end) /\ end <= Len(bytes) + 1
      BY <1>3
    <3>3. ReadIn(Written(bytes, b.at, Definition(i, {v})), ents[j], j) = ReadIn(bytes, ents[j], j)
      BY <2>2, <3>1, <3>2, ReadApart
    <3> QED
      BY <2>3, <3>3
  <2> QED
    BY <2>4, <2>5, <1>7, <1>9
<1>10. content # {} => size \in Nat /\ size >= MinSize /\ size > 0
  <2>1. content # {} => \E v \in Values : content = {v} /\ size = Size[v]
    BY ContentIs DEF Contents
  <2> QED
    BY <2>1, SizesAre
<1>11. old \in Areas /\ old = ents[i]
  BY <1>3 DEF Placed, BulkOld
<1>12. CASE /\ i \in Reach(chain') /\ content # {} /\ size <= old.len
            /\ disk' = Written(bytes, old.at, Definition(i, content))
            /\ bulk'.entries = [ents EXCEPT ![i] = old]
  <2>1. old # NoArea
    BY <1>10, <1>12, NoAreaIs
  <2> HIDE DEF old
  <2>2. old.at > HeadBytes
    BY <2>1, <1>3, <1>11, PlacedIs
  <2>3. \A j \in Idents : j # i => Apart(old, ents[j])
    BY <1>3, <1>11 DEF Placed
  <2> QED
    BY <2>1, <2>2, <2>3, <1>9, <1>11, <1>12
<1>13. CASE /\ i \in Reach(chain') /\ content # {} /\ size > old.len
            /\ disk' = Written(bytes, a.at, Definition(i, content))
            /\ bulk'.entries = [ents EXCEPT ![i] = a]
  <2>1. found = FindNewArea(areas, size, end)
    BY DEF BulkFound
  <2>2. size \in Nat /\ size >= MinSize
    BY <1>10, <1>13
  <2> DEFINE last == IF found.atEnd THEN end + size ELSE end
  <2> HIDE DEF blocs, end, bytes, ents, old, size, found
  <2>3. /\ a \in Areas /\ a.len >= size /\ a # NoArea /\ a.at > HeadBytes
        /\ \A j \in Idents : Apart(a, ents[j])
        /\ Placed([ents EXCEPT ![i] = a], blocs, last)
    <3>1. i \in Reach(blocs)
      BY <1>1, <1>13
    <3>2. Placed(ents, blocs, end) /\ Gaps(areas, ents, blocs, end, NoArea)
      BY <1>3
    <3> QED
      BY <2>1, <2>2, <3>1, <3>2, FoundPlaced
  <2>4. size <= a.len
    BY <2>2, <2>3 DEF Areas
  <2> HIDE DEF a
  <2> QED
    BY <2>3, <2>4, <1>9, <1>13
<1> QED
  BY <1>1, <1>6, <1>8, <1>12, <1>13

\* Every step of the file is a step of the dictionary, or changes nothing of it.
LEMMA StepRefines ==
  ASSUME IInv, [Next]_vars
  PROVE  [Promised!Next]_(Promised!vars)
<1>1. CASE \E i \in Idents, content \in Contents : Set(i, content) \/ SetBulk(i, content)
  BY <1>1, SetRefines, SetBulkRefines
<1>2. CASE Step
  BY <1>2, AddBlocRefines, LinkBlocRefines, EraseRefines, RewriteRefines, MoveRefines,
     WriteQueueRefines, WriteEntryRefines DEF Step
<1>3. CASE Stop \/ Open \/ RefuseToOpen
  BY <1>3, StopRefines, OpenRefines
<1>4. CASE BeginBulk \/ EndBulk \/ CrashInBulk
  BY <1>4, BeginBulkRefines, EndBulkRefines, CrashInBulkRefines
<1>5. CASE UNCHANGED vars
  <2>1. Current' = Current /\ Mode' = Mode /\ UnderWay' = UnderWay /\ Room' = Room
    BY <1>5 DEF vars, Current, Mode, UnderWay, Undone, Room
  <2>2. \A i : Readable(i)' = Readable(i)
    BY <2>1, <1>5 DEF vars, Readable
  <2>3. Dict' = Dict
    BY <2>2, <1>5 DEF vars, Dict
  <2> QED
    BY <2>1, <2>3 DEF Promised!vars
<1> QED
  BY <1>1, <1>2, <1>3, <1>4, <1>5 DEF Next

\* The file is the dictionary it stands for: every ident keeps its definition,
\* whole, whatever is written, moved, vacated or erased for the others, and a
\* crash at any step leaves what was there before or after the operation.
THEOREM FileIsDictionary == Spec => RefinesDictionary
BY FileInvariant, InitRefines, StepRefines, PTL DEF Spec, RefinesDictionary, Promised!Spec


-----------------------------------------------------------------------------
(* Reading while the file grows: the invariant of FileReader. *)

\* Every indirection says where a definition is, and the operation under way
\* gives an ident its first one.
WriterInv ==
  /\ pc \notin {"bulk", "lost"}
  /\ pc \in Writing => op.content # {} /\ entries[op.ident] = NoArea
  /\ pc = "queue" => target # NoArea
  /\ \A i \in Idents : entries[i] # NoArea => ReadIn(disk, entries[i], i) # {}

Asks == {{}} \cup {{i} : i \in Idents}
Lookups == [at : {"closed", "walk", "walked", "entry", "definition", "found", "missed"},
            asked : Asks, size : Nat, walked : Nat, entry : Areas, due : BOOLEAN]

ReaderTypes ==
  /\ lookup \in Lookups
  /\ shared \in [blocs : Nat, size : Nat]
  /\ visible \in Nat

\* A map has the blocks that were linked before the file grew beyond its size.
WalkInv ==
  /\ lookup.size <= Len(disk) /\ shared.size <= Len(disk) /\ visible <= Len(chain)
  /\ lookup.at = "walk" => lookup.walked < Len(chain)
  /\ lookup.at = "walked" => lookup.walked <= Len(chain)
  /\ lookup.at = "walked" /\ Len(disk) <= lookup.size => visible <= lookup.walked
  /\ Len(disk) <= shared.size => visible <= shared.blocs

\* An ident that is due has an indirection, in the blocks of a walk that is over.
LookupInv ==
  /\ lookup.at \in {"entry", "definition"} => lookup.asked # {}
  /\ lookup.at = "missed" => ~lookup.due
  /\ lookup.due => lookup.asked # {}
  /\ \A i \in lookup.asked :
       /\ lookup.due => entries[i] # NoArea
       /\ lookup.due /\ lookup.at = "walked" => InMap(i, lookup.walked)
       /\ lookup.at = "definition" => lookup.entry = entries[i] /\ entries[i] # NoArea

ReadInv == IInv /\ WriterInv /\ ReaderTypes /\ WalkInv /\ LookupInv

-----------------------------------------------------------------------------
(* The writer. *)

\* A write never makes the file shorter.
LEMMA NeverShorter ==
  ASSUME NEW d, IsBytes(d), NEW cells, Len(cells) \in Nat, NEW at \in Nat
  PROVE  Len(Written(d, at, cells)) >= Len(d)
<1> DEFINE w == Written(d, at, cells)
           n == IF at + Len(cells) - 1 > Len(d) THEN at + Len(cells) - 1 ELSE Len(d)
<1>1. Len(d) \in Nat
  BY DiskIs
<1>2. n \in Nat /\ n >= Len(d)
  BY <1>1
<1>3. w = [p \in 1..n |-> w[p]]
  BY DEF Written
<1> HIDE DEF w, n
<1>4. Len(w) = n
  BY <1>2, <1>3, CellsAre
<1> QED
  BY <1>2, <1>4 DEF w

\* What the writer of a file that grows does, step by step.
LEMMA WriterSteps ==
  ASSUME IInv, WriterInv, Appends
  PROVE  \/ \E i \in Idents, v \in Values : entries[i] = NoArea /\ Set(i, {v})
         \/ AddBloc \/ AddBlocQueue \/ LinkBloc \/ Move \/ WriteQueue \/ WriteEntry
         \/ Stop \/ Open \/ RefuseToOpen
<1>1. ASSUME Erase PROVE FALSE
  BY <1>1 DEF Erase, WriterInv, Writing
<1>2. ASSUME Rewrite PROVE FALSE
  <2>1. pc = "place" /\ op.content # {} /\ Needed <= Old.len
    BY <1>2 DEF Rewrite
  <2>2. Old = NoArea
    BY <2>1 DEF WriterInv, Writing, Old
  <2>3. \E v \in Values : Needed = Size[v]
    BY <2>1, PlaceIs DEF IInv
  <2> QED
    BY <2>1, <2>2, <2>3, NoAreaIs, SizesAre
<1> QED
  BY <1>1, <1>2 DEF Appends, Step

\* They are steps of the file.
LEMMA AppendsAre == Appends => Next
BY DEF Appends, Next, Contents

\* No step of it changes what is read of an ident, but the last one of an
\* operation, for the ident of the operation.
LEMMA WriterKeeps ==
  ASSUME IInv, WriterInv, Appends
  PROVE  WriterInv'
<1>1. pc' \notin {"bulk", "lost"}
  BY WriterSteps DEF WriterInv, Set, AddBloc, AddBlocQueue, LinkBloc, Move, WriteQueue, WriteEntry,
     Stop, Open, RefuseToOpen
<1>2. pc' \in Writing => op'.content # {} /\ entries'[op'.ident] = NoArea
  <2>1. ASSUME NEW i \in Idents, NEW v \in Values, entries[i] = NoArea, Set(i, {v})
        PROVE  op'.content # {} /\ entries'[op'.ident] = NoArea
    BY <2>1 DEF Set
  <2>2. CASE AddBloc \/ AddBlocQueue \/ Move
    BY <2>2 DEF AddBloc, AddBlocQueue, Move, WriterInv, Writing
  <2>3. CASE LinkBloc
    BY <2>3 DEF LinkBloc, WriterInv, Writing
  <2>4. CASE WriteQueue
    BY <2>4 DEF WriteQueue, WriterInv, Writing
  <2>5. CASE WriteEntry \/ Stop \/ Open \/ RefuseToOpen
    BY <2>5 DEF WriteEntry, Stop, Open, RefuseToOpen, Writing
  <2> QED
    BY <2>1, <2>2, <2>3, <2>4, <2>5, WriterSteps
<1>3. pc' = "queue" => target' # NoArea
  <2>1. CASE Move
    <3>1. IInv' /\ pc' \in {"queue", "queueAtEnd"} /\ op' = op /\ op.content # {}
      BY <2>1, NextKeeps, AppendsAre DEF Move
    <3>2. target' = FindNewArea(areas, Needed, QueueAt(disk)).area
      BY <2>1 DEF Move
    <3>3. FindNewArea(areas, Needed, QueueAt(disk)).area # NoArea
      <4>1. pc = "place" /\ op.content # {}
        BY <2>1 DEF Move
      <4>2. PICK v \in Values : Needed = Size[v]
        BY <4>1, PlaceIs DEF IInv
      <4>3. Needed \in Nat /\ Needed >= MinSize /\ Separate(areas) /\ QueueAt(disk) \in Nat
        BY <4>1, <4>2, EndIs, SizesAre DEF IInv, Types
      <4>4. FindNewArea(areas, Needed, QueueAt(disk)).area.len >= Needed
        BY <4>3, FoundIs
      <4> QED
        BY <4>3, <4>4, NoAreaIs, SizesAre
    <3> QED
      BY <3>2, <3>3
  <2> QED
    BY <2>1, WriterSteps DEF Set, AddBloc, AddBlocQueue, LinkBloc, WriteQueue, WriteEntry, Stop,
       Open, RefuseToOpen
<1>4. ASSUME NEW i \in Idents, entries'[i] # NoArea
      PROVE  ReadIn(disk', entries'[i], i) # {}
  <2>1. CASE AddBloc \/ AddBlocQueue \/ Move \/ WriteQueue
    <3>1. UNCHANGED Promised!vars
      BY <2>1, AddBlocRefines, MoveRefines, WriteQueueRefines
    <3>2. entries' = entries
      BY <2>1 DEF AddBloc, AddBlocQueue, Move, WriteQueue
    <3>3. Dict'[i] = Dict[i]
      BY <3>1 DEF Promised!vars
    <3>4. Dict[i] = ReadIn(disk, entries[i], i)
      BY ReadableIs DEF Dict, Current, WriterInv
    <3>5. Dict'[i] = ReadIn(disk', entries'[i], i)
      BY <1>1 DEF Dict, Current, Readable, ReadIn, Holds
    <3> QED
      BY <1>4, <3>2, <3>3, <3>4, <3>5 DEF WriterInv
  <2>2. CASE WriteEntry
    <3>1. pc = "entry" /\ entries' = Coming /\ disk' = disk
      BY <2>2 DEF WriteEntry, Coming
    <3>2. CASE i = op.ident
      <4>1. op \in [ident : Idents, content : Contents] /\ entries \in [Idents -> Areas]
        BY DEF IInv, Types
      <4>2. entries'[i] = target /\ target # NoArea
        BY <1>4, <3>1, <3>2, <4>1 DEF Coming
      <4>3. op.content # {} /\ \A v \in op.content : Holds(disk, target, i, v)
        BY <3>1, <3>2, <4>2 DEF IInv, MoveInv
      <4>4. PICK v \in Values : op.content = {v}
        BY <4>1, <4>3 DEF Contents
      <4> QED
        BY <3>1, <4>2, <4>3, <4>4 DEF ReadIn
    <3>3. CASE i # op.ident
      <4>1. entries'[i] = entries[i]
        BY <3>1, <3>3 DEF Coming, IInv, Types
      <4> QED
        BY <1>4, <3>1, <4>1 DEF WriterInv
    <3> QED
      BY <3>2, <3>3
  <2>3. CASE (\E j \in Idents, v \in Values : Set(j, {v})) \/ LinkBloc \/ Stop \/ Open \/ RefuseToOpen
    <3>1. entries' = entries /\ disk' = disk
      BY <2>3 DEF Set, LinkBloc, Stop, Open, RefuseToOpen
    <3> QED
      BY <1>4, <3>1 DEF WriterInv
  <2> QED
    BY <2>1, <2>2, <2>3, WriterSteps
<1> QED
  BY <1>1, <1>2, <1>3, <1>4 DEF WriterInv

\* The file grows, so does its chain, and an indirection that is set stays.
LEMMA WriterGrows ==
  ASSUME IInv, WriterInv, Appends
  PROVE  /\ Len(disk) \in Nat /\ Len(disk') \in Nat /\ Len(disk) <= Len(disk')
         /\ Len(chain) \in Nat /\ Len(chain') \in Nat /\ Len(chain) <= Len(chain')
         /\ \A i \in Idents : entries[i] # NoArea => entries'[i] = entries[i]
<1>1. IInv'
  BY NextKeeps, AppendsAre
<1>2. /\ IsBytes(disk) /\ Len(disk) \in Nat /\ Len(disk') \in Nat
      /\ chain \in Seq(1..MaxBytes) /\ Len(chain) \in Nat /\ Len(chain') \in Nat
      /\ target \in Areas /\ target' \in Areas
  BY <1>1, DiskIs, LenProperties DEF IInv, Types
<1>3. QueueAt(disk) \in Nat
  BY EndIs DEF IInv, WriterInv
<1>4. Len(disk) <= Len(disk')
  <2>1. CASE AddBloc
    <3>1. disk' = Written(disk, QueueAt(disk), Bloc)
      BY <2>1 DEF AddBloc
    <3> QED
      BY <1>2, <1>3, <3>1, BlocIs, NeverShorter, SizesAre
  <2>2. CASE AddBlocQueue
    <3>1. disk' = Written(disk, End(target), Queue(FALSE))
      BY <2>2 DEF AddBlocQueue
    <3>2. End(target) \in Nat /\ Len(Queue(FALSE)) \in Nat
      BY <1>2, BytesAre, QueueIs, SizesAre
    <3> QED
      BY <1>2, <3>1, <3>2, NeverShorter
  <2>3. CASE Move
    <3>1. disk' = Written(disk, target'.at, Definition(op.ident, op.content)) /\ pc = "place"
          /\ op.content # {}
      BY <2>3 DEF Move
    <3>2. PICK v \in Values : op.content = {v}
      BY <3>1, PlaceIs DEF IInv
    <3>3. Len(Definition(op.ident, op.content)) \in Nat
      BY <3>2, DefinitionIs, SizesAre
    <3>4. target'.at \in Nat
      BY <1>2, BytesAre
    <3> QED
      BY <1>2, <3>1, <3>3, <3>4, NeverShorter
  <2>4. CASE WriteQueue
    <3> DEFINE at == IF pc = "queue" THEN QueueAt(disk) ELSE End(target)
    <3>1. disk' = Written(disk, at, Queue(TRUE))
      BY <2>4 DEF WriteQueue
    <3>2. at \in Nat /\ Len(Queue(TRUE)) \in Nat
      BY <1>2, <1>3, BytesAre, QueueIs, SizesAre
    <3> HIDE DEF at
    <3> QED
      BY <1>2, <3>1, <3>2, NeverShorter
  <2>5. CASE disk' = disk
    BY <2>5, <1>2
  <2> QED
    BY <2>1, <2>2, <2>3, <2>4, <2>5, WriterSteps
       DEF Set, LinkBloc, WriteEntry, Stop, Open, RefuseToOpen
<1>5. Len(chain) <= Len(chain')
  <2>1. CASE LinkBloc
    <3>1. chain' = Append(chain, target.at)
      BY <2>1 DEF LinkBloc
    <3>2. Len(chain') = Len(chain) + 1
      BY <3>1, <1>2, AppendProperties DEF IInv, LinkBloc
    <3> QED
      BY <3>2, <1>2
  <2>2. CASE chain' = chain
    BY <2>2, <1>2
  <2> QED
    BY <2>1, <2>2, WriterSteps DEF Set, AddBloc, AddBlocQueue, Move, WriteQueue, WriteEntry, Stop,
       Open, RefuseToOpen
<1>6. ASSUME NEW i \in Idents, entries[i] # NoArea PROVE entries'[i] = entries[i]
  <2>1. CASE WriteEntry
    <3>1. entries[op.ident] = NoArea /\ entries' = Coming
      BY <2>1 DEF WriteEntry, WriterInv, Writing, Coming
    <3> QED
      BY <1>6, <3>1 DEF Coming, IInv, Types
  <2>2. CASE entries' = entries
    BY <2>2
  <2> QED
    BY <2>1, <2>2, WriterSteps DEF Set, AddBloc, AddBlocQueue, LinkBloc, Move, WriteQueue, Stop,
       Open, RefuseToOpen
<1> QED
  BY <1>2, <1>4, <1>5, <1>6

\* What a reader goes by stays true while the file grows.
LEMMA AppendsKeep ==
  ASSUME ReadInv, Appends
  PROVE  ReadInv'
<1>1. IInv' /\ WriterInv'
  BY NextKeeps, AppendsAre, WriterKeeps DEF ReadInv
<1>2. /\ Len(disk) \in Nat /\ Len(disk') \in Nat /\ Len(disk) <= Len(disk')
      /\ Len(chain) \in Nat /\ Len(chain') \in Nat /\ Len(chain) <= Len(chain')
      /\ \A i \in Idents : entries[i] # NoArea => entries'[i] = entries[i]
  BY WriterGrows DEF ReadInv
<1>3. /\ visible' = IF Len(disk') > Len(disk) THEN Len(chain) ELSE visible
      /\ lookup' = lookup /\ shared' = shared
  BY DEF Appends
<1>4. ReaderTypes'
  BY <1>2, <1>3 DEF ReadInv, ReaderTypes, Lookups
<1>5. WalkInv'
  <2>1. /\ lookup.size \in Nat /\ lookup.walked \in Nat /\ shared.size \in Nat /\ shared.blocs \in Nat
        /\ visible \in Nat
    BY DEF ReadInv, ReaderTypes, Lookups
  <2> QED
    BY <1>2, <1>3, <2>1 DEF ReadInv, WalkInv
<1>6. LookupInv'
  <2>1. lookup.asked \in SUBSET Idents
    BY DEF ReadInv, ReaderTypes, Lookups, Asks
  <2> QED
    BY <1>2, <1>3, <2>1 DEF ReadInv, LookupInv
<1> QED
  BY <1>1, <1>4, <1>5, <1>6 DEF ReadInv

-----------------------------------------------------------------------------
(* The reader. *)

\* What is asked for, when something is.
LEMMA AskedIs ==
  ASSUME ReaderTypes, lookup.asked # {}
  PROVE  Asked \in Idents /\ lookup.asked = {Asked}
BY DEF ReaderTypes, Lookups, Asks, Asked

\* More blocks, more idents.
LEMMA MapGrows ==
  ASSUME NEW m \in Nat, NEW n \in Nat, m <= n, NEW i \in Idents, InMap(i, m)
  PROVE  InMap(i, n)
<1>1. BlocSize * m <= BlocSize * n /\ BlocSize * m \in Nat /\ BlocSize * n \in Nat
  BY SizesAre
<1>2. i \in Int
  BY DEF Idents
<1> QED
  BY <1>1, <1>2 DEF InMap

\* A reader is never refused a block that is linked.
LEMMA BlocsAreOk ==
  ASSUME IInv, WriterInv, NEW b \in 1..Len(chain)
  PROVE  BlocOk(b, Len(disk))
<1> DEFINE n == Len(chain)
           size == Len(disk)
<1>1. /\ size \in Nat /\ QueueAt(disk) \in Nat /\ QueueAt(disk) + QueueBytes - 1 = size
      /\ Chained(chain, QueueAt(disk))
  BY EndIs DEF IInv, WriterInv, Placed
<1>2. /\ n \in Nat
      /\ \A c \in 1..n : chain[c] \in Nat /\ chain[c] + BlocBytes <= QueueAt(disk)
  BY <1>1, ChainedIs
<1>3. b < n => b + 1 \in 1..n /\ chain[b] + BlocBytes <= chain[b + 1]
  BY <1>1, <1>2 DEF Chained
<1> HIDE DEF n, size
<1>4. chain[b] + BlocBytes + QueueBytes <= size + 1
  BY <1>1, <1>2, SizesAre DEF n
<1>5. ASSUME b < n
      PROVE  /\ chain[b + 1] >= chain[b] + BlocBytes
             /\ chain[b + 1] + 1 + QueueBytes <= size + 1
  <2>1. chain[b + 1] \in Nat /\ chain[b] \in Nat /\ chain[b + 1] + BlocBytes <= QueueAt(disk)
    BY <1>2, <1>3, <1>5 DEF n
  <2> QED
    BY <1>1, <1>3, <1>5, <2>1, SizesAre
<1> QED
  BY <1>4, <1>5 DEF BlocOk, n, size

\* The file and its writer are as they were: what is left of the invariant is
\* about the reader.
LEMMA ReaderLeaves ==
  ASSUME ReadInv, UNCHANGED <<vars, visible>>
  PROVE  IInv' /\ WriterInv'
<1>1. IInv'
  BY NextKeeps DEF ReadInv
<1> QED
  BY <1>1 DEF ReadInv, WriterInv, vars, ReadIn, Holds

\* Nothing, or an ident, is asked for.
LEMMA AsksAre ==
  /\ {} \in Asks
  /\ \A i \in Idents : {i} \in Asks
  /\ Asks \in SUBSET (SUBSET Idents)
  /\ \A asked \in Asks : asked # {} => \E i \in Idents : asked = {i}
BY DEF Asks

LEMMA NoLookupIs ==
  /\ NoLookup = [at |-> "closed", asked |-> {}, size |-> 0, walked |-> 0, entry |-> NoArea,
                 due |-> FALSE]
  /\ NoArea \in Areas
BY NoAreaIs DEF NoLookup

LEMMA WalkKeeps ==
  ASSUME ReadInv, Walk, UNCHANGED <<vars, visible>>
  PROVE  ReaderTypes' /\ WalkInv' /\ LookupInv'
<1> DEFINE bloc == lookup.walked + 1
<1>1. /\ ReaderTypes /\ WalkInv /\ LookupInv
      /\ lookup.at = "walk" /\ shared' = shared /\ disk' = disk /\ chain' = chain
      /\ entries' = entries /\ visible' = visible
  BY DEF ReadInv, Walk, vars
<1>2. /\ lookup.walked \in Nat /\ lookup.size \in Nat /\ visible \in Nat /\ Len(chain) \in Nat
      /\ lookup.walked < Len(chain) /\ visible <= Len(chain)
  BY <1>1, LenProperties DEF ReaderTypes, Lookups, WalkInv, ReadInv, IInv, Types
<1>3. bloc \in 1..Len(chain)
  BY <1>2
<1>4. BlocOk(bloc, Len(disk))
  BY <1>3, BlocsAreOk DEF ReadInv
<1>5. /\ lookup' = [lookup EXCEPT !.walked = bloc, !.at = IF bloc < Len(chain) THEN "walk" ELSE "walked"]
      /\ lookup'.walked = bloc /\ lookup'.asked = lookup.asked /\ lookup'.due = lookup.due
      /\ lookup'.size = lookup.size /\ lookup'.entry = lookup.entry
      /\ lookup'.at = IF bloc < Len(chain) THEN "walk" ELSE "walked"
  BY <1>1, <1>4 DEF Walk, ReaderTypes, Lookups
<1>6. lookup'.at = "walked" => bloc = Len(chain)
  BY <1>3, <1>5
<1>7. bloc \in Nat
  BY <1>2
<1> HIDE DEF bloc
<1>8. ReaderTypes'
  BY <1>1, <1>5, <1>7 DEF ReaderTypes, Lookups
<1>9. WalkInv'
  BY <1>1, <1>2, <1>3, <1>5, <1>6 DEF WalkInv
<1>10. LookupInv'
  <2>1. ASSUME NEW i \in lookup.asked, lookup.due, lookup'.at = "walked" PROVE InMap(i, bloc)
    <3>1. entries[i] # NoArea /\ i \in Idents
      BY <1>1, <2>1 DEF LookupInv, ReaderTypes, Lookups, Asks
    <3>2. i \in Reach(chain)
      BY <3>1, EndIs, PlacedIs DEF ReadInv, IInv, WriterInv
    <3> QED
      BY <3>2, <2>1, <1>6 DEF Reach, InMap
  <2> QED
    BY <2>1, <1>1, <1>5 DEF LookupInv
<1> QED
  BY <1>8, <1>9, <1>10

LEMMA OpenReaderKeeps ==
  ASSUME ReadInv, OpenReader, UNCHANGED <<vars, visible>>
  PROVE  ReaderTypes' /\ WalkInv' /\ LookupInv'
<1>1. /\ ReaderTypes /\ WalkInv
      /\ lookup' = [NoLookup EXCEPT !.at = "walk"] /\ shared' = shared /\ disk' = disk
      /\ chain' = chain /\ visible' = visible
  BY DEF ReadInv, OpenReader, vars
<1>2. Len(disk) \in Nat /\ Len(chain) \in Nat /\ Len(chain) > 0
  BY EndIs, ChainedIs DEF ReadInv, IInv, WriterInv, Placed
<1>3. lookup' = [at |-> "walk", asked |-> {}, size |-> 0, walked |-> 0, entry |-> NoArea,
                 due |-> FALSE]
  BY <1>1, NoLookupIs
<1>4. ReaderTypes'
  <2>1. lookup' \in Lookups
    BY <1>3, NoAreaIs, AsksAre DEF Lookups
  <2> QED
    BY <2>1, <1>1 DEF ReaderTypes
<1>5. WalkInv'
  BY <1>1, <1>2, <1>3 DEF WalkInv
<1>6. LookupInv'
  BY <1>3 DEF LookupInv
<1> QED
  BY <1>4, <1>5, <1>6

\* A lookup that begins.
LEMMA ChangedIs ==
  ASSUME NEW none, NEW i, NEW due, NEW R, NEW T,
         R = [at |-> "closed", asked |-> {}, size |-> 0, walked |-> 0, entry |-> NoArea, due |-> none],
         T = [R EXCEPT !.asked = {i}, !.due = due]
  PROVE  T = [at |-> "closed", asked |-> {i}, size |-> 0, walked |-> 0, entry |-> NoArea, due |-> due]
OBVIOUS

LEMMA BegunIs ==
  ASSUME NEW i, NEW due \in BOOLEAN
  PROVE  [NoLookup EXCEPT !.asked = {i}, !.due = due]
           = [at |-> "closed", asked |-> {i}, size |-> 0, walked |-> 0, entry |-> NoArea, due |-> due]
<1> DEFINE none == FALSE
           begun == [NoLookup EXCEPT !.asked = {i}, !.due = due]
<1>1. NoLookup = [at |-> "closed", asked |-> {}, size |-> 0, walked |-> 0, entry |-> NoArea,
                  due |-> none]
  BY DEF NoLookup
<1>2. begun = [NoLookup EXCEPT !.asked = {i}, !.due = due]
  OBVIOUS
<1> HIDE DEF none, begun
<1>3. begun = [at |-> "closed", asked |-> {i}, size |-> 0, walked |-> 0, entry |-> NoArea, due |-> due]
  BY <1>1, <1>2, ChangedIs
<1> QED
  BY <1>3 DEF begun

LEMMA LookKeeps ==
  ASSUME ReadInv, NEW i \in Idents, Look(i), UNCHANGED <<vars, visible>>
  PROVE  ReaderTypes' /\ WalkInv' /\ LookupInv'
<1> DEFINE due == Readable(i) # {} /\ InMap(i, visible)
           begun == [NoLookup EXCEPT !.asked = {i}, !.due = due]
<1>1. /\ ReaderTypes /\ WalkInv
      /\ shared' = shared /\ disk' = disk /\ chain' = chain /\ entries' = entries
      /\ visible' = visible
      /\ lookup' = IF InMap(i, shared.blocs) THEN [begun EXCEPT !.at = "entry"]
                   ELSE IF Len(disk) <= shared.size THEN [begun EXCEPT !.at = "missed"]
                   ELSE [begun EXCEPT !.at = "walk", !.size = Len(disk)]
  BY DEF ReadInv, Look, vars
<1>2. due \in BOOLEAN /\ (due => entries[i] # NoArea /\ InMap(i, visible))
  BY DEF Readable, Current, ReadInv, WriterInv
<1>3. ASSUME due, ~InMap(i, shared.blocs), Len(disk) <= shared.size PROVE FALSE
  <2>1. visible <= shared.blocs /\ visible \in Nat /\ shared.blocs \in Nat
    BY <1>1, <1>3 DEF WalkInv, ReaderTypes, Lookups
  <2> QED
    BY <2>1, <1>2, <1>3, MapGrows
<1>4. Len(disk) \in Nat /\ Len(chain) \in Nat /\ Len(chain) > 0
  BY EndIs, ChainedIs DEF ReadInv, IInv, WriterInv, Placed
<1> HIDE DEF due
<1>5. begun = [at |-> "closed", asked |-> {i}, size |-> 0, walked |-> 0, entry |-> NoArea,
               due |-> due]
  BY <1>2, BegunIs
<1> HIDE DEF begun
<1>9. ASSUME NEW at \in {"entry", "missed", "walk"}, NEW size \in Nat, size <= Len(disk),
             lookup' = [at |-> at, asked |-> {i}, size |-> size, walked |-> 0, entry |-> NoArea,
                        due |-> due],
             at = "missed" => ~due
      PROVE  ReaderTypes' /\ WalkInv' /\ LookupInv'
  <2>1. /\ ReaderTypes /\ WalkInv /\ shared' = shared /\ disk' = disk /\ chain' = chain
        /\ entries' = entries /\ visible' = visible
    BY <1>1
  <2>2. /\ lookup'.at = at /\ lookup'.asked = {i} /\ lookup'.size = size /\ lookup'.walked = 0
        /\ lookup'.due = due
    BY <1>9
  <2>3. lookup' \in Lookups
    BY <1>2, <1>9, NoAreaIs, AsksAre DEF Lookups
  <2>4. ReaderTypes'
    BY <2>1, <2>3 DEF ReaderTypes
  <2>5. WalkInv'
    BY <2>1, <2>2, <1>4, <1>9 DEF WalkInv
  <2>6. LookupInv'
    BY <2>1, <2>2, <1>2, <1>9 DEF LookupInv
  <2> QED
    BY <2>4, <2>5, <2>6
<1>6. CASE InMap(i, shared.blocs)
  <2>1. lookup' = [at |-> "entry", asked |-> {i}, size |-> 0, walked |-> 0, entry |-> NoArea,
                   due |-> due]
    BY <1>1, <1>5, <1>6
  <2> QED
    BY <2>1, <1>2, <1>4, <1>9
<1>7. CASE ~InMap(i, shared.blocs) /\ Len(disk) <= shared.size
  <2>1. lookup' = [at |-> "missed", asked |-> {i}, size |-> 0, walked |-> 0, entry |-> NoArea,
                   due |-> due]
    BY <1>1, <1>5, <1>7
  <2> QED
    BY <2>1, <1>2, <1>3, <1>4, <1>7, <1>9
<1>8. CASE ~InMap(i, shared.blocs) /\ ~(Len(disk) <= shared.size)
  <2>1. lookup' = [at |-> "walk", asked |-> {i}, size |-> Len(disk), walked |-> 0, entry |-> NoArea,
                   due |-> due]
    BY <1>1, <1>5, <1>8
  <2> QED
    BY <2>1, <1>2, <1>4, <1>9
<1> QED
  BY <1>6, <1>7, <1>8

\* The state of a reader between two lookups.
LEMMA RestingIs ==
  /\ NoLookup \in Lookups /\ NoLookup.size = 0 /\ NoLookup.asked = {} /\ NoLookup.at = "closed"
  /\ ~NoLookup.due
  /\ Finds \in Lookups /\ Finds.size = 0 /\ Finds.asked = {} /\ Finds.at = "found" /\ ~Finds.due
  /\ lookup.due \in BOOLEAN =>
       /\ Misses \in Lookups /\ Misses.size = 0 /\ Misses.asked = {} /\ Misses.at = "missed"
       /\ Misses.due = lookup.due
<1> DEFINE none == FALSE
           R == NoLookup
           F == Finds
           M == Misses
<1>1. R = [at |-> "closed", asked |-> {}, size |-> 0, walked |-> 0, entry |-> NoArea, due |-> none]
  BY DEF NoLookup
<1>2. F = [R EXCEPT !.at = "found"] /\ M = [R EXCEPT !.at = "missed", !.due = lookup.due]
  BY DEF Finds, Misses
<1>3. none \in BOOLEAN /\ ~none
  OBVIOUS
<1> HIDE DEF none, R, F, M
<1>4. F = [at |-> "found", asked |-> {}, size |-> 0, walked |-> 0, entry |-> NoArea, due |-> none]
  BY <1>1, <1>2
<1>5. M = [at |-> "missed", asked |-> {}, size |-> 0, walked |-> 0, entry |-> NoArea,
           due |-> lookup.due]
  BY <1>1, <1>2
<1>6. R \in Lookups /\ F \in Lookups /\ (lookup.due \in BOOLEAN => M \in Lookups)
  BY <1>1, <1>3, <1>4, <1>5, NoAreaIs, AsksAre DEF Lookups
<1> QED
  BY <1>1, <1>3, <1>4, <1>5, <1>6 DEF R, F, M

\* A lookup that is over, or has not begun, asks for nothing of the file.
LEMMA RestingKeeps ==
  ASSUME ReadInv, UNCHANGED <<vars, visible>>,
         lookup' \in Lookups, lookup'.size = 0, lookup'.asked = {}, ~lookup'.due,
         lookup'.at \in {"closed", "found", "missed"},
         shared' \in [blocs : Nat, size : Nat], shared'.size <= Len(disk),
         Len(disk) <= shared'.size => visible <= shared'.blocs
  PROVE  ReaderTypes' /\ WalkInv' /\ LookupInv'
<1>1. /\ disk' = disk /\ chain' = chain /\ visible' = visible /\ visible \in Nat
      /\ visible <= Len(chain) /\ Len(disk) \in Nat
  BY EndIs DEF vars, ReadInv, ReaderTypes, WalkInv, IInv, WriterInv
<1>2. ReaderTypes'
  BY <1>1 DEF ReaderTypes
<1>3. WalkInv'
  BY <1>1 DEF WalkInv
<1>4. LookupInv'
  BY DEF LookupInv
<1> QED
  BY <1>2, <1>3, <1>4

\* What the reader goes by, when it is not changed.
LEMMA SharedIs ==
  ASSUME ReadInv
  PROVE  /\ shared \in [blocs : Nat, size : Nat] /\ shared.size <= Len(disk)
         /\ Len(disk) <= shared.size => visible <= shared.blocs
         /\ lookup \in Lookups /\ lookup.due \in BOOLEAN /\ Len(disk) \in Nat /\ Len(disk) > 0
<1>1. Len(disk) \in Nat /\ Len(disk) > 0
  BY EndIs, SizesAre DEF ReadInv, IInv, WriterInv
<1> QED
  BY <1>1 DEF ReadInv, ReaderTypes, Lookups, WalkInv

\* The reader is about to read the indirection of what is asked for.
LEMMA EntryKeeps ==
  ASSUME ReadInv, UNCHANGED <<vars, visible>>, lookup.asked # {},
         lookup' = [lookup EXCEPT !.at = "entry", !.size = 0, !.walked = 0],
         shared' \in [blocs : Nat, size : Nat], shared'.size <= Len(disk),
         Len(disk) <= shared'.size => visible <= shared'.blocs
  PROVE  ReaderTypes' /\ WalkInv' /\ LookupInv'
<1>1. /\ disk' = disk /\ chain' = chain /\ visible' = visible /\ visible \in Nat
      /\ visible <= Len(chain) /\ Len(disk) \in Nat /\ entries' = entries
  BY EndIs DEF vars, ReadInv, ReaderTypes, WalkInv, IInv, WriterInv
<1>2. lookup \in Lookups
  BY DEF ReadInv, ReaderTypes
<1>3. /\ lookup' \in Lookups /\ lookup'.at = "entry" /\ lookup'.size = 0
      /\ lookup'.asked = lookup.asked /\ lookup'.due = lookup.due
  BY <1>2 DEF Lookups
<1>4. ReaderTypes'
  BY <1>1, <1>3 DEF ReaderTypes
<1>5. WalkInv'
  BY <1>1, <1>3 DEF WalkInv
<1>6. LookupInv'
  BY <1>1, <1>3 DEF LookupInv, ReadInv
<1> QED
  BY <1>4, <1>5, <1>6

LEMMA PublishKeeps ==
  ASSUME ReadInv, Publish, UNCHANGED <<vars, visible>>
  PROVE  ReaderTypes' /\ WalkInv' /\ LookupInv'
<1>1. /\ lookup.at = "walked" /\ lookup.asked # {}
      /\ shared' = [blocs |-> lookup.walked, size |-> lookup.size]
      /\ lookup' = IF InMap(Asked, lookup.walked)
                   THEN [lookup EXCEPT !.at = "entry", !.size = 0, !.walked = 0] ELSE Misses
  BY DEF Publish
<1>2. Asked \in lookup.asked
  BY <1>1, AskedIs DEF ReadInv
<1>3. /\ shared' \in [blocs : Nat, size : Nat] /\ shared'.size <= Len(disk)
      /\ Len(disk) <= shared'.size => visible <= shared'.blocs
  <2>1. lookup.walked \in Nat /\ lookup.size \in Nat
    BY SharedIs DEF Lookups
  <2> QED
    BY <1>1, <2>1 DEF ReadInv, WalkInv
<1>4. CASE InMap(Asked, lookup.walked)
  <2>1. lookup' = [lookup EXCEPT !.at = "entry", !.size = 0, !.walked = 0]
    BY <1>1, <1>4
  <2> QED
    BY <2>1, <1>1, <1>3, EntryKeeps
<1>5. CASE ~InMap(Asked, lookup.walked)
  <2>1. ~lookup.due
    BY <1>1, <1>2, <1>5 DEF ReadInv, LookupInv
  <2>2. lookup' = Misses /\ lookup.due \in BOOLEAN
    BY <1>1, <1>5, SharedIs
  <2>3. /\ lookup' \in Lookups /\ lookup'.size = 0 /\ lookup'.asked = {} /\ ~lookup'.due
        /\ lookup'.at = "missed"
    BY <2>1, <2>2, RestingIs
  <2> QED
    BY <2>3, <1>3, RestingKeeps
<1> QED
  BY <1>4, <1>5

LEMMA CheckQueueKeeps ==
  ASSUME ReadInv, CheckQueue, UNCHANGED <<vars, visible>>
  PROVE  ReaderTypes' /\ WalkInv' /\ LookupInv'
<1>1. /\ lookup.at = "walked" /\ lookup.asked = {}
      /\ shared' = IF HasQueue(disk) THEN [blocs |-> lookup.walked, size |-> 0] ELSE shared
      /\ lookup' = IF HasQueue(disk) THEN Misses ELSE NoLookup
  BY DEF CheckQueue
<1>2. ~lookup.due
  BY <1>1 DEF ReadInv, LookupInv
<1>3. /\ lookup' \in Lookups /\ lookup'.size = 0 /\ lookup'.asked = {} /\ ~lookup'.due
      /\ lookup'.at \in {"closed", "missed"}
  BY <1>1, <1>2, SharedIs, RestingIs
<1>4. /\ shared' \in [blocs : Nat, size : Nat] /\ shared'.size <= Len(disk)
      /\ Len(disk) <= shared'.size => visible <= shared'.blocs
  <2>1. lookup.walked \in Nat
    BY SharedIs DEF Lookups
  <2> QED
    BY <1>1, <2>1, SharedIs
<1> QED
  BY <1>3, <1>4, RestingKeeps

LEMMA ReadEntryKeeps ==
  ASSUME ReadInv, ReadEntry, UNCHANGED <<vars, visible>>
  PROVE  ReaderTypes' /\ WalkInv' /\ LookupInv'
<1>1. /\ lookup.at = "entry" /\ shared' = shared
      /\ lookup' = IF entries[Asked] = NoArea THEN Misses
                   ELSE [lookup EXCEPT !.at = "definition", !.entry = entries[Asked]]
  BY DEF ReadEntry
<1>2. Asked \in Idents /\ lookup.asked = {Asked}
  BY <1>1, AskedIs DEF ReadInv, LookupInv
<1>3. CASE entries[Asked] = NoArea
  <2>1. ~lookup.due
    BY <1>2, <1>3 DEF ReadInv, LookupInv
  <2>2. /\ lookup' \in Lookups /\ lookup'.size = 0 /\ lookup'.asked = {} /\ ~lookup'.due
        /\ lookup'.at = "missed"
    BY <2>1, <1>1, <1>3, SharedIs, RestingIs
  <2> QED
    BY <2>2, <1>1, SharedIs, RestingKeeps
<1>4. CASE entries[Asked] # NoArea
  <2> DEFINE entry == entries[Asked]
  <2>1. /\ disk' = disk /\ chain' = chain /\ visible' = visible /\ visible \in Nat
        /\ visible <= Len(chain) /\ Len(disk) \in Nat /\ entries' = entries /\ entry \in Areas
        /\ lookup.size <= Len(disk)
    BY <1>2, SharedIs DEF vars, ReadInv, ReaderTypes, WalkInv, IInv, Types
  <2>2. entry # NoArea /\ lookup' = [lookup EXCEPT !.at = "definition", !.entry = entry]
    BY <1>1, <1>4
  <2>3. \A i \in lookup.asked : entry = entries'[i]
    BY <1>2, <2>1
  <2> HIDE DEF entry
  <2>4. lookup \in Lookups
    BY SharedIs
  <2>5. /\ lookup' \in Lookups /\ lookup'.at = "definition" /\ lookup'.size = lookup.size
        /\ lookup'.asked = lookup.asked /\ lookup'.due = lookup.due /\ lookup'.entry = entry
    BY <2>1, <2>2, <2>4 DEF Lookups
  <2>6. ReaderTypes'
    BY <1>1, <2>1, <2>5, SharedIs DEF ReaderTypes
  <2>7. WalkInv'
    BY <1>1, <2>1, <2>5, SharedIs DEF WalkInv
  <2>8. LookupInv'
    BY <1>2, <2>1, <2>2, <2>3, <2>5 DEF LookupInv, ReadInv
  <2> QED
    BY <2>6, <2>7, <2>8
<1> QED
  BY <1>3, <1>4

LEMMA ReadDefinitionKeeps ==
  ASSUME ReadInv, ReadDefinition, UNCHANGED <<vars, visible>>
  PROVE  ReaderTypes' /\ WalkInv' /\ LookupInv'
<1>1. /\ lookup.at = "definition" /\ shared' = shared
      /\ lookup' = IF WholeAt(Asked, lookup.entry) THEN Finds ELSE [lookup EXCEPT !.at = "failed"]
  BY DEF ReadDefinition
<1>2. Asked \in Idents /\ lookup.asked = {Asked}
  BY <1>1, AskedIs DEF ReadInv, LookupInv
<1>3. lookup.entry = entries[Asked] /\ entries[Asked] # NoArea
  BY <1>1, <1>2 DEF ReadInv, LookupInv
<1>4. WholeAt(Asked, lookup.entry)
  <2>1. ReadIn(disk, entries[Asked], Asked) # {}
    BY <1>2, <1>3 DEF ReadInv, WriterInv
  <2> QED
    BY <2>1, <1>3 DEF ReadIn, Holds, WholeAt
<1>5. /\ lookup' \in Lookups /\ lookup'.size = 0 /\ lookup'.asked = {} /\ ~lookup'.due
      /\ lookup'.at = "found"
  BY <1>1, <1>4, RestingIs
<1> QED
  BY <1>1, <1>5, SharedIs, RestingKeeps

-----------------------------------------------------------------------------
(* The theorems. *)

LEMMA ReadInitHolds == Init /\ ReadInit => ReadInv
<1> SUFFICES ASSUME Init, ReadInit PROVE ReadInv
  OBVIOUS
<1>1. IInv
  BY InitHolds
<1>2. WriterInv
  BY DEF Init, WriterInv, Writing
<1>3. lookup = NoLookup /\ shared = [blocs |-> 0, size |-> 0] /\ visible = 1
  BY DEF ReadInit
<1>4. ReaderTypes
  BY <1>3, RestingIs DEF ReaderTypes
<1>5. Len(disk) \in Nat /\ Len(disk) > 0 /\ Len(chain) = 1
  <2>1. Len(disk) \in Nat /\ Len(disk) > 0
    BY <1>1, <1>2, EndIs, SizesAre DEF IInv, WriterInv
  <2> QED
    BY <2>1 DEF Init
<1>6. WalkInv
  BY <1>3, <1>5, RestingIs DEF WalkInv
<1>7. LookupInv
  BY <1>3, RestingIs DEF LookupInv
<1> QED
  BY <1>1, <1>2, <1>4, <1>6, <1>7 DEF ReadInv

LEMMA ReadNextKeeps ==
  ASSUME ReadInv, [ReadNext]_<<vars, readVars>>
  PROVE  ReadInv'
<1>1. CASE Appends
  BY <1>1, AppendsKeep
<1>2. CASE ReadStep
  <2>1. UNCHANGED <<vars, visible>>
    BY <1>2 DEF ReadStep
  <2>2. ReaderTypes' /\ WalkInv' /\ LookupInv'
    BY <1>2, <2>1, OpenReaderKeeps, WalkKeeps, PublishKeeps, CheckQueueKeeps, ReadEntryKeeps,
       ReadDefinitionKeeps, LookKeeps DEF ReadStep, ReaderMoves
  <2> QED
    BY <2>1, <2>2, ReaderLeaves DEF ReadInv
<1>3. CASE UNCHANGED <<vars, readVars>>
  <2>1. UNCHANGED <<vars, visible>> /\ lookup' = lookup /\ shared' = shared
    BY <1>3 DEF readVars
  <2>2. ReaderTypes' /\ WalkInv' /\ LookupInv'
    BY <2>1 DEF ReadInv, ReaderTypes, WalkInv, LookupInv, vars
  <2> QED
    BY <2>1, <2>2, ReaderLeaves DEF ReadInv
<1> QED
  BY <1>1, <1>2, <1>3 DEF ReadNext

\* Where a reader is, what its map is worth, and what the file holds for it, at
\* every step of the writer.
THEOREM ReaderInvariant == ReadSpec => []ReadInv
<1>1. ReadInv /\ [ReadNext]_<<vars, readVars>> => ReadInv'
  BY ReadNextKeeps
<1> QED
  BY ReadInitHolds, <1>1, PTL DEF ReadSpec

\* getDefinition while the file grows: whole definitions or "not yet", no block
\* refused, and no definition missed that was there when the lookup began, in a
\* block linked before the file last grew.
THEOREM LookupsAreRight == ReadSpec => []LookupsRight
<1>1. ReadInv => LookupsRight
  BY DEF ReadInv, ReaderTypes, Lookups, LookupInv, LookupsRight
<1> QED
  BY ReaderInvariant, <1>1, PTL

=============================================================================
