----------------------------- MODULE FileReader -----------------------------
(***************************************************************************)
(* A reader of an index file that is being written (NindPadFile,           *)
(* NindIndex): it maps the blocks of indirections when it opens the file,  *)
(* and again when it misses an ident and the file has grown; each of its   *)
(* reads is one pread, and the writer goes on between two of them.  The    *)
(* writer only appends here, in normal mode: nothing else is promised to   *)
(* readers ("each read returns the definition or not yet ... for appended  *)
(* definitions only", docs/proposals/thread-safe-readers.md).              *)
(***************************************************************************)
EXTENDS IndexFile

CONSTANT MaxReadBytes   \* bound on the size of a file with a reader

VARIABLES
  lookup,    \* what the reader is doing
  shared,    \* m_sharedMap, as its number of blocks, and m_sharedMapFileSize
  visible    \* ghost: blocks that were linked when the file last grew

readVars == <<lookup, shared, visible>>

\* at: where it is; asked: the ident, or none when it opens the file; size: what
\* it has read of the file's; walked: the blocks of the walk; entry: the
\* indirection; due: whether the ident had a definition when the lookup began, in
\* a block linked before the file last grew.
NoLookup == [at |-> "closed", asked |-> {}, size |-> 0, walked |-> 0, entry |-> NoArea, due |-> FALSE]

\* A file that has just been created, not opened yet for reading.
ReadInit == lookup = NoLookup /\ shared = [blocs |-> 0, size |-> 0] /\ visible = 1

Asked == CHOOSE i \in lookup.asked : TRUE
InMap(i, blocs) == i < BlocSize * blocs
Finds == [NoLookup EXCEPT !.at = "found"]
Misses == [NoLookup EXCEPT !.at = "missed", !.due = lookup.due]

\* The constructor's mapEntriesBlocks: the size of the file is read at each block.
OpenReader ==
  /\ lookup.at = "closed"
  /\ lookup' = [NoLookup EXCEPT !.at = "walk"]
  /\ UNCHANGED shared

\* getEntryPosAt: in the map, or no block can have been added, or a walk.
Look(i) ==
  /\ lookup.at \in {"missed", "found"}
  /\ LET begun == [NoLookup EXCEPT !.asked = {i}, !.due = Readable(i) # {} /\ InMap(i, visible)]
     IN lookup' = IF InMap(i, shared.blocs) THEN [begun EXCEPT !.at = "entry"]
                  ELSE IF Len(disk) <= shared.size THEN [begun EXCEPT !.at = "missed"]
                  ELSE [begun EXCEPT !.at = "walk", !.size = Len(disk)]
  /\ UNCHANGED shared

\* entriesBlockOk: the block and the head of the next one are in a file of that
\* size, with the queue.
BlocOk(b, size) ==
  /\ chain[b] + BlocBytes + QueueBytes <= size + 1
  /\ b < Len(chain) =>
       /\ chain[b + 1] >= chain[b] + BlocBytes
       /\ chain[b + 1] + 1 + QueueBytes <= size + 1

\* mapEntriesBlocksAt, mapEntriesBlocks: the head of a block, against the size
\* read before, and else against the one of now.
Walk ==
  LET bloc == lookup.walked + 1 IN
  /\ lookup.at = "walk"
  /\ lookup' = [lookup EXCEPT
       !.walked = bloc,
       !.at = IF ~BlocOk(bloc, lookup.size) /\ ~BlocOk(bloc, Len(disk)) THEN "failed"
              ELSE IF bloc < Len(chain) THEN "walk" ELSE "walked"]
  /\ UNCHANGED shared

\* Mutant of Publish: the map is said to be of the file as it is now.
PublishLate ==
  /\ lookup.at = "walked"
  /\ lookup.asked # {}
  /\ shared' = [blocs |-> lookup.walked, size |-> Len(disk)]
  /\ lookup' = IF InMap(Asked, lookup.walked)
               THEN [lookup EXCEPT !.at = "entry", !.size = 0, !.walked = 0] ELSE Misses

\* publishEntriesMap, m_sharedMapFileSize: the map is of the file as it was before.
Publish ==
  /\ lookup.at = "walked"
  /\ lookup.asked # {}
  /\ shared' = [blocs |-> lookup.walked, size |-> lookup.size]
  /\ lookup' = IF InMap(Asked, lookup.walked)
               THEN [lookup EXCEPT !.at = "entry", !.size = 0, !.walked = 0] ELSE Misses

\* The constructor's checkSpejcifiques and checkIdentification: it throws when
\* the queue is being moved.
CheckQueue ==
  /\ lookup.at = "walked"
  /\ lookup.asked = {}
  /\ shared' = IF HasQueue(disk) THEN [blocs |-> lookup.walked, size |-> 0] ELSE shared
  /\ lookup' = IF HasQueue(disk) THEN Misses ELSE NoLookup

\* getDefinitionAt: the indirection, then the bytes it says.
ReadEntry ==
  /\ lookup.at = "entry"
  /\ lookup' = IF entries[Asked] = NoArea THEN Misses
               ELSE [lookup EXCEPT !.at = "definition", !.entry = entries[Asked]]
  /\ UNCHANGED shared

\* readAt, and the decoder's: the flag and the ident of the definition, its length.
WholeAt(i, area) ==
  \E v \in Values :
    /\ Size[v] <= area.len /\ area.at + Size[v] - 1 <= Len(disk)
    /\ \A k \in 1..Size[v] : disk[area.at + k - 1] = <<"definition", i, v, k>>

ReadDefinition ==
  /\ lookup.at = "definition"
  /\ lookup' = IF WholeAt(Asked, lookup.entry) THEN Finds ELSE [lookup EXCEPT !.at = "failed"]
  /\ UNCHANGED shared

ReaderMoves ==
  \/ OpenReader \/ Walk \/ Publish \/ CheckQueue \/ ReadEntry \/ ReadDefinition
  \/ \E i \in Idents : Look(i)

ReadStep == ReaderMoves /\ UNCHANGED <<vars, visible>>

\* The writer, which gives idents their first definitions, dies and opens the file
\* again.
Appends ==
  /\ \/ \E i \in Idents, v \in Values :
          /\ Len(disk) + BlocBytes + Size[v] <= MaxReadBytes
          /\ entries[i] = NoArea
          /\ Set(i, {v})
     \/ Step \/ Stop \/ Open \/ RefuseToOpen
  /\ visible' = IF Len(disk') > Len(disk) THEN Len(chain) ELSE visible
  /\ UNCHANGED <<lookup, shared>>

ReadNext == ReadStep \/ Appends

ReadSpec == Init /\ ReadInit /\ [][ReadNext]_<<vars, readVars>>

-----------------------------------------------------------------------------
(* Properties. *)

\* A reader of a file that grows reads whole definitions or "not yet", is never
\* refused a block, and finds what had a definition when its lookup began, in a
\* block linked before the file last grew (one linked since may be missed).
LookupsRight == lookup.at # "failed" /\ ~(lookup.at = "missed" /\ lookup.due)

=============================================================================
