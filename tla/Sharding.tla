------------------------------ MODULE Sharding ------------------------------
(***************************************************************************)
(* A corpus cut for processes that index its parts, each one on its own    *)
(* (Indexer.index_jsonl and index_files): the offsets a file of lines is   *)
(* cut at, the records each process finds between two of them, and the     *)
(* identifiers these get.  Nothing is shared by the processes: what they   *)
(* find does not depend on the order they run in.                          *)
(*                                                                         *)
(* A file is a sequence of bytes: newlines, blanks and others.  Offsets    *)
(* are from 0.  A record is <<from, to>>, the offsets of its text.         *)
(***************************************************************************)
EXTENDS Integers, SequencesExt

CONSTANTS NL, Blank   \* two bytes

NoLimit == -1
Least(S) == CHOOSE n \in S : \A other \in S : n <= other

\* Lines are between newlines; the last one may have none.
Starts(file, start, stop) ==
  {p \in start..(stop - 1) : p < Len(file) /\ (p = start \/ file[p] = NL)}
AfterLine(file, p) ==
  Least({Len(file)} \cup {n \in (p + 1)..Len(file) : file[n] = NL})
IsBlank(file, from, to) == \A n \in (from + 1)..to : file[n] \in {NL, Blank}

\* _count_jsonl_range: the lines that begin in the range, but blank ones.
CountRange(file, start, stop) ==
  Cardinality({p \in Starts(file, start, stop) : ~IsBlank(file, p, AfterLine(file, p))})

\* _jsonl_end: after the limit-th record, or all of the file.
JsonlEnd(file, limit) ==
  LET ends == {0} \cup {AfterLine(file, p) : p \in Starts(file, 0, Len(file))}
      enough == {n \in ends : CountRange(file, 0, n) = limit}
  IN IF limit = NoLimit \/ enough = {} THEN Len(file) ELSE Least(enough)

\* _jsonl_ranges: about as many bytes each; the line a target falls in is finished first.
Bounds(file, end, pieces, begin) ==
  LET Cut(found, i) ==
        LET target == begin + ((end - begin) * i) \div pieces
            bound == AfterLine(file, target - 1)
        IN IF found.over \/ target <= Last(found.bounds) THEN found
           ELSE IF bound >= end THEN [found EXCEPT !.over = TRUE]
           ELSE [found EXCEPT !.bounds = Append(@, bound)]
      cuts == FoldLeft(Cut, [bounds |-> <<begin>>, over |-> FALSE], [i \in 1..(pieces - 1) |-> i])
  IN Append(cuts.bounds, end)
JsonlRanges(file, end, pieces, begin) ==
  LET bounds == Bounds(file, end, pieces, begin)
  IN [i \in 1..(Len(bounds) - 1) |-> <<bounds[i], bounds[i + 1]>>]

\* _tokenize_jsonl_range: the bytes of the range and no others, split at newlines.
Records(file, range) ==
  LET part == SubSeq(file, range[1] + 1, range[2])
      Newlines(p) == {n \in p..(Len(part) - 1) : part[n + 1] = NL}
      Text(p) == <<range[1] + p, range[1] + Least({Len(part)} \cup Newlines(p))>>
      texts == {Text(p) : p \in Starts(part, 0, Len(part))}
  IN SetToSortSeq({t \in texts : ~IsBlank(file, t[1], t[2])}, LAMBDA s, t : s[1] < t[1])
RecordsOf(file, ranges) == FlattenSeq([i \in 1..Len(ranges) |-> Records(file, ranges[i])])

\* Consecutive identifiers.
Numbered(first, seq) == {<<first + i - 1, seq[i]>> : i \in 1..Len(seq)}

-----------------------------------------------------------------------------

\* _build_jsonl_shard: parsed at most so many bytes at a time.
Shard(file, range, first, pieceBytes) ==
  LET bytes == range[2] - range[1]
      pieces == IF bytes = 0 THEN 1 ELSE (bytes + pieceBytes - 1) \div pieceBytes
  IN Numbered(first, RecordsOf(file, JsonlRanges(file, range[2], pieces, range[1])))

\* The numbers of documents before each part.
Before(counts) ==
  [i \in 1..Len(counts) |-> FoldLeft(+, 0, SubSeq(counts, 1, i - 1))]

\* _index_jsonl_sharded: the documents of the shards, that are the index's segments,
\* and what indexes them in one process, or several that only tokenize.
JsonlSharded(file, limit, shards, pieceBytes) ==
  LET ranges == JsonlRanges(file, JsonlEnd(file, limit), shards, 0)
      firsts == Before([i \in 1..Len(ranges) |-> CountRange(file, ranges[i][1], ranges[i][2])])
  IN [i \in 1..Len(ranges) |-> Shard(file, ranges[i], firsts[i], pieceBytes)]
JsonlDirect(file, limit, workers) ==
  LET end == JsonlEnd(file, limit)
  IN Numbered(0, RecordsOf(file, IF workers = 1 THEN << <<0, end>> >>
                                 ELSE JsonlRanges(file, end, workers * 4, 0)))

\* _index_sharded: parts of the list of files.
FilesSharded(paths, shards) ==
  LET parts == IF shards < Len(paths) THEN shards ELSE Len(paths)
      bounds == [i \in 0..parts |-> (Len(paths) * i) \div parts]
  IN [i \in 1..parts |-> Numbered(bounds[i - 1], SubSeq(paths, bounds[i - 1] + 1, bounds[i]))]

\* The n-th record of the corpus is document n, in one shard.
Documents(file, limit) ==
  LET all == Records(file, <<0, Len(file)>>)
  IN Numbered(0, IF limit = NoLimit \/ limit >= Len(all) THEN all ELSE SubSeq(all, 1, limit))
Partition(shards, documents) ==
  /\ UNION {shards[i] : i \in DOMAIN shards} = documents
  /\ \A i, j \in DOMAIN shards : i # j => shards[i] \cap shards[j] = {}

=============================================================================
