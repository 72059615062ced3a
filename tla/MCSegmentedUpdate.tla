------------------------- MODULE MCSegmentedUpdate -------------------------
(* Instances of SegmentedUpdate for TLC. *)
EXTENDS SegmentedUpdate

CONSTANTS a, b

MCContents == {{a}, {a, b}}

Empty == [p \in {} |-> {}]

\* No index, one of a single segment, and a large build's: a document each.
MCBuilds == {Empty, [p \in 1..1 |-> 0..MaxDoc], [p \in 1..(MaxDoc + 1) |-> {p - 1}]}

EmptyBuild == {Empty}

-----------------------------------------------------------------------------
(* Corpora of up to five bytes, of which newlines and blanks, and of up to     *)
(* six files.                                                                  *)

Cut == INSTANCE Sharding WITH NL <- "newline", Blank <- "blank"

Corpora == UNION {[1..n -> {"newline", "blank", "other"}] : n \in 0..5}

\* The n-th record of a corpus is document n, in one shard and in one process of those
\* that tokenize: no line is missed, indexed twice or cut where the file is.
ASSUME RecordsIndexedOnce ==
  \A file \in Corpora, limit \in {Cut!NoLimit, 0, 1, 2} :
    /\ \A shards \in {2, 3}, pieceBytes \in {1, 2} :
         Cut!Partition(Cut!JsonlSharded(file, limit, shards, pieceBytes),
                       Cut!Documents(file, limit))
    /\ \A workers \in {1, 2} :
         Cut!JsonlDirect(file, limit, workers) = Cut!Documents(file, limit)

\* So is the n-th file, and no shard is without a file.
ASSUME FilesIndexedOnce ==
  \A n \in 1..6, shards \in 1..7 :
    LET paths == [i \in 1..n |-> i]
        parts == Cut!FilesSharded(paths, shards)
    IN /\ Cut!Partition(parts, {<<i - 1, i>> : i \in 1..n})
       /\ \A i \in DOMAIN parts : parts[i] # {}

=============================================================================
