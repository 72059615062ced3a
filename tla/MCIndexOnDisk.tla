--------------------------- MODULE MCIndexOnDisk ---------------------------
(* An instance of IndexOnDisk for TLC: definitions of two sizes; documents    *)
(* with a simple word, or with a compound word and a simple one in two        *)
(* categories, added to no index or to one of three documents or of two       *)
(* shards, one of which lost a document.  A block takes two postings, and one *)
(* impact describes it.                                                       *)
EXTENDS IndexOnDisk, MCFormats

CONSTANTS a, b, x, y

MCSize == (a :> 2) @@ (b :> 3)

Said(word, cg) == [word |-> word, cg |-> cg]
Simple == <<Said(<<x>>, 1)>>
Twice == <<Said(<<x>>, 1), Said(<<x>>, 1)>>
Compound == <<Said(<<x, y>>, 1), Said(<<x>>, 2), Said(<<x>>, 1), Said(<<x>>, 2)>>
Reversed == <<Said(<<y, x>>, 1), Said(<<y>>, 1), Said(<<y>>, 1)>>

MCTexts == {Simple, Compound}
MCShards ==
  {[texts |-> <<>>, deleted |-> <<>>],
   [texts |-> <<(1 :> Simple) @@ (2 :> Simple) @@ (3 :> Twice)>>, deleted |-> <<{}>>],
   [texts |-> <<(1 :> Compound) @@ (4 :> Simple), 2 :> Reversed>>, deleted |-> <<{4}, {}>>]}

\* The lexicon of an index numbers words as the one in memory does.
ASSUME SameIdentifiers ==
  \A words \in MemoryTexts :
    LET lexicon == AddWords(Lexicon(<<>>, 1, FALSE), words)
    IN \A word \in MemoryWords :
         WordId(lexicon, word) = Memory!GetId(Entered(Memory!NewFile, words), word)

=============================================================================
