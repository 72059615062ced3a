----------------------------- MODULE MCFormats -----------------------------
(* What the operators on formats and types of terms must do, checked over     *)
(* bounded inputs: integers (module Codec), the words and the counters of     *)
(* Amose (module Amose), the lexicon in memory (module MemoryLexicon),        *)
(* definitions of terms (module TermBytes).                                   *)
EXTENDS Integers, Sequences, SequencesExt, FiniteSetsExt, Functions

-----------------------------------------------------------------------------
(* The integers of the files, with bytes of five bits, the smallest whose      *)
(* first byte has room for the marks of the sizes.                             *)

Small == INSTANCE Codec WITH Byte <- 32

\* The values on both sides of every change of size, and the largest ones.
Edges == UNION {{n - 1, n, n + 1} : n \in {Small!Room(k) : k \in 1..4} \cup {1, Small!W2, Small!W3}}
           \cup {Small!W4 - 2, Small!W4 - 1}
SignedEdges == LET up == {n \in {m \div 2 : m \in Edges} : n < Small!W4 \div 2}
               IN  up \cup {-n - 1 : n \in up}
\* Every first byte, followed by some others or cut short.
Strings == {<<>>} \cup {<<first>> \o rest : first \in Small!Bytes,
                                         rest \in UNION {[1..n -> {0, 21, 31}] : n \in 0..4}}

\* Integers are read back as they were written, by C++ and by Python.
ASSUME UnsignedRead ==
  \A n \in Edges : LET bytes == Small!PutUIntLat(n) IN
    /\ Small!GetUIntLat(bytes) = Small!Got(n, Len(bytes))
    /\ Small!LitNombreULat(bytes) = Small!Got(n, Len(bytes))
ASSUME SignedRead ==
  \A n \in SignedEdges :
    \A bytes \in {Small!PutSIntLat(n), Small!EjcritNombreSLat(n)} :
      /\ Small!GetSIntLat(bytes) = Small!Got(n, Len(bytes))
      /\ Small!LitNombreSLat(bytes) = Small!Got(n, Len(bytes))
ASSUME LongRead ==
  \A n \in Edges \cup {Small!W4, Small!W4 + 1} : LET bytes == Small!PutUIntLat64(n) IN
    Small!GetUIntLat64(bytes) = Small!Got(n, Len(bytes))

\* Integers of a fixed width too, and those beyond their width are refused.
ASSUME FixedRead ==
  \A n \in Edges :
    /\ n < Small!W3 => Small!GetInt3(Small!PutInt3(n)) = Small!Got(n, 3)
    /\ n >= Small!W3 => Small!PutInt3(n) = <<>>
    /\ Small!GetInt4(Small!PutInt4(n)) = Small!Got(n, 4)
    /\ Small!GetInt5(Small!PutInt5(n)) = Small!Got(n, 5)
    /\ Small!GetInt6(Small!PutInt6(n)) = Small!Got(n, 6)
    /\ Small!GetInt8(Small!PutInt8(n)) = Small!Got(n, 8)

\* Python decodes what C++ does from any bytes.
ASSUME SameDecoders ==
  \A bytes \in Strings :
    /\ Small!LitNombreULat(bytes) = Small!GetUIntLat(bytes)
    /\ Small!LitNombreSLat(bytes) = Small!GetSIntLat(bytes)

-----------------------------------------------------------------------------
(* Amose, with counters of three bits.                                         *)

Typed == INSTANCE Amose WITH
  BlockSize <- 2, MaxImpacts <- 1, Mark <- "mark", EmptyPiece <- "", CounterRange <- 8

Lemmas == UNION {[1..n -> {"", "u", "v"}] : n \in 1..3}
KeptPieces(lemma) == SelectSeq(lemma, LAMBDA piece : piece # "")

\* A word is read back from its components, with its type, if that is the one its
\* pieces call for; a named entity always is, even without a lemma.
ASSUME WordsReadBack ==
  \A lemma \in Lemmas :
    LET kept == KeptPieces(lemma)
        Back(type, entity) == Typed!GetWord(Typed!SplitWord(lemma, type, entity))
    IN /\ Back("NAMED_ENTITY", "e") = [lemma |-> IF kept = <<>> THEN <<"">> ELSE kept,
                                       type |-> "NAMED_ENTITY", entity |-> "e"]
       /\ kept # <<>> =>
            LET type == IF Len(kept) = 1 THEN "SIMPLE_TERM" ELSE "MULTI_TERM"
            IN Back(type, "e") = [lemma |-> kept, type |-> type, entity |-> ""]

\* Calls of addDocsToTerm and removeDocFromTerm, of terms of two types: documents
\* after the last one or not, twice in a call, in place or not.
WordsOf == <<<<"u">>, <<"mark", "e">>>>
TypeOf == <<"SIMPLE_TERM", "NAMED_ENTITY">>
NewDocuments == {<<<<2, 1>>>>, <<<<2, 2>>, <<1, 1>>, <<2, 1>>>>, <<<<4, 2>>, <<3, 1>>>>}
CallsOn(t) ==
  [add : {TRUE}, t : {t}, new : NewDocuments, fits : BOOLEAN]
    \cup [add : {FALSE}, t : {t}, doc : {1, 2, 4}]
After(calls) ==
  FoldLeft(LAMBDA ix, call :
             IF call.add THEN Typed!AddDocsToTerm(ix, call.t, TypeOf[call.t], call.new, call.fits)
             ELSE Typed!RemoveDocFromTerm(ix, call.t, TypeOf[call.t], call.doc),
           Typed!NoTerms, calls)

\* What a call adds to, or takes from, the frequency of a document.
Frequency(calls, t, d) ==
  LET Given(new) == FoldSeq(LAMBDA pair, sum : sum + (IF pair[1] = d THEN pair[2] ELSE 0), 0, new)
  IN FoldLeft(LAMBDA n, call : IF call.t # t THEN n
                               ELSE IF call.add THEN n + Given(call.new)
                               ELSE IF call.doc = d THEN 0 ELSE n, 0, calls)

\* Whatever was added and removed, the counters are those a merge would count
\* again from the definitions, and these say what the calls did.
ASSUME CountersExact ==
  \A calls \in [1..3 -> CallsOn(1) \cup CallsOn(2)] \cup [1..4 -> CallsOn(2)] :
    LET ix == After(calls) IN
      /\ ix = Typed!Counted(ix.terms, WordsOf)
      /\ \A t \in 1..2 :
           LET docs == [d \in {d \in 1..4 : Frequency(calls, t, d) > 0} |-> Frequency(calls, t, d)]
           IN /\ Typed!DocPostings(ix, t) = docs
              /\ Typed!DocFreq(ix, t) = Cardinality(DOMAIN docs)
              /\ Typed!TermFreq(ix, t) = FoldFunction(LAMBDA n, sum : n + sum, 0, docs)

-----------------------------------------------------------------------------
(* The lexicon in memory: up to three words of up to three components.         *)

Memory == INSTANCE MemoryLexicon

MemoryWords == UNION {[1..n -> {"u", "v"}] : n \in 1..3}
MemoryTexts == UNION {[1..n -> MemoryWords] : n \in 0..3}
Entered(lexicon, words) == FoldLeft(LAMBDA done, word : Memory!AddWord(done, word).lexicon, lexicon, words)

\* A word has the identifier it got when it was added, for ever; it is known when it
\* was added, when a longer one was, or when it is a component of one; and 1.. are all
\* the identifiers given.
ASSUME WordsKnown ==
  \A words \in MemoryTexts :
    LET lexicon == Entered(Memory!NewFile, words)
        given == {word \in MemoryWords : Memory!GetId(lexicon, word) # 0}
    IN /\ \A i \in DOMAIN words :
            Memory!AddWord(Entered(Memory!NewFile, SubSeq(words, 1, i - 1)), words[i]).ident
              = Memory!GetId(lexicon, words[i])
       /\ given = UNION {UNION {{SubSeq(word, 1, n), <<word[n]>>} : n \in DOMAIN word} :
                           word \in Range(words)}
       /\ {Memory!GetId(lexicon, word) : word \in given} = 1..Cardinality(given)
       /\ lexicon.current = Cardinality(given)
       /\ Memory!IntegrityOk(lexicon)

\* A reader that has read part of the file and reads the rest, or a writer that opens
\* it again after any word and goes on, has what a single writer has.
ASSUME FileFollowed ==
  \A words \in MemoryTexts, cut \in 0..3 :
    LET all == Entered(Memory!NewFile, words)
        part == Entered(Memory!NewFile, SubSeq(words, 1, cut))
        Opened(records) == Memory!UpdateFromFile(Memory!NewFile, records)
    IN cut <= Len(words) =>
         /\ Memory!UpdateFromFile(Opened(part.records), all.records) = all
         /\ Entered(Opened(part.records), SubSeq(words, cut + 1, Len(words))) = all

\* Whatever a damaged lexicon has, but two words of one identifier, the check says yes
\* only if every compound word is found again from its components, and it ends when
\* words go round.
Damaged == {compound \in UNION {[pairs -> 3..4] : pairs \in SUBSET ((1..4) \X {2, 3})} :
              IsInjective(compound)}
ASSUME DamageSeen ==
  \A compound \in Damaged :
    LET lexicon == [Memory!NewFile EXCEPT !.simple = [w \in {"u", "v"} |-> IF w = "u" THEN 1 ELSE 2],
                                          !.compound = compound]
    IN Memory!IntegrityOk(lexicon) <=>
         Range(compound) \subseteq {Memory!GetId(lexicon, word) : word \in MemoryWords}

-----------------------------------------------------------------------------
(* Definitions of terms in a file, with bytes of two bits and words of four    *)
(* bytes: ids on a word, so that gaps of one block need more bits than the     *)
(* accumulator takes.                                                          *)

Packed == INSTANCE TermBytes WITH
  BlockSize <- 3, MaxImpacts <- 2, ByteBits <- 2, WordBytes <- 4, FrequencyBits <- 4

\* Integers are unpacked as they were packed, on any number of bits.
ASSUME PackedRead ==
  \A bits \in 0..8, nb \in 1..7 :
    \A values \in [1..nb -> {0, 2^bits - 1}] \cup [1..nb -> {2^bits \div 2, 2^bits \div 3}] :
      Packed!UnpackBits(Packed!PackBits(values, bits), nb, bits) = values

DocumentSets == {ids \in SUBSET {0, 1, 2, 5, 131, 254, 255} : Cardinality(ids) \in 1..5}
FrequenciesOf(ids) ==
  {[d \in ids |-> 1], [d \in ids |-> 15 - (d % 4)], [d \in ids |-> 1 + ((7 * d) % 15)]}
LengthsOf(ids) == {Packed!NoDocs, [d \in ids |-> 1 + ((5 * d) % 7)]}

ReadBack(def) == \A c \in DOMAIN def : Packed!ReadCategory(Packed!PutCategory(def[c])) = {def[c]}

\* Every definition written is read back as it was, refused by no check of the
\* reader: written whole, or a part of its documents first and the others after.
ASSUME DefinitionsRead ==
  \A ids \in DocumentSets : \A docs \in FrequenciesOf(ids), lengths \in LengthsOf(ids) :
    /\ ReadBack(Packed!WriteTermDef(<<[cg |-> 1, docs |-> docs]>>, lengths))
    /\ \A first \in {2, 131} :
         LET Some(kept) == Restrict(docs, {d \in ids : d <= first <=> kept})
             def == Packed!WriteTermDef(<<[cg |-> 1, docs |-> Some(TRUE)]>>, lengths)
         IN Some(FALSE) # Packed!NoDocs =>
              ReadBack(Packed!UpdateTermDef(def, {}, 1, Some(FALSE), lengths, TRUE))

=============================================================================
