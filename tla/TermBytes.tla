----------------------------- MODULE TermBytes -----------------------------
(***************************************************************************)
(* How the definition of a term (module TermPostings) is written in a file *)
(* and read back (src/cpp/NindIndex/NindTermIndex.cpp, format v2): ids     *)
(* relative to one another in the directory, gaps and frequencies packed   *)
(* on as many bits as the block needs.                                     *)
(*                                                                         *)
(* Fields are numbers (module Codec writes them in bytes), and packed bytes*)
(* are the sets of their bits.  A reader that raises gives {}, one that    *)
(* returns x gives {x}.                                                    *)
(***************************************************************************)
EXTENDS TermPostings

CONSTANTS
  ByteBits,       \* 8
  WordBytes,      \* 8: bytes of a word, of an id and of the accumulator
  FrequencyBits   \* 32

WordBits == ByteBits * WordBytes
MaxDocId == 2^WordBits - 1

-----------------------------------------------------------------------------
(* Packed integers. *)

BitsOf(value) == Min({bits \in 0..WordBits : value < 2^bits})
BitSet(value) == {bit \in 0..WordBits - 1 : (value \div 2^bit) % 2 = 1}
ValueOf(set) == MapThenSumSet(LAMBDA bit : 2^bit, set)
\* << on a word.
Shifted(set, n) == {bit + n : bit \in set} \cap 0..WordBits - 1

\* packBits: one value after the other, least significant bit first.
PackBits(values, bits) ==
  LET total == Len(values) * bits
      one(place) == place < total /\ (place % bits) \in BitSet(values[place \div bits + 1])
  IN [byte \in 1..UpRounded(total, ByteBits) |->
        {bit \in 0..ByteBits - 1 : one((byte - 1) * ByteBits + bit)}]

\* The accumulator, once it has the bits of a value: a word is read, and the whole
\* bytes of it that fit are taken; or, at the end, a byte at a time, zeros beyond.
Refilled(state, bytes, bits) ==
  LET Byte(i) == IF state.next + i <= Len(bytes) THEN bytes[state.next + i] ELSE {}
      Read(nb) == UNION {Shifted(Byte(i), state.available + i * ByteBits) : i \in 0..nb - 1}
      missing == UpRounded(bits - state.available, ByteBits)
  IN IF state.available >= bits THEN state
     ELSE IF Len(bytes) - state.next + 1 >= WordBytes
     THEN [state EXCEPT !.accumulator = @ \cup Read(WordBytes),
                        !.next = @ + (WordBits - 1 - state.available) \div ByteBits,
                        !.available = (WordBytes - 1) * ByteBits + (@ % ByteBits)]
     ELSE [state EXCEPT !.accumulator = @ \cup Read(missing),
                        !.next = @ + missing, !.available = @ + missing * ByteBits]

Unpacked(state, bytes, bits) ==
  LET full == Refilled(state, bytes, bits)
  IN [full EXCEPT !.accumulator = {bit - bits : bit \in @ \ 0..bits - 1},
                  !.available = @ - bits,
                  !.values = Append(@, ValueOf(full.accumulator \cap 0..bits - 1))]

\* unpackBits: nothing to read, by the accumulator, or bit by bit.
UnpackBits(bytes, valuesNb, bits) ==
  IF bits = 0 THEN [i \in 1..valuesNb |-> 0]
  ELSE IF bits <= WordBits - ByteBits
  THEN FoldLeft(LAMBDA state, i : Unpacked(state, bytes, bits),
                [accumulator |-> {}, next |-> 1, available |-> 0, values |-> <<>>],
                [i \in 1..valuesNb |-> i]).values
  ELSE LET one(place) == (place % ByteBits) \in bytes[place \div ByteBits + 1]
       IN [i \in 1..valuesNb |->
             ValueOf({bit \in 0..bits - 1 : one((i - 1) * bits + bit)})]

-----------------------------------------------------------------------------
(* A block. *)

\* putBlock.
PutBlock(cg, docs) ==
  LET ids == SetToSortSeq(DOMAIN docs, <)
      least == Min(Range(docs))
      gaps == [d \in 1..Len(ids) - 1 |-> ids[d + 1] - ids[d] - 1]
      over == [d \in DOMAIN ids |-> docs[ids[d]] - least]
      gapBits == BitsOf(Largest(Range(gaps)))
      overBits == BitsOf(Largest(Range(over)))
  IN [cg |-> cg, docsNb |-> Len(ids), minFrequency |-> least,
      gapBits |-> gapBits, frequencyBits |-> overBits,
      packed |-> PackBits(gaps, gapBits) \o PackBits(over, overBits)]

\* decodeBlock, checked against its descriptor: the ids and frequencies of it.
DecodeBlock(described, block) ==
  LET gapBytes == UpRounded((block.docsNb - 1) * block.gapBits, ByteBits)
      overBytes == UpRounded(block.docsNb * block.frequencyBits, ByteBits)
      gaps == UnpackBits(SubSeq(block.packed, 1, gapBytes), block.docsNb - 1, block.gapBits)
      over == UnpackBits(SubSeq(block.packed, gapBytes + 1, gapBytes + overBytes),
                         block.docsNb, block.frequencyBits)
      ids == FoldLeft(LAMBDA before, gap : Append(before, Last(before) + gap + 1),
                      <<described.first>>, gaps)
      docs == [d \in Range(ids) |-> over[CHOOSE i \in DOMAIN ids : ids[i] = d] + block.minFrequency]
  IN IF /\ block.docsNb = described.docsNb /\ block.docsNb \in 1..BlockSize
        /\ block.gapBits <= WordBits /\ block.frequencyBits <= FrequencyBits
        /\ Len(block.packed) = gapBytes + overBytes
        /\ \A i \in DOMAIN gaps : gaps[i] < MaxDocId - ids[i]
        /\ Last(ids) = described.last
        /\ Max(Range(docs)) = described.maxFrequency
        /\ described.maxFrequency < 2^FrequencyBits
     THEN {docs} ELSE {}

-----------------------------------------------------------------------------
(* A definition. *)

\* The ids of a category, each by its difference to the one before.
Relative(ids) == [i \in DOMAIN ids |-> IF i = 1 THEN ids[1] ELSE ids[i] - ids[i - 1]]

\* putBlockDescriptor, after the last document of the block before.
PutDescriptor(block, previousLast) ==
  [firstRelative |-> block.first - previousLast, lastRelative |-> block.last - block.first,
   docsNb |-> Cardinality(DOMAIN block.docs), maxFrequency |-> block.maxFrequency,
   minLength |-> block.minLength, impacts |-> block.impacts]

\* writeTermDefV2: the directory, and the blocks of each category.
PutCategory(category) ==
  LET ids == SetToSortSeq(DOMAIN category.inline, <)
      blocks == category.blocks
      PreviousLast(b) == IF b = 1 THEN 0 ELSE blocks[b - 1].last
  IN [cg |-> category.cg, frequency |-> category.frequency,
      impacts |-> blocks # <<>> /\ \A b \in DOMAIN blocks : blocks[b].impacts # <<>>,
      docsNb |-> Len(ids) + SumOf([b \in DOMAIN blocks |-> Cardinality(DOMAIN blocks[b].docs)]),
      inline |-> [i \in DOMAIN ids |-> <<Relative(ids)[i], category.inline[ids[i]]>>],
      descriptors |-> [b \in DOMAIN blocks |-> PutDescriptor(blocks[b], PreviousLast(b))],
      blocks |-> [b \in DOMAIN blocks |-> PutBlock(category.cg, blocks[b].docs)]]

\* The ids that differences give, refused beyond the largest one.
Sums(differences) ==
  LET ids == FoldLeft(LAMBDA before, gap : Append(before, Last(before) + gap), <<0>>, differences)
  IN IF Last(ids) <= MaxDocId THEN {Tail(ids)} ELSE {}

\* The pairs that a descriptor may have.
ImpactsRight(d) ==
  /\ Len(d.impacts) \in 1..MaxImpacts
  /\ \A i \in DOMAIN d.impacts :
       /\ d.impacts[i][1] <= d.maxFrequency /\ d.impacts[i][2] >= d.minLength
       /\ i > 1 => d.impacts[i][1] < d.impacts[i - 1][1] /\ d.impacts[i][2] < d.impacts[i - 1][2]

\* parseDirectoryV2, of a category with blocks: where its blocks start and end.
ParseDescriptors(written) ==
  LET differences == FlattenSeq([b \in DOMAIN written.descriptors |->
        <<written.descriptors[b].firstRelative, written.descriptors[b].lastRelative>>])
      Described(sums) == [b \in DOMAIN written.descriptors |->
        [first |-> sums[2 * b - 1], last |-> sums[2 * b]] @@ written.descriptors[b]]
  IN IF /\ \A b \in DOMAIN written.descriptors :
             /\ written.descriptors[b].docsNb > 0
             /\ b > 1 => written.descriptors[b].firstRelative > 0
             /\ written.impacts => ImpactsRight(written.descriptors[b])
        /\ SumOf([b \in DOMAIN written.descriptors |-> written.descriptors[b].docsNb]) = written.docsNb
     THEN {Described(sums) : sums \in Sums(differences)} ELSE {}

\* The documents of a category without blocks: none twice.
ParseInline(inline) ==
  LET Docs(ids) == [d \in Range(ids) |-> inline[CHOOSE i \in DOMAIN ids : ids[i] = d][2]]
  IN IF \E i \in 2..Len(inline) : inline[i][1] = 0 THEN {}
     ELSE {Docs(ids) : ids \in Sums([i \in DOMAIN inline |-> inline[i][1]])}

\* What is read of a category written, or {}.
ReadCategory(written) ==
  IF written.blocks = <<>>
  THEN {[cg |-> written.cg, frequency |-> written.frequency, inline |-> docs, blocks |-> <<>>] :
          docs \in ParseInline(written.inline)}
  ELSE LET Block(b, described) ==
             {[docs |-> docs, first |-> described[b].first, last |-> described[b].last,
               maxFrequency |-> described[b].maxFrequency, minLength |-> described[b].minLength,
               impacts |-> IF written.impacts THEN described[b].impacts ELSE <<>>] :
                docs \in DecodeBlock(described[b], written.blocks[b])}
           Whole(described) ==
             IF \E b \in DOMAIN described : Block(b, described) = {} THEN {}
             ELSE {[cg |-> written.cg, frequency |-> written.frequency, inline |-> NoDocs,
                    blocks |-> [b \in DOMAIN described |-> CHOOSE block \in Block(b, described) : TRUE]]}
       IN UNION {Whole(described) : described \in ParseDescriptors(written)}

=============================================================================
