---------------------------- MODULE TermPostings ----------------------------
(***************************************************************************)
(* The definition of a term in a term index                                *)
(* (src/cpp/NindIndex/NindTermIndex.cpp, format v2).                       *)
(*                                                                         *)
(* What a term says is a sequence of categories, each the frequencies of   *)
(* its documents: <<[cg, docs : document -> frequency], ...>>.  A short    *)
(* category is written with the directory of the definition; a long one is *)
(* cut into blocks of BlockSize documents, which the directory describes:  *)
(* searches skip a block by its description.  Postings are given here by   *)
(* increasing document, as the code requires: a function says as much.     *)
(***************************************************************************)
EXTENDS Naturals, Sequences, SequencesExt, FiniteSetsExt, Functions

CONSTANTS
  BlockSize,    \* BLOCK_SIZE: documents in a block
  MaxImpacts    \* MAX_IMPACTS: impacts in a block's description

ASSUME BlockSizeAssumption == BlockSize \in Nat \ {0}
ASSUME MaxImpactsAssumption == MaxImpacts \in Nat \ {0}

NoDocs == [d \in {} |-> 0]
UpRounded(n, by) == (n + by - 1) \div by
Largest(set) == IF set = {} THEN 0 ELSE Max(set)
SumOf(numbers) == FoldFunction(+, 0, numbers)

\* The elements of a set, in an order.
Ordered(S, Before(_, _)) ==
  [n \in 1..Cardinality(S) |->
     CHOOSE x \in S : Cardinality({y \in S : Before(y, x)}) = n - 1]

\* A document's length, 0 when it is not known.
DocumentLength(lengths, d) == IF d \in DOMAIN lengths THEN lengths[d] ELSE 0

\* The documents by increasing id, cut into blocks; the last one may be smaller.
Blocks(docs) ==
  LET ids == Ordered(DOMAIN docs, <)
  IN [b \in 1..UpRounded(Len(ids), BlockSize) |->
        Restrict(docs, {ids[i] : i \in (b - 1) * BlockSize + 1 .. Min({b * BlockSize, Len(ids)})})]

\* The pairs (frequency, length) that no other one beats on both, by decreasing
\* frequency.
Frontier(pairs) ==
  Ordered({pair \in pairs : \A other \in pairs :
             other = pair \/ other[1] < pair[1] \/ other[2] > pair[2]},
          LAMBDA x, y : x[1] > y[1])

\* Mutant of DescribeBlock: too many impacts, the rest is forgotten.
DescribeBlockCut(docs, lengths) ==
  LET pairs == {<<docs[d], DocumentLength(lengths, d)>> : d \in DOMAIN docs}
      shortest == Min({pair[2] : pair \in pairs})
      frontier == Frontier(pairs)
  IN [docs |-> docs, first |-> Min(DOMAIN docs), last |-> Max(DOMAIN docs),
      maxFrequency |-> Max(Range(docs)), minLength |-> shortest,
      impacts |-> IF shortest = 0 THEN <<>>
                  ELSE SubSeq(frontier, 1, Min({Len(frontier), MaxImpacts}))]

\* A block: its documents and what its descriptor says of them.  The impacts,
\* known when every length is, are the pairs (frequency, length) no other pair
\* beats on both; when there are too many, the last one kept is the corner of
\* the rest.
DescribeBlock(docs, lengths) ==
  LET pairs == {<<docs[d], DocumentLength(lengths, d)>> : d \in DOMAIN docs}
      shortest == Min({pair[2] : pair \in pairs})
      frontier == Frontier(pairs)
  IN [docs |-> docs, first |-> Min(DOMAIN docs), last |-> Max(DOMAIN docs),
      maxFrequency |-> Max(Range(docs)), minLength |-> shortest,
      impacts |-> IF shortest = 0 THEN <<>>
                  ELSE IF Len(frontier) <= MaxImpacts THEN frontier
                  ELSE [SubSeq(frontier, 1, MaxImpacts) EXCEPT ![MaxImpacts] = <<@[1], shortest>>]]

\* Either every block of a category has impacts, or none has.
SameImpacts(blocks) ==
  IF \A b \in DOMAIN blocks : blocks[b].impacts # <<>> THEN blocks
  ELSE [b \in DOMAIN blocks |-> [blocks[b] EXCEPT !.impacts = <<>>]]

\* writeTermDefV2: the directory and the blocks of what a term says.  A category's
\* frequency is that of all its documents, as updateTermDef and builders count it.
WriteTermDef(categories, lengths) ==
  [c \in DOMAIN categories |->
     LET docs == categories[c].docs
         long == Cardinality(DOMAIN docs) > BlockSize
     IN [cg |-> categories[c].cg,
         frequency |-> SumOf(docs),
         inline |-> IF long THEN NoDocs ELSE docs,
         blocks |-> IF ~long THEN <<>>
                    ELSE SameImpacts([b \in DOMAIN Blocks(docs) |->
                                        DescribeBlock(Blocks(docs)[b], lengths)])]]

\* Functions of disjoint domains, together.
Joined(functions) ==
  [d \in UNION {DOMAIN f : f \in functions} |-> (CHOOSE f \in functions : d \in DOMAIN f)[d]]

\* decodeTermDefV2: what a definition says.
DecodeTermDef(def) ==
  [c \in DOMAIN def |->
     [cg |-> def[c].cg,
      docs |-> Joined({def[c].inline} \cup {def[c].blocks[b].docs : b \in DOMAIN def[c].blocks})]]

-----------------------------------------------------------------------------
(* Changing a term. *)

\* appendInPlace: only documents of the single category cg, after its last one,
\* in a definition with blocks.  The last block and the added ones are cut again;
\* the descriptions of the other blocks stay.  Whether they fit in the room a
\* rewrite left depends on their bytes: the caller says.  The frequency is added to,
\* not counted again.
Appendable(def, cg, added) ==
  /\ Len(def) = 1 /\ def[1].cg = cg
  /\ def[1].blocks # <<>>
  /\ \A d \in DOMAIN added : d > Last(def[1].blocks).last

AppendInPlace(def, added, lengths) ==
  LET old == def[1].blocks
      cut == Blocks(Joined({Last(old).docs, added}))
      new == [b \in DOMAIN cut |-> DescribeBlock(cut[b], lengths)]
  IN <<[def[1] EXCEPT !.frequency = @ + SumOf(added),
                      !.blocks = SameImpacts(SubSeq(old, 1, Len(old) - 1) \o new)]>>

Without(docs, removed) == Restrict(docs, DOMAIN docs \ removed)

\* The categories of a term when the removed documents have left all of them and
\* the added ones are in cg, replaced if they were there; empty categories go.
Changed(categories, removed, cg, added) ==
  LET left == [c \in DOMAIN categories |->
                 [categories[c] EXCEPT !.docs = Without(@, removed)]]
      known == \E c \in DOMAIN left : left[c].cg = cg
      all == IF known \/ added = NoDocs THEN left ELSE Append(left, [cg |-> cg, docs |-> NoDocs])
      new == [c \in DOMAIN all |->
                IF all[c].cg = cg
                THEN [all[c] EXCEPT !.docs = Joined({added, Without(@, DOMAIN added)})]
                ELSE all[c]]
      kept == Ordered({c \in DOMAIN new : new[c].docs # NoDocs}, <)
  IN [n \in DOMAIN kept |-> new[kept[n]]]

\* updateTermDef: in place when it can, or else the definition whole.  <<>>: the
\* term is erased.
UpdateTermDef(def, removed, cg, added, lengths, fits) ==
  IF removed = {} /\ added # NoDocs /\ Appendable(def, cg, added) /\ fits
  THEN AppendInPlace(def, added, lengths)
  ELSE WriteTermDef(Changed(DecodeTermDef(def), removed, cg, added), lengths)

=============================================================================
