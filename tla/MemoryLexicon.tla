--------------------------- MODULE MemoryLexicon ---------------------------
(***************************************************************************)
(* The lexicon in memory (src/cpp/NindLexicon): simple words and compound  *)
(* ones (a known word and the simple word that follows it), with their     *)
(* identifiers, and the file that a writer appends them to and readers     *)
(* read the new part of.                                                   *)
(*                                                                         *)
(* A lexicon is [simple, compound : word -> identifier, current, records,  *)
(* read]: current is the last identifier given; records is the file, of    *)
(* which every write replaces the identification at the end, and read how  *)
(* many of its records are in memory.                                      *)
(***************************************************************************)
EXTENDS Naturals, Sequences, SequencesExt, FiniteSetsExt, Functions

NoWords == [w \in {} |-> 0]
NewFile == [simple |-> NoWords, compound |-> NoWords, current |-> 0, records |-> <<>>, read |-> 0]

\* A definition goes in its map.
Known(lexicon, record) ==
  IF record.isSimple THEN [lexicon EXCEPT !.simple = (record.word :> record.ident) @@ @]
  ELSE [lexicon EXCEPT !.compound = (record.word :> record.ident) @@ @]

\* A new word: in memory, and in the file over its identification.
Insert(lexicon, isSimple, word) ==
  LET record == [isSimple |-> isSimple, word |-> word, ident |-> lexicon.current + 1]
  IN [Known(lexicon, record) EXCEPT !.current = record.ident, !.read = @ + 1,
                                    !.records = Append(@, record)]

\* addWord, a component after the ones found: a compound word whose beginning or whose
\* component is new is new, it is not looked for.
AddComponent(found, component) ==
  LET known == component \in DOMAIN found.lexicon.simple
      with == IF known THEN found.lexicon ELSE Insert(found.lexicon, TRUE, component)
      isNew == found.isNew \/ ~known
      pair == <<found.ident, with.simple[component]>>
      both == Insert(with, FALSE, pair)
  IN IF found.ident = 0
     THEN [lexicon |-> with, ident |-> with.simple[component], isNew |-> isNew]
     ELSE IF ~isNew /\ pair \in DOMAIN with.compound
     THEN [found EXCEPT !.ident = with.compound[pair]]
     ELSE [lexicon |-> both, ident |-> both.current, isNew |-> TRUE]

\* The lexicon, and the identifier of the word.
AddWord(lexicon, components) ==
  FoldLeft(AddComponent, [lexicon |-> lexicon, ident |-> 0, isNew |-> FALSE], components)

\* getId, once what is new in the file is read: 0 for an unknown word.
GetId(lexicon, components) ==
  LET After(ident, i) ==
        IF components[i] \notin DOMAIN lexicon.simple THEN 0
        ELSE LET simple == lexicon.simple[components[i]]
             IN IF i = 1 THEN simple
                ELSE IF <<ident, simple>> \in DOMAIN lexicon.compound
                THEN lexicon.compound[<<ident, simple>>] ELSE 0
  IN FoldLeftDomain(LAMBDA ident, i : IF i > 1 /\ ident = 0 THEN 0 ELSE After(ident, i),
                    0, components)

\* updateFromFile, of a reader or of a writer that opens the file: the records after
\* those it has read, and the largest identifier, which the last one has.
UpdateFromFile(lexicon, records) ==
  LET all == FoldLeft(Known, lexicon, SubSeq(records, lexicon.read + 1, Len(records)))
  IN [all EXCEPT !.records = records, !.read = Len(records),
                 !.current = IF records = <<>> THEN 0 ELSE Last(records).ident]

-----------------------------------------------------------------------------
(* integrityAndCounts, of a lexicon small enough to be checked. *)

Named(words, ident) == {word \in DOMAIN words : words[word] = ident}

\* From a compound word back to its first component: "whole", "broken" when one of them
\* is not there, or still "going" after as many steps as there are compound words.
Unfolded(lexicon, ident) ==
  LET Back(chain, step) ==
        LET pair == CHOOSE pair \in Named(lexicon.compound, chain.ident) : TRUE
            last == Named(lexicon.simple, pair[2])
            first == Named(lexicon.simple, pair[1])
        IN IF chain.state # "going" THEN chain
           ELSE IF last = {} \/ (first = {} /\ Named(lexicon.compound, pair[1]) = {})
           THEN [chain EXCEPT !.state = "broken"]
           ELSE IF first = {}
           THEN [chain EXCEPT !.ident = pair[1], !.words = SetToSeq(last) \o @]
           ELSE [chain EXCEPT !.state = "whole", !.words = SetToSeq(first) \o SetToSeq(last) \o @]
  IN FoldLeft(Back, [state |-> "going", ident |-> ident, words |-> <<>>],
              SetToSeq(Range(lexicon.compound)))

IntegrityOk(lexicon) ==
  \A ident \in Range(lexicon.compound) :
    LET chain == Unfolded(lexicon, ident)
    IN chain.state = "whole" /\ GetId(lexicon, chain.words) = ident

=============================================================================
