------------------------------- MODULE Amose -------------------------------
(***************************************************************************)
(* The indexes of Amose (src/cpp/NindAmose): terms have types, and a term  *)
(* index keeps in its specifics how many terms of each type it has, and    *)
(* how often they occur, counted as documents are added and removed        *)
(* (NindTermAmose), or when indexes are merged (NindAmoseMerge).           *)
(*                                                                         *)
(* A lemma is given as its pieces between the "_": some may be empty.      *)
(***************************************************************************)
EXTENDS TermPostings

CONSTANTS
  Mark,           \* the first component of a named entity
  EmptyPiece,     \* the empty string
  CounterRange    \* values of a counter: 2^32 in the code

ALL == "ALL"
Types == {"SIMPLE_TERM", "MULTI_TERM", "NAMED_ENTITY"}

-----------------------------------------------------------------------------
(* Words: NindLexiconAmose. *)

SplitWord(lemma, type, entity) ==
  (IF type = "NAMED_ENTITY" THEN <<Mark, entity>> ELSE <<>>)
    \o SelectSeq(lemma, LAMBDA piece : piece # EmptyPiece)

\* getWord, of the components the retrolexicon has.
GetWord(components) ==
  IF components[1] = Mark
  THEN [lemma |-> IF Len(components) = 2 THEN <<EmptyPiece>> ELSE SubSeq(components, 3, Len(components)),
        type |-> "NAMED_ENTITY", entity |-> components[2]]
  ELSE [lemma |-> components,
        type |-> IF Len(components) = 1 THEN "SIMPLE_TERM" ELSE "MULTI_TERM", entity |-> EmptyPiece]

-----------------------------------------------------------------------------
(* The term index and its counters: NindTermAmose. *)

NoTerms == [terms |-> [t \in {} |-> <<>>],
            unique |-> [type \in Types \cup {ALL} |-> 0],
            occurrences |-> [type \in Types \cup {ALL} |-> 0]]

DefOf(ix, t) == IF t \in DOMAIN ix.terms THEN ix.terms[t] ELSE <<>>
Plus(counters, type, n) ==
  [counters EXCEPT ![type] = (@ + n) % CounterRange, ![ALL] = (@ + n) % CounterRange]
Minus(counters, type, n) == Plus(counters, type, (CounterRange - 1) * n)
FrequencySum(docs) == FoldFunction(+, 0, docs)

Redefined(ix, t, def) ==
  [ix EXCEPT !.terms = IF def = <<>> THEN Restrict(@, DOMAIN @ \ {t}) ELSE (t :> def) @@ @]

\* The documents given, <<id, frequency>>, a document given twice once.
Grouped(new) ==
  LET With(d) == SelectSeq(new, LAMBDA pair : pair[1] = d)
  IN [d \in {new[i][1] : i \in DOMAIN new} |-> FoldSeq(LAMBDA pair, sum : pair[2] + sum, 0, With(d))]

\* The last document of a category, by the directory alone; 0 when there is none.
LastOf(category) ==
  IF category.blocks # <<>> THEN Last(category.blocks).last ELSE Largest(DOMAIN category.inline)

\* The usual case of addDocsToTerm: documents after the last one.
After(def, added) ==
  Len(def) = 1 /\ \A d \in DOMAIN added : d > LastOf(def[1])

\* Frequencies of the documents that are there are added.
Summed(docs, added) ==
  [d \in DOMAIN added |-> added[d] + (IF d \in DOMAIN docs THEN docs[d] ELSE 0)]

\* addDocsToTerm, with room for what is added in place or not.
AddDocsToTerm(ix, t, type, new, fits) ==
  LET added == Grouped(new)
      def == DefOf(ix, t)
      cg == IF def = <<>> THEN 0 ELSE def[1].cg
      final == IF def = <<>> \/ After(def, added) THEN added
               ELSE Summed(DecodeTermDef(def)[1].docs, added)
      counted == [ix EXCEPT !.occurrences = Plus(@, type, FrequencySum(added)),
                            !.unique = IF def = <<>> THEN Plus(@, type, 1) ELSE @]
  IN IF added = NoDocs THEN ix
     ELSE Redefined(counted, t, UpdateTermDef(def, {}, cg, final, NoDocs, fits))

\* removeDocFromTerm: of the first category.
RemoveDocFromTerm(ix, t, type, d) ==
  LET def == DefOf(ix, t)
      said == DecodeTermDef(def)
      left == Without(said[1].docs, {d})
      counted == [ix EXCEPT !.occurrences = Minus(@, type, said[1].docs[d]),
                            !.unique = IF left = NoDocs THEN Minus(@, type, 1) ELSE @]
  IN IF def = <<>> \/ d \notin DOMAIN said[1].docs THEN ix
     ELSE Redefined(counted, t, IF left = NoDocs THEN <<>>
                                ELSE WriteTermDef([said EXCEPT ![1].docs = left], NoDocs))

\* getDocPostings, getDocList, getTermFreq, getDocFreq: of the first category.
DocPostings(ix, t) == IF DefOf(ix, t) = <<>> THEN NoDocs ELSE DecodeTermDef(DefOf(ix, t))[1].docs
TermFreq(ix, t) == FrequencySum(DocPostings(ix, t))
DocFreq(ix, t) == Cardinality(DOMAIN DocPostings(ix, t))

-----------------------------------------------------------------------------
(* Merging: NindAmoseMerge counts again what is written, by the words. *)

CountTerm(counted, components, def) ==
  LET type == IF components[1] = Mark THEN "NAMED_ENTITY"
              ELSE IF Len(components) = 1 THEN "SIMPLE_TERM" ELSE "MULTI_TERM"
      docs == [c \in DOMAIN def |-> FrequencySum(DecodeTermDef(def)[c].docs)]
  IN [counted EXCEPT !.unique = Plus(@, type, 1),
                     !.occurrences = Plus(@, type, FoldFunction(+, 0, docs))]

\* The counters of terms of those words.
Counted(terms, words) ==
  LET ids == SetToSeq(DOMAIN terms)
      counted == FoldLeft(LAMBDA done, t : CountTerm(done, words[t], terms[t]), NoTerms, ids)
  IN [counted EXCEPT !.terms = terms]

=============================================================================
