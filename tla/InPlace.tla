------------------------------ MODULE InPlace ------------------------------
(***************************************************************************)
(* An index updated in place: its four files, one NindIndexUpdate after    *)
(* another (src/cpp/NindIndex/NindIndexUpdate.cpp), the merges that        *)
(* rebuild it (NindIndexMerge.cpp), and a reader of the local index that   *)
(* stays open (NindLocalIndex.cpp).                                        *)
(*                                                                         *)
(* An index is [exists, v2, withLocal, buckets, idents, retro, terms,      *)
(* local, top]: the lexicon, word after word as <<ident of the prefix,     *)
(* last component>> -> ident; its inverse; the definition of each term     *)
(* (module TermPostings); the local index, internal id -> [doc, def], and  *)
(* the largest internal id as its specifics have it.  Definitions are what *)
(* files hold: where is the business of module IndexFile.  "Single writer: *)
(* nothing may read or write the files during commit()": one is a step.    *)
(***************************************************************************)
EXTENDS TermPostings

CONSTANTS
  Documents,     \* ids of documents
  Texts,         \* what callers add: sequences of [word, cg]; a word: its components
  Shards,        \* the indexes to begin with: the documents of each shard merged
  MinBuckets,    \* lexiconMinBuckets
  MaxLoad,       \* lexiconMaxLoad: words per bucket
  MaxCalls       \* bound on the calls of addDocument and removeDocument

VARIABLES
  index,         \* the files
  update,        \* the update under way: [done, documents, vocabulary]
  reader,        \* the reader's map: [map : id -> internal id, curr : the last one read]
  calls          \* calls so far, of all updates

updateVars == <<index, update, reader, calls>>

-----------------------------------------------------------------------------
(* Lexicon and retrolexicon. *)

WordsNb(ix) == Len(ix.retro)

\* A new word: its ident is the next one.
Enter(ix, key, meaning) ==
  [ix EXCEPT !.idents = (key :> WordsNb(ix) + 1) @@ @, !.retro = Append(@, meaning)]

\* addWord, a component after the ones found: a simple word, or a compound one,
\* created after the simple word of its last component.
AddComponent(found, component) ==
  LET simple == <<0, component>>
      compound == <<found.ident, component>>
      known == DOMAIN found.ix.idents
      with == IF simple \in known THEN found.ix ELSE Enter(found.ix, simple, simple)
  IN IF found.ident = 0 THEN [ix |-> with, ident |-> with.idents[simple]]
     ELSE IF compound \in known THEN [found EXCEPT !.ident = found.ix.idents[compound]]
     ELSE LET both == Enter(with, compound, <<found.ident, with.idents[simple]>>)
          IN [ix |-> both, ident |-> both.idents[compound]]

AddWords(ix, words) ==
  FoldLeft(LAMBDA grown, word : FoldLeft(AddComponent, [ix |-> grown, ident |-> 0], word).ix,
           ix, words)

\* getWordId, 0 when there is no such word.
WordId(ix, word) ==
  FoldLeftDomain(LAMBDA found, i :
                   IF (found # 0 \/ i = 1) /\ <<found, word[i]>> \in DOMAIN ix.idents
                   THEN ix.idents[<<found, word[i]>>] ELSE 0,
                 0, word)

\* getEntries: the words by ident, each from its prefix.
Entries(ix) ==
  LET words[i \in 1..WordsNb(ix)] ==
        LET key == CHOOSE key \in DOMAIN ix.idents : ix.idents[key] = i
        IN IF key[1] = 0 THEN <<key[2]>> ELSE Append(words[key[1]], key[2])
  IN words

\* getComponents, from the retrolexicon alone.
Components(ix) ==
  LET words[i \in 1..WordsNb(ix)] ==
        IF ix.retro[i][1] = 0 THEN <<ix.retro[i][2]>>
        ELSE Append(words[ix.retro[i][1]], ix.retro[ix.retro[i][2]][2])
  IN words

\* A vocabulary: the distinct words of texts, in order.
Grown(vocabulary, text) ==
  FoldLeft(LAMBDA words, o : IF o.word \in Range(words) THEN words ELSE Append(words, o.word),
           vocabulary, text)

-----------------------------------------------------------------------------
(* Contents: what a document says, term by term. *)

\* localDef: (term, category) -> occurrences.
LocalDef(ix, text) ==
  LET term(i) == <<WordId(ix, text[i].word), text[i].cg>>
  IN [t \in {term(i) : i \in DOMAIN text} |-> Cardinality({i \in DOMAIN text : term(i) = t})]

Content(text) ==
  {<<text[i].word, text[i].cg, Cardinality({j \in DOMAIN text : text[j] = text[i]})>> :
     i \in DOMAIN text}

\* (document, term, category, frequency), of either index.
TermTriples(ix) ==
  UNION {UNION {LET category == DecodeTermDef(ix.terms[t])[c]
                IN {<<d, t, category.cg, category.docs[d]>> : d \in DOMAIN category.docs} :
                  c \in DOMAIN ix.terms[t]} : t \in DOMAIN ix.terms}

LocalTriples(ix) ==
  UNION {LET def == ix.local[i].def
         IN {<<ix.local[i].doc, t[1], t[2], def[t]>> : t \in DOMAIN def} : i \in DOMAIN ix.local}

\* What searches see: id -> content.
Searched(ix) ==
  LET triples == TermTriples(ix)
      words == Entries(ix)
  IN [d \in {triple[1] : triple \in triples} |->
        {<<words[triple[2]], triple[3], triple[4]>> : triple \in {t \in triples : t[1] = d}}]

LengthOf(content) == MapThenSumSet(LAMBDA posting : posting[3], content)
Lengths(contents) == [d \in DOMAIN contents |-> LengthOf(contents[d])]

-----------------------------------------------------------------------------
(* The local index. *)

\* The map a reader or a writer completes: the internal ids low..top that exist.
Completed(view, local, low, top) ==
  LET present == {i \in DOMAIN local : i \in low..top}
      newest(d) == Max({i \in present : local[i].doc = d})
  IN [map |-> [d \in {local[i].doc : i \in present} |-> newest(d)] @@ view.map,
      curr |-> IF present = {} THEN view.curr ELSE Max(present)]

NoMap == [map |-> [d \in {} |-> 0], curr |-> 0]
FullMap(ix) == Completed(NoMap, ix.local, 1, ix.top)

\* setLocalDef, of one document: its internal id, given if it has none; an empty
\* definition erases it.
SetLocalDef(state, d, def) ==
  LET known == d \in DOMAIN state.view.map
      i == IF known THEN state.view.map[d] ELSE state.view.curr + 1
      empty == DOMAIN def = {}
  IN IF empty /\ ~known THEN state
     ELSE IF empty
     THEN [view |-> [state.view EXCEPT !.map = Without(@, {d})],
           local |-> Without(state.local, {i}), top |-> state.view.curr]
     ELSE LET curr == IF known THEN state.view.curr ELSE i
          IN [view |-> [map |-> (d :> i) @@ state.view.map, curr |-> curr],
              local |-> (i :> [doc |-> d, def |-> def]) @@ state.local, top |-> curr]

\* Every document of defs, by increasing id.
SetLocalDefs(ix, defs) ==
  LET last == FoldLeft(LAMBDA state, d : SetLocalDef(state, d, defs[d]),
                       [view |-> FullMap(ix), local |-> ix.local, top |-> ix.top],
                       SetToSortSeq(DOMAIN defs, <))
  IN IF ix.withLocal THEN [ix EXCEPT !.local = last.local, !.top = last.top] ELSE ix

\* A reader completes its map when it doesn't know a document.
Looked(view, ix, d) ==
  IF d \in DOMAIN view.map THEN view ELSE Completed(view, ix.local, view.curr + 1, ix.top)

\* Mutant of LocalDefOf: whatever document is there.
LocalDefOfAny(ix, view, d) ==
  IF d \notin DOMAIN view.map \/ view.map[d] \notin DOMAIN ix.local THEN {}
  ELSE {ix.local[view.map[d]].def}

\* getLocalDef: {} when it is not found or raises (another document is there).
LocalDefOf(ix, view, d) ==
  IF d \notin DOMAIN view.map \/ view.map[d] \notin DOMAIN ix.local THEN {}
  ELSE {ix.local[i].def : i \in {i \in {view.map[d]} : ix.local[i].doc = d}}

\* getLocalDefAt: where it is expected, or else by its id.
LocalDefAt(ix, view, d, i) ==
  IF i \in DOMAIN ix.local /\ ix.local[i].doc = d THEN {ix.local[i].def}
  ELSE LocalDefOf(ix, Looked(view, ix, d), d)

-----------------------------------------------------------------------------
(* The term index. *)

\* The postings that texts add to a term, in a category.
Added(defs, t, cg) ==
  LET docs == {d \in DOMAIN defs : <<t, cg>> \in DOMAIN defs[d]}
  IN [d \in docs |-> defs[d][<<t, cg>>]]

\* The categories in which texts add to a term, in order.
AddedCategories(defs, t) ==
  SetToSortSeq({k[2] : k \in {k \in UNION {DOMAIN defs[d] : d \in DOMAIN defs} : k[1] = t}}, <)

\* Mutant of UpdateTerm: each category's additions come with the removals.
UpdateTermEach(def, t, removed, defs, lengths, fits) ==
  LET cgs == AddedCategories(defs, t)
  IN IF cgs = <<>> THEN UpdateTermDef(def, removed, 0, NoDocs, lengths, fits)
     ELSE FoldLeft(LAMBDA changed, cg :
                     UpdateTermDef(changed, removed, cg, Added(defs, t, cg), lengths, fits),
                   def, cgs)

\* A touched term: its removals with its first category's additions.
UpdateTerm(def, t, removed, defs, lengths, fits) ==
  LET cgs == AddedCategories(defs, t)
  IN IF cgs = <<>> THEN UpdateTermDef(def, removed, 0, NoDocs, lengths, fits)
     ELSE FoldLeftDomain(LAMBDA changed, i :
            UpdateTermDef(changed, IF i = 1 THEN removed ELSE {}, cgs[i],
                          Added(defs, t, cgs[i]), lengths, fits), def, cgs)

\* The terms that the changed documents leave, from the local index (its former
\* definition of each), or, without one, from every term's documents.
Leaving(ix, docs) ==
  LET view == FullMap(ix)
      pairs == IF ix.withLocal
               THEN UNION {{<<k[1], d>> : k \in UNION {DOMAIN def : def \in LocalDefOf(ix, view, d)}} :
                             d \in docs}
               ELSE {<<triple[2], triple[1]>> : triple \in {t \in TermTriples(ix) : t[1] \in docs}}
  IN [t \in {pair[1] : pair \in pairs} |-> {pair[2] : pair \in {p \in pairs : p[1] = t}}]

NotErased(terms) == Restrict(terms, {t \in DOMAIN terms : terms[t] # <<>>})

UpdateTerms(ix, removed, defs, lengths, fits) ==
  LET touched == DOMAIN removed \cup UNION {{k[1] : k \in DOMAIN defs[d]} : d \in DOMAIN defs}
      old(t) == IF t \in DOMAIN ix.terms THEN ix.terms[t] ELSE <<>>
      left(t) == IF t \in DOMAIN removed THEN removed[t] ELSE {}
  IN [ix EXCEPT !.terms = NotErased(
        [t \in touched |-> UpdateTerm(old(t), t, left(t), defs, lengths, fits)] @@ @)]

-----------------------------------------------------------------------------
(* Building and merging. *)

NoIndex(withLocal) ==
  [exists |-> FALSE, v2 |-> TRUE, withLocal |-> withLocal, buckets |-> 0,
   idents |-> [key \in {} |-> 0], retro |-> <<>>, terms |-> [t \in {} |-> <<>>],
   local |-> [i \in {} |-> 0], top |-> 0]

\* A new index of words: its hash table holds that many buckets.
Lexicon(words, buckets, withLocal) ==
  AddWords([NoIndex(withLocal) EXCEPT !.exists = TRUE, !.buckets = buckets], words)

\* NindIndexBuilder: documents by increasing id, one category.
Built(texts, withLocal) ==
  LET ids == SetToSortSeq(DOMAIN texts, <)
      words == FoldLeft(LAMBDA vocabulary, d : Grown(vocabulary, texts[d]), <<>>, ids)
      ix == Lexicon(words, MinBuckets, withLocal)
      defs == [d \in DOMAIN texts |-> LocalDef(ix, texts[d])]
      lengths == [d \in DOMAIN texts |-> Len(texts[d])]
  IN SetLocalDefs(UpdateTerms(ix, [t \in {} |-> {}], defs, lengths, FALSE), defs)

\* A term of the merge: its categories in order, of the live documents of every shard.
\* Their frequencies are counted again in the shards that have deleted documents.
MergedTerm(defs, deleted, lengths) ==
  LET said == [s \in DOMAIN defs |-> DecodeTermDef(defs[s])]
      cgs == SetToSortSeq(UNION {{said[s][c].cg : c \in DOMAIN said[s]} : s \in DOMAIN said}, <)
      Of(s, cg) == {c \in DOMAIN said[s] : said[s][c].cg = cg}
      live(s, c) == Without(said[s][c].docs, deleted[s])
      docs(cg) == Joined({NoDocs} \cup UNION {{live(s, c) : c \in Of(s, cg)} : s \in DOMAIN said})
      frequency(cg) == SumOf([s \in DOMAIN said |-> SumOf([c \in Of(s, cg) |->
        IF deleted[s] = {} THEN defs[s][c].frequency ELSE SumOf(live(s, c))])])
      written == WriteTermDef(SelectSeq([c \in DOMAIN cgs |-> [cg |-> cgs[c], docs |-> docs(cgs[c])]],
                                        LAMBDA category : category.docs # NoDocs), lengths)
  IN [c \in DOMAIN written |-> [written[c] EXCEPT !.frequency = frequency(written[c].cg)]]

\* Mutant of Renamed: the local index keeps the shard's idents of terms.
RenamedNot(ix, words, def) == def

\* A local definition of a shard of those words, with the merge's idents of terms.
Renamed(ix, words, def) ==
  LET new(k) == <<WordId(ix, words[k[1]]), k[2]>>
  IN [key \in {new(k) : k \in DOMAIN def} |-> def[CHOOSE k \in DOMAIN def : new(k) = key]]

\* The union of the lexicons' words, shard after shard.
AllWords(words) ==
  FoldLeft(LAMBDA known, more : known \o SelectSeq(more, LAMBDA w : w \notin Range(known)), <<>>, words)

\* The terms of the merge, as the union numbers its words.
MergedTerms(shards, words, all, deleted, lengths) ==
  LET Parts(word) ==
        [s \in DOMAIN shards |->
           LET mine == {u \in DOMAIN shards[s].terms : words[s][u] = word}
           IN IF mine = {} THEN <<>> ELSE shards[s].terms[CHOOSE u \in mine : TRUE]]
  IN [t \in DOMAIN all |-> MergedTerm(Parts(all[t]), deleted, lengths)]

\* Each term that has documents, by its ident in the lexicon; terms of others go.
Numbered(ix, all, terms) ==
  LET number == [t \in DOMAIN all |-> WordId(ix, all[t])]
      kept == {t \in DOMAIN terms : terms[t] # <<>>}
  IN [i \in {number[t] : t \in kept} |-> terms[CHOOSE t \in DOMAIN terms : number[t] = i]]

\* Each document that is left, by increasing id.
MergedLocal(ix, shards, words, deleted) ==
  LET local(s, map) ==
        [d \in DOMAIN map \ deleted[s] |-> Renamed(ix, words[s], shards[s].local[map[d]].def)]
  IN SetLocalDefs(ix, Joined({local(s, FullMap(shards[s]).map) : s \in DOMAIN shards}))

\* NindIndexMerge: the union of the lexicons, then each term, and each document,
\* with the union's idents.  Documents must be disjoint: it is refused otherwise.
MergedInto(ix, all, words, shards, deleted, lengths) ==
  MergedLocal([ix EXCEPT !.terms = Numbered(ix, all, MergedTerms(shards, words, all, deleted, lengths))],
              shards, words, deleted)
Merged(shards, deleted, lengths, buckets) ==
  LET words == [s \in DOMAIN shards |-> Entries(shards[s])]
  IN MergedInto(Lexicon(AllWords(words), buckets, shards[1].withLocal), AllWords(words), words,
                shards, deleted, lengths)

\* What an older nind wrote: definitions without blocks.
InV1(ix) ==
  LET said(t) == DecodeTermDef(ix.terms[t])
      v1(t, c) == [ix.terms[t][c] EXCEPT !.inline = said(t)[c].docs, !.blocks = <<>>]
  IN [ix EXCEPT !.v2 = FALSE,
                !.terms = [t \in DOMAIN ix.terms |-> [c \in DOMAIN said(t) |-> v1(t, c)]]]

-----------------------------------------------------------------------------
(* Updates. *)

NoUpdate == [done |-> TRUE, documents |-> [d \in {} |-> <<>>], vocabulary |-> <<>>]

UpdateInit ==
  /\ \E shards \in Shards, withLocal \in BOOLEAN, v2 \in BOOLEAN :
       LET built == [s \in DOMAIN shards.texts |-> Built(shards.texts[s], withLocal)]
           ix == IF built = <<>> THEN NoIndex(withLocal)
                 ELSE IF Len(built) = 1 THEN built[1]
                 ELSE Merged(built, shards.deleted, [d \in {} |-> 0], MinBuckets)
       IN index = IF v2 \/ ~ix.exists THEN ix ELSE InV1(ix)
  /\ update = NoUpdate
  /\ reader = NoMap
  /\ calls = 0

NewUpdate ==
  /\ update.done
  /\ update' = [NoUpdate EXCEPT !.done = FALSE]
  /\ UNCHANGED <<index, reader, calls>>

\* addDocument: replaces what the update had of it, but for its words.
AddDocument(d, text) ==
  /\ ~update.done
  /\ calls < MaxCalls
  /\ calls' = calls + 1
  /\ update' = [update EXCEPT !.documents = (d :> text) @@ @, !.vocabulary = Grown(@, text)]
  /\ UNCHANGED <<index, reader>>

\* removeDocument: known by having no text.
RemoveDocument(d) == AddDocument(d, <<>>)

Kept == {d \in DOMAIN update.documents : update.documents[d] # <<>>}

\* The lengths given to the term index: those of the documents added, and with
\* setDocumentLengths, or in a new index, those of the others.
KnownLengths(withLengths) ==
  LET added == [d \in Kept |-> Len(update.documents[d])]
  IN IF withLengths \/ ~index.exists
     THEN added @@ Without(Lengths(Searched(index)), DOMAIN update.documents)
     ELSE added

\* rebuild: the index merged onto itself.
Rebuilt(ix, buckets, withLengths) ==
  Merged(<<ix>>, <<{}>>,
         IF withLengths \/ ~index.exists THEN KnownLengths(TRUE) ELSE [d \in {} |-> 0], buckets)

\* Step 1 of commit: the index to update, a new one, or one of format v1 rebuilt.
Started(withLengths) ==
  IF ~index.exists
  THEN Lexicon(<<>>, Max({MinBuckets, 2 * Len(update.vocabulary)}), index.withLocal)
  ELSE IF index.v2 THEN index
  ELSE Rebuilt(index, Max({MinBuckets, 2 * WordsNb(index)}), withLengths)

\* Steps 2 to 6: the words, the terms the documents leave or join, the documents.
Applied(grown, removed, withLengths, fits) ==
  LET defs == [d \in DOMAIN update.documents |-> LocalDef(grown, update.documents[d])]
  IN SetLocalDefs(UpdateTerms(grown, removed, defs, KnownLengths(withLengths), fits), defs)

\* Step 7: rebuilt, once its lexicon is too full.
Roomy(ix, withLengths) ==
  IF WordsNb(ix) > MaxLoad * ix.buckets THEN Rebuilt(ix, 2 * WordsNb(ix), withLengths) ELSE ix

CommittedOn(start, withLengths, fits) ==
  Roomy(Applied(AddWords(start, update.vocabulary), Leaving(start, DOMAIN update.documents),
                withLengths, fits), withLengths)
Committed(withLengths, fits) == CommittedOn(Started(withLengths), withLengths, fits)

\* commit, with the lengths of the index's documents given (setDocumentLengths) or
\* not, with room for what is added in place or not.  A rebuild replaces the files: readers open the new ones.
Commit ==
  /\ ~update.done
  /\ \E withLengths \in BOOLEAN, fits \in BOOLEAN :
       index' = IF DOMAIN update.documents = {} THEN index ELSE Committed(withLengths, fits)
  /\ update' = NoUpdate
  /\ reader' = IF index'.buckets = index.buckets /\ index.v2 THEN reader ELSE NoMap
  /\ UNCHANGED calls

\* The update is dropped.
Drop ==
  /\ ~update.done
  /\ update' = NoUpdate
  /\ UNCHANGED <<index, reader, calls>>

\* The reader asks for a document.  Nothing is written before a commit: reading
\* while an update takes its changes is as reading before.
Read(d) ==
  /\ update.done /\ index.exists /\ index.withLocal
  /\ reader' = Looked(reader, index, d)
  /\ UNCHANGED <<index, update, calls>>

UpdateNext ==
  \/ NewUpdate \/ Commit \/ Drop
  \/ \E d \in Documents :
       \/ RemoveDocument(d) \/ Read(d)
       \/ \E text \in Texts : AddDocument(d, text)

UpdateSpec == UpdateInit /\ [][UpdateNext]_updateVars

-----------------------------------------------------------------------------
(* Verification: NindIndexVerify::verify, the problems of an index. *)

Problem(holds, what) == IF holds THEN {} ELSE {what}

LexiconProblems(ix) ==
  Problem(IsInjective(ix.idents) /\ Range(ix.idents) = 1..WordsNb(ix), "not one word per ident")

\* verifyTerm: a category read whole, then by its directory, block by block.
CategoryProblems(ix, category) ==
  LET read == <<category.inline>> \o [b \in DOMAIN category.blocks |-> category.blocks[b].docs]
      ids == FlattenSeq([r \in DOMAIN read |-> SetToSortSeq(DOMAIN read[r], <)])
  IN Problem(\A i \in 2..Len(ids) : ids[i - 1] < ids[i], "document ids not increasing")
       \cup Problem(\A docs \in Range(read) : 0 \notin Range(docs), "a frequency of 0")
       \cup Problem(category.frequency = SumOf([r \in DOMAIN read |-> SumOf(read[r])]),
                    "a frequency that isn't its documents' sum")
       \cup Problem(\A b \in Range(category.blocks) :
                      /\ DOMAIN b.docs \subseteq b.first..b.last
                      /\ \A d \in DOMAIN b.docs : b.docs[d] <= b.maxFrequency,
                    "a block doesn't match its descriptor")
       \cup Problem(ix.v2 /\ category.blocks = <<>> => Cardinality(DOMAIN category.inline) <= BlockSize,
                    "a long list without blocks")

TermProblems(ix, t) ==
  Problem(t \in 1..WordsNb(ix), "a term the lexicon doesn't have")
    \cup UNION {CategoryProblems(ix, category) : category \in Range(ix.terms[t])}

LocalProblems(ix) ==
  LET docs == {ix.local[i].doc : i \in DOMAIN ix.local}
  IN Problem(\A d \in docs : LocalDefOf(ix, FullMap(ix), d) # {}, "a document listed, but not found")
       \cup Problem(\A triple \in LocalTriples(ix) : triple[2] \in 1..WordsNb(ix),
                    "a term not in the lexicon")

\* (document, term, frequency), every category together.
Summed(triples) ==
  {<<d, t, MapThenSumSet(LAMBDA x : x[4], {x \in triples : x[1] = d /\ x[2] = t})>> :
     <<d, t>> \in {<<x[1], x[2]>> : x \in triples}}

\* The cross check, of an index that has a local index.
CrossProblems(ix) ==
  LET local == Summed(LocalTriples(ix))
      Length(d) == MapThenSumSet(LAMBDA x : x[3], {x \in local : x[1] = d})
      blocks == UNION {UNION {Range(category.blocks) : category \in Range(ix.terms[t])} : t \in DOMAIN ix.terms}
  IN Problem(\A b \in blocks : \A d \in DOMAIN b.docs : d \in {x[1] : x \in local} => b.minLength <= Length(d),
             "a block's shortest length above a document's")
       \cup Problem(Summed(TermTriples(ix)) = local, "the term and the local indexes differ")

Problems(ix) ==
  LexiconProblems(ix)
    \cup UNION {TermProblems(ix, t) : t \in DOMAIN ix.terms}
    \cup (IF ix.withLocal THEN LocalProblems(ix) \cup CrossProblems(ix) ELSE {})

-----------------------------------------------------------------------------
(* Properties. *)

AllContents ==
  {Content(text) : text \in
     Texts \cup UNION {UNION {Range(texts) : texts \in Range(shards.texts)} : shards \in Shards}}

\* An update changes the documents that searches find as those of one index
\* built at once, all of it or nothing: whatever is appended in place, rewritten,
\* renumbered or rebuilt (NindIndexUpdate).
C == INSTANCE Corpus WITH
  Docs <- Documents,
  Contents <- AllContents,
  corpus <- Searched(index),
  batch <- ~update.done,
  draft <- [d \in DOMAIN update.documents |-> Content(update.documents[d])]

UpdatesCorpus == C!Spec

\* NindIndexVerify finds no problem in the index, whatever was done to it, and the
\* retrolexicon says the words the lexicon says.
Verified == Problems(index) = {} /\ Components(index) = Entries(index)

\* "above, a top-k search could skip a block it needs": however old a block is,
\* what the directory says of it bounds the frequency of each of its documents,
\* and, with its length, its score.
BlocksHold ==
  LET lengths == Lengths(Searched(index))
      Bounds(b, d) ==
        /\ d \in b.first..b.last /\ b.docs[d] <= b.maxFrequency /\ b.minLength <= lengths[d]
        /\ b.impacts # <<>> => \E k \in Range(b.impacts) : b.docs[d] <= k[1] /\ k[2] <= lengths[d]
  IN \A t \in DOMAIN index.terms : \A c \in Range(index.terms[t]) :
       /\ \A b \in Range(c.blocks) : \A d \in DOMAIN b.docs : Bounds(b, d)
       /\ \A i \in 1..Len(c.blocks) - 1 : c.blocks[i].last < c.blocks[i + 1].first

\* A reader of the local index, opened whenever, never gives a document the terms
\* of another one, nor former ones, wherever it expects the document to be: it may
\* only not find it (internal ids are given again, and documents change theirs).
ReaderNeverWrong ==
  LET triples == TermTriples(index)
  IN \A d \in Documents, i \in 1..index.top + 1 : \A def \in LocalDefAt(index, reader, d, i) :
       {<<d, k[1], k[2], def[k]>> : k \in DOMAIN def} = {t \in triples : t[1] = d}

=============================================================================
