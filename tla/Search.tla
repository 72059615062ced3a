------------------------------- MODULE Search -------------------------------
(***************************************************************************)
(* A search for the best documents of an index, by several threads         *)
(* (NindSegmentedIndex::search and NindBm25Scorer, src/cpp/NindIndex).     *)
(*                                                                         *)
(* The threads of a search take the segments one by one; a segment is      *)
(* scanned by slices of its ids, on the threads of its scorer; all of them *)
(* share theta, a score that the k-th best document reaches at least, and  *)
(* skip what cannot reach it.  Scores are integers here: what the code     *)
(* compares with a margin for rounding, the model compares exactly.        *)
(***************************************************************************)
EXTENDS TermPostings, ThreadPool

CONSTANTS
  Calls,        \* the searches that may run at the same time
  MaxParts,     \* segments of an index: bounds them
  Scenes,       \* the indexes searched, and what each call asks of them
  SliceSpan     \* ids of a slice (4096 in searchMaxScore)

\* A scene: [parts, query : Calls -> Seq(word), topK, threads, faulty], where a part is
\* [lengths, deleted, terms, known]: documents and lengths, the deleted ones, the
\* definitions of its words, and whether blocks know the lengths.
ASSUME ScenesAssumption ==
  /\ MaxParts \in Nat
  /\ \A s \in Scenes :
       /\ Len(s.parts) \in 1..MaxParts /\ s.threads \in 1..MaxThreads + 1
       /\ \A p \in 1..Len(s.parts) : IsFiniteSet(DOMAIN s.parts[p].lengths)

\* A definition: in each category, numbers, of documents once at least each.
IsTerm(def) ==
  /\ def \in Seq(Range(def))
  /\ \A c \in DOMAIN def :
       /\ IsFiniteSet(DOMAIN def[c].docs) /\ DOMAIN def[c].docs \in (SUBSET Nat) \ {{}}
       /\ def[c].docs \in [DOMAIN def[c].docs -> Nat \ {0}]

ASSUME IndexesAssumption ==
  /\ SliceSpan \in Nat \ {0}
  /\ \A s \in Scenes :
       /\ s.topK \in Int /\ s.parts \in Seq(Range(s.parts))
       /\ \A c \in Calls : s.query[c] \in Seq(Range(s.query[c]))
       /\ \A p \in 1..Len(s.parts) :
            /\ DOMAIN s.parts[p].lengths \subseteq Nat
            /\ s.parts[p].lengths \in [DOMAIN s.parts[p].lengths -> Nat]
            /\ \A c \in Calls : \A n \in DOMAIN s.query[c] : IsTerm(s.parts[p].terms[s.query[c][n]])

Parts == 1..MaxParts
Workers == 0..MaxThreads
Slices == 1..MaxThreads + 1

\* The pool 0 is that of the index, the others are those of the segments' scorers.
\* A task is <<call, 0, worker>> or <<call, segment, slice>>; a thread that gives one,
\* <<call, worker>>.
ASSUME PoolsAssumption ==
  /\ Pools = 0..MaxParts
  /\ Tasks = (Calls \X {0} \X Workers) \cup (Calls \X Parts \X Slices)
  /\ Callers = Calls \X Workers

VARIABLES
  scene,        \* the index, and what is asked
  theta,        \* theta[c]: the shared threshold
  next,         \* next[c]: the next of the parts to take
  worker,       \* worker[c][w]: a thread of search(), 0 the caller's
  terms,        \* terms[c][p]: the TermInfos of a part
  scan,         \* scan[c][p]: the slices of a part
  found,        \* found[c][p]: the best documents of a part
  outcome       \* outcome[c]: "none", "answered" or "raised"

callVars == <<theta, next, worker, terms, scan, found, outcome>>
vars == <<scene, callVars, poolVars>>

-----------------------------------------------------------------------------
(* Scores. *)

\* Op(e), e computed once.
With(e, Op(_)) == CHOOSE result \in {Op(x) : x \in {e}} : TRUE

\* Sum of f over a set, and the k best of a set of documents with scores.
Total(f) == FoldFunction(+, 0, f)
Better(x, y) == x.score > y.score \/ (x.score = y.score /\ x.doc < y.doc)
Best(documents, k) ==
  LET ranked == Ordered(documents, Better)
  IN IF k < 0 THEN ranked ELSE SubSeq(ranked, 1, Min({k, Len(ranked)}))

\* Increasing in the frequency, decreasing in the length.
Contribution(idf, frequency, length) == idf * ((6 * frequency) \div (frequency + length))

DocsNb == Total([p \in DOMAIN scene.parts |->
                   Cardinality(DOMAIN scene.parts[p].lengths \ scene.parts[p].deleted)])

\* A word's documents in the whole index, every category counted, less those of
\* deleted documents.
DocumentFrequency(word) ==
  Total([p \in DOMAIN scene.parts |->
    LET def == scene.parts[p].terms[word]
    IN Total([c \in DOMAIN def |-> Cardinality(DOMAIN def[c].docs \ scene.parts[p].deleted)])])

\* idfOf, positive when the word is in no more than every document.
Idf(word) ==
  IF DocumentFrequency(word) <= DocsNb THEN DocsNb + 1 - DocumentFrequency(word) ELSE 0

Times(query, word) == Cardinality({n \in DOMAIN query : query[n] = word})

-----------------------------------------------------------------------------
(* A part: the exhaustive search, and the TermInfos of a pruned one. *)

Frequency(def, doc) ==
  LET with == {c \in DOMAIN def : doc \in DOMAIN def[c].docs}
  IN IF with = {} THEN 0 ELSE def[Min(with)].docs[doc]

\* A document's score: a document in several categories of a word counts in the
\* first one.
Score(part, query, doc) ==
  Total([n \in DOMAIN query |->
    LET frequency == Frequency(part.terms[query[n]], doc)
    IN IF frequency = 0 THEN 0
       ELSE Contribution(Idf(query[n]), frequency, part.lengths[doc])])

\* collectAll and the exhaustive search.
Exhaustive(part, query, k) ==
  Best({[doc |-> d, score |-> Score(part, query, d)] : d \in
          {d \in DOMAIN part.lengths \ part.deleted : Score(part, query, d) > 0}}, k)

\* What the directory of a word says of its blocks, and the most a document of
\* each may get.  A short list is one block, its postings looked at.
TermInfo(part, query, word, idf, def) ==
  LET times == Times(query, word)
      shortest == IF part.lengths = NoDocs THEN 0 ELSE Min(Range(part.lengths))
      Upper(frequency, length) == Contribution(idf, frequency, Max({length, shortest}))
      Bound(block) ==
        IF block.impacts = <<>> THEN Upper(block.maxFrequency, block.minLength)
        ELSE Max({Upper(impact[1], impact[2]) : impact \in Range(block.impacts)})
      Gives(d) == IF d \in DOMAIN part.lengths
                  THEN Contribution(idf, def.inline[d], part.lengths[d]) ELSE 0
      Block(docs, first, last, bound) ==
        [docs |-> docs, first |-> first, last |-> last, bound |-> times * bound]
  IN [word |-> word, times |-> times, idf |-> idf,
      blocks |-> IF def.blocks = <<>>
                 THEN <<Block(def.inline, Min(DOMAIN def.inline), Max(DOMAIN def.inline),
                              Max({Gives(d) : d \in DOMAIN def.inline}))>>
                 ELSE [b \in DOMAIN def.blocks |->
                         Block(def.blocks[b].docs, def.blocks[b].first, def.blocks[b].last,
                               Bound(def.blocks[b]))]]

\* Where the distinct words of a query that a part has come first in the query.
Present(part, query) ==
  {n \in DOMAIN query : /\ part.terms[query[n]] # <<>>
                        /\ \A m \in 1..n - 1 : query[m] # query[n]}

\* searchMaxScore applies: no word in several categories, every idf positive.
Prunable(part, query) ==
  /\ scene.topK > 0 /\ query # <<>>
  /\ \A n \in Present(part, query) : Len(part.terms[query[n]]) = 1 /\ Idf(query[n]) > 0

\* The TermInfos of a part, in the order of the query.
TermInfos(part, query) ==
  LET lengths == IF part.known THEN part.lengths ELSE NoDocs
      Info(n) == With(WriteTermDef(part.terms[query[n]], lengths)[1],
                      LAMBDA def : With(Idf(query[n]),
                        LAMBDA idf : TermInfo(part, query, query[n], idf, def)))
  IN With(Ordered(Present(part, query), <),
          LAMBDA order : [i \in DOMAIN order |-> Info(order[i])])

\* The ids of slice s.
SliceOf(first, last, slices, s) ==
  LET span == last - first
      Start(n) == first + n * (span \div slices) + Min({n, span % slices})
  IN [lo |-> Start(s - 1), hi |-> IF s = slices THEN last ELSE Start(s) - 1]

\* A slice to scan: where its next window starts, its own threshold, its candidates;
\* of the window, the terms by increasing bound, their bounds added up, how many
\* of them are not essential, and the documents to score.
NewScan(slice, place) ==
  [at |-> place, from |-> slice.lo, hi |-> slice.hi, theta |-> 0, candidates |-> {},
   to |-> slice.lo, order |-> <<>>, prefix |-> <<>>, essential |-> 0, todo |-> {}]

\* The slices of a part, by the threads a search may use for it.
SlicesOf(infos, inner) ==
  LET first == Min({infos[t].blocks[1].first : t \in DOMAIN infos})
      last == Max({Last(infos[t].blocks).last : t \in DOMAIN infos})
      slices == Max({n \in 1..inner : n = 1 \/ n <= (last - first) \div SliceSpan + 1})
  IN [s \in 1..slices |->
        NewScan(SliceOf(first, last, slices, s), IF s < slices THEN "given" ELSE "window")]

-----------------------------------------------------------------------------
(* scanRange. *)

\* The block of a term at or after a document, 0 if there is none.
BlockAt(info, doc) ==
  LET after == {b \in DOMAIN info.blocks : info.blocks[b].last >= doc}
  IN IF after = {} THEN 0 ELSE Min(after)

\* A window up to `to`: its terms by increasing bound, those that are not essential
\* first, and the documents of the others.
Cut(infos, s, to) ==
  LET Block(t) == infos[t].blocks[BlockAt(infos[t], s.from)]
      inside == {t \in DOMAIN infos : /\ BlockAt(infos[t], s.from) # 0
                                      /\ Block(t).first <= to /\ Block(t).bound > 0}
      Weaker(x, y) == \/ Block(x).bound < Block(y).bound
                      \/ Block(x).bound = Block(y).bound /\ x < y
      Prefix(order) == [i \in DOMAIN order |-> Total([j \in 1..i |-> Block(order[j]).bound])]
      Filled(order, prefix) ==
        LET essential == Cardinality({i \in DOMAIN order : prefix[i] < s.theta})
        IN [s EXCEPT !.to = to, !.order = order, !.prefix = prefix, !.essential = essential,
                     !.todo = UNION {DOMAIN Block(order[i]).docs \cap s.from..to :
                                       i \in essential + 1 .. Len(order)}]
  IN With(Ordered(inside, Weaker),
          LAMBDA order : With(Prefix(order), LAMBDA prefix : Filled(order, prefix)))

\* Mutant of Window: it goes past the end of the slice.
WindowPast(infos, s) ==
  LET live == {t \in DOMAIN infos : BlockAt(infos[t], s.from) # 0}
      Block(t) == infos[t].blocks[BlockAt(infos[t], s.from)]
      End(t) == IF Block(t).first > s.from THEN Block(t).first - 1 ELSE Block(t).last
  IN With(Min({End(t) : t \in live}), LAMBDA to : Cut(infos, s, to))

\* The next window: every term has at most one block in it.
Window(infos, s) ==
  LET live == {t \in DOMAIN infos : BlockAt(infos[t], s.from) # 0}
      Block(t) == infos[t].blocks[BlockAt(infos[t], s.from)]
      End(t) == IF Block(t).first > s.from THEN Block(t).first - 1 ELSE Block(t).last
  IN With(Min({s.hi} \cup {End(t) : t \in live}), LAMBDA to : Cut(infos, s, to))

Gives(info, s, part, doc) ==
  LET docs == info.blocks[BlockAt(info, s.from)].docs
  IN IF doc \in DOMAIN docs
     THEN info.times * Contribution(info.idf, docs[doc], part.lengths[doc])
     ELSE 0

\* Mutant of Completed: what equals theta is rejected.
CompletedStrict(infos, s, part, doc) ==
  LET sure == Total([i \in s.essential + 1 .. Len(s.order) |->
                       Gives(infos[s.order[i]], s, part, doc)])
      Add(i, total) == IF total = 0 \/ total + s.prefix[i] <= s.theta THEN 0
                       ELSE total + Gives(infos[s.order[i]], s, part, doc)
      score[i \in 1..s.essential + 1] == IF i > s.essential THEN sure ELSE Add(i, score[i + 1])
  IN IF score[1] <= s.theta THEN 0 ELSE score[1]

\* A document of the essential terms, completed by the others, by decreasing
\* bound, as long as it may reach theta: 0 when it does not.
Completed(infos, s, part, doc) ==
  LET sure == Total([i \in s.essential + 1 .. Len(s.order) |->
                       Gives(infos[s.order[i]], s, part, doc)])
      Add(i, total) == IF total = 0 \/ total + s.prefix[i] < s.theta THEN 0
                       ELSE total + Gives(infos[s.order[i]], s, part, doc)
      score[i \in 1..s.essential + 1] == IF i > s.essential THEN sure ELSE Add(i, score[i + 1])
  IN IF score[1] < s.theta THEN 0 ELSE score[1]

\* The k-th best of the candidates, 0 when there are fewer.
KthBest(candidates, k) ==
  IF Cardinality(candidates) < k THEN 0 ELSE Best(candidates, k)[k].score

\* Mutant of AfterWindow: the next window starts with the last id of this one.
AfterWindowAgain(s) ==
  IF s.to >= s.hi THEN [s EXCEPT !.at = "over"]
  ELSE [s EXCEPT !.at = "window", !.from = s.to]

\* A slice after a window.
AfterWindow(s) ==
  IF s.to >= s.hi THEN [s EXCEPT !.at = "over"]
  ELSE [s EXCEPT !.at = "window", !.from = s.to + 1]

Goes(c, p, n, s) == scan' = [scan EXCEPT ![c][p][n] = s]

\* The next window of a slice, theta read.
Ahead(infos, s, threshold) ==
  LET now == [s EXCEPT !.theta = Max({@, threshold})]
      none == \A t \in DOMAIN infos : BlockAt(infos[t], s.from) = 0
  IN IF s.from > s.hi \/ none THEN [now EXCEPT !.at = "over"]
     ELSE With(Window(infos, now), LAMBDA w :
                 IF w.todo = {} THEN AfterWindow(w) ELSE [w EXCEPT !.at = "docs"])

\* The last slice is scanned by the thread that gives the others, once it has.
Turn(c, p, n) ==
  n = Len(scan[c][p]) =>
    \A w \in Workers : worker[c][w].part = p => worker[c][w].given = n /\ ~InRun(<<c, w>>)

\* A window starts.
ScanWindow(c, p, n) ==
  /\ n \in DOMAIN scan[c][p] /\ scan[c][p][n].at = "window" /\ Turn(c, p, n)
  /\ \E s \in {Ahead(terms[c][p], scan[c][p][n], theta[c])} : Goes(c, p, n, s)
  /\ UNCHANGED <<scene, theta, next, worker, terms, found, outcome, poolVars>>

\* Mutant of Scored: deleted documents raise theta.
ScoredDeleted(part) == DOMAIN part.lengths

\* The documents that have a score: not deleted, and in the corpus.
Scored(part) == DOMAIN part.lengths \ part.deleted

\* A slice after its next document, the threshold raised by the k-th best so far.
Further(infos, s, part, doc) ==
  LET Kept(score) == IF score = 0 THEN s.candidates
                     ELSE s.candidates \cup {[doc |-> doc, score |-> score]}
  IN With(Kept(IF doc \in Scored(part) THEN Completed(infos, s, part, doc) ELSE 0),
          LAMBDA candidates :
            [s EXCEPT !.todo = @ \ {doc}, !.candidates = candidates,
                      !.theta = Max({@, KthBest(candidates, scene.topK)})])

\* The next document of a window.
ScanDocument(c, p, n) ==
  /\ n \in DOMAIN scan[c][p] /\ scan[c][p][n].at = "docs"
  /\ \E s \in {scan[c][p][n]} :
     \E further \in {Further(terms[c][p], s, scene.parts[p], Min(s.todo))} :
       /\ Goes(c, p, n, IF further.todo = {} THEN AfterWindow(further) ELSE further)
       /\ theta' = [theta EXCEPT ![c] = IF further.theta > s.theta THEN Max({@, further.theta})
                                        ELSE @]
  /\ UNCHANGED <<scene, next, worker, terms, found, outcome, poolVars>>

\* A read fails (an exception): the slice ends there.
ScanFails(c, p, n) ==
  /\ scene.faulty
  /\ n \in DOMAIN scan[c][p] /\ scan[c][p][n].at \in {"window", "docs"} /\ Turn(c, p, n)
  /\ Goes(c, p, n, [scan[c][p][n] EXCEPT !.at = "failed"])
  /\ UNCHANGED <<scene, theta, next, worker, terms, found, outcome, poolVars>>

-----------------------------------------------------------------------------
(* The threads of a search. *)

PartsNb == Len(scene.parts)
WorkersNb == Max({1, Min({scene.threads, PartsNb})})
Inner == Max({1, scene.threads \div PartsNb})

LiveNb(p) == Cardinality(DOMAIN scene.parts[p].lengths \ scene.parts[p].deleted)
Larger(p, q) == LiveNb(p) > LiveNb(q) \/ (LiveNb(p) = LiveNb(q) /\ p < q)

\* The parts, the largest first.
BySize == [n \in 1..PartsNb |->
             CHOOSE p \in 1..PartsNb : Cardinality({q \in 1..PartsNb : Larger(q, p)}) = n - 1]

Idle == [at |-> "off", part |-> 0, given |-> 0]
Over == {"over", "failed"}

Init ==
  /\ scene \in Scenes
  /\ theta = [c \in Calls |-> 0]
  /\ next = [c \in Calls |-> 1]
  /\ worker = [c \in Calls |-> [w \in Workers |-> Idle]]
  /\ terms = [c \in Calls |-> [p \in Parts |-> <<>>]]
  /\ scan = [c \in Calls |-> [p \in Parts |-> <<>>]]
  /\ found = [c \in Calls |-> [p \in Parts |-> <<>>]]
  /\ outcome = [c \in Calls |-> "none"]
  /\ PoolInit

Moves(c, w, from, to) ==
  /\ worker[c][w].at = from
  /\ worker' = [worker EXCEPT ![c][w] = to]

\* A search starts: it gives `work` to the other threads, one at a time, and then
\* takes parts itself.
Start(c) ==
  /\ scene.query[c] # <<>>
  /\ Moves(c, 0, "off", [at |-> IF WorkersNb = 1 THEN "take" ELSE "hire", part |-> 0, given |-> 1])
  /\ UNCHANGED <<scene, theta, next, terms, scan, found, outcome, poolVars>>

Hire(c) ==
  LET w == worker[c][0].given
  IN /\ ~InRun(<<c, 0>>)
     /\ Moves(c, 0, "hire", [at |-> IF w + 1 < WorkersNb THEN "hire" ELSE "take",
                             part |-> 0, given |-> w + 1])
     /\ Run(0, <<c, 0>>, <<c, 0, w>>, WorkersNb - 1)
     /\ UNCHANGED <<scene, theta, next, terms, scan, found, outcome>>

\* A thread of the index's pool starts on a `work`.
StartWork(i) ==
  /\ running[0][i] # NoTask
  /\ LET c == running[0][i][1]
         w == running[0][i][3]
     IN Moves(c, w, "off", [at |-> "take", part |-> 0, given |-> 0])
  /\ UNCHANGED <<scene, theta, next, terms, scan, found, outcome, poolVars>>

\* next++: the largest part nobody has taken; its search starts, by slices unless
\* it is exhaustive.
TakePart(c, w) ==
  /\ worker[c][w].at = "take" /\ ~InRun(<<c, w>>)
  /\ next' = [next EXCEPT ![c] = @ + 1]
  /\ \/ /\ next[c] > PartsNb
        /\ Moves(c, w, "take", [worker[c][w] EXCEPT !.at = "over"])
        /\ UNCHANGED <<terms, scan, found>>
     \/ /\ next[c] <= PartsNb
        /\ \E p \in {BySize[next[c]]} :
           \E infos \in {IF Prunable(scene.parts[p], scene.query[c])
                         THEN TermInfos(scene.parts[p], scene.query[c]) ELSE <<>>} :
             \/ /\ infos # <<>>
                /\ terms' = [terms EXCEPT ![c][p] = infos]
                /\ scan' = [scan EXCEPT ![c][p] = SlicesOf(infos, Inner)]
                /\ Moves(c, w, "take", [at |-> "slice", part |-> p, given |-> 1])
                /\ UNCHANGED found
             \/ /\ infos = <<>>
                /\ found' = [found EXCEPT ![c][p] =
                               Exhaustive(scene.parts[p], scene.query[c], scene.topK)]
                /\ UNCHANGED <<worker, terms, scan>>
  /\ UNCHANGED <<scene, theta, outcome, poolVars>>

\* The slices but the last one go to the scorer's pool, one at a time.
GiveSlice(c, w) ==
  LET p == worker[c][w].part
      n == worker[c][w].given
      slices == Len(scan[c][p])
  IN /\ worker[c][w].at = "slice" /\ n < slices /\ ~InRun(<<c, w>>)
     /\ Moves(c, w, "slice", [worker[c][w] EXCEPT !.given = n + 1])
     /\ Run(p, <<c, w>>, <<c, p, n>>, slices - 1)
     /\ UNCHANGED <<scene, theta, next, terms, scan, found, outcome>>

\* A task is given: the caller notifies the pool before it goes on.
GiveEnds(c, w) ==
  /\ \E p \in Pools : Notify(p, <<c, w>>)
  /\ UNCHANGED <<scene, callVars>>

\* A thread of a scorer's pool starts on a slice, and ends with it.
StartSlice(p, i) ==
  /\ running[p][i] # NoTask
  /\ LET c == running[p][i][1]
         n == running[p][i][3]
     IN /\ scan[c][p][n].at = "given"
        /\ Goes(c, p, n, [scan[c][p][n] EXCEPT !.at = "window"])
  /\ UNCHANGED <<scene, theta, next, worker, terms, found, outcome, poolVars>>

EndSlice(p, i) ==
  /\ running[p][i] # NoTask
  /\ scan[running[p][i][1]][p][running[p][i][3]].at \in Over
  /\ Finish(p, i)
  /\ UNCHANGED <<scene, callVars>>

\* Mutant of Awaited: the slices given to the pool are not waited for when the
\* last one failed.
AwaitedUnlessFailed(c, p) ==
  LET slices == scan[c][p]
  IN /\ slices[Len(slices)].at \in Over
     /\ slices[Len(slices)].at = "failed" \/ \A n \in 1..Len(slices) - 1 : <<c, p, n>> \in ended

\* Every slice has ended: its own, and those of the pool by their futures.
Awaited(c, p) ==
  LET slices == scan[c][p]
  IN /\ slices[Len(slices)].at \in Over
     /\ \A n \in 1..Len(slices) - 1 : <<c, p, n>> \in ended

\* The candidates that may be among the best of the part.
EndPart(c, w) ==
  LET p == worker[c][w].part
      slices == scan[c][p]
      threshold == Max({theta[c]} \cup {slices[n].theta : n \in DOMAIN slices})
      kept == {x \in UNION {slices[n].candidates : n \in DOMAIN slices} : x.score >= threshold}
      failed == \E n \in DOMAIN slices : slices[n].at = "failed"
  IN /\ worker[c][w].at = "slice" /\ worker[c][w].given = Len(slices) /\ ~InRun(<<c, w>>)
     /\ Awaited(c, p)
     /\ Moves(c, w, "slice", [worker[c][w] EXCEPT !.at = IF failed THEN "failed" ELSE "take"])
     /\ found' = [found EXCEPT ![c][p] = IF failed THEN <<>> ELSE Best(kept, scene.topK)]
     /\ UNCHANGED <<scene, theta, next, terms, scan, outcome, poolVars>>

EndWork(i) ==
  /\ running[0][i] # NoTask
  /\ worker[running[0][i][1]][running[0][i][3]].at \in Over
  /\ Finish(0, i)
  /\ UNCHANGED <<scene, callVars>>

Answer(c) == Best(UNION {Range(found[c][p]) : p \in 1..PartsNb}, scene.topK)

\* Every thread has ended: the search answers, or raises what one of them did.
Return(c) ==
  /\ worker[c][0].at \in Over /\ outcome[c] = "none"
  /\ \A w \in 1..WorkersNb - 1 : <<c, 0, w>> \in ended
  /\ outcome' = [outcome EXCEPT ![c] =
       IF \E w \in 0..WorkersNb - 1 : worker[c][w].at = "failed" THEN "raised" ELSE "answered"]
  /\ UNCHANGED <<scene, theta, next, worker, terms, scan, found, poolVars>>

Asked == {c \in Calls : scene.query[c] # <<>>}
AllReturned == \A c \in Asked : outcome[c] # "none"

\* The index goes, once no search uses it.
Close(p) ==
  /\ AllReturned
  /\ Stop(p)
  /\ UNCHANGED <<scene, callVars>>

PoolStep(p) ==
  /\ NotifyAll(p) \/ \E i \in Threads : PoolThreadStep(p, i)
  /\ UNCHANGED <<scene, callVars>>

\* What the threads do by themselves.
SearchStep ==
  \/ \E c \in Calls : Hire(c) \/ Return(c)
  \/ \E c \in Calls, w \in Workers : TakePart(c, w) \/ GiveSlice(c, w) \/ GiveEnds(c, w) \/ EndPart(c, w)
  \/ \E c \in Calls, p \in Parts, n \in Slices : ScanWindow(c, p, n) \/ ScanDocument(c, p, n)
  \/ \E i \in Threads : StartWork(i) \/ EndWork(i)
  \/ \E p \in Parts, i \in Threads : StartSlice(p, i) \/ EndSlice(p, i)
  \/ \E p \in Pools : PoolStep(p)

\* The index has gone, and its threads with it.
Gone ==
  /\ \A p \in Pools : stop[p] /\ \A i \in Threads : thread[p][i] \in {"off", "exited"}
  /\ UNCHANGED vars

Next ==
  \/ SearchStep
  \/ \E c \in Calls : Start(c)
  \/ \E c \in Calls, p \in Parts, n \in Slices : ScanFails(c, p, n)
  \/ \E p \in Pools : Close(p)
  \/ Gone

Spec == Init /\ [][Next]_vars

\* Threads that can go on do; nobody has to search, to fail or to close.
FairSpec == Spec /\ WF_vars(SearchStep)

-----------------------------------------------------------------------------
(* Properties. *)

\* Every variable stays in its domain, and every window in its slice.
SearchTypeOK ==
  /\ theta \in [Calls -> Nat]
  /\ next \in [Calls -> 1..MaxParts + MaxThreads + 2]
  /\ \A c \in Calls, w \in Workers :
       worker[c][w] \in [at : {"off", "hire", "take", "slice"} \cup Over,
                        part : 0..MaxParts, given : 0..MaxThreads + 1]
  /\ \A c \in Calls, p \in Parts : \A n \in DOMAIN scan[c][p] :
       /\ scan[c][p][n].at \in {"given", "window", "docs"} \cup Over
       /\ scan[c][p][n].to <= scan[c][p][n].hi
  /\ outcome \in [Calls -> {"none", "answered", "raised"}]
  /\ PoolTypeOK

\* The documents with a positive score, as one index would rank them.
Wanted(c) ==
  Best(UNION {{[doc |-> d, score |-> Score(scene.parts[p], scene.query[c], d)] :
                 d \in {d \in DOMAIN scene.parts[p].lengths \ scene.parts[p].deleted :
                          Score(scene.parts[p], scene.query[c], d) > 0}} : p \in 1..PartsNb},
       scene.topK)

\* "exact": whatever blocks are skipped, and however the threads interleave, the
\* answer is that of an exhaustive search of one index, ties in the order of the
\* documents included.
TopKExact == \A c \in Calls : outcome[c] = "answered" => Answer(c) = Wanted(c)

\* theta is "a lower bound of the k-th best score of all": as many live documents
\* as asked for reach it.
ThetaReached ==
  \A c \in Calls : theta[c] > 0 =>
    Len(Wanted(c)) = scene.topK /\ Last(Wanted(c)).score >= theta[c]

\* "every range finished before anything they use goes": when a search returns,
\* even by an exception, no thread of a pool works for it, nor will, and none of
\* its own is still in run().
NothingRunsAfter ==
  \A c \in Calls, p \in Pools : outcome[c] # "none" =>
    /\ \A task \in Queued(p) \cup Running(p) : task[1] # c
    /\ \A caller \in notifying[p] : caller[1] # c

\* A search ends: no thread waits for tasks that no thread is left to run ("a task
\* never waits for another of the same pool").
SearchesEnd == \A c \in Calls : worker[c][0].at # "off" ~> outcome[c] # "none"

=============================================================================
