------------------------------ MODULE MCSearch ------------------------------
(***************************************************************************)
(* Instances of Search for TLC: two words, x and y, in every way over four *)
(* documents for one of them; segments, deletions, categories, threads and *)
(* failures by families of scenes.                                         *)
(***************************************************************************)
EXTENDS Search, Integers

CONSTANTS a, b

MCPools == 0..2
MCTasks == ({a, b} \X {0} \X (0..3)) \cup ({a, b} \X (1..2) \X (1..4))
MCCallers == {a, b} \X (0..3)

One(docs) == <<[cg |-> 1, docs |-> docs]>>
In(docs) == IF docs = NoDocs THEN <<>> ELSE One(docs)

\* The postings of a word over some documents, with frequencies 1 and 3.
Lists(docs) == UNION {[set -> {1, 3}] : set \in SUBSET docs}

Part(lengths, deleted, x, y, known) ==
  [lengths |-> lengths, deleted |-> deleted, known |-> known,
   terms |-> ("x" :> x) @@ ("y" :> y)]

Scene(parts, query, topK, threads) ==
  [parts |-> parts, topK |-> topK, threads |-> threads, faulty |-> FALSE,
   query |-> (a :> query) @@ (b :> <<>>)]

Lengths == (1 :> 4) @@ (2 :> 1) @@ (3 :> 2) @@ (4 :> 2)

X1 == (1 :> 1) @@ (2 :> 1) @@ (3 :> 3) @@ (4 :> 1)
X2 == (2 :> 1) @@ (3 :> 1) @@ (4 :> 3)

\* The lists of y in which document 2 has one frequency.
Ys(docs, frequency) == {y \in Lists(docs) : 2 \in DOMAIN y => y[2] = frequency}

\* One segment, its ids in two slices.
Sliced ==
  {Scene(<<Part(Lengths, {}, In(v[1]), In(y), TRUE)>>, <<"x", "y">>, v[2], 2) :
     v \in {<<X1, 1>>, <<X2, 1>>, <<X1, 2>>}, y \in Ys(1..4, 1)}

\* Two segments, one after the other or at once: document 3 has been replaced.
Replaced(x, y, known) ==
  <<Part(Restrict(Lengths, 1..3), {3}, In(Restrict(x, DOMAIN x \ {4})), In(y), known),
    Part(Restrict(Lengths, 3..4), {}, In(Restrict(x, DOMAIN x \ 1..2)), <<>>, TRUE)>>
Segments ==
  {Scene(Replaced(v[1], y, v[2]), <<"y", "x", "y">>, 1, v[3]) :
     v \in {<<X1, TRUE, 2>>, <<X2, FALSE, 2>>, <<X2, TRUE, 1>>}, y \in Ys(1..3, 3)}

\* Two segments at once, the first by two slices; a read may fail.
Nested ==
  {[Scene(Replaced((1 :> 3) @@ (3 :> 1) @@ (4 :> 3), (1 :> 1) @@ (2 :> 3) @@ (3 :> 1), TRUE),
          <<"x", "y">>, 1, 4)
      EXCEPT !.faulty = TRUE]}

\* A document in two categories of a word, or words in more documents than there
\* are: an exhaustive search.
Categories ==
  {Scene(<<Part(Lengths, {}, One(x) \o <<[cg |-> 2, docs |-> y]>>, In(y), TRUE)>>,
         <<"x", "y">>, k, 2) :
     x \in {X1, X2}, y \in {(2 :> 3), (1 :> 1) @@ (4 :> 3)}, k \in {0 - 1, 1}}

\* Two searches at once of one segment, by two slices each: one thread for both.
Together ==
  {[Scene(<<Part(Lengths, {2}, In((2 :> 1) @@ (3 :> 1) @@ (4 :> 3)), <<>>, TRUE)>>, <<"x">>, 1, 2)
      EXCEPT !.query[b] = <<"y", "x">>]}

MCScenes == Sliced \cup Segments \cup Nested \cup Categories \cup Together

=============================================================================
