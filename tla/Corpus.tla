------------------------------- MODULE Corpus -------------------------------
(***************************************************************************)
(* What an index promises those who update and search it, whatever its     *)
(* files: a function from document ids to contents, changed by one batch   *)
(* at a time (IndexUpdate, src/py/nind/nind_engine.py), as a whole or not  *)
(* at all.  How the documents are spread over segments, how removed ones   *)
(* are masked and when segments are merged must not be seen                *)
(* (NindSegmentedIndex.h: "exactly those of one index built from the live  *)
(* documents"); SegmentedUpdate implements this module.                    *)
(***************************************************************************)
EXTENDS Naturals

CONSTANTS
  Docs,       \* document ids
  Contents    \* what a document can hold: sets of terms, none empty

VARIABLES
  corpus,     \* the published documents: id -> content
  batch,      \* whether a batch is in progress
  draft       \* its changes: id -> new content, {} to remove the document

vars == <<corpus, batch, draft>>

NoDocs == [d \in {} |-> {}]
Maps(range) == UNION {[ids -> range] : ids \in SUBSET Docs}

\* The documents once changes are made to docs.
Apply(docs, changes) ==
  [d \in {d \in DOMAIN docs \cup DOMAIN changes :
            d \in DOMAIN changes => changes[d] # {}} |->
     IF d \in DOMAIN changes THEN changes[d] ELSE docs[d]]

Init ==
  /\ corpus \in Maps(Contents)
  /\ batch = FALSE
  /\ draft = NoDocs

Begin ==
  /\ ~batch
  /\ batch' = TRUE
  /\ draft' = NoDocs
  /\ UNCHANGED corpus

\* A document is added, replaced or removed.
Change(d, content) ==
  /\ batch
  /\ draft' = [e \in DOMAIN draft \cup {d} |-> IF e = d THEN content ELSE draft[e]]
  /\ UNCHANGED <<corpus, batch>>

\* A document added earlier in the batch is removed from it.
Withdraw(d) ==
  /\ batch
  /\ d \notin DOMAIN corpus
  /\ draft' = [e \in DOMAIN draft \ {d} |-> draft[e]]
  /\ UNCHANGED <<corpus, batch>>

Publish ==
  /\ batch
  /\ corpus' = Apply(corpus, draft)
  /\ batch' = FALSE
  /\ draft' = NoDocs

Abandon ==
  /\ batch
  /\ batch' = FALSE
  /\ draft' = NoDocs
  /\ UNCHANGED corpus

Next ==
  \/ Begin \/ Publish \/ Abandon
  \/ \E d \in Docs : Withdraw(d) \/ \E content \in Contents \cup {{}} : Change(d, content)

Spec == Init /\ [][Next]_vars

=============================================================================
