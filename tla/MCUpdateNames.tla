--------------------------- MODULE MCUpdateNames ---------------------------
(* Instances of UpdateNames for TLC.  The files of names are also checked by  *)
(* themselves, for every two shards that name three documents.               *)
EXTENDS UpdateNames, TLC

CONSTANTS a, b

OneName == <<Blank, a>>
TwoNames == <<Blank, a, b>>

Ids == {0, 1, 3}
Named == {named \in UNION {[ids -> Range(NameOrder)] : ids \in SUBSET Ids} : IsInjective(named)}
FileOf(named) == CHOOSE file \in Written(named) : TRUE

\* Both ways, a name that a file has is found, and no other.
ASSUME LookUps ==
  \A named \in Named :
    /\ \A d \in 0..4 : GetName(FileOf(named), d) = {named[e] : e \in {d} \cap DOMAIN named}
    /\ \A name \in Range(NameOrder) :
         GetDocIdent(FileOf(named), name) = {d \in DOMAIN named : named[d] = name}

\* "the same as write() with all their documents" that are not deleted, or as it
\* refused: two shards with the same name.
ASSUME MergeAsWritten ==
  \A named \in Named, other \in Named : DOMAIN named \cap DOMAIN other = {} =>
    \A deleted \in SUBSET (DOMAIN named \cup DOMAIN other) :
      Merge(<<FileOf(named), FileOf(other)>>, <<deleted \cap DOMAIN named, deleted \cap DOMAIN other>>)
        = Written(Restrict(named @@ other, (DOMAIN named \cup DOMAIN other) \ deleted))

=============================================================================
