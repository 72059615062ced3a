----------------------------- MODULE Dictionary -----------------------------
(***************************************************************************)
(* What an index file promises its writer: a definition, or none, for each *)
(* ident, changed one at a time and kept by a crash.  No part of the code: *)
(* IndexFile implements it.                                                *)
(***************************************************************************)
EXTENDS Integers

CONSTANTS
  Values,     \* definitions
  Idents,     \* what may be asked for
  BlocSize    \* idents come in reach by blocks

\* A definition, or none.
Contents == {{}} \cup {{v} : v \in Values}

VARIABLES
  dict,    \* the definition of each ident
  room,    \* idents below room are in reach
  asked,   \* the operation under way: none, or its ident and content
  mode     \* "ready", "bulk", "closed" or "unusable"

vars == <<dict, room, asked, mode>>

Init ==
  /\ dict = [i \in Idents |-> {}]
  /\ room = BlocSize
  /\ asked = {}
  /\ mode = "ready"

Ask(i, content) ==
  /\ mode = "ready" /\ asked = {}
  /\ asked' = {[ident |-> i, content |-> content]}
  /\ UNCHANGED <<dict, room, mode>>

\* One more block; an ident that is still out of reach is refused.
Grow ==
  \E op \in asked :
    /\ mode = "ready"
    /\ op.ident >= room
    /\ room' = room + BlocSize
    /\ asked' = {o \in asked : o.ident < room'}
    /\ UNCHANGED <<dict, mode>>

Apply ==
  \E op \in asked :
    /\ mode = "ready"
    /\ op.ident < room
    /\ dict' = [dict EXCEPT ![op.ident] = op.content]
    /\ asked' = {}
    /\ UNCHANGED <<room, mode>>

\* A crash, or the end of the writer, between two operations or inside one.
Die ==
  /\ mode = "ready"
  /\ mode' = "closed"
  /\ asked' = {}
  /\ UNCHANGED <<dict, room>>

\* The file is opened again, as it was, or refused.
Reopen ==
  /\ mode = "closed"
  /\ mode' \in {"ready", "unusable"}
  /\ UNCHANGED <<dict, room, asked>>

BeginBulk ==
  /\ mode = "ready" /\ asked = {}
  /\ mode' = "bulk"
  /\ UNCHANGED <<dict, room, asked>>

SetBulk(i, content) ==
  /\ mode = "bulk"
  /\ room' = IF i < room THEN room ELSE room + BlocSize
  /\ dict' = IF i < room' THEN [dict EXCEPT ![i] = content] ELSE dict
  /\ UNCHANGED <<asked, mode>>

EndBulk ==
  /\ mode = "bulk"
  /\ mode' = "ready"
  /\ UNCHANGED <<dict, room, asked>>

\* A crash in bulk mode leaves nothing.
LoseBulk ==
  /\ mode = "bulk"
  /\ mode' = "unusable"
  /\ dict' = [i \in Idents |-> {}]
  /\ UNCHANGED <<room, asked>>

Next ==
  \/ \E i \in Idents, content \in Contents : Ask(i, content) \/ SetBulk(i, content)
  \/ Grow \/ Apply \/ Die \/ Reopen \/ BeginBulk \/ EndBulk \/ LoseBulk

Spec == Init /\ [][Next]_vars

=============================================================================
