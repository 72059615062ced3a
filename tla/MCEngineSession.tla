-------------------------- MODULE MCEngineSession --------------------------
(* Instances of EngineSession for TLC: the threads of one engine, one or two *)
(* writers.  The threads are interchangeable.                                *)
EXTENDS EngineSession, TLC
CONSTANTS r1, r2, w1, w2
Symmetry == Permutations({r1, r2})
=============================================================================
