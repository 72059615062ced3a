------------------------- MODULE MCEngineLiveness -------------------------
(* What must end in EngineSession, for TLC.  Two casts, for two questions:  *)
(* threads that wait for one another's switch, and writers that wait for   *)
(* one another's build.  All of the actors at once are too many for TLC.   *)
EXTENDS MCEngineSession

VARIABLE cast

\* Two threads of an engine, a writer and its build, which may fail once published.
Threads ==
  /\ cast = "threads"
  /\ wpc'[w2] = "idle"
  /\ builds' + Cardinality({w \in Writers : wpc'[w] = "waiting"}) < MaxBuilds

\* A thread, two writers and their builds.
Rivals ==
  /\ cast = "rivals"
  /\ at'[r2] = "out"
  /\ \A w \in Writers : wpc[w] = "replaced" => wpc'[w] # "failing"

\* Who is not in the cast never starts: nothing that fairness asks for is left out.
CastInit == SessionInit /\ cast \in {"threads", "rivals"}
CastNext == SessionNext /\ (Threads \/ Rivals) /\ UNCHANGED cast
CastSpec == CastInit /\ [][CastNext]_<<allVars, cast>> /\ SessionFairness

=============================================================================
