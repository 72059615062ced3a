---------------------------- MODULE EngineSession ----------------------------
(***************************************************************************)
(* The public calls of one NindEngine, from several threads                *)
(* (src/py/nind/nind_engine.py, _session), over the store of IndexStore.   *)
(*                                                                         *)
(* Each outermost call compares the token of CURRENT with that of the      *)
(* engine's snapshot; when they differ, one thread at a time opens what    *)
(* CURRENT names, and replaces the snapshot of the engine.  The call then  *)
(* answers from one snapshot, as the calls nested in it do.  The threads   *)
(* are the readers of IndexStore: their calls of open_current run step by  *)
(* step against writers that publish, fail, die and delete.  A power loss  *)
(* ends the engine, so it is left out.                                     *)
(***************************************************************************)
EXTENDS IndexStore

CONSTANTS
  MaxDepth,     \* calls nested in one another: bounds the behaviours
  NoThread      \* nobody holds the switch lock

ASSUME MaxDepthAssumption == MaxDepth \in Nat \ {0}
ASSUME NoThreadAssumption == NoThread \notin Readers

VARIABLES
  state,      \* _state: the generation of the snapshot, and its version
  switch,     \* the thread that holds _switch_lock
  at,         \* at[r]: where thread r is in _session
  seen,       \* seen[r]: the token it has just read
  depth,      \* depth[r]: its nested public calls, 0 for none
  held,       \* held[r]: the generation of calls.snapshot
  asked       \* history: what was current when its outermost call started

sessionVars == <<state, switch, at, seen, depth, held, asked>>
allVars == <<vars, sessionVars>>

Locking == {"restat", "recompare", "open", "opening"}
Places == Locking \cup {"out", "stat", "compare", "lock", "take", "in"}

SessionInit ==
  /\ Init
  /\ state = [gen |-> current, version |-> current]
  /\ switch = NoThread
  /\ at = [r \in Readers |-> "out"]
  /\ seen = [r \in Readers |-> 0]
  /\ depth = [r \in Readers |-> 0]
  /\ held = [r \in Readers |-> 0]
  /\ asked = [r \in Readers |-> 0]

-----------------------------------------------------------------------------

Moves(r, from, to) ==
  /\ at[r] = from
  /\ at' = [at EXCEPT ![r] = to]

\* An outermost public call.
Call(r) ==
  /\ Moves(r, "out", "stat")
  /\ depth' = [depth EXCEPT ![r] = 1]
  /\ asked' = [asked EXCEPT ![r] = current]
  /\ UNCHANGED <<vars, state, switch, seen, held>>

\* Mutant of NestedCall: it takes the snapshot of the engine.
NestedCallSwitches(r) ==
  /\ at[r] = "in" /\ depth[r] < MaxDepth
  /\ depth' = [depth EXCEPT ![r] = @ + 1]
  /\ held' = [held EXCEPT ![r] = state.gen]
  /\ UNCHANGED <<vars, state, switch, at, seen, asked>>

\* A public call inside another one, in the same thread.
NestedCall(r) ==
  /\ at[r] = "in" /\ depth[r] < MaxDepth
  /\ depth' = [depth EXCEPT ![r] = @ + 1]
  /\ UNCHANGED <<vars, state, switch, at, seen, held, asked>>

\* current_version() != self._state[1]: the token is read before the state,
\* both of them outside the lock.
Stat(r) ==
  /\ Moves(r, "stat", "compare")
  /\ seen' = [seen EXCEPT ![r] = current]
  /\ UNCHANGED <<vars, state, switch, depth, held, asked>>

Compare(r) ==
  /\ Moves(r, "compare", IF seen[r] = state.version THEN "take" ELSE "lock")
  /\ UNCHANGED <<vars, state, switch, seen, depth, held, asked>>

\* Mutant of Lock: threads switch at the same time.
LockNever(r) ==
  /\ Moves(r, "lock", "restat")
  /\ switch' = r
  /\ UNCHANGED <<vars, state, seen, depth, held, asked>>

Lock(r) ==
  /\ Moves(r, "lock", "restat")
  /\ switch = NoThread
  /\ switch' = r
  /\ UNCHANGED <<vars, state, seen, depth, held, asked>>

\* The same comparison again, now under the lock: another thread may have
\* switched meanwhile.
Restat(r) ==
  /\ Moves(r, "restat", "recompare")
  /\ seen' = [seen EXCEPT ![r] = current]
  /\ UNCHANGED <<vars, state, switch, depth, held, asked>>

\* Mutant of Recompare: whoever waited for the lock opens the index again.
RecompareNever(r) ==
  /\ Moves(r, "recompare", "open")
  /\ UNCHANGED <<vars, state, switch, seen, depth, held, asked>>

Recompare(r) ==
  /\ \/ Moves(r, "recompare", "open") /\ seen[r] # state.version /\ UNCHANGED switch
     \/ Moves(r, "recompare", "take") /\ seen[r] = state.version /\ switch' = NoThread
  /\ UNCHANGED <<vars, state, seen, depth, held, asked>>

\* open_current starts; ReaderStep does the rest of it.
Open(r) ==
  /\ Moves(r, "open", "opening")
  /\ StartOpen(r)
  /\ UNCHANGED <<state, switch, seen, depth, held, asked>>

Opening(r) ==
  /\ at[r] = "opening"
  /\ ReaderStep(r)
  /\ UNCHANGED sessionVars

\* Mutant of Switch: the version is read once more.
SwitchLate(r) ==
  /\ Moves(r, "opening", "take")
  /\ rpc[r] = "idle"
  /\ state' = [gen |-> snap[r].gen, version |-> current]
  /\ switch' = NoThread
  /\ UNCHANGED <<vars, seen, depth, held, asked>>

\* It has returned the snapshot and its version.
Switch(r) ==
  /\ Moves(r, "opening", "take")
  /\ rpc[r] = "idle"
  /\ state' = [gen |-> snap[r].gen, version |-> snap[r].version]
  /\ switch' = NoThread
  /\ UNCHANGED <<vars, seen, depth, held, asked>>

\* Mutant of OpenFails: the thread tries again, the lock kept.
OpenFailsAgain(r) ==
  /\ Moves(r, "opening", "open")
  /\ rpc[r] = "failed"
  /\ UNCHANGED <<vars, state, switch, seen, depth, held, asked>>

\* It has raised: so does the call, and the engine keeps its snapshot.
OpenFails(r) ==
  /\ Moves(r, "opening", "out")
  /\ rpc[r] = "failed"
  /\ switch' = NoThread
  /\ depth' = [depth EXCEPT ![r] = 0]
  /\ UNCHANGED <<vars, state, seen, held, asked>>

Take(r) ==
  /\ Moves(r, "take", "in")
  /\ held' = [held EXCEPT ![r] = state.gen]
  /\ UNCHANGED <<vars, state, switch, seen, depth, asked>>

\* A call returns; the outermost one forgets the snapshot.
Return(r) ==
  /\ Moves(r, "in", IF depth[r] = 1 THEN "out" ELSE "in")
  /\ depth' = [depth EXCEPT ![r] = @ - 1]
  /\ held' = [held EXCEPT ![r] = IF depth[r] = 1 THEN 0 ELSE @]
  /\ UNCHANGED <<vars, state, switch, seen, asked>>

\* What a thread does by itself once it has called.
SessionStep(r) ==
  \/ Stat(r) \/ Compare(r) \/ Lock(r) \/ Restat(r) \/ Recompare(r)
  \/ Open(r) \/ Opening(r) \/ Switch(r) \/ OpenFails(r) \/ Take(r)

StoreStep ==
  /\ \E w \in Writers : RequestBuild(w) \/ WriterStep(w) \/ BuildFails(w) \/ Crash(w)
  /\ UNCHANGED sessionVars

SessionNext ==
  \/ StoreStep
  \/ \E r \in Readers : Call(r) \/ NestedCall(r) \/ SessionStep(r) \/ Return(r)

SessionSpec == SessionInit /\ [][SessionNext]_allVars

\* Threads and writers that can go on do.  Nobody has to call, to return from a
\* call, to build or to die: a call that goes on holds no lock.
SessionFairness ==
  /\ \A r \in Readers : WF_allVars(SessionStep(r))
  /\ \A w \in Writers : WF_allVars(WriterStep(w) /\ UNCHANGED sessionVars)

FairSessionSpec == SessionSpec /\ SessionFairness

-----------------------------------------------------------------------------
(* Properties. *)

\* Every variable stays in its domain; the lock is held where it is used.
SessionTypeOK ==
  /\ state \in [gen : 0..MaxBuilds, version : 0..MaxBuilds]
  /\ switch \in Readers \cup {NoThread}
  /\ at \in [Readers -> Places]
  /\ seen \in [Readers -> 0..MaxBuilds]
  /\ depth \in [Readers -> 0..MaxDepth]
  /\ held \in [Readers -> 0..MaxBuilds]
  /\ asked \in [Readers -> 0..MaxBuilds]
  /\ \A r \in Readers : (at[r] \in Locking) <=> (switch = r)

\* "switches to a newer build as soon as one is published": a call answers from
\* what was current when it started, or newer, whatever the other threads do.
CallIsFresh == \A r \in Readers : at[r] = "in" => held[r] >= asked[r]

\* However many threads notice a new build, one opens it: a switch never ends on
\* the version the engine had (the second comparison, under the lock).
OpenedOncePerBuild ==
  [][\A r \in Readers : at[r] = "opening" /\ at'[r] = "take" =>
       state'.version > state.version]_allVars

\* "each call answers from one complete build": a call, and those nested in it,
\* keep their snapshot while other threads switch.
OneSnapshotPerCall ==
  [][\A r \in Readers : depth[r] > 0 /\ at[r] = "in" /\ depth'[r] > 0 => held'[r] = held[r]]_allVars

\* An open raises in thread r.
Raising(r) == at[r] = "opening" /\ at'[r] = "out"

\* A call always gets its snapshot or an error, whatever thread it finds the lock
\* taken by: one whose open fails gives it back.  But the lock goes to any of those
\* who wait, so threads whose calls fail for ever may keep it from one another.
CallsAnswered ==
  \A r \in Readers :
    (\A q \in Readers \ {r} : <>[][~Raising(q)]_allVars)
      => (at[r] = "stat" ~> at[r] \in {"in", "out"})

=============================================================================
