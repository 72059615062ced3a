-------------------------- MODULE IndexStore_proofs --------------------------
(***************************************************************************)
(* What IndexStore guarantees for every number of readers, writers, builds *)
(* and attempts, proved under one assumption on where a build may fail;    *)
(* then what EngineSession does, for every number of threads, writers,     *)
(* builds and nested calls: a call of an engine answers from one snapshot, *)
(* as new as the call, and a build is opened once.                         *)
(*                                                                         *)
(* The properties are not inductive: IInv adds what a writer knows at each *)
(* phase (WriterInv), the order in which a reader reads the token, CURRENT *)
(* and the files (ReaderInv), and which incarnation of generation.lock the *)
(* reader and the deletion of its generation meet on (LockInv).  Every     *)
(* step of a session is one of IndexStore or leaves the store alone, so    *)
(* IInv holds there too, and SessionInv adds what a thread knows of the    *)
(* engine's snapshot at each place of _session: what it has compared, and  *)
(* under which lock.                                                       *)
(***************************************************************************)
EXTENDS EngineSession, TLAPS

\* No exception after CURRENT was replaced: new_generation would remove the
\* generation it has just published (see the run IndexStore_undone).
NoFailureOncePublished == "replaced" \notin FailAt

Active(w) == wpc[w] \notin {"idle", "waiting"}

\* The reader phases after CURRENT was read and named a generation.
Named == Sharing \cup {"lockfile", "wait"}

\* What is published is complete and flushed, and so is what a power loss
\* would bring back.
StoreInv ==
  /\ durable <= current
  /\ current <= builds
  /\ current # 0 => Complete(current) /\ current \in synced
  /\ durable # 0 => Complete(durable) /\ durable \in synced
  /\ \A g \in Gens : disk[g] # {} => "dir" \in disk[g]

\* What a writer builds is newer than what is published until it replaces
\* CURRENT; what it deletes is neither.
WriterKnows(w) ==
  /\ Active(w) => wgen[w] \in 1..builds
  /\ wpc[w] \in {"made", "building", "flushed", "failing"} => current < wgen[w]
  /\ wpc[w] \in {"replaced", "collecting", "deleting", "flattening"} => wgen[w] = current
  /\ wpc[w] \in {"collecting", "deleting", "flattening"} => durable = current
  /\ wpc[w] = "made" => disk[wgen[w]] # {}
  /\ wpc[w] = "building" => {"dir", "lock"} \subseteq disk[wgen[w]]
  /\ wpc[w] = "flushed" => Complete(wgen[w]) /\ wgen[w] \in synced
  /\ wpc[w] \in {"collecting", "deleting"} =>
       wgen[w] \notin todo[w] /\ \A g \in todo[w] : disk[g] # {}
  /\ wpc[w] = "deleting" =>
       /\ victim[w] \in Gens \ todo[w]
       /\ victim[w] # wgen[w]
       /\ disk[victim[w]] # {}

\* The writer lock: one writer at a time is past its wait.
WriterInv ==
  /\ \A v, w \in Writers : Active(v) /\ Active(w) => v = w
  /\ \A w \in Writers : WriterKnows(w)

\* The token was read before CURRENT, and both name what was published then.
ReaderKnows(r) ==
  /\ version[r] <= current /\ name[r] <= current /\ since[r] <= current
  /\ rpc[r] \notin {"idle", "failed"} => since[r] <= version[r] /\ tries[r] < Attempts
  /\ rpc[r] \in {"stat", "name", "failed"} => tries[r] <= current - since[r]
  /\ rpc[r] \in Named \cup {"flat", "flatextra"} =>
       version[r] <= name[r] /\ tries[r] <= name[r] - since[r]
  /\ rpc[r] \in {"flat", "flatextra"} => name[r] = 0
  /\ rpc[r] \in Named => name[r] # 0
  /\ rpc[r] = "raised" => name[r] < current
  /\ rpc[r] = "failed" => name[r] = 0 \/ tries[r] = Attempts

ReaderInv == \A r \in Readers : ReaderKnows(r)

SnapInv ==
  \A r \in Readers :
    /\ snap[r].version <= snap[r].gen
    /\ snap[r].since <= snap[r].gen
    /\ snap[r].gen <= current
    /\ rpc[r] \notin {"idle", "failed"} => snap[r].gen <= since[r]

Deleting(w, g) == wpc[w] = "deleting" /\ victim[w] = g

\* A generation a reader has found in CURRENT is complete, gone, or being
\* deleted, unless its deletion had been cut short; the reader and the
\* deletion then use the same incarnation of its lock.
LockKnows(r) ==
  rpc[r] \in Named /\ name[r] \notin torn =>
    /\ Complete(name[r]) \/ disk[name[r]] = {} \/ \E w \in Writers : Deleting(w, name[r])
    /\ rpc[r] # "lockfile" /\ disk[name[r]] # {} => rino[r] = inode[name[r]]
    /\ \A w \in Writers : Deleting(w, name[r]) =>
         /\ wino[w] = inode[name[r]]
         /\ rpc[r] \notin Sharing
    /\ rpc[r] \in {"index", "extra"} => Complete(name[r])

LockInv == \A r \in Readers : LockKnows(r)

IInv ==
  /\ TypeOK
  /\ StoreInv
  /\ WriterInv
  /\ ReaderInv
  /\ SnapInv
  /\ LockInv
  /\ OpenedComplete

-----------------------------------------------------------------------------
(* Every variable stays in its domain. *)

\* The variables a step leaves alone.
LEMMA StoreTypesKept == StoreTypeOK /\ UNCHANGED storeVars => StoreTypeOK'
  BY DEF StoreTypeOK, storeVars

\* A step that leaves every writer variable alone keeps their domains.
LEMMA WriterTypesKept == WriterTypeOK /\ UNCHANGED writerVars => WriterTypeOK'
  BY DEF WriterTypeOK, writerVars

\* A step that leaves every reader variable alone keeps their domains.
LEMMA ReaderTypesKept == ReaderTypeOK /\ UNCHANGED readerVars => ReaderTypeOK'
  BY DEF ReaderTypeOK, readerVars, callVars

\* What the common ends of the actions do to the domains.
LEMMA EndsTypes ==
  ASSUME NEW w \in Writers, WriterTypeOK, Ends(w) PROVE WriterTypeOK'
  BY MaxBuildsAssumption DEF WriterTypeOK, Ends, WriterPhases

\* One more attempt of open_current keeps its phase and count in their domains.
LEMMA RetriesTypes ==
  ASSUME NEW r \in Readers, ReaderTypeOK, Retries(r)
  PROVE  rpc' \in [Readers -> ReaderPhases] /\ tries' \in [Readers -> Nat]
<1>1. tries[r] \in Nat
  BY DEF ReaderTypeOK
<1>2. tries' \in [Readers -> Nat]
  BY <1>1 DEF ReaderTypeOK, Retries
<1>3. rpc' \in [Readers -> ReaderPhases]
  BY DEF ReaderTypeOK, Retries, ReaderPhases, Sharing
<1> QED
  BY <1>2, <1>3

\* What the opener returns is a snapshot.
LEMMA ReturnsTypes ==
  ASSUME NEW r \in Readers, ReaderTypeOK, NEW token \in 0..MaxBuilds,
         NEW got \in SUBSET Files, Returns(r, token, got)
  PROVE  rpc' \in [Readers -> ReaderPhases] /\ snap' \in [Readers -> Snapshots]
<1>1. [gen |-> name[r], version |-> token, since |-> since[r], got |-> got] \in Snapshots
  BY DEF ReaderTypeOK, Snapshots
<1> QED
  BY <1>1 DEF ReaderTypeOK, Returns, ReaderPhases

\* Every action keeps the variables in their domains.
LEMMA TypeStep == IInv /\ [Next]_vars => TypeOK'
<1> SUFFICES ASSUME IInv, [Next]_vars PROVE TypeOK'
  OBVIOUS
<1> USE MaxBuildsAssumption
<1>0. /\ StoreTypeOK /\ WriterTypeOK /\ ReaderTypeOK
      /\ \A w \in Writers : Active(w) => wgen[w] \in Gens
      /\ \A w \in Writers : wpc[w] = "deleting" => victim[w] \in Gens
      /\ \A r \in Readers : rpc[r] \in Named => name[r] \in Gens
  <2>1. StoreTypeOK /\ WriterTypeOK /\ ReaderTypeOK
    BY DEF IInv, TypeOK
  <2>2. ASSUME NEW w \in Writers, Active(w) PROVE wgen[w] \in Gens
    BY <2>1, <2>2 DEF IInv, WriterInv, WriterKnows, StoreTypeOK, Gens
  <2>3. ASSUME NEW w \in Writers, wpc[w] = "deleting" PROVE victim[w] \in Gens
    BY <2>3 DEF IInv, WriterInv, WriterKnows
  <2>4. ASSUME NEW r \in Readers, rpc[r] \in Named PROVE name[r] \in Gens
    BY <2>1, <2>4 DEF IInv, ReaderInv, ReaderKnows, ReaderTypeOK, Gens
  <2> QED
    BY <2>1, <2>2, <2>3, <2>4
<1>1. ASSUME NEW w \in Writers, RequestBuild(w) PROVE TypeOK'
  <2>1. StoreTypeOK'
    BY <1>0, <1>1, StoreTypesKept DEF RequestBuild
  <2>2. WriterTypeOK'
    BY <1>0, <1>1 DEF RequestBuild, Enters, WriterTypeOK, WriterPhases, Publishing, StoreTypeOK,
       Gens
  <2>3. ReaderTypeOK'
    BY <1>0, <1>1, ReaderTypesKept DEF RequestBuild
  <2> QED
    BY <2>1, <2>2, <2>3 DEF TypeOK
<1>2. ASSUME NEW w \in Writers, BeginBuild(w) PROVE TypeOK'
  <2>1. StoreTypeOK'
    BY <1>0, <1>2 DEF BeginBuild, Enters, StoreTypeOK, Gens, Files, Entries, Active
  <2>2. WriterTypeOK'
    BY <1>0, <1>2 DEF BeginBuild, Enters, WriterTypeOK, WriterPhases, Publishing, StoreTypeOK, Gens
  <2>3. ReaderTypeOK'
    BY <1>0, <1>2, ReaderTypesKept DEF BeginBuild
  <2> QED
    BY <2>1, <2>2, <2>3 DEF TypeOK
<1>3. ASSUME NEW w \in Writers, LockGeneration(w) PROVE TypeOK'
  <2>1. StoreTypeOK'
    BY <1>0, <1>3 DEF LockGeneration, Enters, StoreTypeOK, Gens, Files, Entries, Active
  <2>2. WriterTypeOK'
    BY <1>0, <1>3 DEF LockGeneration, Enters, WriterTypeOK, WriterPhases, Publishing,
       StoreTypeOK, Active
  <2>3. ReaderTypeOK'
    BY <1>0, <1>3, ReaderTypesKept DEF LockGeneration
  <2> QED
    BY <2>1, <2>2, <2>3 DEF TypeOK
<1>4. ASSUME NEW w \in Writers, NEW file \in Files, WriteFile(w, file) PROVE TypeOK'
  <2>1. StoreTypeOK'
    BY <1>0, <1>4 DEF WriteFile, StoreTypeOK, Gens, Files, Entries, Active
  <2>2. WriterTypeOK'
    BY <1>0, <1>4, WriterTypesKept DEF WriteFile
  <2>3. ReaderTypeOK'
    BY <1>0, <1>4, ReaderTypesKept DEF WriteFile
  <2> QED
    BY <2>1, <2>2, <2>3 DEF TypeOK
<1>5. ASSUME NEW w \in Writers, Flush(w) PROVE TypeOK'
  <2>1. StoreTypeOK'
    BY <1>0, <1>5 DEF Flush, Enters, StoreTypeOK, Gens, Files, Entries, Active
  <2>2. WriterTypeOK'
    BY <1>0, <1>5 DEF Flush, Enters, WriterTypeOK, WriterPhases, Publishing, StoreTypeOK, Gens
  <2>3. ReaderTypeOK'
    BY <1>0, <1>5, ReaderTypesKept DEF Flush
  <2> QED
    BY <2>1, <2>2, <2>3 DEF TypeOK
<1>6. ASSUME NEW w \in Writers, ReplaceCurrent(w) PROVE TypeOK'
  <2>1. StoreTypeOK'
    BY <1>0, <1>6 DEF ReplaceCurrent, Enters, StoreTypeOK, Gens, Files, Entries, Active
  <2>2. WriterTypeOK'
    BY <1>0, <1>6 DEF ReplaceCurrent, Enters, WriterTypeOK, WriterPhases, Publishing,
       StoreTypeOK, Gens
  <2>3. ReaderTypeOK'
    BY <1>0, <1>6, ReaderTypesKept DEF ReplaceCurrent
  <2> QED
    BY <2>1, <2>2, <2>3 DEF TypeOK
<1>7. ASSUME NEW w \in Writers, EndPublish(w) PROVE TypeOK'
  <2>1. StoreTypeOK'
    BY <1>0, <1>7 DEF EndPublish, Enters, StoreTypeOK, Gens, Files, Entries, Active
  <2>2. WriterTypeOK'
    BY <1>0, <1>7 DEF EndPublish, Enters, WriterTypeOK, WriterPhases, Publishing, StoreTypeOK, Gens
  <2>3. ReaderTypeOK'
    BY <1>0, <1>7, ReaderTypesKept DEF EndPublish
  <2> QED
    BY <2>1, <2>2, <2>3 DEF TypeOK
<1>8. ASSUME NEW w \in Writers, BuildFails(w) PROVE TypeOK'
  <2>1. StoreTypeOK'
    BY <1>0, <1>8, StoreTypesKept DEF BuildFails
  <2>2. WriterTypeOK'
    BY <1>0, <1>8 DEF BuildFails, WriterTypeOK, WriterPhases, Publishing, StoreTypeOK, Gens
  <2>3. ReaderTypeOK'
    BY <1>0, <1>8, ReaderTypesKept DEF BuildFails
  <2> QED
    BY <2>1, <2>2, <2>3 DEF TypeOK
<1>9. ASSUME NEW w \in Writers, NEW entry \in Entries, RemoveFailed(w, entry) PROVE TypeOK'
  <2>1. StoreTypeOK'
    BY <1>0, <1>9 DEF RemoveFailed, Removes, StoreTypeOK, Gens, Files, Entries, Active
  <2>2. WriterTypeOK'
    BY <1>0, <1>9, EndsTypes, WriterTypesKept DEF RemoveFailed
  <2>3. ReaderTypeOK'
    BY <1>0, <1>9, ReaderTypesKept DEF RemoveFailed
  <2> QED
    BY <2>1, <2>2, <2>3 DEF TypeOK
<1>10. ASSUME NEW w \in Writers, NEW g \in Gens, LockVictim(w, g) PROVE TypeOK'
  <2>1. StoreTypeOK'
    BY <1>0, <1>10 DEF LockVictim, StoreTypeOK, Gens, Files, Entries, Active
  <2>2. WriterTypeOK'
    <3> DEFINE i == IF "lock" \in disk[g] THEN inode[g] ELSE inode[g] + 1
    <3>1. i \in Nat /\ g \in 0..MaxBuilds
      BY <1>0 DEF StoreTypeOK, Gens
    <3>2. CASE Shared(g, i)
      BY <1>0, <1>10, <3>2 DEF LockVictim, WriterTypeOK
    <3>3. CASE ~Shared(g, i)
      <4> HIDE DEF i
      <4>1. /\ wpc' = [wpc EXCEPT ![w] = "deleting"]
            /\ wgen' = wgen
            /\ todo' = [todo EXCEPT ![w] = @ \ {g}]
            /\ victim' = [victim EXCEPT ![w] = g]
            /\ wino' = [wino EXCEPT ![w] = i]
        BY <1>10, <3>3 DEF LockVictim, i
      <4> QED
        BY <1>0, <3>1, <4>1 DEF WriterTypeOK, WriterPhases
    <3> QED
      BY <3>2, <3>3
  <2>3. ReaderTypeOK'
    BY <1>0, <1>10, ReaderTypesKept DEF LockVictim
  <2> QED
    BY <2>1, <2>2, <2>3 DEF TypeOK
<1>11. ASSUME NEW w \in Writers, NEW entry \in Entries, RemoveVictim(w, entry) PROVE TypeOK'
  <2>1. StoreTypeOK'
    BY <1>0, <1>11 DEF RemoveVictim, Removes, StoreTypeOK, Gens, Files, Entries, Active
  <2>2. WriterTypeOK'
    <3>1. CASE entry = "dir"
      BY <1>0, <1>11, <3>1 DEF RemoveVictim, WriterTypeOK, WriterPhases
    <3>2. CASE entry # "dir"
      BY <1>0, <1>11, <3>2 DEF RemoveVictim, WriterTypeOK
    <3> QED
      BY <3>1, <3>2
  <2>3. ReaderTypeOK'
    BY <1>0, <1>11, ReaderTypesKept DEF RemoveVictim
  <2> QED
    BY <2>1, <2>2, <2>3 DEF TypeOK
<1>12. ASSUME NEW w \in Writers, EndCollect(w) PROVE TypeOK'
  <2>1. StoreTypeOK'
    BY <1>0, <1>12, StoreTypesKept DEF EndCollect
  <2>2. WriterTypeOK'
    BY <1>0, <1>12 DEF EndCollect, Enters, WriterTypeOK, WriterPhases, Publishing, StoreTypeOK, Gens
  <2>3. ReaderTypeOK'
    BY <1>0, <1>12, ReaderTypesKept DEF EndCollect
  <2> QED
    BY <2>1, <2>2, <2>3 DEF TypeOK
<1>13. ASSUME NEW w \in Writers, RemoveFlat(w) PROVE TypeOK'
  <2>1. StoreTypeOK'
    BY <1>0, <1>13 DEF RemoveFlat, StoreTypeOK, Gens, Files, Entries, Active
  <2>2. WriterTypeOK'
    BY <1>0, <1>13, EndsTypes, WriterTypesKept DEF RemoveFlat
  <2>3. ReaderTypeOK'
    BY <1>0, <1>13, ReaderTypesKept DEF RemoveFlat
  <2> QED
    BY <2>1, <2>2, <2>3 DEF TypeOK
<1>14. ASSUME NEW w \in Writers, Crash(w) PROVE TypeOK'
  <2>1. StoreTypeOK'
    BY <1>0, <1>14 DEF Crash, Victims, StoreTypeOK, Gens, Files, Entries, Active
  <2>2. WriterTypeOK'
    BY <1>0, <1>14, EndsTypes DEF Crash
  <2>3. ReaderTypeOK'
    BY <1>0, <1>14, ReaderTypesKept DEF Crash
  <2> QED
    BY <2>1, <2>2, <2>3 DEF TypeOK
<1>15. ASSUME NEW r \in Readers, StartOpen(r) PROVE TypeOK'
  <2>1. StoreTypeOK' /\ WriterTypeOK'
    BY <1>0, <1>15, StoreTypesKept, WriterTypesKept DEF StartOpen
  <2>2. ReaderTypeOK'
    BY <1>0, <1>15 DEF StartOpen, ReaderTypeOK, ReaderPhases, Sharing, StoreTypeOK, callVars
  <2> QED
    BY <2>1, <2>2 DEF TypeOK
<1>16. ASSUME NEW r \in Readers, ReadVersion(r) PROVE TypeOK'
  <2>1. StoreTypeOK' /\ WriterTypeOK'
    BY <1>0, <1>16, StoreTypesKept, WriterTypesKept DEF ReadVersion
  <2>2. ReaderTypeOK'
    BY <1>0, <1>16 DEF ReadVersion, Goes, ReaderTypeOK, ReaderPhases, Sharing, StoreTypeOK, callVars
  <2> QED
    BY <2>1, <2>2 DEF TypeOK
<1>17. ASSUME NEW r \in Readers, ReadCurrent(r) PROVE TypeOK'
  <2>1. StoreTypeOK' /\ WriterTypeOK'
    BY <1>0, <1>17, StoreTypesKept, WriterTypesKept DEF ReadCurrent
  <2>2. ReaderTypeOK'
    BY <1>0, <1>17 DEF ReadCurrent, Goes, ReaderTypeOK, ReaderPhases, Sharing, StoreTypeOK, callVars
  <2> QED
    BY <2>1, <2>2 DEF TypeOK
<1>18. ASSUME NEW r \in Readers, OpenLockFile(r) PROVE TypeOK'
  <2>1. StoreTypeOK' /\ WriterTypeOK'
    BY <1>0, <1>18, StoreTypesKept, WriterTypesKept DEF OpenLockFile
  <2>2. ReaderTypeOK'
    BY <1>0, <1>18, RetriesTypes DEF OpenLockFile, ReaderTypeOK, ReaderPhases, Sharing,
       StoreTypeOK, Named
  <2> QED
    BY <2>1, <2>2 DEF TypeOK
<1>19. ASSUME NEW r \in Readers, LockShared(r) PROVE TypeOK'
  <2>1. StoreTypeOK' /\ WriterTypeOK'
    BY <1>0, <1>19, StoreTypesKept, WriterTypesKept DEF LockShared
  <2>2. ReaderTypeOK'
    BY <1>0, <1>19 DEF LockShared, Goes, ReaderTypeOK, ReaderPhases, Sharing, StoreTypeOK, callVars
  <2> QED
    BY <2>1, <2>2 DEF TypeOK
<1>20. ASSUME NEW r \in Readers, CheckLockFile(r) PROVE TypeOK'
  <2>1. StoreTypeOK' /\ WriterTypeOK'
    BY <1>0, <1>20, StoreTypesKept, WriterTypesKept DEF CheckLockFile
  <2>2. ReaderTypeOK'
    BY <1>0, <1>20, RetriesTypes DEF CheckLockFile, ReaderTypeOK, ReaderPhases, Sharing,
       StoreTypeOK, Named
  <2> QED
    BY <2>1, <2>2 DEF TypeOK
<1>21. ASSUME NEW r \in Readers, OpenIndex(r) PROVE TypeOK'
  <2>1. StoreTypeOK' /\ WriterTypeOK'
    BY <1>0, <1>21, StoreTypesKept, WriterTypesKept DEF OpenIndex
  <2>2. ReaderTypeOK'
    BY <1>0, <1>21 DEF OpenIndex, Goes, ReaderTypeOK, ReaderPhases, Sharing, StoreTypeOK, callVars
  <2> QED
    BY <2>1, <2>2 DEF TypeOK
<1>22. ASSUME NEW r \in Readers, OpenExtra(r) PROVE TypeOK'
  <2>1. StoreTypeOK' /\ WriterTypeOK'
    BY <1>0, <1>22, StoreTypesKept, WriterTypesKept DEF OpenExtra
  <2>2. ReaderTypeOK'
    BY <1>0, <1>22, ReturnsTypes DEF OpenExtra, ReaderTypeOK, callVars, Files
  <2> QED
    BY <2>1, <2>2 DEF TypeOK
<1>23. ASSUME NEW r \in Readers, HandleError(r) PROVE TypeOK'
  <2>1. StoreTypeOK' /\ WriterTypeOK'
    BY <1>0, <1>23, StoreTypesKept, WriterTypesKept DEF HandleError
  <2>2. ReaderTypeOK'
    BY <1>0, <1>23, RetriesTypes DEF HandleError, Raises, ReaderTypeOK, ReaderPhases, Sharing,
       StoreTypeOK, Named
  <2> QED
    BY <2>1, <2>2 DEF TypeOK
<1>24. ASSUME NEW r \in Readers, OpenFlatIndex(r) PROVE TypeOK'
  <2>1. StoreTypeOK' /\ WriterTypeOK'
    BY <1>0, <1>24, StoreTypesKept, WriterTypesKept DEF OpenFlatIndex
  <2>2. ReaderTypeOK'
    BY <1>0, <1>24 DEF OpenFlatIndex, Goes, ReaderTypeOK, ReaderPhases, Sharing, StoreTypeOK,
       callVars
  <2> QED
    BY <2>1, <2>2 DEF TypeOK
<1>25. ASSUME NEW r \in Readers, OpenFlatExtra(r) PROVE TypeOK'
  <2>1. StoreTypeOK' /\ WriterTypeOK'
    BY <1>0, <1>25, StoreTypesKept, WriterTypesKept DEF OpenFlatExtra
  <2>2. ReaderTypeOK'
    BY <1>0, <1>25, ReturnsTypes DEF OpenFlatExtra, ReaderTypeOK, callVars, Files
  <2> QED
    BY <2>1, <2>2 DEF TypeOK
<1>26. ASSUME PowerLoss PROVE TypeOK'
  <2>1. StoreTypeOK'
    <3>1. UNION {Victims(w) : w \in Writers} \subseteq Gens
      BY <1>0 DEF Victims
    <3>2. disk' \in [Gens -> SUBSET Entries]
      BY <1>0, <1>26 DEF PowerLoss, StoreTypeOK
    <3>3. current' \in 0..MaxBuilds /\ durable' \in 0..MaxBuilds /\ torn' \subseteq Gens
      BY <1>0, <1>26, <3>1 DEF PowerLoss, StoreTypeOK
    <3> QED
      BY <1>0, <1>26, <3>2, <3>3 DEF PowerLoss, StoreTypeOK
  <2>2. WriterTypeOK'
    BY <1>26 DEF PowerLoss, WriterTypeOK, WriterPhases
  <2>3. ReaderTypeOK'
    BY <1>26 DEF PowerLoss, ReaderTypeOK, ReaderPhases, Snapshots, NoSnap
  <2> QED
    BY <2>1, <2>2, <2>3 DEF TypeOK
<1>27. ASSUME UNCHANGED vars PROVE TypeOK'
  BY <1>0, <1>27, StoreTypesKept, WriterTypesKept, ReaderTypesKept DEF vars, TypeOK
<1> QED
  BY <1>1, <1>2, <1>3, <1>4, <1>5, <1>6, <1>7, <1>8, <1>9, <1>10, <1>11, <1>12, <1>13, <1>14,
     <1>15, <1>16, <1>17, <1>18, <1>19, <1>20, <1>21, <1>22, <1>23, <1>24, <1>25, <1>26,
        <1>27 DEF Next, WriterStep, ReaderStep

-----------------------------------------------------------------------------
(* The parts of IInv, one lemma each. *)

\* What CURRENT names stays complete.
LEMMA StoreInvStep == IInv /\ [Next]_vars => StoreInv'
<1> SUFFICES ASSUME IInv, [Next]_vars PROVE StoreInv'
  OBVIOUS
<1>0. StoreTypeOK /\ WriterTypeOK /\ StoreInv /\ WriterInv
  BY DEF IInv, TypeOK
<1> USE MaxBuildsAssumption DEF StoreInv, StoreTypeOK, WriterTypeOK, WriterInv, WriterKnows,
   Active, Complete, Entries, Files, Gens, storeVars
<1>1. ASSUME NEW w \in Writers, RequestBuild(w) PROVE StoreInv'
  BY <1>0, <1>1 DEF RequestBuild, Enters
<1>2. ASSUME NEW w \in Writers, BeginBuild(w) PROVE StoreInv'
  BY <1>0, <1>2 DEF BeginBuild, Enters
<1>3. ASSUME NEW w \in Writers, LockGeneration(w) PROVE StoreInv'
  BY <1>0, <1>3 DEF LockGeneration, Enters
<1>4. ASSUME NEW w \in Writers, NEW file \in Files, WriteFile(w, file) PROVE StoreInv'
  BY <1>0, <1>4 DEF WriteFile
<1>5. ASSUME NEW w \in Writers, Flush(w) PROVE StoreInv'
  BY <1>0, <1>5 DEF Flush, Enters
<1>6. ASSUME NEW w \in Writers, ReplaceCurrent(w) PROVE StoreInv'
  <2>1. current < wgen[w] /\ wgen[w] \in 1..builds /\ Complete(wgen[w]) /\ wgen[w] \in synced
    BY <1>0, <1>6 DEF ReplaceCurrent, Enters
  <2>2. current' = wgen[w] /\ UNCHANGED <<disk, durable, builds, synced>>
    BY <1>6 DEF ReplaceCurrent
  <2> QED
    BY <1>0, <2>1, <2>2
<1>7. ASSUME NEW w \in Writers, EndPublish(w) PROVE StoreInv'
  BY <1>0, <1>7 DEF EndPublish, Enters
<1>8. ASSUME NEW w \in Writers, BuildFails(w) PROVE StoreInv'
  BY <1>0, <1>8 DEF BuildFails
<1>9. ASSUME NEW w \in Writers, NEW entry \in Entries, RemoveFailed(w, entry) PROVE StoreInv'
  BY <1>0, <1>9 DEF RemoveFailed, Removes, Ends
<1>10. ASSUME NEW w \in Writers, NEW g \in Gens, LockVictim(w, g) PROVE StoreInv'
  BY <1>0, <1>10 DEF LockVictim
<1>11. ASSUME NEW w \in Writers, NEW entry \in Entries, RemoveVictim(w, entry) PROVE StoreInv'
  BY <1>0, <1>11 DEF RemoveVictim, Removes
<1>12. ASSUME NEW w \in Writers, EndCollect(w) PROVE StoreInv'
  BY <1>0, <1>12 DEF EndCollect, Enters
<1>13. ASSUME NEW w \in Writers, RemoveFlat(w) PROVE StoreInv'
  BY <1>0, <1>13 DEF RemoveFlat, Ends
<1>14. ASSUME NEW w \in Writers, Crash(w) PROVE StoreInv'
  BY <1>0, <1>14 DEF Crash, Ends, Victims
<1>15. ASSUME NEW r \in Readers, StartOpen(r) \/ ReaderStep(r) PROVE StoreInv'
  <2>1. UNCHANGED <<storeVars, writerVars>>
    BY <1>15 DEF ReaderStep, StartOpen, ReadVersion, ReadCurrent, OpenLockFile, LockShared,
       CheckLockFile, OpenIndex, OpenExtra, HandleError, OpenFlatIndex, OpenFlatExtra
  <2> QED
    BY <1>0, <2>1
<1>16. ASSUME PowerLoss PROVE StoreInv'
  BY <1>0, <1>16 DEF PowerLoss
<1>17. ASSUME UNCHANGED vars PROVE StoreInv'
  BY <1>0, <1>17 DEF vars
<1> HIDE DEF StoreInv, StoreTypeOK, WriterTypeOK, WriterInv, WriterKnows, Active, Complete,
   Entries, Files, Gens, storeVars
<1> QED
  BY <1>1, <1>2, <1>3, <1>4, <1>5, <1>6, <1>7, <1>8, <1>9, <1>10, <1>11, <1>12, <1>13, <1>14,
     <1>15, <1>16, <1>17 DEF Next, WriterStep

\* A step of the writer that holds the lock disturbs nobody else's knowledge.
LEMMA OthersRest ==
  ASSUME NEW w \in Writers,
         \A v \in Writers \ {w} : ~Active(v) /\ wpc'[v] = wpc[v],
         WriterKnows(w)'
  PROVE  WriterInv'
  BY DEF WriterInv, WriterKnows, Active

\* The lock of a writer, and what it knows at each phase.
LEMMA WriterInvStep == NoFailureOncePublished /\ IInv /\ [Next]_vars => WriterInv'
<1> SUFFICES ASSUME NoFailureOncePublished, IInv, [Next]_vars PROVE WriterInv'
  OBVIOUS
<1> USE MaxBuildsAssumption
<1>0. /\ WriterTypeOK /\ WriterInv
      /\ disk \in [Gens -> SUBSET Entries]
      /\ current \in Nat /\ durable \in Nat /\ builds \in 0..MaxBuilds /\ current <= builds
      /\ \A g \in Gens : disk[g] # {} => "dir" \in disk[g]
      /\ \A w \in Writers : Active(w) => wgen[w] \in Gens
  BY DEF IInv, TypeOK, StoreTypeOK, WriterTypeOK, StoreInv, WriterInv, WriterKnows, Gens
<1>1. ASSUME NEW w \in Writers, RequestBuild(w) PROVE WriterInv'
  <2>1. /\ UNCHANGED <<disk, synced, current, durable, builds, wgen, todo, victim>>
        /\ \A v \in Writers : wpc'[v] = wpc[v] \/ wpc'[v] = "waiting"
    BY <1>0, <1>1 DEF RequestBuild, Enters, storeVars, WriterTypeOK
  <2> QED
    BY <1>0, <2>1 DEF WriterInv, WriterKnows, Active, Complete
<1>2. ASSUME NEW w \in Writers, BeginBuild(w) PROVE WriterInv'
  <2>1. /\ wpc'[w] = "made" /\ wgen'[w] = builds + 1 /\ builds' = builds + 1
        /\ builds + 1 \in Gens /\ disk'[builds + 1] = {"dir"} /\ current' = current
    BY <1>0, <1>2 DEF BeginBuild, Enters, Gens, WriterTypeOK
  <2>2. \A v \in Writers \ {w} : ~Active(v) /\ wpc'[v] = wpc[v]
    BY <1>0, <1>2, <2>1 DEF BeginBuild, Enters, Gens, WriterTypeOK, WriterInv, Active
  <2>3. WriterKnows(w)'
    BY <1>0, <1>2, <2>1 DEF WriterInv, WriterKnows, Active
  <2> QED
    BY <2>2, <2>3, OthersRest
<1>3. ASSUME NEW w \in Writers, LockGeneration(w) PROVE WriterInv'
  <2>1. /\ wpc[w] = "made" /\ wpc'[w] = "building"
        /\ disk'[wgen[w]] = disk[wgen[w]] \cup {"lock"}
        /\ UNCHANGED <<wgen, current, builds>>
    BY <1>0, <1>3 DEF LockGeneration, Enters, Active, WriterTypeOK
  <2>2. \A v \in Writers \ {w} : ~Active(v) /\ wpc'[v] = wpc[v]
    BY <1>0, <1>3, <2>1 DEF LockGeneration, Enters, Active, WriterTypeOK, WriterInv, Active
  <2>3. WriterKnows(w)'
    BY <1>0, <1>3, <2>1 DEF WriterInv, WriterKnows, Active
  <2> QED
    BY <2>2, <2>3, OthersRest
<1>4. ASSUME NEW w \in Writers, NEW file \in Files, WriteFile(w, file) PROVE WriterInv'
  <2>1. /\ wpc[w] = "building" /\ wpc'[w] = "building"
        /\ disk'[wgen[w]] = disk[wgen[w]] \cup {file}
        /\ UNCHANGED <<wgen, current, builds>>
    BY <1>0, <1>4 DEF WriteFile, writerVars, Active, WriterTypeOK
  <2>2. \A v \in Writers \ {w} : ~Active(v) /\ wpc'[v] = wpc[v]
    BY <1>0, <1>4, <2>1 DEF WriteFile, writerVars, Active, WriterTypeOK, WriterInv, Active
  <2>3. WriterKnows(w)'
    BY <1>0, <1>4, <2>1 DEF WriterInv, WriterKnows, Active
  <2> QED
    BY <2>2, <2>3, OthersRest
<1>5. ASSUME NEW w \in Writers, Flush(w) PROVE WriterInv'
  <2>1. /\ wpc[w] = "building" /\ wpc'[w] = "flushed"
        /\ Files \subseteq disk[wgen[w]] /\ synced' = synced \cup {wgen[w]}
        /\ UNCHANGED <<disk, wgen, current, builds>>
    BY <1>0, <1>5 DEF Flush, Enters, WriterTypeOK
  <2>2. \A v \in Writers \ {w} : ~Active(v) /\ wpc'[v] = wpc[v]
    BY <1>0, <1>5, <2>1 DEF Flush, Enters, WriterTypeOK, WriterInv, Active
  <2>3. WriterKnows(w)'
    BY <1>0, <1>5, <2>1 DEF WriterInv, WriterKnows, Active, Complete, Entries
  <2> QED
    BY <2>2, <2>3, OthersRest
<1>6. ASSUME NEW w \in Writers, ReplaceCurrent(w) PROVE WriterInv'
  <2>1. /\ wpc[w] = "flushed" /\ wpc'[w] = "replaced" /\ current' = wgen[w]
        /\ UNCHANGED <<wgen, builds>>
    BY <1>0, <1>6 DEF ReplaceCurrent, Enters, WriterTypeOK
  <2>2. \A v \in Writers \ {w} : ~Active(v) /\ wpc'[v] = wpc[v]
    BY <1>0, <1>6, <2>1 DEF ReplaceCurrent, Enters, WriterTypeOK, WriterInv, Active
  <2>3. WriterKnows(w)'
    BY <1>0, <1>6, <2>1 DEF WriterInv, WriterKnows, Active
  <2> QED
    BY <2>2, <2>3, OthersRest
<1>7. ASSUME NEW w \in Writers, EndPublish(w) PROVE WriterInv'
  <2>1. /\ wpc[w] = "replaced" /\ wpc'[w] = "collecting" /\ durable' = current
        /\ todo'[w] = {g \in Gens \ {wgen[w]} : disk[g] # {}}
        /\ UNCHANGED <<disk, wgen, current, builds>>
    BY <1>0, <1>7 DEF EndPublish, Enters, WriterTypeOK
  <2>2. \A v \in Writers \ {w} : ~Active(v) /\ wpc'[v] = wpc[v]
    BY <1>0, <1>7, <2>1 DEF EndPublish, Enters, WriterTypeOK, WriterInv, Active
  <2>3. WriterKnows(w)'
    BY <1>0, <1>7, <2>1 DEF WriterInv, WriterKnows, Active
  <2> QED
    BY <2>2, <2>3, OthersRest
<1>8. ASSUME NEW w \in Writers, BuildFails(w) PROVE WriterInv'
  <2>1. /\ wpc[w] \in {"made", "building", "flushed"} /\ wpc'[w] = "failing"
        /\ UNCHANGED <<wgen, current, builds>>
    BY <1>0, <1>8, FailAtAssumption DEF BuildFails, NoFailureOncePublished, storeVars, WriterTypeOK
  <2>2. \A v \in Writers \ {w} : ~Active(v) /\ wpc'[v] = wpc[v]
    BY <1>0, <1>8, <2>1 DEF BuildFails, WriterTypeOK, WriterInv, Active
  <2>3. WriterKnows(w)'
    BY <1>0, <1>8, <2>1 DEF WriterInv, WriterKnows, Active
  <2> QED
    BY <2>2, <2>3, OthersRest
<1>9. ASSUME NEW w \in Writers, NEW entry \in Entries, RemoveFailed(w, entry) PROVE WriterInv'
  <2>1. /\ wpc[w] = "failing"
        /\ wpc'[w] = "idle" \/ (wpc'[w] = "failing" /\ UNCHANGED wgen)
        /\ UNCHANGED <<current, builds>>
    <3>1. CASE entry = "dir"
      <4>1. wpc' = [wpc EXCEPT ![w] = "idle"] /\ UNCHANGED <<current, builds>>
        BY <1>9, <3>1 DEF RemoveFailed, Ends
      <4>2. wpc'[w] = "idle"
        BY <1>0, <4>1 DEF WriterTypeOK
      <4> QED
        BY <1>9, <4>1, <4>2 DEF RemoveFailed
    <3>2. CASE entry # "dir"
      BY <1>9, <3>2 DEF RemoveFailed, writerVars
    <3> QED
      BY <3>1, <3>2
  <2>2. \A v \in Writers \ {w} : ~Active(v) /\ wpc'[v] = wpc[v]
    BY <1>0, <1>9, <2>1 DEF RemoveFailed, Ends, writerVars, WriterTypeOK, WriterInv, Active
  <2>3. WriterKnows(w)'
    BY <1>0, <1>9, <2>1 DEF WriterInv, WriterKnows, Active
  <2> QED
    BY <2>2, <2>3, OthersRest
<1>10. ASSUME NEW w \in Writers, NEW g \in Gens, LockVictim(w, g) PROVE WriterInv'
  <2>1. /\ wpc[w] = "collecting" /\ g \in todo[w]
        /\ disk' = [disk EXCEPT ![g] = @ \cup {"lock"}]
        /\ todo'[w] = todo[w] \ {g}
        /\ \/ wpc'[w] = "collecting"
           \/ wpc'[w] = "deleting" /\ victim'[w] = g
        /\ UNCHANGED <<wgen, current, durable, builds>>
    BY <1>0, <1>10 DEF LockVictim, WriterTypeOK
  <2>2. \A v \in Writers \ {w} : ~Active(v) /\ wpc'[v] = wpc[v]
    BY <1>0, <1>10, <2>1 DEF LockVictim, WriterTypeOK, WriterInv, Active
  <2>3. WriterKnows(w)'
    BY <1>0, <1>10, <2>1 DEF WriterInv, WriterKnows, Active
  <2> QED
    BY <2>2, <2>3, OthersRest
<1>11. ASSUME NEW w \in Writers, NEW entry \in Entries, RemoveVictim(w, entry) PROVE WriterInv'
  <2>1. /\ wpc[w] = "deleting"
        /\ disk' = [disk EXCEPT ![victim[w]] = @ \ {entry}]
        /\ \/ wpc'[w] = "collecting"
           \/ wpc'[w] = "deleting" /\ victim'[w] = victim[w] /\ entry # "dir"
        /\ UNCHANGED <<wgen, todo, current, durable, builds>>
    BY <1>0, <1>11 DEF RemoveVictim, Removes, WriterTypeOK
  <2>2. \A v \in Writers \ {w} : ~Active(v) /\ wpc'[v] = wpc[v]
    BY <1>0, <1>11, <2>1 DEF RemoveVictim, Removes, WriterTypeOK, WriterInv, Active
  <2>3. WriterKnows(w)'
    BY <1>0, <1>11, <2>1 DEF WriterInv, WriterKnows, Active
  <2> QED
    BY <2>2, <2>3, OthersRest
<1>12. ASSUME NEW w \in Writers, EndCollect(w) PROVE WriterInv'
  <2>1. /\ wpc[w] = "collecting" /\ wpc'[w] = "flattening"
        /\ UNCHANGED <<wgen, current, durable, builds>>
    BY <1>0, <1>12 DEF EndCollect, Enters, storeVars, WriterTypeOK
  <2>2. \A v \in Writers \ {w} : ~Active(v) /\ wpc'[v] = wpc[v]
    BY <1>0, <1>12, <2>1 DEF EndCollect, Enters, storeVars, WriterTypeOK, WriterInv, Active
  <2>3. WriterKnows(w)'
    BY <1>0, <1>12, <2>1 DEF WriterInv, WriterKnows, Active
  <2> QED
    BY <2>2, <2>3, OthersRest
<1>13. ASSUME NEW w \in Writers, RemoveFlat(w) PROVE WriterInv'
  <2>1. /\ wpc[w] = "flattening"
        /\ wpc'[w] = "idle" \/ (wpc'[w] = "flattening" /\ UNCHANGED wgen)
        /\ UNCHANGED <<current, durable, builds>>
    <3>1. CASE "index" \in flat
      BY <1>13, <3>1 DEF RemoveFlat, writerVars
    <3>2. CASE "index" \notin flat
      <4>1. wpc' = [wpc EXCEPT ![w] = "idle"] /\ UNCHANGED <<current, durable, builds>>
        BY <1>13, <3>2 DEF RemoveFlat, Ends
      <4>2. wpc'[w] = "idle"
        BY <1>0, <4>1 DEF WriterTypeOK
      <4> QED
        BY <1>13, <4>1, <4>2 DEF RemoveFlat
    <3> QED
      BY <3>1, <3>2
  <2>2. \A v \in Writers \ {w} : ~Active(v) /\ wpc'[v] = wpc[v]
    BY <1>0, <1>13, <2>1 DEF RemoveFlat, Ends, writerVars, WriterTypeOK, WriterInv, Active
  <2>3. WriterKnows(w)'
    BY <1>0, <1>13, <2>1 DEF WriterInv, WriterKnows, Active
  <2> QED
    BY <2>2, <2>3, OthersRest
<1>14. ASSUME NEW w \in Writers, Crash(w) PROVE WriterInv'
  <2>1. /\ UNCHANGED <<disk, synced, current, durable, builds>>
        /\ wpc'[w] = "idle"
        /\ \A v \in Writers \ {w} : /\ wpc'[v] = wpc[v] /\ wgen'[v] = wgen[v]
                                    /\ todo'[v] = todo[v] /\ victim'[v] = victim[v]
    BY <1>0, <1>14 DEF Crash, Ends, WriterTypeOK
  <2> QED
    BY <1>0, <2>1 DEF WriterInv, WriterKnows, Active, Complete
<1>15. ASSUME NEW r \in Readers, StartOpen(r) \/ ReaderStep(r) PROVE WriterInv'
  <2>1. UNCHANGED <<storeVars, writerVars>>
    BY <1>15 DEF ReaderStep, StartOpen, ReadVersion, ReadCurrent, OpenLockFile, LockShared,
       CheckLockFile, OpenIndex, OpenExtra, HandleError, OpenFlatIndex, OpenFlatExtra
  <2> QED
    BY <1>0, <2>1 DEF storeVars, writerVars, WriterInv, WriterKnows, Active, Complete
<1>16. ASSUME PowerLoss PROVE WriterInv'
  BY <1>16 DEF PowerLoss, WriterInv, WriterKnows, Active
<1>17. ASSUME UNCHANGED vars PROVE WriterInv'
  BY <1>0, <1>17 DEF vars, storeVars, writerVars, WriterInv, WriterKnows, Active, Complete
<1> QED
  BY <1>1, <1>2, <1>3, <1>4, <1>5, <1>6, <1>7, <1>8, <1>9, <1>10, <1>11, <1>12, <1>13, <1>14,
     <1>15, <1>16, <1>17 DEF Next, WriterStep

\* While nothing loses power, CURRENT only moves to newer generations.
LEMMA CurrentGrows ==
  ASSUME IInv, NEW w \in Writers,
         RequestBuild(w) \/ WriterStep(w) \/ BuildFails(w) \/ Crash(w)
  PROVE  current <= current'
<1>1. CASE ReplaceCurrent(w)
  BY <1>1 DEF IInv, TypeOK, StoreTypeOK, WriterTypeOK, WriterInv, WriterKnows, ReplaceCurrent,
     Enters
<1>2. CASE ~ReplaceCurrent(w)
  <2>1. current' = current
    BY <1>2 DEF WriterStep, storeVars, RequestBuild, BeginBuild, LockGeneration, WriteFile,
       Flush, EndPublish, BuildFails, RemoveFailed, LockVictim, RemoveVictim, EndCollect,
       RemoveFlat, Crash
  <2> QED
    BY <2>1 DEF IInv, TypeOK, StoreTypeOK
<1> QED
  BY <1>1, <1>2

\* A writer's step changes no variable of a reader.
LEMMA WritersLeaveReaders ==
  ASSUME NEW w \in Writers, RequestBuild(w) \/ WriterStep(w) \/ BuildFails(w) \/ Crash(w)
  PROVE  UNCHANGED readerVars
  BY DEF WriterStep, RequestBuild, BeginBuild, LockGeneration, WriteFile, Flush, ReplaceCurrent,
     EndPublish, BuildFails, RemoveFailed, LockVictim, RemoveVictim, EndCollect, RemoveFlat, Crash

\* A retry is paid for by a newer generation.
LEMMA RetriesKnows ==
  ASSUME ReaderTypeOK, ReaderInv, current \in Nat,
         NEW r \in Readers, rpc[r] \in Named, name[r] < current, Retries(r),
         UNCHANGED <<version, name, since, current>>
  PROVE  ReaderInv'
<1> USE AttemptsAssumption, MaxBuildsAssumption
<1>1. /\ tries[r] + 1 <= current - since[r]
      /\ tries[r] < Attempts /\ tries[r] \in Nat
      /\ since[r] <= version[r]
  BY DEF ReaderTypeOK, ReaderInv, ReaderKnows, Named, Sharing
<1>2. ReaderKnows(r)'
  <2>1. tries'[r] = tries[r] + 1
    BY DEF Retries, ReaderTypeOK
  <2>2. rpc'[r] = IF tries[r] + 1 = Attempts THEN "failed" ELSE "stat"
    BY DEF Retries, ReaderTypeOK
  <2> QED
    BY <1>1, <2>1, <2>2 DEF ReaderTypeOK, ReaderInv, ReaderKnows, Named, Sharing
<1>3. ASSUME NEW q \in Readers \ {r} PROVE ReaderKnows(q)'
  BY DEF ReaderTypeOK, ReaderInv, ReaderKnows, Retries
<1> QED
  BY <1>2, <1>3 DEF ReaderInv

\* What each reader knows at each point of its call.
LEMMA ReaderInvStep == IInv /\ [Next]_vars => ReaderInv'
<1> SUFFICES ASSUME IInv, [Next]_vars PROVE ReaderInv'
  OBVIOUS
<1>0. StoreTypeOK /\ ReaderTypeOK /\ StoreInv /\ ReaderInv /\ current \in Nat
  BY DEF IInv, TypeOK, StoreTypeOK
<1> USE MaxBuildsAssumption, AttemptsAssumption DEF StoreInv, StoreTypeOK, ReaderTypeOK,
   ReaderInv, ReaderKnows, Complete, Gens, Named, Sharing, storeVars, callVars, Entries, Files
<1>1. ASSUME NEW w \in Writers, RequestBuild(w) \/ WriterStep(w) \/ BuildFails(w) \/ Crash(w)
      PROVE  ReaderInv'
  <2> HIDE DEF StoreTypeOK, StoreInv
  <2>1. current <= current' /\ current' \in Nat /\ UNCHANGED readerVars
    BY <1>1, CurrentGrows, WritersLeaveReaders, TypeStep DEF Next, TypeOK, StoreTypeOK
  <2> QED
    BY <1>0, <2>1 DEF readerVars
<1>2. ASSUME NEW r \in Readers, StartOpen(r) PROVE ReaderInv'
  BY <1>0, <1>2 DEF StartOpen
<1>3. ASSUME NEW r \in Readers, ReadVersion(r) PROVE ReaderInv'
  BY <1>0, <1>3 DEF ReadVersion, Goes
<1>4. ASSUME NEW r \in Readers, ReadCurrent(r) PROVE ReaderInv'
  BY <1>0, <1>4 DEF ReadCurrent, Goes
<1>5. ASSUME NEW r \in Readers, OpenLockFile(r) PROVE ReaderInv'
  <2>1. rpc[r] \in Named /\ name[r] \in Gens /\ UNCHANGED <<version, name, since, snap, current>>
    BY <1>0, <1>5 DEF OpenLockFile
  <2>2. CASE Retries(r) /\ "lock" \notin disk[name[r]]
    <3>1. name[r] < current
      BY <1>0, <2>1, <2>2
    <3> HIDE DEF StoreTypeOK, ReaderTypeOK, StoreInv, ReaderInv, ReaderKnows, Named, Sharing,
       Complete
    <3> QED
      BY <1>0, <2>1, <2>2, <3>1, RetriesKnows
  <2>3. CASE rpc' = [rpc EXCEPT ![r] = "wait"] /\ UNCHANGED tries
    BY <1>0, <2>1, <2>3
  <2> QED
    BY <1>5, <2>2, <2>3 DEF OpenLockFile
<1>6. ASSUME NEW r \in Readers, LockShared(r) PROVE ReaderInv'
  BY <1>0, <1>6 DEF LockShared, Goes
<1>7. ASSUME NEW r \in Readers, CheckLockFile(r) PROVE ReaderInv'
  <2>1. rpc[r] \in Named /\ name[r] \in Gens /\ UNCHANGED <<version, name, since, snap, current>>
    BY <1>0, <1>7 DEF CheckLockFile
  <2>2. CASE Retries(r) /\ "lock" \notin disk[name[r]]
    <3>1. name[r] < current
      BY <1>0, <2>1, <2>2
    <3> HIDE DEF StoreTypeOK, ReaderTypeOK, StoreInv, ReaderInv, ReaderKnows, Named, Sharing,
       Complete
    <3> QED
      BY <1>0, <2>1, <2>2, <3>1, RetriesKnows
  <2>3. CASE rpc' = [rpc EXCEPT ![r] = "index"] /\ UNCHANGED tries
    BY <1>0, <2>1, <2>3
  <2> QED
    BY <1>7, <2>2, <2>3 DEF CheckLockFile
<1>8. ASSUME NEW r \in Readers, OpenIndex(r) PROVE ReaderInv'
  <2>1. /\ rpc[r] = "index" /\ name[r] \in Gens
        /\ UNCHANGED <<version, name, since, tries, current>>
    BY <1>0, <1>8 DEF OpenIndex, Goes
  <2>2. CASE "index" \in disk[name[r]]
    <3>1. rpc' = [rpc EXCEPT ![r] = "extra"]
      BY <1>8, <2>2 DEF OpenIndex, Goes
    <3> QED
      BY <1>0, <2>1, <3>1
  <2>3. CASE "index" \notin disk[name[r]]
    <3>1. rpc' = [rpc EXCEPT ![r] = "raised"]
      BY <1>8, <2>3 DEF OpenIndex, Goes
    <3>2. name[r] < current
      BY <1>0, <2>1, <2>3 DEF Entries, Files
    <3> HIDE DEF StoreInv, StoreTypeOK
    <3>3. current \in Nat
      BY <1>0 DEF StoreTypeOK
    <3> QED
      BY <1>0, <2>1, <3>1, <3>2, <3>3
  <2> QED
    BY <2>2, <2>3
<1>9. ASSUME NEW r \in Readers, OpenExtra(r) PROVE ReaderInv'
  BY <1>0, <1>9 DEF OpenExtra, Returns
<1>10. ASSUME NEW r \in Readers, HandleError(r) PROVE ReaderInv'
  <2>1. name[r] < current /\ name[r] \in Gens /\ rpc[r] \in Named
    BY <1>0, <1>10 DEF HandleError
  <2>2. Retries(r) /\ UNCHANGED <<version, name, since, current>>
    BY <1>0, <1>10, <2>1 DEF HandleError
  <2> HIDE DEF StoreTypeOK, ReaderTypeOK, StoreInv, ReaderInv, ReaderKnows, Named, Sharing, Complete
  <2> QED
    BY <1>0, <2>1, <2>2, RetriesKnows
<1>11. ASSUME NEW r \in Readers, OpenFlatIndex(r) PROVE ReaderInv'
  BY <1>0, <1>11 DEF OpenFlatIndex, Goes
<1>12. ASSUME NEW r \in Readers, OpenFlatExtra(r) PROVE ReaderInv'
  BY <1>0, <1>12 DEF OpenFlatExtra, Returns
<1>13. ASSUME PowerLoss PROVE ReaderInv'
  BY <1>0, <1>13 DEF PowerLoss
<1>14. ASSUME UNCHANGED vars PROVE ReaderInv'
  BY <1>0, <1>14 DEF vars, readerVars
<1> HIDE DEF StoreInv, StoreTypeOK, ReaderTypeOK, ReaderInv, ReaderKnows, Complete, Gens, Named,
   Sharing, storeVars, callVars
<1> QED
  BY <1>1, <1>2, <1>3, <1>4, <1>5, <1>6, <1>7, <1>8, <1>9, <1>10, <1>11, <1>12, <1>13,
     <1>14 DEF Next, ReaderStep

\* What a reader has opened is never older than its token, nor newer than CURRENT.
LEMMA SnapStep == IInv /\ [Next]_vars => SnapInv'
<1> SUFFICES ASSUME IInv, [Next]_vars PROVE SnapInv'
  OBVIOUS
<1>0. /\ ReaderTypeOK /\ ReaderInv /\ SnapInv
      /\ current \in Nat /\ current' \in Nat
  BY TypeStep DEF IInv, TypeOK, StoreTypeOK
<1>1. ASSUME NEW w \in Writers, RequestBuild(w) \/ WriterStep(w) \/ BuildFails(w) \/ Crash(w)
      PROVE  SnapInv'
  <2>1. current <= current' /\ UNCHANGED <<rpc, since, snap>>
    BY <1>1, CurrentGrows, WritersLeaveReaders DEF readerVars, callVars
  <2> QED
    BY <1>0, <2>1 DEF SnapInv, ReaderTypeOK, Snapshots
<1>2. ASSUME NEW r \in Readers, OpenExtra(r) PROVE SnapInv'
  <2>1. version[r] <= name[r] /\ since[r] <= version[r] /\ name[r] <= current
    BY <1>0, <1>2 DEF OpenExtra, ReaderInv, ReaderKnows, Named, Sharing
  <2>2. /\ current' = current
        /\ snap' = [snap EXCEPT ![r] =
             [gen |-> name[r], version |-> version[r], since |-> since[r],
              got |-> {"index"} \cup (disk[name[r]] \cap {"extra"})]]
        /\ rpc' = [rpc EXCEPT ![r] = "idle"] /\ since' = since
    BY <1>2 DEF OpenExtra, Returns, storeVars, callVars
  <2> QED
    BY <1>0, <2>1, <2>2 DEF SnapInv, ReaderTypeOK, Snapshots
<1>3. ASSUME NEW r \in Readers, OpenFlatExtra(r) PROVE SnapInv'
  <2>1. name[r] = 0 /\ since[r] <= version[r] /\ version[r] <= name[r]
    BY <1>0, <1>3 DEF OpenFlatExtra, ReaderInv, ReaderKnows
  <2>2. /\ current' = current
        /\ snap' = [snap EXCEPT ![r] =
             [gen |-> name[r], version |-> 0, since |-> since[r],
              got |-> {"index"} \cup (flat \cap {"extra"})]]
        /\ rpc' = [rpc EXCEPT ![r] = "idle"] /\ since' = since
    BY <1>3 DEF OpenFlatExtra, Returns, storeVars, callVars
  <2> QED
    BY <1>0, <2>1, <2>2 DEF SnapInv, ReaderTypeOK, Snapshots
<1>4. ASSUME NEW r \in Readers, StartOpen(r) PROVE SnapInv'
  BY <1>0, <1>4 DEF StartOpen, SnapInv, ReaderTypeOK, storeVars
<1>5. ASSUME NEW r \in Readers, ReaderStep(r), ~OpenExtra(r), ~OpenFlatExtra(r)
      PROVE  SnapInv'
  <2>1. /\ UNCHANGED <<current, snap, since>>
        /\ rpc[r] \notin {"idle", "failed"}
        /\ \A q \in Readers \ {r} : rpc'[q] = rpc[q]
    BY <1>0, <1>5 DEF ReaderStep, ReaderTypeOK, storeVars, callVars, Goes, Retries, Raises,
       ReadVersion, ReadCurrent, OpenLockFile, LockShared, CheckLockFile, OpenIndex, HandleError,
       OpenFlatIndex
  <2> QED
    BY <1>0, <2>1 DEF SnapInv
<1>6. ASSUME PowerLoss PROVE SnapInv'
  BY <1>0, <1>6 DEF PowerLoss, SnapInv, NoSnap
<1>7. ASSUME UNCHANGED vars PROVE SnapInv'
  BY <1>0, <1>7 DEF vars, storeVars, readerVars, callVars, SnapInv
<1> QED
  BY <1>1, <1>2, <1>3, <1>4, <1>5, <1>6, <1>7 DEF Next

\* A step that touches neither a reader, nor its generation, nor a deletion of
\* it, keeps what it knows.
LEMMA LockKept ==
  ASSUME NEW r \in Readers, LockKnows(r), torn \subseteq torn',
         rpc'[r] = rpc[r], name'[r] = name[r], rino'[r] = rino[r],
         rpc[r] \in Named =>
           /\ disk'[name[r]] = disk[name[r]]
           /\ inode'[name[r]] = inode[name[r]]
           /\ \A w \in Writers : Deleting(w, name[r])' <=> Deleting(w, name[r])
           /\ \A w \in Writers : Deleting(w, name[r]) => wino'[w] = wino[w]
  PROVE  LockKnows(r)'
<1> SUFFICES ASSUME rpc[r] \in Named, name[r] \notin torn
             PROVE  LockKnows(r)'
  BY DEF LockKnows
<1> QED
  BY DEF LockKnows, Complete, Deleting

\* What every writer's step needs of the invariant, for one reader.
LEMMA LockFacts ==
  ASSUME IInv, NEW r \in Readers, rpc[r] \in Named
  PROVE  name[r] \in Gens /\ name[r] <= current /\ current <= builds
  BY DEF IInv, TypeOK, StoreTypeOK, ReaderTypeOK, StoreInv, ReaderInv, ReaderKnows, Gens

\* A writer's step keeps what readers and deletions know of each other's lock.
LEMMA WriterLockStep ==
  ASSUME IInv, NEW w \in Writers,
         RequestBuild(w) \/ WriterStep(w) \/ BuildFails(w) \/ Crash(w)
  PROVE  LockInv'
<1> SUFFICES ASSUME NEW r \in Readers PROVE LockKnows(r)'
  BY DEF LockInv
<1>0. /\ StoreTypeOK /\ WriterTypeOK /\ LockKnows(r)
      /\ rpc'[r] = rpc[r] /\ name'[r] = name[r] /\ rino'[r] = rino[r]
  BY WritersLeaveReaders DEF IInv, TypeOK, LockInv, readerVars, callVars
<1>1. rpc[r] \in Named => name[r] \in Gens /\ name[r] <= current /\ current <= builds
  BY LockFacts
<1>2. /\ Active(w) => wgen[w] \in Gens
      /\ wpc[w] \in {"made", "building", "failing"} => current < wgen[w]
      /\ \A v \in Writers : Active(v) /\ Active(w) => v = w
  BY DEF IInv, TypeOK, StoreTypeOK, WriterTypeOK, StoreInv, WriterInv, WriterKnows, Gens
<1>3. CASE RequestBuild(w) \/ Flush(w) \/ ReplaceCurrent(w) \/ EndPublish(w)
           \/ BuildFails(w) \/ EndCollect(w) \/ RemoveFlat(w)
  <2>1. /\ UNCHANGED <<disk, inode, torn>>
        /\ wpc[w] # "deleting" /\ wpc'[w] # "deleting"
        /\ \A v \in Writers \ {w} : wpc'[v] = wpc[v] /\ victim'[v] = victim[v] /\ wino'[v] = wino[v]
    BY <1>0, <1>3, FailAtAssumption DEF RequestBuild, Flush, ReplaceCurrent, EndPublish, BuildFails,
       EndCollect, RemoveFlat, Enters, Ends, storeVars, writerVars, WriterTypeOK
  <2> QED
    BY <1>0, <2>1, LockKept DEF Deleting
<1>4. CASE BeginBuild(w) \/ LockGeneration(w) \/ (\E file \in Files : WriteFile(w, file))
           \/ (\E entry \in Entries : RemoveFailed(w, entry))
  <2>1. /\ UNCHANGED <<inode, torn>>
        /\ wpc[w] # "deleting" /\ wpc'[w] # "deleting"
        /\ \A v \in Writers \ {w} : wpc'[v] = wpc[v] /\ victim'[v] = victim[v] /\ wino'[v] = wino[v]
    BY <1>0, <1>4 DEF BeginBuild, LockGeneration, WriteFile, RemoveFailed, Enters, Ends,
       writerVars, WriterTypeOK
  <2>2. \E g \in Gens : current < g /\ \A h \in Gens \ {g} : disk'[h] = disk[h]
    <3>1. CASE BeginBuild(w)
      <4>1. builds + 1 \in Gens /\ current < builds + 1
        BY <1>0, <3>1, MaxBuildsAssumption DEF BeginBuild, IInv, StoreInv, StoreTypeOK, Gens
      <4> QED
        BY <1>0, <3>1, <4>1 DEF BeginBuild, StoreTypeOK
    <3>2. CASE ~BeginBuild(w)
      <4>1. wgen[w] \in Gens /\ current < wgen[w]
        BY <1>2, <1>4, <3>2 DEF LockGeneration, WriteFile, RemoveFailed, Enters, Active
      <4>2. \A h \in Gens \ {wgen[w]} : disk'[h] = disk[h]
        BY <1>0, <1>4, <3>2 DEF LockGeneration, WriteFile, RemoveFailed, Removes, StoreTypeOK
      <4> QED
        BY <4>1, <4>2
    <3> QED
      BY <3>1, <3>2
  <2>3. rpc[r] \in Named => disk'[name[r]] = disk[name[r]]
    BY <1>0, <1>1, <2>2 DEF StoreTypeOK, Gens
  <2> QED
    BY <1>0, <2>1, <2>3, LockKept DEF Deleting
<1>5. ASSUME NEW g \in Gens, LockVictim(w, g) PROVE LockKnows(r)'
  <2>1. /\ wpc[w] = "collecting" /\ g \in todo[w] /\ disk[g] # {}
        /\ \A v \in Writers : wpc[v] # "deleting"
    BY <1>2, <1>5 DEF LockVictim, IInv, WriterInv, WriterKnows, Active
  <2>2. CASE ~(rpc[r] \in Named /\ name[r] = g)
    <3>1. rpc[r] \in Named => disk'[name[r]] = disk[name[r]] /\ inode'[name[r]] = inode[name[r]]
      BY <1>0, <1>1, <1>5, <2>2 DEF LockVictim, StoreTypeOK
    <3>2. /\ torn' = torn
          /\ rpc[r] \in Named => \A v \in Writers : ~Deleting(v, name[r])'
      BY <1>0, <1>5, <2>1, <2>2 DEF LockVictim, Deleting, WriterTypeOK
    <3> QED
      BY <1>0, <2>1, <3>1, <3>2, LockKept DEF Deleting
  <2>3. CASE rpc[r] \in Named /\ name[r] = g /\ name[r] \notin torn
    <3>1. Complete(g) /\ (rpc[r] # "lockfile" => rino[r] = inode[g])
      BY <1>0, <2>1, <2>3 DEF LockKnows, Deleting
    <3>2. UNCHANGED <<disk, inode, torn>>
      BY <1>0, <1>5, <3>1 DEF LockVictim, Complete, Entries, StoreTypeOK
    <3>3. CASE Shared(g, inode[g])
      <4>1. UNCHANGED <<wpc, victim, wino>>
        BY <1>5, <3>1, <3>3 DEF LockVictim, Complete, Entries
      <4> QED
        BY <1>0, <3>2, <4>1, LockKept DEF Deleting
    <3>4. CASE ~Shared(g, inode[g])
      <4>1. /\ wpc' = [wpc EXCEPT ![w] = "deleting"]
            /\ victim' = [victim EXCEPT ![w] = g]
            /\ wino' = [wino EXCEPT ![w] = inode[g]]
        BY <1>5, <3>1, <3>4 DEF LockVictim, Complete, Entries
      <4>2. rpc[r] \notin Sharing
        BY <2>3, <3>1, <3>4 DEF Shared, Sharing
      <4>3. \A v \in Writers : Deleting(v, g)' => wino'[v] = inode[g]
        BY <1>0, <2>1, <4>1 DEF Deleting, WriterTypeOK
      <4> QED
        BY <1>0, <2>3, <3>1, <3>2, <4>2, <4>3 DEF LockKnows, Complete, Sharing, Deleting
    <3> QED
      BY <3>3, <3>4
  <2>4. CASE rpc[r] \in Named /\ name[r] \in torn
    BY <1>0, <1>5, <2>4 DEF LockVictim, LockKnows
  <2> QED
    BY <2>2, <2>3, <2>4
<1>6. ASSUME NEW entry \in Entries, RemoveVictim(w, entry) PROVE LockKnows(r)'
  <2>1. /\ wpc[w] = "deleting" /\ victim[w] \in Gens /\ disk[victim[w]] # {}
        /\ \A v \in Writers : wpc[v] = "deleting" => v = w
        /\ UNCHANGED <<inode, torn>>
    BY <1>2, <1>6 DEF RemoveVictim, IInv, WriterInv, WriterKnows, Active
  <2>2. disk' = [disk EXCEPT ![victim[w]] = @ \ {entry}]
    BY <1>6 DEF RemoveVictim, Removes
  <2>3. CASE ~(rpc[r] \in Named /\ name[r] = victim[w])
    <3>1. rpc[r] \in Named =>
            /\ disk'[name[r]] = disk[name[r]]
            /\ \A v \in Writers : ~Deleting(v, name[r]) /\ ~Deleting(v, name[r])'
      BY <1>0, <1>1, <1>6, <2>1, <2>2, <2>3 DEF RemoveVictim, StoreTypeOK, WriterTypeOK, Deleting
    <3> QED
      BY <1>0, <2>1, <3>1, LockKept
  <2>4. CASE rpc[r] \in Named /\ name[r] = victim[w] /\ name[r] \notin torn
    <3>1. rpc[r] \notin Sharing /\ (rpc[r] # "lockfile" => rino[r] = inode[name[r]])
      BY <1>0, <2>1, <2>4 DEF LockKnows, Deleting
    <3>2. CASE entry = "dir"
      <4>1. disk'[name[r]] = {} /\ \A v \in Writers : ~Deleting(v, name[r])'
        BY <1>0, <1>6, <2>1, <2>2, <2>4, <3>2 DEF RemoveVictim, Removes, StoreTypeOK,
           WriterTypeOK, Deleting
      <4> QED
        BY <1>0, <2>4, <3>1, <4>1 DEF LockKnows, Sharing, Deleting
    <3>3. CASE entry # "dir"
      <4>1. UNCHANGED <<wpc, victim, wino>>
        BY <1>6, <3>3 DEF RemoveVictim
      <4>2. \A v \in Writers : Deleting(v, name[r])' <=> Deleting(v, name[r])
        BY <1>0, <4>1 DEF Deleting
      <4>3. /\ Deleting(w, name[r])
            /\ \A v \in Writers : Deleting(v, name[r]) => wino[v] = inode[name[r]]
        BY <2>1, <2>4, <1>0 DEF Deleting, LockKnows
      <4> QED
        BY <1>0, <2>1, <2>4, <3>1, <4>1, <4>2, <4>3 DEF LockKnows, Sharing
    <3> QED
      BY <3>2, <3>3
  <2>5. CASE rpc[r] \in Named /\ name[r] \in torn
    BY <1>0, <2>1, <2>5 DEF LockKnows
  <2> QED
    BY <2>3, <2>4, <2>5
<1>7. CASE Crash(w)
  <2>1. /\ UNCHANGED <<disk, inode>> /\ torn' = torn \cup Victims(w)
        /\ wpc'[w] = "idle"
        /\ \A v \in Writers \ {w} : wpc'[v] = wpc[v] /\ victim'[v] = victim[v] /\ wino'[v] = wino[v]
    BY <1>0, <1>7 DEF Crash, Ends, WriterTypeOK
  <2>2. CASE name[r] \in torn'
    BY <1>0, <2>2 DEF LockKnows
  <2>3. CASE name[r] \notin torn'
    <3>1. ~Deleting(w, name[r])
      BY <2>1, <2>3 DEF Victims, Deleting
    <3>2. /\ torn \subseteq torn'
          /\ \A v \in Writers : Deleting(v, name[r])' <=> Deleting(v, name[r])
          /\ \A v \in Writers : Deleting(v, name[r]) => wino'[v] = wino[v]
      BY <1>0, <2>1, <3>1 DEF Deleting
    <3> QED
      BY <1>0, <2>1, <3>2, LockKept
  <2> QED
    BY <2>2, <2>3
<1> QED
  BY <1>3, <1>4, <1>5, <1>6, <1>7 DEF WriterStep

\* So does a reader's step.
LEMMA ReaderLockStep ==
  ASSUME IInv, NEW r \in Readers, StartOpen(r) \/ ReaderStep(r)
  PROVE  LockInv'
<1>0. /\ StoreTypeOK /\ ReaderTypeOK /\ LockKnows(r)
      /\ \A w \in Writers : wpc[w] = "deleting" => disk[victim[w]] # {} /\ victim[w] # current
  BY DEF IInv, TypeOK, LockInv, WriterInv, WriterKnows
<1>1. UNCHANGED <<storeVars, writerVars>>
  BY DEF ReaderStep, StartOpen, ReadVersion, ReadCurrent, OpenLockFile, LockShared,
     CheckLockFile, OpenIndex, OpenExtra, HandleError, OpenFlatIndex, OpenFlatExtra
<1>2. ASSUME NEW q \in Readers \ {r} PROVE LockKnows(q)'
  <2>1. rpc'[q] = rpc[q] /\ name'[q] = name[q] /\ rino'[q] = rino[q]
    BY <1>0 DEF ReaderStep, StartOpen, ReadVersion, ReadCurrent, OpenLockFile, LockShared,
       CheckLockFile, OpenIndex, OpenExtra, HandleError, OpenFlatIndex, OpenFlatExtra, Goes,
       Retries, Raises, Returns, callVars, ReaderTypeOK
  <2>2. LockKnows(q)
    BY DEF IInv, LockInv
  <2> QED
    BY <1>1, <2>1, <2>2, LockKept DEF storeVars, writerVars, Deleting
<1>3. LockKnows(r)'
  <2>1. CASE ReadCurrent(r)
    <3>1. /\ rpc'[r] = IF current = 0 THEN "flat" ELSE "lockfile"
          /\ name'[r] = current
      BY <1>0, <2>1 DEF ReadCurrent, Goes, ReaderTypeOK
    <3>2. current # 0 => Complete(current)
      BY DEF IInv, StoreInv
    <3> QED
      BY <1>0, <1>1, <3>1, <3>2 DEF LockKnows, Complete, Deleting, Named, Sharing, storeVars,
         writerVars
  <2>2. CASE OpenLockFile(r)
    <3>1. /\ rpc[r] = "lockfile" /\ name'[r] = name[r]
          /\ rpc'[r] \in Named => rpc'[r] = "wait" /\ rino'[r] = inode[name[r]]
      BY <1>0, <2>2 DEF OpenLockFile, Retries, Named, Sharing, ReaderTypeOK
    <3> QED
      BY <1>0, <1>1, <3>1 DEF LockKnows, Complete, Deleting, Named, Sharing, storeVars, writerVars
  <2>3. CASE LockShared(r)
    <3>1. /\ rpc[r] = "wait" /\ rpc'[r] = "check" /\ name' = name /\ rino' = rino
          /\ ~Exclusive(name[r], rino[r])
      BY <1>0, <2>3 DEF LockShared, Goes, callVars, ReaderTypeOK
    <3>2. ASSUME name[r] \notin torn PROVE \A w \in Writers : ~Deleting(w, name[r])
      BY <1>0, <3>1, <3>2 DEF LockKnows, Named, Deleting, Exclusive
    <3> QED
      BY <1>0, <1>1, <3>1, <3>2 DEF LockKnows, Complete, Deleting, Named, Sharing, storeVars,
         writerVars
  <2>4. CASE CheckLockFile(r)
    <3>1. /\ rpc[r] = "check" /\ name' = name /\ rino' = rino
          /\ rpc'[r] \in Named => rpc'[r] = "index" /\ "lock" \in disk[name[r]]
      BY <1>0, <2>4 DEF CheckLockFile, Retries, Named, Sharing, ReaderTypeOK
    <3> QED
      BY <1>0, <1>1, <3>1 DEF LockKnows, Complete, Deleting, Named, Sharing, storeVars, writerVars
  <2>5. CASE OpenIndex(r)
    <3>1. /\ rpc[r] = "index" /\ name' = name /\ rino' = rino
          /\ rpc'[r] \in {"extra", "raised"}
      BY <1>0, <2>5 DEF OpenIndex, Goes, callVars, ReaderTypeOK
    <3> QED
      BY <1>0, <1>1, <3>1 DEF LockKnows, Complete, Deleting, Named, Sharing, storeVars, writerVars
  <2>6. CASE StartOpen(r) \/ ReadVersion(r) \/ OpenExtra(r) \/ HandleError(r)
             \/ OpenFlatIndex(r) \/ OpenFlatExtra(r)
    <3>1. rpc'[r] \notin Named
      BY <1>0, <2>6 DEF StartOpen, ReadVersion, OpenExtra, HandleError, OpenFlatIndex,
         OpenFlatExtra,
         Goes, Retries, Raises, Returns, Named, Sharing, ReaderTypeOK
    <3> QED
      BY <3>1 DEF LockKnows
  <2> QED
    BY <2>1, <2>2, <2>3, <2>4, <2>5, <2>6 DEF ReaderStep
<1> QED
  BY <1>2, <1>3 DEF LockInv

\* Every step does.
LEMMA LockStep == IInv /\ [Next]_vars => LockInv'
<1> SUFFICES ASSUME IInv, [Next]_vars PROVE LockInv'
  OBVIOUS
<1>1. ASSUME PowerLoss PROVE LockInv'
  BY <1>1 DEF PowerLoss, LockInv, LockKnows, Named, Sharing
<1>2. ASSUME UNCHANGED vars PROVE LockInv'
  BY <1>2, LockKept DEF vars, storeVars, writerVars, readerVars, callVars, IInv, LockInv, Deleting
<1> QED
  BY <1>1, <1>2, WriterLockStep, ReaderLockStep DEF Next

\* Under the shared lock, both files of the generation are found.
LEMMA OpenedStep == IInv /\ [Next]_vars => OpenedComplete'
<1> SUFFICES ASSUME IInv, [Next]_vars PROVE OpenedComplete'
  OBVIOUS
<1>0. ReaderTypeOK /\ OpenedComplete /\ LockInv /\ ReaderInv
  BY DEF IInv, TypeOK
<1>1. ASSUME NEW w \in Writers, RequestBuild(w) \/ WriterStep(w) \/ BuildFails(w) \/ Crash(w)
      PROVE  OpenedComplete'
  <2>1. UNCHANGED snap
    BY <1>1, WritersLeaveReaders DEF readerVars
  <2>2. torn \subseteq torn'
    BY <1>1 DEF WriterStep, storeVars, RequestBuild, BeginBuild, LockGeneration, WriteFile,
       Flush, ReplaceCurrent, EndPublish, BuildFails, RemoveFailed, LockVictim, RemoveVictim,
       EndCollect, RemoveFlat, Crash
  <2> QED
    BY <1>0, <2>1, <2>2 DEF OpenedComplete
<1>2. ASSUME NEW r \in Readers, OpenExtra(r) PROVE OpenedComplete'
  <2>1. name[r] \notin torn => Complete(name[r])
    BY <1>0, <1>2 DEF OpenExtra, LockInv, LockKnows, Named, Sharing
  <2>2. /\ torn' = torn
        /\ snap' = [snap EXCEPT ![r] =
             [gen |-> name[r], version |-> version[r], since |-> since[r],
              got |-> {"index"} \cup (disk[name[r]] \cap {"extra"})]]
    BY <1>2 DEF OpenExtra, Returns, storeVars
  <2> QED
    BY <1>0, <2>1, <2>2 DEF OpenedComplete, ReaderTypeOK, Complete, Entries, Files
<1>3. ASSUME NEW r \in Readers, OpenFlatExtra(r) PROVE OpenedComplete'
  <2>1. name[r] = 0
    BY <1>0, <1>3 DEF OpenFlatExtra, ReaderInv, ReaderKnows
  <2>2. /\ torn' = torn
        /\ snap' = [snap EXCEPT ![r] =
             [gen |-> name[r], version |-> 0, since |-> since[r],
              got |-> {"index"} \cup (flat \cap {"extra"})]]
    BY <1>3 DEF OpenFlatExtra, Returns, storeVars
  <2> QED
    BY <1>0, <2>1, <2>2 DEF OpenedComplete, ReaderTypeOK
<1>4. ASSUME NEW r \in Readers, StartOpen(r) \/ ReaderStep(r), ~OpenExtra(r), ~OpenFlatExtra(r)
      PROVE  OpenedComplete'
  <2>1. UNCHANGED <<torn, snap>>
    BY <1>4 DEF ReaderStep, storeVars, StartOpen, ReadVersion, ReadCurrent, OpenLockFile,
       LockShared, CheckLockFile, OpenIndex, HandleError, OpenFlatIndex
  <2> QED
    BY <1>0, <2>1 DEF OpenedComplete
<1>5. ASSUME PowerLoss PROVE OpenedComplete'
  BY <1>5 DEF PowerLoss, OpenedComplete, NoSnap
<1>6. ASSUME UNCHANGED vars PROVE OpenedComplete'
  BY <1>0, <1>6 DEF vars, storeVars, readerVars, OpenedComplete
<1> QED
  BY <1>1, <1>2, <1>3, <1>4, <1>5, <1>6 DEF Next

-----------------------------------------------------------------------------
(* The theorems. *)

\* The invariant holds at first, whatever is on disk.
LEMMA InitInv == Init => IInv
<1> SUFFICES ASSUME Init PROVE IInv
  OBVIOUS
<1> USE MaxBuildsAssumption, AttemptsAssumption
<1>0. PICK start \in Starts : InitStore(start)
  BY DEF Init
<1>1. StoreTypeOK /\ StoreInv
  BY <1>0 DEF InitStore, StoreTypeOK, StoreInv, Complete, Gens, Entries, Files
<1>2. WriterTypeOK /\ WriterInv
  BY DEF Init, WriterTypeOK, WriterInv, WriterKnows, Active, WriterPhases
<1>3. ReaderTypeOK /\ ReaderInv
  BY <1>1 DEF Init, ReaderTypeOK, ReaderInv, ReaderKnows, ReaderPhases, Named, Sharing, Snapshots,
     NoSnap, StoreTypeOK
<1>4. SnapInv /\ LockInv /\ OpenedComplete
  BY <1>1 DEF Init, SnapInv, LockInv, LockKnows, OpenedComplete, NoSnap, Named, Sharing, StoreTypeOK
<1> QED
  BY <1>1, <1>2, <1>3, <1>4 DEF IInv, TypeOK

\* Every step keeps it.
LEMMA NextInv == NoFailureOncePublished /\ IInv /\ [Next]_vars => IInv'
  BY TypeStep, StoreInvStep, WriterInvStep, ReaderInvStep, SnapStep, LockStep, OpenedStep DEF IInv

\* The conjunction of everything above holds in every reachable state.
THEOREM Invariant == NoFailureOncePublished => (Spec => []IInv)
<1> SUFFICES ASSUME NoFailureOncePublished PROVE Spec => []IInv
  OBVIOUS
<1>1. IInv /\ [Next]_vars => IInv'
  BY NextInv
<1> QED
  BY InitInv, <1>1, PTL DEF Spec

\* Every variable stays in its domain.
THEOREM TypeCorrect == NoFailureOncePublished => (Spec => []TypeOK)
<1>1. IInv => TypeOK
  BY DEF IInv
<1> QED
  BY Invariant, <1>1, PTL

\* Whatever builds are killed, fail before they publish, or are lost to a
\* power failure, what CURRENT names is complete.
THEOREM CurrentIsComplete == NoFailureOncePublished => (Spec => []CurrentComplete)
<1>1. IInv => CurrentComplete
  BY DEF IInv, StoreInv, CurrentComplete
<1> QED
  BY Invariant, <1>1, PTL

\* A reader opens a generation with all of its files.
THEOREM OpenedIsComplete == NoFailureOncePublished => (Spec => []OpenedComplete)
<1>1. IInv => OpenedComplete
  BY DEF IInv
<1> QED
  BY Invariant, <1>1, PTL

\* A reader that recorded the present version of CURRENT holds what it names.
THEOREM NeverStale == NoFailureOncePublished => (Spec => []NoStaleSnapshot)
<1>1. ASSUME IInv, NEW r \in Readers, snap[r].version = current PROVE snap[r].gen = current
  <2>1. current \in Nat /\ snap[r].gen \in Nat
    BY <1>1, MaxBuildsAssumption DEF IInv, TypeOK, StoreTypeOK, ReaderTypeOK, Snapshots
  <2> QED
    BY <1>1, <2>1 DEF IInv, SnapInv
<1>2. IInv => NoStaleSnapshot
  BY <1>1 DEF NoStaleSnapshot
<1> QED
  BY Invariant, <1>2, PTL

\* What a call returns is not older than the call.
THEOREM AlwaysFresh == NoFailureOncePublished => (Spec => []SnapshotIsFresh)
<1>1. IInv => SnapshotIsFresh
  BY DEF IInv, SnapInv, SnapshotIsFresh
<1> QED
  BY Invariant, <1>1, PTL

\* open_current fails for want of an index, or outpaced by as many builds as it has
\* attempts.
THEOREM OnlyOutpaced == NoFailureOncePublished => (Spec => []FailsOnlyOutpaced)
<1>1. ASSUME IInv, NEW r \in Readers, rpc[r] = "failed", name[r] # 0
      PROVE  current - since[r] >= Attempts
  <2>1. current \in Nat /\ tries[r] \in Nat /\ since[r] \in Nat /\ ReaderKnows(r)
    BY <1>1, MaxBuildsAssumption DEF IInv, TypeOK, StoreTypeOK, ReaderTypeOK, ReaderInv
  <2>2. tries[r] <= current - since[r] /\ tries[r] = Attempts
    BY <1>1, <2>1 DEF ReaderKnows
  <2> QED
    BY <2>1, <2>2
<1>2. IInv => FailsOnlyOutpaced
  BY <1>1 DEF FailsOnlyOutpaced
<1> QED
  BY Invariant, <1>2, PTL

\* A reader never goes back to an older build.
THEOREM OnlyForward == NoFailureOncePublished => (Spec => NeverGoesBack)
<1> DEFINE Forward == \A r \in Readers : snap'[r] # NoSnap => snap[r].gen <= snap'[r].gen
<1>1. ASSUME IInv, [Next]_vars PROVE [Forward]_snap
  <2>0. ReaderTypeOK /\ ReaderInv /\ SnapInv
    BY <1>1 DEF IInv, TypeOK
  <2>1. ASSUME NEW w \in Writers, RequestBuild(w) \/ WriterStep(w) \/ BuildFails(w) \/ Crash(w)
        PROVE  snap' = snap
    BY <2>1, WritersLeaveReaders DEF readerVars
  <2>2. ASSUME NEW r \in Readers, OpenExtra(r) \/ OpenFlatExtra(r) PROVE Forward
    <3>1. snap[r].gen <= since[r] /\ since[r] <= version[r] /\ version[r] <= name[r]
      BY <2>0, <2>2 DEF OpenExtra, OpenFlatExtra, SnapInv, ReaderInv, ReaderKnows, Named, Sharing
    <3>2. snap'[r].gen = name[r] /\ \A q \in Readers \ {r} : snap'[q] = snap[q]
      BY <2>0, <2>2 DEF OpenExtra, OpenFlatExtra, Returns, ReaderTypeOK
    <3> QED
      BY <2>0, <3>1, <3>2, MaxBuildsAssumption DEF ReaderTypeOK, Snapshots
  <2>3. ASSUME NEW r \in Readers, StartOpen(r) \/ ReaderStep(r), ~OpenExtra(r), ~OpenFlatExtra(r)
        PROVE  snap' = snap
    BY <2>3 DEF ReaderStep, callVars, StartOpen, ReadVersion, ReadCurrent, OpenLockFile, LockShared,
       CheckLockFile, OpenIndex, HandleError, OpenFlatIndex
  <2>4. ASSUME PowerLoss PROVE Forward
    BY <2>4 DEF PowerLoss
  <2>5. ASSUME UNCHANGED vars PROVE snap' = snap
    BY <2>5 DEF vars, readerVars
  <2> QED
    BY <1>1, <2>1, <2>2, <2>3, <2>4, <2>5 DEF Next
<1> QED
  BY Invariant, <1>1, PTL DEF Spec, NeverGoesBack

-----------------------------------------------------------------------------
(* Sessions. *)

\* The places after the second comparison, where a switch is due.
Opens == {"open", "opening"}

\* The token a thread has read is not older than its call, nor, once the lock
\* is held, than the engine's snapshot, which nobody else replaces; what
\* open_current returns is not older than the token.
ThreadKnows(r) ==
  /\ seen[r] <= current /\ asked[r] <= current
  /\ at[r] # "out" => depth[r] > 0
  /\ at[r] \in {"compare", "recompare"} \cup Opens => asked[r] <= seen[r]
  /\ at[r] \in {"recompare"} \cup Opens => state.gen <= seen[r]
  /\ at[r] \in Opens => state.version < seen[r]
  /\ at[r] = "opening" => seen[r] <= since[r]
  /\ at[r] = "opening" /\ rpc[r] = "idle" => seen[r] <= snap[r].version
  /\ at[r] = "take" => asked[r] <= state.gen
  /\ at[r] = "in" => asked[r] <= held[r]

\* The snapshot of the engine is not older than its version.
StateInv == state.version <= state.gen /\ state.gen <= current

SessionInv ==
  /\ IInv
  /\ SessionTypeOK
  /\ StateInv
  /\ \A r \in Readers : ThreadKnows(r)

-----------------------------------------------------------------------------
(* The store under the session. *)

\* What a session does to the store, IndexStore allows.
LEMMA SessionIsStore == [SessionNext]_allVars => [Next]_vars
<1> SUFFICES ASSUME [SessionNext]_allVars PROVE [Next]_vars
  OBVIOUS
<1>1. ASSUME StoreStep PROVE Next
  BY <1>1 DEF StoreStep, Next
<1>2. ASSUME NEW r \in Readers, Open(r) \/ Opening(r) PROVE Next
  BY <1>2 DEF Open, Opening, Next
<1>3. ASSUME NEW r \in Readers,
             Call(r) \/ NestedCall(r) \/ Stat(r) \/ Compare(r) \/ Lock(r) \/ Restat(r)
               \/ Recompare(r) \/ Switch(r) \/ OpenFails(r) \/ Take(r) \/ Return(r)
      PROVE  UNCHANGED vars
  BY <1>3 DEF Call, NestedCall, Stat, Compare, Lock, Restat, Recompare, Switch, OpenFails, Take,
     Return
<1>4. CASE UNCHANGED allVars
  BY <1>4 DEF allVars
<1> QED
  BY <1>1, <1>2, <1>3, <1>4 DEF SessionNext, SessionStep

\* The steps of a session in which a thread changes only what is its own.
Own(r) ==
  Call(r) \/ NestedCall(r) \/ Stat(r) \/ Compare(r) \/ Lock(r) \/ Restat(r) \/ Recompare(r)
    \/ Switch(r) \/ OpenFails(r) \/ Take(r) \/ Return(r)

\* CURRENT only moves on: a session sees no power loss.
LEMMA SessionCurrentGrows ==
  ASSUME IInv, SessionNext PROVE current <= current' /\ current' \in 0..MaxBuilds
<1>0. current \in Nat
  BY DEF IInv, TypeOK, StoreTypeOK
<1>1. current' \in 0..MaxBuilds
  BY SessionIsStore, TypeStep DEF TypeOK, StoreTypeOK
<1>2. ASSUME StoreStep PROVE current <= current'
  BY <1>2, CurrentGrows DEF StoreStep
<1>3. ASSUME NEW r \in Readers, Open(r) \/ Opening(r) PROVE current' = current
  BY <1>3 DEF Open, Opening, StartOpen, ReaderStep, ReadVersion, ReadCurrent, OpenLockFile,
     LockShared, CheckLockFile, OpenIndex, OpenExtra, HandleError, OpenFlatIndex, OpenFlatExtra,
     storeVars
<1>4. ASSUME NEW r \in Readers, Own(r) PROVE current' = current
  BY <1>4 DEF Own, Call, NestedCall, Stat, Compare, Lock, Restat, Recompare, Switch, OpenFails,
     Take, Return, vars, storeVars
<1> QED
  BY <1>0, <1>1, <1>2, <1>3, <1>4 DEF SessionNext, SessionStep, Own

-----------------------------------------------------------------------------
(* What each step keeps. *)

\* Every variable of the session stays in its domain, and the lock has one holder.
LEMMA SessionTypeStep ==
  ASSUME SessionInv, [SessionNext]_allVars PROVE SessionTypeOK'
<1> USE NoThreadAssumption, MaxDepthAssumption, MaxBuildsAssumption DEF SessionTypeOK
<1>0. /\ SessionTypeOK /\ current \in 0..MaxBuilds
      /\ \A r \in Readers : snap[r].gen \in 0..MaxBuilds /\ snap[r].version \in 0..MaxBuilds
      /\ \A r \in Readers : at[r] # "out" => depth[r] > 0
  BY DEF SessionInv, IInv, TypeOK, StoreTypeOK, ReaderTypeOK, Snapshots, ThreadKnows
<1>1. ASSUME UNCHANGED sessionVars PROVE SessionTypeOK'
  BY <1>0, <1>1 DEF sessionVars
<1>2. ASSUME NEW r \in Readers, Call(r) PROVE SessionTypeOK'
  BY <1>0, <1>2 DEF Call, Moves, Locking, Places
<1>3. ASSUME NEW r \in Readers, NestedCall(r) PROVE SessionTypeOK'
  BY <1>0, <1>3 DEF NestedCall
<1>4. ASSUME NEW r \in Readers, Stat(r) \/ Compare(r) PROVE SessionTypeOK'
  BY <1>0, <1>4 DEF Stat, Compare, Moves, Locking, Places
<1>5. ASSUME NEW r \in Readers, Lock(r) PROVE SessionTypeOK'
  BY <1>0, <1>5 DEF Lock, Moves, Locking, Places
<1>6. ASSUME NEW r \in Readers, Restat(r) \/ Recompare(r) PROVE SessionTypeOK'
  BY <1>0, <1>6 DEF Restat, Recompare, Moves, Locking, Places
<1>7. ASSUME NEW r \in Readers, Open(r) PROVE SessionTypeOK'
  BY <1>0, <1>7 DEF Open, Moves, Locking, Places
<1>8. ASSUME NEW r \in Readers, Switch(r) PROVE SessionTypeOK'
  BY <1>0, <1>8 DEF Switch, Moves, Locking, Places
<1>9. ASSUME NEW r \in Readers, OpenFails(r) PROVE SessionTypeOK'
  BY <1>0, <1>9 DEF OpenFails, Moves, Locking, Places
<1>10. ASSUME NEW r \in Readers, Take(r) PROVE SessionTypeOK'
  BY <1>0, <1>10 DEF Take, Moves, Locking, Places
<1>11. ASSUME NEW r \in Readers, Return(r) PROVE SessionTypeOK'
  BY <1>0, <1>11 DEF Return, Moves, Locking, Places
<1> QED
  BY <1>1, <1>2, <1>3, <1>4, <1>5, <1>6, <1>7, <1>8, <1>9, <1>10, <1>11
     DEF SessionNext, SessionStep, StoreStep, Opening, allVars
\* The facts of a state that the steps below need of the types.
LEMMA SessionNumbers ==
  ASSUME SessionInv
  PROVE  /\ current \in Nat /\ state.gen \in Nat /\ state.version \in Nat
         /\ state = [gen |-> state.gen, version |-> state.version]
         /\ at \in [Readers -> Places] /\ rpc \in [Readers -> ReaderPhases]
         /\ seen \in [Readers -> Nat] /\ asked \in [Readers -> Nat]
         /\ depth \in [Readers -> Nat] /\ held \in [Readers -> Nat]
         /\ since \in [Readers -> Nat] /\ version \in [Readers -> Nat]
         /\ name \in [Readers -> Nat]
         /\ \A r \in Readers : /\ snap[r].gen \in Nat /\ snap[r].version \in Nat
                              /\ snap[r].version <= snap[r].gen /\ snap[r].gen <= current
<1> USE MaxBuildsAssumption, MaxDepthAssumption
<1>1. /\ current \in Nat /\ since \in [Readers -> Nat] /\ version \in [Readers -> Nat]
      /\ name \in [Readers -> Nat] /\ rpc \in [Readers -> ReaderPhases]
  BY DEF SessionInv, IInv, TypeOK, StoreTypeOK, ReaderTypeOK
<1>2. \A r \in Readers : snap[r].gen \in Nat /\ snap[r].version \in Nat
  BY DEF SessionInv, IInv, TypeOK, ReaderTypeOK, Snapshots
<1>3. \A r \in Readers : snap[r].version <= snap[r].gen /\ snap[r].gen <= current
  BY DEF SessionInv, IInv, SnapInv
<1>4. /\ state.gen \in Nat /\ state.version \in Nat
      /\ state = [gen |-> state.gen, version |-> state.version]
  BY DEF SessionInv, SessionTypeOK
<1>5. /\ at \in [Readers -> Places] /\ seen \in [Readers -> Nat] /\ asked \in [Readers -> Nat]
      /\ depth \in [Readers -> Nat] /\ held \in [Readers -> Nat]
  BY DEF SessionInv, SessionTypeOK
<1> QED
  BY <1>1, <1>2, <1>3, <1>4, <1>5

\* What open_current returns to a thread that was due to switch: a snapshot whose
\* token is not older than the one the thread has read.
LEMMA ReturnsFresh ==
  ASSUME SessionInv, NEW r \in Readers, at[r] = "opening", ReaderStep(r), rpc'[r] = "idle"
  PROVE  seen[r] <= snap'[r].version
<1>0. /\ state.version < seen[r] /\ seen[r] <= since[r] /\ ReaderKnows(r)
      /\ seen[r] \in Nat /\ since[r] \in Nat /\ version[r] \in Nat /\ name[r] \in Nat
      /\ state.version \in Nat
      /\ snap \in [Readers -> Snapshots] /\ rpc \in [Readers -> ReaderPhases]
  BY SessionNumbers DEF SessionInv, ThreadKnows, Opens, IInv, ReaderInv, TypeOK, ReaderTypeOK
<1>1. CASE OpenExtra(r)
  <2>1. rpc[r] = "extra" /\ snap'[r].version = version[r]
    BY <1>0, <1>1 DEF OpenExtra, Returns
  <2> QED
    BY <1>0, <2>1 DEF ReaderKnows
<1>2. CASE OpenFlatExtra(r)
  <2>1. rpc[r] = "flatextra"
    BY <1>2 DEF OpenFlatExtra
  <2>2. since[r] <= version[r] /\ version[r] <= name[r] /\ name[r] = 0
    BY <1>0, <2>1 DEF ReaderKnows
  <2> QED
    BY <1>0, <2>2
<1>3. CASE ~OpenExtra(r) /\ ~OpenFlatExtra(r)
  BY <1>0, <1>3 DEF ReaderStep, Goes, Retries, Raises, ReadVersion, ReadCurrent, OpenLockFile,
     LockShared, CheckLockFile, OpenIndex, HandleError, OpenFlatIndex
<1> QED
  BY <1>1, <1>2, <1>3

\* The snapshot of the engine, and what the threads know of it.
LEMMA SessionKnowsStep ==
  ASSUME SessionInv, SessionNext, IInv', SessionTypeOK'
  PROVE  StateInv' /\ \A r \in Readers : ThreadKnows(r)'
<1>0. /\ StateInv /\ \A r \in Readers : ThreadKnows(r)
      /\ \A r \in Readers : (at[r] \in Locking) <=> (switch = r)
      /\ current <= current' /\ current' \in Nat
  BY SessionCurrentGrows, MaxBuildsAssumption DEF SessionInv, SessionTypeOK
<1> USE SessionNumbers DEF StateInv, ThreadKnows, Opens
<1>1. ASSUME StoreStep PROVE StateInv' /\ \A r \in Readers : ThreadKnows(r)'
  <2>1. UNCHANGED readerVars /\ UNCHANGED sessionVars
    BY <1>1, WritersLeaveReaders DEF StoreStep
  <2> QED
    BY <1>0, <2>1 DEF readerVars, callVars, sessionVars
<1>2. ASSUME NEW r \in Readers, Opening(r) PROVE StateInv' /\ \A q \in Readers : ThreadKnows(q)'
  <2>0. snap \in [Readers -> Snapshots]
    BY DEF SessionInv, IInv, TypeOK, ReaderTypeOK
  <2>1. /\ UNCHANGED <<sessionVars, since, current>> /\ at[r] = "opening"
        /\ \A q \in Readers \ {r} : rpc'[q] = rpc[q] /\ snap'[q] = snap[q]
    <3>1. UNCHANGED <<sessionVars, since, current>> /\ at[r] = "opening"
      BY <1>2 DEF Opening, ReaderStep, ReadVersion, ReadCurrent, OpenLockFile, LockShared,
         CheckLockFile, OpenIndex, OpenExtra, HandleError, OpenFlatIndex, OpenFlatExtra,
         callVars, storeVars
    <3>2. \E phase : rpc' = [rpc EXCEPT ![r] = phase]
      BY <1>2 DEF Opening, ReaderStep, ReadVersion, ReadCurrent, OpenLockFile, LockShared,
         CheckLockFile, OpenIndex, OpenExtra, HandleError, OpenFlatIndex, OpenFlatExtra, Goes,
         Retries, Raises, Returns
    <3>3. snap' = snap \/ \E opened : snap' = [snap EXCEPT ![r] = opened]
      BY <1>2 DEF Opening, ReaderStep, ReadVersion, ReadCurrent, OpenLockFile, LockShared,
         CheckLockFile, OpenIndex, OpenExtra, HandleError, OpenFlatIndex, OpenFlatExtra, Returns,
         callVars
    <3> QED
      BY <2>0, <3>1, <3>2, <3>3
  <2>2. rpc'[r] = "idle" => seen[r] <= snap'[r].version
    BY <1>2, <2>1, ReturnsFresh DEF Opening
  <2> QED
    BY <1>0, <2>1, <2>2 DEF sessionVars
<1>3. ASSUME NEW r \in Readers, Own(r) PROVE StateInv' /\ \A q \in Readers : ThreadKnows(q)'
  <2> USE <1>0, <1>3
  <2>1. UNCHANGED <<current, rpc, since, snap>>
    BY DEF Own, Call, NestedCall, Stat, Compare, Lock, Restat, Recompare, Switch, OpenFails, Take,
       Return, vars, storeVars, readerVars, callVars
  <2>2. CASE Call(r) \/ NestedCall(r) \/ Take(r) \/ Return(r)
    BY <2>1, <2>2 DEF Call, NestedCall, Take, Return, Moves
  <2>3. CASE Stat(r) \/ Compare(r) \/ Lock(r) \/ Restat(r)
    BY <2>1, <2>3 DEF Stat, Compare, Lock, Restat, Moves
  <2>4. CASE Recompare(r) \/ OpenFails(r)
    BY <2>1, <2>4 DEF Recompare, OpenFails, Moves
  <2>5. CASE Switch(r)
    <3>1. /\ at[r] = "opening" /\ seen[r] <= snap[r].version /\ at' = [at EXCEPT ![r] = "take"]
          /\ state'.gen = snap[r].gen /\ state'.version = snap[r].version
          /\ UNCHANGED <<seen, depth, held, asked>>
      BY <2>5 DEF Switch, Moves
    <3>2. \A q \in Readers \ {r} : at[q] \notin Locking
      BY <3>1 DEF Locking
    <3>3. state.gen <= state'.gen /\ asked[r] <= state'.gen
      BY <3>1
    <3>4. ThreadKnows(r)'
      BY <2>1, <3>1, <3>3
    <3>5. ASSUME NEW q \in Readers \ {r} PROVE ThreadKnows(q)'
      BY <2>1, <3>1, <3>2, <3>3, <3>5 DEF Locking
    <3> QED
      BY <2>1, <3>1, <3>4, <3>5
  <2> QED
    BY <2>2, <2>3, <2>4, <2>5 DEF Own
<1>4. ASSUME NEW r \in Readers, Open(r) PROVE StateInv' /\ \A q \in Readers : ThreadKnows(q)'
  BY <1>0, <1>4 DEF Open, StartOpen, Moves, storeVars
<1> QED
  BY <1>1, <1>2, <1>3, <1>4 DEF SessionNext, SessionStep, Own

-----------------------------------------------------------------------------
(* The theorems. *)

\* The invariant holds when the engine opens.
LEMMA SessionInitInv == SessionInit => SessionInv
<1> SUFFICES ASSUME SessionInit PROVE SessionInv
  OBVIOUS
<1>1. IInv /\ current \in 0..MaxBuilds
  BY InitInv DEF SessionInit, IInv, TypeOK, StoreTypeOK
<1>2. SessionTypeOK
  BY <1>1, NoThreadAssumption, MaxDepthAssumption, MaxBuildsAssumption
     DEF SessionInit, SessionTypeOK, Places, Locking
<1>3. StateInv /\ \A r \in Readers : ThreadKnows(r)
  BY <1>1, MaxBuildsAssumption DEF SessionInit, StateInv, ThreadKnows, Opens
<1> QED
  BY <1>1, <1>2, <1>3 DEF SessionInv

\* Every step keeps it.
LEMMA SessionNextInv ==
  NoFailureOncePublished /\ SessionInv /\ [SessionNext]_allVars => SessionInv'
<1> SUFFICES ASSUME NoFailureOncePublished, SessionInv, [SessionNext]_allVars PROVE SessionInv'
  OBVIOUS
<1>1. IInv' /\ SessionTypeOK'
  BY SessionIsStore, NextInv, SessionTypeStep DEF SessionInv
<1>2. CASE SessionNext
  BY <1>1, <1>2, SessionKnowsStep DEF SessionInv
<1>3. CASE UNCHANGED allVars
  BY <1>1, <1>3 DEF SessionInv, StateInv, ThreadKnows, Opens, allVars, sessionVars, vars, storeVars,
     readerVars, callVars
<1> QED
  BY <1>2, <1>3

\* What threads know at each place of _session holds in every reachable state.
THEOREM SessionInvariant == NoFailureOncePublished => (SessionSpec => []SessionInv)
<1> SUFFICES ASSUME NoFailureOncePublished PROVE SessionSpec => []SessionInv
  OBVIOUS
<1>1. SessionInv /\ [SessionNext]_allVars => SessionInv'
  BY SessionNextInv
<1> QED
  BY SessionInitInv, <1>1, PTL DEF SessionSpec

\* Every variable of a session stays in its domain, and the switch lock is held by
\* the thread that is where it is needed.
THEOREM SessionTypesHold == NoFailureOncePublished => (SessionSpec => []SessionTypeOK)
<1>1. SessionInv => SessionTypeOK
  BY DEF SessionInv
<1> QED
  BY SessionInvariant, <1>1, PTL

\* A call answers from what was current when it started, or newer.
THEOREM CallsAreFresh == NoFailureOncePublished => (SessionSpec => []CallIsFresh)
<1>1. SessionInv => CallIsFresh
  <2> SUFFICES ASSUME SessionInv, NEW r \in Readers, at[r] = "in" PROVE held[r] >= asked[r]
    BY DEF CallIsFresh
  <2> QED
    BY SessionNumbers DEF SessionInv, ThreadKnows
<1> QED
  BY SessionInvariant, <1>1, PTL

\* However many threads notice a build, one of them opens it: every switch is to a
\* newer version than the engine had.
THEOREM BuildsOpenedOnce == NoFailureOncePublished => (SessionSpec => OpenedOncePerBuild)
<1> DEFINE Newer == \A r \in Readers : at[r] = "opening" /\ at'[r] = "take" =>
                      state'.version > state.version
<1>1. ASSUME SessionInv, SessionNext PROVE Newer
  <2> SUFFICES ASSUME NEW r \in Readers, at[r] = "opening", at'[r] = "take"
               PROVE  state'.version > state.version
    OBVIOUS
  <2>1. Switch(r)
    <3>1. at \in [Readers -> Places]
      BY <1>1, SessionNumbers
    <3>2. ~StoreStep /\ \A q \in Readers : ~Opening(q) /\ ~NestedCall(q)
      BY DEF StoreStep, Opening, NestedCall, sessionVars
    <3>3. ASSUME NEW q \in Readers,
                 Call(q) \/ Stat(q) \/ Compare(q) \/ Lock(q) \/ Restat(q) \/ Recompare(q)
                   \/ Open(q) \/ Switch(q) \/ OpenFails(q) \/ Take(q) \/ Return(q)
          PROVE  Switch(r)
      <4>1. PICK from, to : /\ Moves(q, from, to)
                            /\ from = "opening" /\ to = "take" => Switch(q)
        BY <3>3 DEF Call, Stat, Compare, Lock, Restat, Recompare, Open, Switch, OpenFails, Take,
           Return
      <4>2. q = r
        BY <3>1, <4>1 DEF Moves
      <4>3. from = "opening" /\ to = "take"
        BY <3>1, <4>1, <4>2 DEF Moves
      <4> QED
        BY <4>1, <4>2, <4>3
    <3> QED
      BY <1>1, <3>2, <3>3 DEF SessionNext, SessionStep
  <2>2. seen[r] <= snap[r].version /\ state.version < seen[r]
    BY <1>1, <2>1 DEF Switch, SessionInv, ThreadKnows, Opens
  <2>3. state'.version = snap[r].version
    BY <2>1 DEF Switch
  <2> QED
    BY <1>1, <2>2, <2>3, SessionNumbers
<1>2. ASSUME SessionInv, [SessionNext]_allVars PROVE [Newer]_allVars
  BY <1>1, <1>2
<1> QED
  BY SessionInvariant, <1>2, PTL DEF SessionSpec, OpenedOncePerBuild

\* A call and those nested in it keep their snapshot, whatever the other threads do.
THEOREM CallsKeepSnapshot == NoFailureOncePublished => (SessionSpec => OneSnapshotPerCall)
<1> DEFINE Kept == \A r \in Readers : depth[r] > 0 /\ at[r] = "in" /\ depth'[r] > 0 =>
                     held'[r] = held[r]
<1>1. ASSUME SessionInv, SessionNext PROVE Kept
  <2>1. /\ at \in [Readers -> Places] /\ depth \in [Readers -> Nat] /\ held \in [Readers -> Nat]
    BY <1>1, SessionNumbers
  <2>2. ASSUME UNCHANGED held PROVE Kept
    BY <2>2
  <2>3. ASSUME NEW r \in Readers, Take(r) \/ Return(r) PROVE Kept
    BY <2>1, <2>3 DEF Take, Return, Moves
  <2> QED
    BY <1>1, <2>2, <2>3 DEF SessionNext, SessionStep, StoreStep, sessionVars, Call, NestedCall, Stat,
       Compare, Lock, Restat, Recompare, Open, Opening, Switch, OpenFails
<1>2. ASSUME SessionInv, [SessionNext]_allVars PROVE [Kept]_allVars
  BY <1>1, <1>2
<1> QED
  BY SessionInvariant, <1>2, PTL DEF SessionSpec, OneSnapshotPerCall

=============================================================================
