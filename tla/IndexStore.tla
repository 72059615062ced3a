----------------------------- MODULE IndexStore -----------------------------
(***************************************************************************)
(* The generations of one index on disk (src/py/nind/_index_store.py).     *)
(*                                                                         *)
(* A writer builds each index in a fresh generation directory, flushes it, *)
(* publishes it by replacing the file CURRENT, then deletes the other      *)
(* generations.  Readers resolve CURRENT and open the generation's files   *)
(* one after the other, under a shared lock the deletion takes exclusively.*)
(* Any process may be killed, and the machine may lose power, between two  *)
(* steps; a build may fail.  One action is one system call that another    *)
(* process, a crash or a power loss can tell apart from the next one.      *)
(*                                                                         *)
(* A generation's name (its number and a random suffix) is never given     *)
(* twice, so generations are numbered in the order they are created; 0 is  *)
(* a missing CURRENT.  Of the files of a generation the model keeps        *)
(* "index", those an index cannot be opened without, and "extra", those    *)
(* whose absence means something else (.ninddeletes, .nindmeta,            *)
(* .ninddocnames: nothing deleted, no options, no names).  The version     *)
(* token of CURRENT (inode, time, size) is the generation it was written   *)
(* for: each one is published at most once.                                *)
(***************************************************************************)
EXTENDS Naturals, FiniteSets

CONSTANTS
  Readers,      \* processes opening the index
  Writers,      \* processes building it
  MaxBuilds,    \* generations ever created: bounds the behaviours
  Attempts,     \* open_current's attempts (100 in the code)
  FailAt,       \* the phases of a build in which it may raise an exception
  Starts        \* what is on disk at first: "empty", "flat" or "built"

ASSUME MaxBuildsAssumption == MaxBuilds \in Nat \ {0}
ASSUME AttemptsAssumption == Attempts \in Nat \ {0}
ASSUME FailAtAssumption == FailAt \subseteq {"made", "building", "flushed", "replaced"}
ASSUME StartsAssumption == Starts \subseteq {"empty", "flat", "built"}

VARIABLES
  disk,       \* disk[g]: what exists of generation g ({}: no such directory)
  flat,       \* files of an index written before generations existed
  inode,      \* inode[g]: the incarnation of g's generation.lock
  synced,     \* generations flushed to disk
  current,    \* the generation CURRENT names
  durable,    \* the one it would name after a power loss
  builds,     \* generations created so far
  torn,       \* history: generations whose deletion was cut short
  wpc,        \* wpc[w]: where writer w is in new_generation
  wgen,       \* wgen[w]: the generation w builds
  todo,       \* todo[w]: the generations w has listed and still has to delete
  victim,     \* victim[w]: the one it is deleting
  wino,       \* wino[w]: the incarnation of the generation.lock w holds
  rpc,        \* rpc[r]: where reader r is in open_current
  version,    \* version[r], name[r]: its local variables
  name,
  rino,       \* rino[r]: the incarnation of the generation.lock r has opened
  tries,      \* tries[r]: its attempts so far
  since,      \* history: since[r] was current when r's call started
  snap        \* snap[r]: what r has opened last

storeVars == <<disk, flat, inode, synced, current, durable, builds, torn>>
writerVars == <<wpc, wgen, todo, victim, wino>>
callVars == <<version, name, rino, tries, since>>
readerVars == <<rpc, callVars, snap>>
vars == <<storeVars, writerVars, readerVars>>

Gens == 1..MaxBuilds
Files == {"index", "extra"}
Entries == Files \cup {"dir", "lock"}
NoSnap == [gen |-> 0, version |-> 0, since |-> 0, got |-> {}]

\* The writer phases in which it holds the lock of wgen[w], and all of them.
Publishing == {"building", "flushed", "replaced"}
WriterPhases == Publishing \cup
  {"idle", "waiting", "made", "failing", "collecting", "deleting", "flattening"}

\* The reader phases in which it holds the shared lock of name[r], and all.
Sharing == {"check", "index", "extra", "raised"}
ReaderPhases == Sharing \cup
  {"idle", "failed", "stat", "name", "flat", "flatextra", "lockfile", "wait"}

Complete(g) == disk[g] = Entries

-----------------------------------------------------------------------------

InitStore(start) ==
  /\ disk = [g \in Gens |-> IF start = "built" /\ g = 1 THEN Entries ELSE {}]
  /\ flat = IF start = "flat" THEN Files ELSE {}
  /\ inode = [g \in Gens |-> 1]
  /\ synced = IF start = "built" THEN {1} ELSE {}
  /\ current = IF start = "built" THEN 1 ELSE 0
  /\ durable = current
  /\ builds = current
  /\ torn = {}

Init ==
  /\ \E start \in Starts : InitStore(start)
  /\ wpc = [w \in Writers |-> "idle"]
  /\ wgen = [w \in Writers |-> 0]
  /\ todo = [w \in Writers |-> {}]
  /\ victim = [w \in Writers |-> 0]
  /\ wino = [w \in Writers |-> 0]
  /\ rpc = [r \in Readers |-> "idle"]
  /\ version = [r \in Readers |-> 0]
  /\ name = [r \in Readers |-> 0]
  /\ rino = [r \in Readers |-> 0]
  /\ tries = [r \in Readers |-> 0]
  /\ since = [r \in Readers |-> 0]
  /\ snap = [r \in Readers |-> NoSnap]

-----------------------------------------------------------------------------
(* Writers: new_generation, _publish, _collect. *)

Enters(w, from, to) ==
  /\ wpc[w] = from
  /\ wpc' = [wpc EXCEPT ![w] = to]

\* new_generation ends, or its process dies: nothing is held any more.
Ends(w) ==
  /\ wpc' = [wpc EXCEPT ![w] = "idle"]
  /\ wgen' = [wgen EXCEPT ![w] = 0]
  /\ todo' = [todo EXCEPT ![w] = {}]
  /\ victim' = [victim EXCEPT ![w] = 0]
  /\ wino' = [wino EXCEPT ![w] = 0]

\* A build is asked for (guarded by the bound MaxBuilds, waiting ones counted).
RequestBuild(w) ==
  /\ builds + Cardinality({v \in Writers : wpc[v] = "waiting"}) < MaxBuilds
  /\ Enters(w, "idle", "waiting")
  /\ UNCHANGED <<storeVars, wgen, todo, victim, wino, readerVars>>

\* <prefix>.lock, exclusive and released when its holder ends or dies, is
\* free: the directory of a new generation is made.
BeginBuild(w) ==
  /\ Enters(w, "waiting", "made")
  /\ builds < MaxBuilds      \* always so, by the guard of RequestBuild
  /\ \A v \in Writers : wpc[v] \in {"idle", "waiting"}
  /\ wgen' = [wgen EXCEPT ![w] = builds + 1]
  /\ builds' = builds + 1
  /\ disk' = [disk EXCEPT ![builds + 1] = {"dir"}]
  /\ UNCHANGED <<flat, inode, synced, current, durable, torn, todo, victim, wino, readerVars>>

\* generation.lock, exclusive until the generation is published.
LockGeneration(w) ==
  /\ Enters(w, "made", "building")
  /\ disk' = [disk EXCEPT ![wgen[w]] = @ \cup {"lock"}]
  /\ wino' = [wino EXCEPT ![w] = inode[wgen[w]]]
  /\ UNCHANGED <<flat, inode, synced, current, durable, builds, torn, wgen, todo, victim, readerVars>>

\* The block of the with statement writes (or links) the index files.
WriteFile(w, file) ==
  /\ wpc[w] = "building"
  /\ file \notin disk[wgen[w]]
  /\ disk' = [disk EXCEPT ![wgen[w]] = @ \cup {file}]
  /\ UNCHANGED <<flat, inode, synced, current, durable, builds, torn, writerVars, readerVars>>

\* Mutant of Flush: the published directory is flushed, not the new one.
FlushPublished(w) ==
  /\ Enters(w, "building", "flushed")
  /\ Files \subseteq disk[wgen[w]]
  /\ synced' = synced \cup {current}
  /\ UNCHANGED <<disk, flat, inode, current, durable, builds, torn, wgen, todo, victim, wino, readerVars>>

Flush(w) ==
  /\ Enters(w, "building", "flushed")
  /\ Files \subseteq disk[wgen[w]]
  /\ synced' = synced \cup {wgen[w]}
  /\ UNCHANGED <<disk, flat, inode, current, durable, builds, torn, wgen, todo, victim, wino, readerVars>>

\* _publish: the pointer file is written and flushed apart, then moved over
\* CURRENT.  Readers see it at once; a power loss may still undo the move.
ReplaceCurrent(w) ==
  /\ Enters(w, "flushed", "replaced")
  /\ current' = wgen[w]
  /\ UNCHANGED <<disk, flat, inode, synced, durable, builds, torn, wgen, todo, victim, wino, readerVars>>

\* Mutant of EndPublish: index_dir is not flushed.
EndPublishUnflushed(w) ==
  /\ Enters(w, "replaced", "collecting")
  /\ wino' = [wino EXCEPT ![w] = 0]
  /\ todo' = [todo EXCEPT ![w] = {g \in Gens \ {wgen[w]} : disk[g] # {}}]
  /\ UNCHANGED <<disk, flat, inode, synced, current, durable, builds, torn, wgen, victim, readerVars>>

\* The end of _publish flushes index_dir; leaving the with statement then
\* releases generation.lock, and _collect lists the other generations.
EndPublish(w) ==
  /\ Enters(w, "replaced", "collecting")
  /\ durable' = current
  /\ wino' = [wino EXCEPT ![w] = 0]
  /\ todo' = [todo EXCEPT ![w] = {g \in Gens \ {wgen[w]} : disk[g] # {}}]
  /\ UNCHANGED <<disk, flat, inode, synced, current, builds, torn, wgen, victim, readerVars>>

\* "except BaseException": generation.lock is released, then the generation
\* removed (RemoveFailed) and the exception raised.
BuildFails(w) ==
  /\ wpc[w] \in FailAt
  /\ wpc' = [wpc EXCEPT ![w] = "failing"]
  /\ wino' = [wino EXCEPT ![w] = 0]
  /\ UNCHANGED <<storeVars, wgen, todo, victim, readerVars>>

\* One step of rmtree: any entry, the directory itself last.
Removes(g, entry) ==
  /\ entry \in disk[g]
  /\ entry = "dir" => disk[g] = {"dir"}
  /\ disk' = [disk EXCEPT ![g] = @ \ {entry}]

RemoveFailed(w, entry) ==
  /\ wpc[w] = "failing"
  /\ Removes(wgen[w], entry)
  /\ IF entry = "dir" THEN Ends(w) ELSE UNCHANGED writerVars
  /\ UNCHANGED <<flat, inode, synced, current, durable, builds, torn, readerVars>>

\* A reader holds the shared lock of this incarnation of g's generation.lock.
Shared(g, i) == \E r \in Readers : rpc[r] \in Sharing /\ name[r] = g /\ rino[r] = i

\* A writer holds its exclusive lock.
Exclusive(g, i) ==
  \E w \in Writers : /\ wino[w] = i
                     /\ \/ wpc[w] \in Publishing /\ wgen[w] = g
                        \/ wpc[w] = "deleting" /\ victim[w] = g

\* _FileLock creates generation.lock when it is missing (another incarnation
\* of it); the lock is not waited for: a generation being opened is left to
\* the next build.
LockVictim(w, g) ==
  LET i == IF "lock" \in disk[g] THEN inode[g] ELSE inode[g] + 1 IN
  /\ wpc[w] = "collecting"
  /\ g \in todo[w]
  /\ disk' = [disk EXCEPT ![g] = @ \cup {"lock"}]
  /\ inode' = [inode EXCEPT ![g] = i]
  /\ todo' = [todo EXCEPT ![w] = @ \ {g}]
  /\ \/ Shared(g, i) /\ UNCHANGED <<wpc, victim, wino>>
     \/ /\ ~Shared(g, i)
        /\ wpc' = [wpc EXCEPT ![w] = "deleting"]
        /\ victim' = [victim EXCEPT ![w] = g]
        /\ wino' = [wino EXCEPT ![w] = i]
  /\ UNCHANGED <<flat, synced, current, durable, builds, torn, wgen, readerVars>>

RemoveVictim(w, entry) ==
  /\ wpc[w] = "deleting"
  /\ Removes(victim[w], entry)
  /\ IF entry = "dir"
     THEN /\ wpc' = [wpc EXCEPT ![w] = "collecting"]
          /\ victim' = [victim EXCEPT ![w] = 0]
          /\ wino' = [wino EXCEPT ![w] = 0]
     ELSE UNCHANGED <<wpc, victim, wino>>
  /\ UNCHANGED <<flat, inode, synced, current, durable, builds, torn, wgen, todo, readerVars>>

EndCollect(w) ==
  /\ Enters(w, "collecting", "flattening")
  /\ todo[w] = {}
  /\ UNCHANGED <<storeVars, wgen, todo, victim, wino, readerVars>>

\* The flat files are removed, in the order of INDEX_EXTENSIONS, then the
\* writer lock is released.
RemoveFlat(w) ==
  /\ wpc[w] = "flattening"
  /\ flat' = IF "index" \in flat THEN flat \ {"index"} ELSE {}
  /\ IF "index" \in flat THEN UNCHANGED writerVars ELSE Ends(w)
  /\ UNCHANGED <<disk, inode, synced, current, durable, builds, torn, readerVars>>

\* The generation w is deleting, if any.
Victims(w) == IF wpc[w] = "deleting" THEN {victim[w]} ELSE {}

\* Mutant of Crash: the lock is a file, that stays.
CrashHolding(w) ==
  /\ wpc[w] # "idle"
  /\ wpc' = [wpc EXCEPT ![w] = "dead"]
  /\ UNCHANGED <<storeVars, wgen, todo, victim, wino, readerVars>>

\* A writer is killed: its locks are released, what it wrote stays.
Crash(w) ==
  /\ wpc[w] # "idle"
  /\ Ends(w)
  /\ torn' = torn \cup Victims(w)
  /\ UNCHANGED <<disk, flat, inode, synced, current, durable, builds, readerVars>>

\* Every process dies.  Files not flushed may be lost, and CURRENT may name
\* what it named before the last replacement.
PowerLoss ==
  /\ \E lost \in SUBSET Files :
       disk' = [g \in Gens |-> IF g \in synced THEN disk[g] ELSE disk[g] \ lost]
  /\ current' \in {current, durable}
  /\ durable' = current'
  /\ torn' = torn \cup UNION {Victims(w) : w \in Writers}
  /\ wpc' = [w \in Writers |-> "idle"]
  /\ todo' = [w \in Writers |-> {}]
  /\ wgen' = [w \in Writers |-> 0] /\ victim' = wgen' /\ wino' = wgen'
  /\ rpc' = [r \in Readers |-> "idle"]
  /\ version' = [r \in Readers |-> 0]
  /\ name' = version' /\ rino' = version' /\ tries' = version' /\ since' = version'
  /\ snap' = [r \in Readers |-> NoSnap]
  /\ UNCHANGED <<flat, inode, synced, builds>>

-----------------------------------------------------------------------------
(* Readers: open_current. *)

Goes(r, from, to) ==
  /\ rpc[r] = from
  /\ rpc' = [rpc EXCEPT ![r] = to]

\* Mutant of StartOpen: the name resolved by the last call is used again.
StartOpenCached(r) ==
  /\ rpc[r] \in {"idle", "failed"}
  /\ rpc' = [rpc EXCEPT ![r] = IF name[r] = 0 THEN "name" ELSE "lockfile"]
  /\ version' = [version EXCEPT ![r] = current]
  /\ since' = [since EXCEPT ![r] = current]
  /\ tries' = [tries EXCEPT ![r] = 0]
  /\ UNCHANGED <<storeVars, writerVars, name, rino, snap>>

\* A call starts: the token of CURRENT is read first, and remembered.
StartOpen(r) ==
  /\ rpc[r] \in {"idle", "failed"}
  /\ rpc' = [rpc EXCEPT ![r] = "name"]
  /\ version' = [version EXCEPT ![r] = current]
  /\ since' = [since EXCEPT ![r] = current]
  /\ tries' = [tries EXCEPT ![r] = 0]
  /\ UNCHANGED <<storeVars, writerVars, name, rino, snap>>

ReadVersion(r) ==
  /\ Goes(r, "stat", "name")
  /\ version' = [version EXCEPT ![r] = current]
  /\ UNCHANGED <<storeVars, writerVars, name, rino, tries, since, snap>>

\* Mutant of ReadCurrent: a generation of the directory, rather than CURRENT's.
ReadAny(r) ==
  /\ Goes(r, "name", "lockfile")
  /\ \E g \in Gens : "lock" \in disk[g] /\ name' = [name EXCEPT ![r] = g]
  /\ UNCHANGED <<storeVars, writerVars, version, rino, tries, since, snap>>

ReadCurrent(r) ==
  /\ Goes(r, "name", IF current = 0 THEN "flat" ELSE "lockfile")
  /\ name' = [name EXCEPT ![r] = current]
  /\ UNCHANGED <<storeVars, writerVars, version, rino, tries, since, snap>>

\* Mutant of Retries: the attempts are not counted.
RetriesUncounted(r) ==
  /\ rpc' = [rpc EXCEPT ![r] = "stat"]
  /\ UNCHANGED tries

\* "continue": the next attempt, or RuntimeError after the last one.
Retries(r) ==
  /\ rpc' = [rpc EXCEPT ![r] = IF tries[r] + 1 = Attempts THEN "failed" ELSE "stat"]
  /\ tries' = [tries EXCEPT ![r] = @ + 1]

Raises(r) ==
  /\ rpc' = [rpc EXCEPT ![r] = "failed"]
  /\ UNCHANGED tries

\* The opener returns: what it found is the caller's snapshot.
Returns(r, token, got) ==
  /\ rpc' = [rpc EXCEPT ![r] = "idle"]
  /\ snap' = [snap EXCEPT ![r] =
                [gen |-> name[r], version |-> token, since |-> since[r], got |-> got]]

OpenLockFile(r) ==
  /\ rpc[r] = "lockfile"
  /\ \/ /\ "lock" \in disk[name[r]]
        /\ rpc' = [rpc EXCEPT ![r] = "wait"]
        /\ rino' = [rino EXCEPT ![r] = inode[name[r]]]
        /\ UNCHANGED tries
     \/ /\ "lock" \notin disk[name[r]]
        /\ Retries(r)
        /\ UNCHANGED rino
  /\ UNCHANGED <<storeVars, writerVars, version, name, since, snap>>

\* Mutant of LockShared: the lock is opened and not taken.
LockSharedNever(r) ==
  /\ Goes(r, "wait", "check")
  /\ UNCHANGED <<storeVars, writerVars, callVars, snap>>

LockShared(r) ==
  /\ Goes(r, "wait", "check")
  /\ ~Exclusive(name[r], rino[r])
  /\ UNCHANGED <<storeVars, writerVars, callVars, snap>>

\* The generation may have been deleted while the lock was waited for.
CheckLockFile(r) ==
  /\ rpc[r] = "check"
  /\ \/ /\ "lock" \in disk[name[r]]
        /\ rpc' = [rpc EXCEPT ![r] = "index"]
        /\ UNCHANGED tries
     \/ "lock" \notin disk[name[r]] /\ Retries(r)
  /\ UNCHANGED <<storeVars, writerVars, version, name, rino, since, snap>>

OpenIndex(r) ==
  /\ Goes(r, "index", IF "index" \in disk[name[r]] THEN "extra" ELSE "raised")
  /\ UNCHANGED <<storeVars, writerVars, callVars, snap>>

\* Mutant of OpenExtra: the token is read once the files are opened.
OpenExtraLateToken(r) ==
  /\ rpc[r] = "extra"
  /\ Returns(r, current, {"index"} \cup (disk[name[r]] \cap {"extra"}))
  /\ UNCHANGED <<storeVars, writerVars, callVars>>

OpenExtra(r) ==
  /\ rpc[r] = "extra"
  /\ Returns(r, version[r], {"index"} \cup (disk[name[r]] \cap {"extra"}))
  /\ UNCHANGED <<storeVars, writerVars, callVars>>

\* Mutant of HandleError: the races are raised, the other errors retried.
HandleErrorSwapped(r) ==
  /\ rpc[r] = "raised"
  /\ IF current = name[r] /\ "lock" \in disk[name[r]] THEN Retries(r) ELSE Raises(r)
  /\ UNCHANGED <<storeVars, writerVars, version, name, rino, since, snap>>

\* The opener raised: only a generation lost to a race is retried.
HandleError(r) ==
  /\ rpc[r] = "raised"
  /\ IF current = name[r] /\ "lock" \in disk[name[r]] THEN Raises(r) ELSE Retries(r)
  /\ UNCHANGED <<storeVars, writerVars, version, name, rino, since, snap>>

\* No CURRENT: the flat files are opened, unlocked and without retry.
OpenFlatIndex(r) ==
  /\ Goes(r, "flat", IF "index" \in flat THEN "flatextra" ELSE "failed")
  /\ UNCHANGED <<storeVars, writerVars, callVars, snap>>

OpenFlatExtra(r) ==
  /\ rpc[r] = "flatextra"
  /\ Returns(r, 0, {"index"} \cup (flat \cap {"extra"}))
  /\ UNCHANGED <<storeVars, writerVars, callVars>>

-----------------------------------------------------------------------------

\* What a writer does by itself once it has asked for a build.
WriterStep(w) ==
  \/ BeginBuild(w) \/ LockGeneration(w)
  \/ \E file \in Files : WriteFile(w, file)
  \/ Flush(w) \/ ReplaceCurrent(w) \/ EndPublish(w)
  \/ \E entry \in Entries : RemoveFailed(w, entry)
  \/ \E g \in Gens : LockVictim(w, g)
  \/ \E entry \in Entries : RemoveVictim(w, entry)
  \/ EndCollect(w) \/ RemoveFlat(w)

\* What a reader does by itself once it has started a call.
ReaderStep(r) ==
  \/ ReadVersion(r) \/ ReadCurrent(r) \/ OpenLockFile(r) \/ LockShared(r)
  \/ CheckLockFile(r) \/ OpenIndex(r) \/ OpenExtra(r) \/ HandleError(r)
  \/ OpenFlatIndex(r) \/ OpenFlatExtra(r)

Next ==
  \/ \E w \in Writers : RequestBuild(w) \/ WriterStep(w) \/ BuildFails(w) \/ Crash(w)
  \/ \E r \in Readers : StartOpen(r) \/ ReaderStep(r)
  \/ PowerLoss

Spec == Init /\ [][Next]_vars

\* A process that can run does run (a lock wait ends when the lock is free for
\* good); nobody has to start a call or a build, to fail or to crash.
Fairness ==
  /\ \A w \in Writers : WF_vars(WriterStep(w))
  /\ \A r \in Readers : WF_vars(ReaderStep(r))

FairSpec == Spec /\ Fairness

-----------------------------------------------------------------------------
(* Properties. *)

StoreTypeOK ==
  /\ disk \in [Gens -> SUBSET Entries]
  /\ flat \subseteq Files
  /\ inode \in [Gens -> Nat]
  /\ synced \subseteq Gens
  /\ current \in 0..MaxBuilds
  /\ durable \in 0..MaxBuilds
  /\ builds \in 0..MaxBuilds
  /\ torn \subseteq Gens

WriterTypeOK ==
  /\ wpc \in [Writers -> WriterPhases]
  /\ wgen \in [Writers -> 0..MaxBuilds]
  /\ todo \in [Writers -> SUBSET Gens]
  /\ victim \in [Writers -> 0..MaxBuilds]
  /\ wino \in [Writers -> Nat]

Snapshots ==
  [gen : 0..MaxBuilds, version : 0..MaxBuilds, since : 0..MaxBuilds, got : SUBSET Files]

ReaderTypeOK ==
  /\ rpc \in [Readers -> ReaderPhases]
  /\ version \in [Readers -> 0..MaxBuilds]
  /\ name \in [Readers -> 0..MaxBuilds]
  /\ rino \in [Readers -> Nat]
  /\ tries \in [Readers -> Nat]
  /\ since \in [Readers -> 0..MaxBuilds]
  /\ snap \in [Readers -> Snapshots]

\* Every variable stays in its domain.
TypeOK == StoreTypeOK /\ WriterTypeOK /\ ReaderTypeOK

\* "A failed or interrupted build never touches CURRENT": whatever builds were
\* killed, failed or lost to a power failure, the generation CURRENT names is
\* on disk with all of its files (new_generation, _publish, _collect).
CurrentComplete == current # 0 => Complete(current)

\* A generation is opened with all of its files, unless its deletion had been
\* cut short by a crash (open_current's shared lock against _collect's).
OpenedComplete ==
  \A r \in Readers : snap[r].gen # 0 /\ snap[r].gen \notin torn => snap[r].got = Files

\* The module's promise without that exception: "it gets one consistent index,
\* however many rebuilds happen meanwhile".
OneConsistentIndex ==
  \A r \in Readers : snap[r].gen # 0 => snap[r].got = Files

\* A reader whose recorded version is that of CURRENT has opened what CURRENT
\* names: it never keeps an old index believing it up to date (current_version
\* is read before CURRENT in open_current).
NoStaleSnapshot ==
  \A r \in Readers : snap[r].version = current => snap[r].gen = current

\* What a call opens was current when the call started, or is newer.
SnapshotIsFresh ==
  \A r \in Readers : snap[r].since <= snap[r].gen

\* open_current fails when it found no CURRENT, or when as many builds as it has
\* attempts were published during the call: a race alone is no error, and each
\* retry is paid for by a newer generation.
FailsOnlyOutpaced ==
  \A r \in Readers : rpc[r] = "failed" => name[r] = 0 \/ current - since[r] >= Attempts

\* The same for an index that was there when the call started, flat or not:
\* the call succeeds, with every file ("makes every index operation safe").
AlwaysServed ==
  \A r \in Readers : rpc[r] # "failed" /\ snap[r].got \in {{}, Files}

\* A reader that opens the index again never goes back to an older build.
NeverGoesBack ==
  [][\A r \in Readers : snap'[r] # NoSnap => snap[r].gen <= snap'[r].gen]_snap

\* A call of open_current ends: no lock is waited for forever, each attempt takes
\* what CURRENT names by then, and the last one is the last.
OpensTerminate ==
  \A r \in Readers : rpc[r] # "idle" ~> rpc[r] \in {"idle", "failed"}

\* A writer waiting for another one gets its turn (or dies).
WaitingWriterRuns ==
  \A w \in Writers : wpc[w] = "waiting" ~> wpc[w] # "waiting"

=============================================================================
