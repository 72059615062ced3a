----------------------------- MODULE ThreadPool -----------------------------
(***************************************************************************)
(* Pools of threads for searches (src/cpp/NindIndex/NindThreadPool.h).     *)
(*                                                                         *)
(* run() starts the threads that are missing, queues a task and wakes a    *)
(* thread; a thread takes the tasks one by one, and sleeps on a condition  *)
(* when there is none.  What is done under the mutex is one step; the      *)
(* mutex is free again when a thread is notified, which is a step of its   *)
(* own: others run in between.  What a task does is the user's: it ends    *)
(* with Finish, and its future then has its end, or its exception.         *)
(***************************************************************************)
EXTENDS Naturals, Sequences

CONSTANTS
  Pools,        \* the pools, each with its own mutex, threads and queue
  Tasks,        \* whatever a pool may be asked to run
  NoTask,       \* what a thread runs when it runs nothing
  Callers,      \* the threads that may call run
  MaxThreads    \* the most threads a call asks for: bounds m_threads

ASSUME NoTaskAssumption == NoTask \notin Tasks
ASSUME MaxThreadsAssumption == MaxThreads \in Nat

VARIABLES
  queue,        \* queue[p]: m_tasks
  thread,       \* thread[p][i]: "off" until started, then where it is in loop
  running,      \* running[p][i]: the task it has taken
  stop,         \* stop[p]: m_stop
  notifying,    \* notifying[p]: callers in run(), their task queued, nobody notified yet
  ended         \* the tasks whose future has an end

poolVars == <<queue, thread, running, stop, notifying, ended>>

Threads == 1..MaxThreads
ThreadPlaces == {"off", "awake", "asleep", "exited"}

PoolInit ==
  /\ queue = [p \in Pools |-> <<>>]
  /\ thread = [p \in Pools |-> [i \in Threads |-> "off"]]
  /\ running = [p \in Pools |-> [i \in Threads |-> NoTask]]
  /\ stop = [p \in Pools |-> FALSE]
  /\ notifying = [p \in Pools |-> {}]
  /\ ended = {}

Asleep(p) == {i \in Threads : thread[p][i] = "asleep"}

\* Mutant of Run: its caller notifies nobody.
RunSilently(p, caller, task, threads) ==
  /\ thread' = [thread EXCEPT ![p] = [i \in Threads |->
       IF i <= threads /\ @[i] = "off" THEN "awake" ELSE @[i]]]
  /\ queue' = [queue EXCEPT ![p] = Append(@, task)]
  /\ UNCHANGED <<running, stop, notifying, ended>>

\* run, under the lock: at least `threads` threads, one more task.
Run(p, caller, task, threads) ==
  /\ thread' = [thread EXCEPT ![p] = [i \in Threads |->
       IF i <= threads /\ @[i] = "off" THEN "awake" ELSE @[i]]]
  /\ queue' = [queue EXCEPT ![p] = Append(@, task)]
  /\ notifying' = [notifying EXCEPT ![p] = @ \cup {caller}]
  /\ UNCHANGED <<running, stop, ended>>

\* run, the lock released: one of the sleeping threads, if any, looks at the queue
\* again.
Notify(p, caller) ==
  /\ caller \in notifying[p]
  /\ notifying' = [notifying EXCEPT ![p] = @ \ {caller}]
  /\ \/ Asleep(p) = {} /\ UNCHANGED thread
     \/ \E i \in Asleep(p) : thread' = [thread EXCEPT ![p][i] = "awake"]
  /\ UNCHANGED <<queue, running, stop, ended>>

\* loop: a thread takes the first task...
TakeTask(p, i) ==
  /\ thread[p][i] = "awake" /\ running[p][i] = NoTask
  /\ queue[p] # <<>>
  /\ running' = [running EXCEPT ![p][i] = Head(queue[p])]
  /\ queue' = [queue EXCEPT ![p] = Tail(@)]
  /\ UNCHANGED <<thread, stop, notifying, ended>>

\* ... waits when there is none...
Sleep(p, i) ==
  /\ thread[p][i] = "awake" /\ running[p][i] = NoTask
  /\ queue[p] = <<>> /\ ~stop[p]
  /\ thread' = [thread EXCEPT ![p][i] = "asleep"]
  /\ UNCHANGED <<queue, running, stop, notifying, ended>>

\* ... and returns when there is none and the pool goes.
Exit(p, i) ==
  /\ thread[p][i] = "awake" /\ running[p][i] = NoTask
  /\ queue[p] = <<>> /\ stop[p]
  /\ thread' = [thread EXCEPT ![p][i] = "exited"]
  /\ UNCHANGED <<queue, running, stop, notifying, ended>>

\* The task a thread runs is over: the thread goes on with the next one.
Finish(p, i) ==
  /\ running[p][i] # NoTask
  /\ ended' = ended \cup {running[p][i]}
  /\ running' = [running EXCEPT ![p][i] = NoTask]
  /\ UNCHANGED <<queue, thread, stop, notifying>>

\* The destructor, under the lock...
Stop(p) ==
  /\ ~stop[p]
  /\ stop' = [stop EXCEPT ![p] = TRUE]
  /\ UNCHANGED <<queue, thread, running, notifying, ended>>

\* ... and the lock released, before it joins the threads.  No thread falls asleep
\* any more: with none asleep, the call does nothing.
NotifyAll(p) ==
  /\ stop[p] /\ Asleep(p) # {}
  /\ thread' = [thread EXCEPT ![p] = [i \in Threads |-> IF @[i] = "asleep" THEN "awake" ELSE @[i]]]
  /\ UNCHANGED <<queue, running, stop, notifying, ended>>

\* What a thread does by itself.
PoolThreadStep(p, i) == TakeTask(p, i) \/ Sleep(p, i) \/ Exit(p, i)

Queued(p) == {queue[p][n] : n \in DOMAIN queue[p]}
Running(p) == {running[p][i] : i \in Threads} \ {NoTask}

InRun(caller) == \E p \in Pools : caller \in notifying[p]

\* A thread makes one call of run at a time, and nobody calls a pool that goes.
PoolNext ==
  \/ \E caller \in Callers, task \in Tasks, p \in Pools, threads \in Threads :
       ~stop[p] /\ ~InRun(caller) /\ Run(p, caller, task, threads)
  \/ \E p \in Pools, caller \in Callers : Notify(p, caller)
  \/ \E p \in Pools, i \in Threads : PoolThreadStep(p, i) \/ Finish(p, i)
  \/ \E p \in Pools : (notifying[p] = {} /\ Stop(p)) \/ NotifyAll(p)

PoolSpec == PoolInit /\ [][PoolNext]_poolVars

\* Every variable stays in its domain.
PoolTypeOK ==
  /\ queue \in [Pools -> Seq(Tasks)]
  /\ thread \in [Pools -> [Threads -> ThreadPlaces]]
  /\ running \in [Pools -> [Threads -> Tasks \cup {NoTask}]]
  /\ stop \in [Pools -> BOOLEAN]
  /\ notifying \in [Pools -> SUBSET Callers]
  /\ ended \subseteq Tasks

\* No wake-up is lost: while a task waits, some thread is awake to take it, or a
\* caller has yet to notify one.
SomeoneAwake ==
  \A p \in Pools : queue[p] # <<>> =>
    (\E i \in Threads : thread[p][i] = "awake") \/ notifying[p] # {}

=============================================================================
