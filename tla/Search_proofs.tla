---------------------------- MODULE Search_proofs ----------------------------
(***************************************************************************)
(* Proofs about the pools of threads of module ThreadPool, and about the   *)
(* searches of module Search that give them their tasks.                   *)
(*                                                                         *)
(* A search takes a segment once, gives each of its tasks to a pool once,  *)
(* and goes on only when they have ended: what the pools hold is what the  *)
(* searches that have not returned wait for.                               *)
(*                                                                         *)
(* What they answer is exact: every document that a slice has passed is    *)
(* one of its candidates, or as many as asked for are better than it, and  *)
(* the shared threshold is always reached by as many (BestInv).            *)
(***************************************************************************)
EXTENDS Search_lemmas

-----------------------------------------------------------------------------
(* Pools. *)

\* A thread returns only when its pool goes.
ExitedStopped == \A p \in Pools, i \in Threads : thread[p][i] = "exited" => stop[p]

\* The threads of a pool whose tasks wait have not all returned.
SomeoneLeft ==
  \A p \in Pools : queue[p] # <<>> => \E i \in Threads : thread[p][i] \in {"awake", "asleep"}

\* What every step keeps: a thread that takes a task stays awake, a thread falls
\* asleep or returns only when its queue is empty, the last caller who notifies finds
\* a thread awake or wakes one, and nobody adds to the queue of a pool that goes.
PoolInv == PoolTypeOK /\ ExitedStopped /\ SomeoneLeft /\ SomeoneAwake

LEMMA PoolInitInv == PoolInit => PoolInv
  BY DEF PoolInit, PoolInv, PoolTypeOK, ExitedStopped, SomeoneLeft, SomeoneAwake, ThreadPlaces

LEMMA RunInv ==
  ASSUME PoolInv, NEW p \in Pools, ~stop[p], NEW caller \in Callers, NEW task \in Tasks,
         NEW threads \in Threads, Run(p, caller, task, threads)
  PROVE  PoolInv'
<1> USE DEF PoolInv
<1>1. thread[p] \in [Threads -> ThreadPlaces] /\ \A i \in Threads : thread[p][i] # "exited"
  BY DEF PoolTypeOK, ExitedStopped
<1> DEFINE started == [i \in Threads |-> IF i <= threads /\ thread[p][i] = "off" THEN "awake"
                                         ELSE thread[p][i]]
<1>2. started \in [Threads -> ThreadPlaces] /\ \A i \in Threads : started[i] # "exited"
  BY <1>1 DEF ThreadPlaces
<1>3. 1 \in Threads /\ 1 <= threads
  BY MaxThreadsAssumption DEF Threads
<1>4. started[1] \in {"awake", "asleep"}
  BY <1>1, <1>3 DEF ThreadPlaces
<1>5. thread' = [thread EXCEPT ![p] = started]
  BY DEF Run
<1> HIDE DEF started
<1>6. \A q \in Pools : thread'[q] = IF q = p THEN started ELSE thread[q]
  BY <1>5 DEF PoolTypeOK
<1>7. PoolTypeOK'
  <2>1. Append(queue[p], task) \in Seq(Tasks)
    BY DEF PoolTypeOK
  <2>2. thread' \in [Pools -> [Threads -> ThreadPlaces]]
    BY <1>2, <1>5 DEF PoolTypeOK
  <2>3. notifying' \in [Pools -> SUBSET Callers]
    BY DEF Run, PoolTypeOK
  <2> QED
    BY <2>1, <2>2, <2>3 DEF Run, PoolTypeOK
<1>8. ExitedStopped'
  BY <1>2, <1>6 DEF Run, ExitedStopped
<1>9. SomeoneLeft'
  BY <1>3, <1>4, <1>6 DEF Run, PoolTypeOK, SomeoneLeft
<1>10. SomeoneAwake'
  BY <1>6 DEF Run, PoolTypeOK, SomeoneAwake
<1> QED
  BY <1>7, <1>8, <1>9, <1>10

LEMMA NotifyInvs ==
  ASSUME PoolInv, NEW p \in Pools, NEW caller, Notify(p, caller)
  PROVE  PoolInv'
<1> USE DEF PoolInv
<1>1. /\ UNCHANGED <<queue, running, stop, ended>>
      /\ notifying' = [notifying EXCEPT ![p] = @ \ {caller}]
  BY DEF Notify
<1>2. CASE Asleep(p) = {} /\ UNCHANGED thread
  <2>1. \A i \in Threads : thread[p][i] # "asleep"
    BY <1>2 DEF Asleep
  <2>2. PoolTypeOK' /\ ExitedStopped' /\ SomeoneLeft'
    BY <1>1, <1>2 DEF PoolTypeOK, ExitedStopped, SomeoneLeft
  <2>3. SomeoneAwake'
    BY <1>1, <1>2, <2>1 DEF PoolTypeOK, SomeoneLeft, SomeoneAwake
  <2> QED
    BY <2>2, <2>3
<1>3. ASSUME NEW i \in Asleep(p), thread' = [thread EXCEPT ![p][i] = "awake"]
      PROVE  PoolInv'
  <2>1. i \in Threads /\ thread[p][i] = "asleep"
    BY DEF Asleep
  <2>2. \A q \in Pools, j \in Threads :
          thread'[q][j] = IF q = p /\ j = i THEN "awake" ELSE thread[q][j]
    BY <1>3, <2>1 DEF PoolTypeOK
  <2>3. PoolTypeOK'
    BY <1>1, <1>3 DEF PoolTypeOK, ThreadPlaces
  <2>4. ExitedStopped' /\ SomeoneLeft'
    BY <1>1, <2>2 DEF ExitedStopped, SomeoneLeft
  <2>5. SomeoneAwake'
    BY <1>1, <2>1, <2>2 DEF PoolTypeOK, SomeoneAwake
  <2> QED
    BY <2>3, <2>4, <2>5
<1> QED
  BY <1>2, <1>3 DEF Notify

LEMMA ThreadInv ==
  ASSUME PoolInv, NEW p \in Pools, NEW i \in Threads, PoolThreadStep(p, i) \/ Finish(p, i)
  PROVE  PoolInv'
<1> USE DEF PoolInv
<1>1. CASE TakeTask(p, i)
  <2>1. Head(queue[p]) \in Tasks /\ Tail(queue[p]) \in Seq(Tasks)
    BY <1>1 DEF TakeTask, PoolTypeOK
  <2>2. PoolTypeOK'
    BY <1>1, <2>1 DEF TakeTask, PoolTypeOK
  <2>3. ExitedStopped'
    BY <1>1 DEF TakeTask, ExitedStopped
  <2>4. SomeoneLeft' /\ SomeoneAwake'
    BY <1>1 DEF TakeTask, PoolTypeOK, SomeoneLeft, SomeoneAwake
  <2> QED
    BY <2>2, <2>3, <2>4
<1>2. CASE Sleep(p, i)
  <2>1. PoolTypeOK'
    BY <1>2 DEF Sleep, PoolTypeOK, ThreadPlaces
  <2>2. ExitedStopped'
    BY <1>2 DEF Sleep, PoolTypeOK, ExitedStopped
  <2>3. SomeoneLeft' /\ SomeoneAwake'
    BY <1>2 DEF Sleep, PoolTypeOK, SomeoneLeft, SomeoneAwake
  <2> QED
    BY <2>1, <2>2, <2>3
<1>3. CASE Exit(p, i)
  <2>1. PoolTypeOK'
    BY <1>3 DEF Exit, PoolTypeOK, ThreadPlaces
  <2>2. ExitedStopped'
    BY <1>3 DEF Exit, PoolTypeOK, ExitedStopped
  <2>3. SomeoneLeft' /\ SomeoneAwake'
    BY <1>3 DEF Exit, PoolTypeOK, SomeoneLeft, SomeoneAwake
  <2> QED
    BY <2>1, <2>2, <2>3
<1>4. CASE Finish(p, i)
  <2>1. running[p][i] \in Tasks
    BY <1>4 DEF Finish, PoolTypeOK
  <2>2. PoolTypeOK'
    BY <1>4, <2>1 DEF Finish, PoolTypeOK
  <2>3. ExitedStopped' /\ SomeoneLeft' /\ SomeoneAwake'
    BY <1>4 DEF Finish, ExitedStopped, SomeoneLeft, SomeoneAwake
  <2> QED
    BY <2>2, <2>3
<1> QED
  BY <1>1, <1>2, <1>3, <1>4 DEF PoolThreadStep

LEMMA StopInv ==
  ASSUME PoolInv, NEW p \in Pools, Stop(p) \/ NotifyAll(p)
  PROVE  PoolInv'
<1> USE DEF PoolInv
<1>1. CASE Stop(p)
  <2>1. PoolTypeOK' /\ ExitedStopped'
    BY <1>1 DEF Stop, PoolTypeOK, ExitedStopped
  <2>2. SomeoneLeft' /\ SomeoneAwake'
    BY <1>1 DEF Stop, SomeoneLeft, SomeoneAwake
  <2> QED
    BY <2>1, <2>2
<1>2. CASE NotifyAll(p)
  <2>1. PoolTypeOK'
    BY <1>2 DEF NotifyAll, PoolTypeOK, ThreadPlaces
  <2>2. ExitedStopped'
    BY <1>2 DEF NotifyAll, PoolTypeOK, ExitedStopped
  <2>3. SomeoneLeft' /\ SomeoneAwake'
    BY <1>2 DEF NotifyAll, PoolTypeOK, SomeoneLeft, SomeoneAwake
  <2> QED
    BY <2>1, <2>2, <2>3
<1> QED
  BY <1>1, <1>2

LEMMA PoolNextInv == PoolInv /\ [PoolNext]_poolVars => PoolInv'
<1> SUFFICES ASSUME PoolInv, [PoolNext]_poolVars
             PROVE  PoolInv'
  OBVIOUS
<1>1. CASE UNCHANGED poolVars
  BY <1>1 DEF poolVars, PoolInv, PoolTypeOK, ExitedStopped, SomeoneLeft, SomeoneAwake
<1>2. CASE PoolNext
  BY <1>2, RunInv, NotifyInvs, ThreadInv, StopInv DEF PoolNext
<1> QED
  BY <1>1, <1>2

\* Every variable of the pools stays in its domain, whatever the tasks do
\* (src/cpp/NindIndex/NindThreadPool.h).
THEOREM PoolTypesHold == PoolSpec => []PoolTypeOK
<1>1. PoolInv => PoolTypeOK
  BY DEF PoolInv
<1> QED
  BY <1>1, PoolInitInv, PoolNextInv, PTL DEF PoolSpec

\* No wake-up is lost, for any number of pools, threads and tasks, though run()
\* notifies once the mutex is free, and callers and threads come in between: while a
\* task waits in a queue, a thread of its pool is awake and takes it, now or when it
\* has ended the task it runs, or a caller has yet to notify one.  notify_one is
\* enough, and run() may start the missing threads first: those that sleep are woken
\* one by one.
THEOREM NoWakeUpLost == PoolSpec => []SomeoneAwake
<1>1. PoolInv => SomeoneAwake
  BY DEF PoolInv
<1> QED
  BY <1>1, PoolInitInv, PoolNextInv, PTL DEF PoolSpec

-----------------------------------------------------------------------------
(* Tasks. *)

\* What a pool has yet to end.
Pending(p) == Queued(p) \cup Running(p)

\* A task is in one place: a place of the queue of its pool, a thread of it, or
\* what has ended.
Once ==
  \A p \in Pools :
    /\ \A m, n \in 1..Len(queue[p]) : queue[p][m] = queue[p][n] => m = n
    /\ \A i, j \in Threads : running[p][i] = running[p][j] /\ running[p][i] # NoTask => i = j
    /\ Queued(p) \cap Running(p) = {}
    /\ Pending(p) \cap ended = {}
    /\ \A task \in Pending(p) : task[2] = p

LEMMA RunOnce ==
  ASSUME PoolTypeOK, Once, NEW p \in Pools, NEW caller, NEW task \in Tasks, NEW threads,
         Run(p, caller, task, threads), task[2] = p, task \notin Pending(p), task \notin ended
  PROVE  /\ Once'
         /\ Pending(p)' = Pending(p) \cup {task}
         /\ \A q \in Pools \ {p} : Pending(q)' = Pending(q)
         /\ ended' = ended
<1> DEFINE s == queue[p]
           t == Append(s, task)
<1>1. s \in Seq(Tasks) /\ DOMAIN s = 1..Len(s) /\ Len(s) \in Nat
  BY DEF PoolTypeOK
<1>2. /\ DOMAIN t = 1..Len(s) + 1 /\ Len(t) = Len(s) + 1
      /\ \A n \in 1..Len(s) : t[n] = s[n]
      /\ t[Len(s) + 1] = task
  <2> HIDE DEF s
  <2> QED
    BY <1>1
<1>3. /\ \A q \in Pools : queue'[q] = IF q = p THEN t ELSE queue[q]
      /\ running' = running /\ ended' = ended
  BY DEF Run, PoolTypeOK
<1> HIDE DEF t
<1>4. Queued(p)' = Queued(p) \cup {task}
  <2>1. Queued(p)' = {t[n] : n \in 1..Len(s) + 1}
    BY <1>2, <1>3 DEF Queued
  <2>2. Queued(p) = {s[n] : n \in 1..Len(s)}
    BY <1>1 DEF Queued
  <2> HIDE DEF s
  <2>3. \A n \in 1..Len(s) + 1 : n \in 1..Len(s) \/ n = Len(s) + 1
    BY <1>1
  <2>4. Len(s) + 1 \in 1..Len(s) + 1 /\ \A n \in 1..Len(s) : n \in 1..Len(s) + 1
    BY <1>1
  <2>5. ASSUME NEW n \in 1..Len(s) + 1
        PROVE  t[n] \in Queued(p) \cup {task}
    BY <2>2, <2>3, <1>2
  <2>6. task \in Queued(p)'
    BY <2>1, <2>4, <1>2
  <2>7. ASSUME NEW n \in 1..Len(s)
        PROVE  s[n] \in Queued(p)'
    BY <2>1, <2>4, <1>2
  <2> QED
    BY <2>1, <2>2, <2>5, <2>6, <2>7
<1>5. \A q \in Pools \ {p} : Queued(q)' = Queued(q)
  BY <1>3 DEF Queued
<1>6. \A q \in Pools : Running(q)' = Running(q)
  BY <1>3 DEF Running
<1>7. /\ Pending(p)' = Pending(p) \cup {task}
      /\ \A q \in Pools \ {p} : Pending(q)' = Pending(q)
  BY <1>4, <1>5, <1>6 DEF Pending
<1>8. ASSUME NEW q \in Pools
      PROVE  \A m, n \in 1..Len(queue'[q]) : queue'[q][m] = queue'[q][n] => m = n
  <2>1. CASE q # p
    BY <2>1, <1>3 DEF Once
  <2>2. CASE q = p
    <3>1. \A m \in 1..Len(s) : s[m] # task
      BY <1>1 DEF Pending, Queued
    <3>2. \A m, n \in 1..Len(s) : s[m] = s[n] => m = n
      BY DEF Once
    <3>3. queue'[q] = t
      BY <2>2, <1>3
    <3> HIDE DEF s
    <3>4. \A m \in 1..Len(s) + 1 : m \in 1..Len(s) \/ m = Len(s) + 1
      BY <1>1
    <3> QED
      BY <3>1, <3>2, <3>3, <3>4, <1>1, <1>2
  <2> QED
    BY <2>1, <2>2
<1>9. Once'
  <2>1. ASSUME NEW q \in Pools
        PROVE  /\ \A i, j \in Threads :
                    running'[q][i] = running'[q][j] /\ running'[q][i] # NoTask => i = j
               /\ Queued(q)' \cap Running(q)' = {}
               /\ Pending(q)' \cap ended' = {}
               /\ \A k \in Pending(q)' : k[2] = q
    <3>1. \A i, j \in Threads :
            running'[q][i] = running'[q][j] /\ running'[q][i] # NoTask => i = j
      BY <1>3 DEF Once
    <3>2. Queued(q)' \cap Running(q)' = {}
      BY <1>4, <1>5, <1>6 DEF Once, Pending
    <3>3. Pending(q)' \cap ended' = {}
      BY <1>3, <1>7 DEF Once
    <3>4. \A k \in Pending(q)' : k[2] = q
      BY <1>7 DEF Once
    <3> QED
      BY <3>1, <3>2, <3>3, <3>4
  <2> QED
    BY <1>8, <2>1 DEF Once
<1> QED
  BY <1>3, <1>7, <1>9

LEMMA TakeOnce ==
  ASSUME PoolTypeOK, Once, NEW p \in Pools, NEW i \in Threads, TakeTask(p, i)
  PROVE  Once' /\ ended' = ended /\ \A q \in Pools : Pending(q)' = Pending(q)
<1> DEFINE s == queue[p]
           t == Tail(s)
           task == Head(s)
<1>1. s \in Seq(Tasks) /\ DOMAIN s = 1..Len(s) /\ Len(s) \in Nat \ {0}
  BY DEF PoolTypeOK, TakeTask
<1>2. /\ DOMAIN t = 1..Len(s) - 1 /\ Len(t) = Len(s) - 1
      /\ \A n \in 1..Len(s) - 1 : t[n] = s[n + 1]
      /\ task = s[1]
  <2> HIDE DEF s
  <2>1. s # <<>>
    BY <1>1
  <2> QED
    BY <1>1, <2>1
<1>3. /\ \A q \in Pools : queue'[q] = IF q = p THEN t ELSE queue[q]
      /\ \A q \in Pools, j \in Threads :
           running'[q][j] = IF q = p /\ j = i THEN task ELSE running[q][j]
      /\ running[p][i] = NoTask /\ ended' = ended
  BY DEF TakeTask, PoolTypeOK
<1>4. task # NoTask
  <2> HIDE DEF s
  <2>1. task \in Tasks
    BY <1>1, <1>2
  <2> QED
    BY <2>1, NoTaskAssumption
<1> HIDE DEF t, task
<1>5. Queued(p)' = {t[n] : n \in 1..Len(s) - 1} /\ Queued(p) = {s[n] : n \in 1..Len(s)}
  <2>1. Queued(p)' = {t[n] : n \in 1..Len(s) - 1}
    BY <1>2, <1>3 DEF Queued
  <2>2. Queued(p) = {s[n] : n \in 1..Len(s)}
    BY <1>1 DEF Queued
  <2> QED
    BY <2>1, <2>2
<1>6. Queued(p) = Queued(p)' \cup {task} /\ task \notin Queued(p)'
  <2>1. \A m, n \in 1..Len(s) : s[m] = s[n] => m = n
    BY DEF Once
  <2> HIDE DEF s
  <2>2. \A n \in 1..Len(s) - 1 : n + 1 \in 1..Len(s) /\ n + 1 # 1
    BY <1>1
  <2>3. \A n \in 1..Len(s) : n = 1 \/ (n - 1 \in 1..Len(s) - 1 /\ n - 1 + 1 = n)
    BY <1>1
  <2>4. 1 \in 1..Len(s)
    BY <1>1
  <2>5. \A n \in 1..Len(s) - 1 : t[n] \in Queued(p) /\ t[n] # task
    BY <1>2, <1>5, <2>1, <2>2, <2>4
  <2>6. \A n \in 1..Len(s) : s[n] = task \/ s[n] \in Queued(p)'
    <3> TAKE n \in 1..Len(s)
    <3>1. CASE n = 1
      BY <3>1, <1>2
    <3>2. CASE n - 1 \in 1..Len(s) - 1 /\ n - 1 + 1 = n
      <4>1. t[n - 1] = s[n]
        BY <3>2, <1>2
      <4> QED
        BY <4>1, <3>2, <1>5
    <3> QED
      BY <3>1, <3>2, <2>3
  <2>7. task \in Queued(p)
    BY <1>2, <1>5, <2>4
  <2>8. Queued(p)' \subseteq Queued(p) \ {task}
    BY <2>5, <1>5
  <2>9. Queued(p) \subseteq Queued(p)' \cup {task}
    BY <2>6, <1>5
  <2> QED
    BY <2>7, <2>8, <2>9
<1>7. \A q \in Pools \ {p} : Queued(q)' = Queued(q) /\ Running(q)' = Running(q)
  BY <1>3 DEF Queued, Running
<1>8. Running(p)' = Running(p) \cup {task}
  BY <1>3, <1>4 DEF Running
<1>9. \A q \in Pools : Pending(q)' = Pending(q)
  BY <1>6, <1>7, <1>8 DEF Pending
<1>10. ASSUME NEW q \in Pools
       PROVE  \A m, n \in 1..Len(queue'[q]) : queue'[q][m] = queue'[q][n] => m = n
  <2>1. CASE q # p
    BY <2>1, <1>3 DEF Once
  <2>2. CASE q = p
    <3>1. \A m, n \in 1..Len(s) : s[m] = s[n] => m = n
      BY DEF Once
    <3>2. queue'[q] = t
      BY <2>2, <1>3
    <3> HIDE DEF s
    <3>3. \A n \in 1..Len(s) - 1 : n + 1 \in 1..Len(s)
      BY <1>1
    <3>4. \A m, n \in 1..Len(s) - 1 : s[m + 1] = s[n + 1] => m + 1 = n + 1
      BY <3>1, <3>3
    <3>5. \A m, n \in 1..Len(s) - 1 : m + 1 = n + 1 => m = n
      OBVIOUS
    <3> QED
      BY <3>2, <3>4, <3>5, <1>2
  <2> QED
    BY <2>1, <2>2
<1>11. ASSUME NEW q \in Pools
       PROVE  /\ \A j, k \in Threads :
                   running'[q][j] = running'[q][k] /\ running'[q][j] # NoTask => j = k
              /\ Queued(q)' \cap Running(q)' = {}
  <2>1. CASE q # p
    <3>1. \A j \in Threads : running'[q][j] = running[q][j]
      BY <2>1, <1>3
    <3> QED
      BY <2>1, <3>1, <1>7 DEF Once
  <2>2. CASE q = p
    <3>1. \A j \in Threads : running[p][j] # task
      BY <1>4, <1>6 DEF Once, Running
    <3>2. \A j, k \in Threads :
            running'[p][j] = running'[p][k] /\ running'[p][j] # NoTask => j = k
      BY <3>1, <1>3 DEF Once
    <3>3. Queued(p)' \cap Running(p)' = {}
      BY <1>6, <1>8 DEF Once
    <3> QED
      BY <2>2, <3>2, <3>3
  <2> QED
    BY <2>1, <2>2
<1>12. Once'
  <2>1. \A q \in Pools : Pending(q)' \cap ended' = {} /\ \A k \in Pending(q)' : k[2] = q
    BY <1>3, <1>9 DEF Once
  <2> QED
    BY <1>10, <1>11, <2>1 DEF Once
<1> QED
  BY <1>3, <1>9, <1>12

LEMMA FinishOnce ==
  ASSUME PoolTypeOK, Once, NEW p \in Pools, NEW i \in Threads, Finish(p, i)
  PROVE  /\ Once'
         /\ running[p][i] \in Running(p)
         /\ ended' = ended \cup {running[p][i]}
         /\ Pending(p)' = Pending(p) \ {running[p][i]}
         /\ \A q \in Pools \ {p} : Pending(q)' = Pending(q)
<1> DEFINE task == running[p][i]
<1>1. /\ queue' = queue /\ ended' = ended \cup {task} /\ task # NoTask
      /\ \A q \in Pools, j \in Threads :
           running'[q][j] = IF q = p /\ j = i THEN NoTask ELSE running[q][j]
  BY DEF Finish, PoolTypeOK
<1>2. task \in Running(p) /\ \A j \in Threads : running[p][j] = task => j = i
  BY <1>1 DEF Running, Once
<1>3. \A q \in Pools : Queued(q)' = Queued(q)
  BY <1>1 DEF Queued
<1>4. Running(p)' = Running(p) \ {task}
  <2> HIDE DEF task
  <2>1. \A j \in Threads \ {i} : running'[p][j] = running[p][j]
    BY <1>1
  <2>2. running'[p][i] = NoTask /\ running[p][i] = task
    BY <1>1 DEF task
  <2> QED
    BY <2>1, <2>2, <1>2 DEF Running
<1>5. \A q \in Pools \ {p} : Running(q)' = Running(q)
  BY <1>1 DEF Running
<1>6. task \notin Queued(p)
  BY <1>2 DEF Once
<1> HIDE DEF task
<1>7. /\ Pending(p)' = Pending(p) \ {task}
      /\ \A q \in Pools \ {p} : Pending(q)' = Pending(q)
  BY <1>3, <1>4, <1>5, <1>6 DEF Pending
<1>8. ASSUME NEW q \in Pools
      PROVE  \A j, k \in Threads :
               running'[q][j] = running'[q][k] /\ running'[q][j] # NoTask => j = k
  BY <1>1 DEF Once
<1>9. ASSUME NEW q \in Pools
      PROVE  Queued(q)' \cap Running(q)' = {} /\ \A k \in Pending(q)' : k[2] = q
  BY <1>3, <1>4, <1>5, <1>7 DEF Once
<1>10. ASSUME NEW q \in Pools PROVE Pending(q)' \cap ended' = {}
  <2>1. CASE q = p
    BY <2>1, <1>1, <1>7 DEF Once
  <2>2. CASE q # p
    <3>1. task[2] = p /\ \A k \in Pending(q) : k[2] = q
      BY <1>2 DEF Once, Pending
    <3>2. task \notin Pending(q)
      BY <3>1, <2>2
    <3> QED
      BY <2>2, <3>2, <1>1, <1>7 DEF Once
  <2> QED
    BY <2>1, <2>2
<1>11. \A q \in Pools : \A m, n \in 1..Len(queue'[q]) : queue'[q][m] = queue'[q][n] => m = n
  BY <1>1 DEF Once
<1>12. Once'
  BY <1>8, <1>9, <1>10, <1>11 DEF Once
<1> QED
  BY <1>1, <1>2, <1>7, <1>12 DEF task

LEMMA SameOnce ==
  ASSUME Once, UNCHANGED <<queue, running, ended>>
  PROVE  Once' /\ ended' = ended /\ \A q \in Pools : Pending(q)' = Pending(q)
<1>1. queue' = queue /\ running' = running /\ ended' = ended
  OBVIOUS
<1>2. \A q \in Pools : Queued(q)' = Queued(q) /\ Running(q)' = Running(q)
  BY <1>1 DEF Queued, Running
<1>3. \A q \in Pools : Pending(q)' = Pending(q)
  BY <1>2 DEF Pending
<1>4. Once'
  BY <1>1, <1>2, <1>3 DEF Once
<1> QED
  BY <1>1, <1>3, <1>4

-----------------------------------------------------------------------------
(* The invariant. *)

\* A sequence of at most as many values as a segment has slices.
IsList(s) ==
  \E n \in 0..MaxThreads + 1 : s = [k \in 1..n |-> s[k]] /\ DOMAIN s = 1..n /\ Len(s) = n

WorkerStates ==
  {s \in [at : {"off", "hire", "take", "slice"} \cup Over,
          part : 0..MaxParts, given : 0..MaxThreads + 1] : s.at = "slice" => s.part # 0}

ScanTypes ==
  /\ DOMAIN scan = Calls
  /\ \A c \in Calls : DOMAIN scan[c] = Parts
  /\ \A c \in Calls, p \in Parts : IsList(scan[c][p])

SearchTypes ==
  /\ scene \in Scenes
  /\ next \in [Calls -> Nat \ {0}]
  /\ worker \in [Calls -> [Workers -> WorkerStates]]
  /\ outcome \in [Calls -> {"none", "answered", "raised"}]
  /\ ScanTypes

\* The workers a search has given `work` to.
Given(c) ==
  IF worker[c][0].at = "off" THEN {}
  ELSE IF worker[c][0].at = "hire" THEN 1..worker[c][0].given - 1
  ELSE 1..WorkersNb - 1

\* A worker is given once, begins then, and its task ends after it.
WorkOf(c) ==
  /\ worker[c][0].at # "off" => c \in Asked
  /\ worker[c][0].at = "hire" => worker[c][0].given \in 1..WorkersNb - 1
  /\ \A w \in Workers \ {0} :
       worker[c][w].at # "off" => worker[c][w].at # "hire" /\ w \in Given(c)
  /\ \A w \in Workers :
       /\ <<c, 0, w>> \in Pending(0) \cup ended => w \in Given(c)
       /\ <<c, 0, w>> \in ended => worker[c][w].at \in Over

WorkInv == \A c \in Calls : WorkOf(c)

Taken(c, p) == \E m \in 1..PartsNb : m < next[c] /\ BySize[m] = p

\* A worker scans a part.
At(c, w, p) == worker[c][w].at = "slice" /\ worker[c][w].part = p

\* A part is taken once, its slices given once, in their order, and the worker that
\* gives them stays until they have ended.
PartOf(c, p) ==
  /\ \A w \in Workers : At(c, w, p) =>
       /\ Taken(c, p) /\ worker[c][w].given \in 1..Len(scan[c][p])
       /\ \A v \in Workers : At(c, v, p) => v = w
  /\ \A n \in Slices :
       /\ <<c, p, n>> \in Pending(p) =>
            Taken(c, p) /\ \E w \in Workers : At(c, w, p) /\ n < worker[c][w].given
       /\ <<c, p, n>> \in ended =>
            Taken(c, p) /\ \A w \in Workers : At(c, w, p) => n < worker[c][w].given

SliceInv == \A c \in Calls, p \in Parts : PartOf(c, p)

\* A search returns when all its workers have ended, and an index goes when all
\* searches have returned.
ReturnInv ==
  /\ \A c \in Calls : outcome[c] # "none" =>
       worker[c][0].at \in Over /\ \A w \in 1..WorkersNb - 1 : <<c, 0, w>> \in ended
  /\ \A p \in Pools : stop[p] => AllReturned

\* A thread in run() is at work: it notifies before it goes on.
Giving == {"hire", "take", "slice"}
NotifyInv == \A c \in Calls, w \in Workers : InRun(<<c, w>>) => worker[c][w].at \in Giving

SearchInv ==
  PoolInv /\ Once /\ SearchTypes /\ WorkInv /\ SliceInv /\ ReturnInv /\ NotifyInv

-----------------------------------------------------------------------------
(* What a step leaves alone. *)

LEMMA PoolsAre ==
  /\ 0 \in Pools /\ Parts \subseteq Pools /\ 0 \notin Parts /\ MaxParts \in Nat
  /\ \A p \in Pools : p = 0 \/ p \in Parts
BY PoolsAssumption, ScenesAssumption DEF Parts

LEMMA SceneSame ==
  ASSUME scene' = scene
  PROVE  /\ PartsNb' = PartsNb /\ WorkersNb' = WorkersNb /\ BySize' = BySize
         /\ Asked' = Asked
<1>1. PartsNb' = PartsNb /\ WorkersNb' = WorkersNb /\ Asked' = Asked
  BY DEF PartsNb, WorkersNb, Asked
<1>2. BySize' = BySize
  BY <1>1 DEF BySize, Larger, LiveNb
<1> QED
  BY <1>1, <1>2

LEMMA GoesKeeps ==
  ASSUME ScanTypes, NEW c \in Calls, NEW p \in Parts, NEW n, NEW s, Goes(c, p, n, s)
  PROVE  ScanTypes' /\ \A d \in Calls, q \in Parts : Len(scan'[d][q]) = Len(scan[d][q])
<1>1. /\ DOMAIN scan' = Calls /\ \A d \in Calls : DOMAIN scan'[d] = Parts
      /\ \A d \in Calls, q \in Parts :
           scan'[d][q] = IF d = c /\ q = p THEN [scan[c][p] EXCEPT ![n] = s] ELSE scan[d][q]
  BY DEF ScanTypes, Goes
<1>2. PICK m \in 0..MaxThreads + 1 :
        /\ scan[c][p] = [k \in 1..m |-> scan[c][p][k]]
        /\ DOMAIN scan[c][p] = 1..m /\ Len(scan[c][p]) = m
  BY DEF ScanTypes, IsList
<1> DEFINE t == [scan[c][p] EXCEPT ![n] = s]
<1>3. t = [k \in 1..m |-> t[k]]
  BY <1>2
<1>4. m \in Nat
  BY MaxThreadsAssumption
<1> HIDE DEF t
<1>5. DOMAIN t = 1..m /\ Len(t) = m
  BY <1>3, <1>4, ListIs
<1>6. IsList(t)
  BY <1>2, <1>3, <1>5 DEF IsList
<1>7. \A d \in Calls, q \in Parts : IsList(scan'[d][q]) /\ Len(scan'[d][q]) = Len(scan[d][q])
  BY <1>1, <1>2, <1>5, <1>6 DEF ScanTypes, t
<1> QED
  BY <1>1, <1>7 DEF ScanTypes

LEMMA ScanSame ==
  ASSUME ScanTypes, scan' = scan
  PROVE  ScanTypes' /\ \A c \in Calls, p \in Parts : Len(scan'[c][p]) = Len(scan[c][p])
<1>1. \A c \in Calls, p \in Parts : IsList(scan'[c][p]) <=> IsList(scan[c][p])
  BY DEF IsList
<1> QED
  BY <1>1 DEF ScanTypes

LEMMA PoolsStill ==
  ASSUME PoolInv, Once, UNCHANGED poolVars
  PROVE  /\ PoolInv' /\ Once' /\ [PoolNext]_poolVars
         /\ ended' = ended /\ stop' = stop /\ \A p \in Pools : Pending(p)' = Pending(p)
         /\ notifying' = notifying
<1>1. queue' = queue /\ running' = running /\ ended' = ended /\ stop' = stop
      /\ notifying' = notifying
  BY DEF poolVars
<1>2. Once' /\ \A p \in Pools : Pending(p)' = Pending(p)
  BY <1>1, SameOnce
<1> QED
  BY <1>1, <1>2, PoolNextInv

LEMMA WorkSame ==
  ASSUME scene' = scene, NEW c \in Calls, WorkOf(c), worker'[c] = worker[c],
         \A w \in Workers :
           /\ <<c, 0, w>> \in Pending(0)' \cup ended' => <<c, 0, w>> \in Pending(0) \cup ended
           /\ <<c, 0, w>> \in ended' => <<c, 0, w>> \in ended \/ worker[c][w].at \in Over
  PROVE  WorkOf(c)'
<1>1. Given(c)' = Given(c) /\ Asked' = Asked /\ WorkersNb' = WorkersNb
  BY SceneSame DEF Given
<1> QED
  BY <1>1 DEF WorkOf

LEMMA PartSame ==
  ASSUME scene' = scene, NEW c \in Calls, NEW p \in Parts, PartOf(c, p),
         next'[c] >= next[c], next[c] \in Nat, next'[c] \in Nat, PartsNb \in Nat,
         \A w \in Workers : /\ At(c, w, p)' <=> At(c, w, p)
                            /\ At(c, w, p) => worker'[c][w].given = worker[c][w].given,
         Len(scan'[c][p]) = Len(scan[c][p]),
         \A n \in Slices :
           /\ <<c, p, n>> \in Pending(p)' => <<c, p, n>> \in Pending(p)
           /\ <<c, p, n>> \in ended' => <<c, p, n>> \in ended \cup Pending(p)
  PROVE  PartOf(c, p)'
<1>1. Taken(c, p) => Taken(c, p)'
  <2>1. \A m \in 1..PartsNb : m < next[c] => m < next'[c]
    OBVIOUS
  <2> QED
    BY <2>1, SceneSame DEF Taken
<1> QED
  BY <1>1 DEF PartOf

LEMMA ReturnSame ==
  ASSUME ReturnInv, scene' = scene, outcome' = outcome, ended \subseteq ended',
         \A c \in Calls : worker[c][0].at \in Over => worker'[c][0].at \in Over,
         \A p \in Pools : stop'[p] => stop[p] \/ AllReturned
  PROVE  ReturnInv'
<1>1. WorkersNb' = WorkersNb /\ Asked' = Asked
  BY SceneSame
<1>2. AllReturned => AllReturned'
  BY <1>1 DEF AllReturned
<1>3. \A c \in Calls : outcome'[c] # "none" =>
        worker'[c][0].at \in Over' /\ \A w \in 1..WorkersNb' - 1 : <<c, 0, w>> \in ended'
  BY <1>1 DEF ReturnInv, Over
<1>4. \A p \in Pools : stop'[p] => AllReturned'
  BY <1>2 DEF ReturnInv
<1> QED
  BY <1>3, <1>4 DEF ReturnInv

\* A step that moves no worker, or one: nobody enters run() but the one that moves.
LEMMA NotifySame ==
  ASSUME NotifyInv, worker' = worker, \A p \in Pools : notifying'[p] \subseteq notifying[p]
  PROVE  NotifyInv'
BY DEF NotifyInv, InRun, Giving

LEMMA NotifyMoves ==
  ASSUME SearchInv, NEW c \in Calls, NEW w \in Workers, NEW to,
         worker' = [worker EXCEPT ![c][w] = to], InRun(<<c, w>>)' => to.at \in Giving,
         \A p \in Pools : notifying'[p] \subseteq notifying[p] \cup {<<c, w>>}
  PROVE  NotifyInv'
<1>1. \A d \in Calls, v \in Workers :
        worker'[d][v] = IF d = c /\ v = w THEN to ELSE worker[d][v]
  BY DEF SearchInv, SearchTypes
<1>2. ASSUME NEW d \in Calls, NEW v \in Workers, InRun(<<d, v>>)', ~(d = c /\ v = w)
      PROVE  worker'[d][v].at \in Giving
  <2>1. <<d, v>> # <<c, w>>
    BY <1>2
  <2>2. InRun(<<d, v>>)
    BY <1>2, <2>1 DEF InRun
  <2> QED
    BY <1>1, <1>2, <2>2 DEF SearchInv, NotifyInv
<1>3. ASSUME NEW d \in Calls, NEW v \in Workers, InRun(<<d, v>>)', d = c /\ v = w
      PROVE  worker'[d][v].at \in Giving
  BY <1>1, <1>3
<1>4. \A d \in Calls, v \in Workers : InRun(<<d, v>>)' => worker'[d][v].at \in Giving
  BY <1>2, <1>3
<1> QED
  BY <1>4 DEF NotifyInv, Giving

LEMMA RunCallers ==
  ASSUME PoolTypeOK, NEW p, NEW caller, NEW task, NEW threads, Run(p, caller, task, threads)
  PROVE  \A q \in Pools : notifying'[q] \subseteq notifying[q] \cup {caller}
BY DEF Run, PoolTypeOK

\* The same, the pools left alone.
LEMMA NotifyStill ==
  ASSUME SearchInv, UNCHANGED poolVars, NEW c \in Calls, NEW w \in Workers, NEW to,
         worker' = [worker EXCEPT ![c][w] = to], InRun(<<c, w>>) => to.at \in Giving
  PROVE  NotifyInv'
<1>1. notifying' = notifying
  BY DEF poolVars
<1>2. InRun(<<c, w>>)' <=> InRun(<<c, w>>)
  BY <1>1 DEF InRun
<1> QED
  BY <1>1, <1>2, NotifyMoves

\* A worker that is not over works for a search that has not returned: its index is
\* there.
LEMMA ActiveIs ==
  ASSUME SearchInv, NEW c \in Calls, NEW w \in Workers, worker[c][w].at \notin Over \cup {"off"}
  PROVE  c \in Asked /\ outcome[c] = "none" /\ \A p \in Pools : ~stop[p]
<1>1. 0 \in Workers
  BY MaxThreadsAssumption DEF Workers
<1>2. outcome[c] = "none"
  <2> SUFFICES ASSUME outcome[c] # "none" PROVE FALSE
    OBVIOUS
  <2>1. worker[c][0].at \in Over /\ \A v \in 1..WorkersNb - 1 : <<c, 0, v>> \in ended
    BY DEF SearchInv, ReturnInv
  <2>2. w # 0
    BY <2>1
  <2>3. WorkOf(c)
    BY DEF SearchInv, WorkInv
  <2>4. w \in Given(c)
    BY <2>2, <2>3 DEF WorkOf
  <2>5. w \in 1..WorkersNb - 1
    BY <2>1, <2>4 DEF Given, Over
  <2> QED
    BY <2>1, <2>3, <2>5 DEF WorkOf
<1>3. c \in Asked
  <2>1. WorkOf(c)
    BY DEF SearchInv, WorkInv
  <2>2. CASE w = 0
    BY <2>1, <2>2 DEF WorkOf
  <2>3. CASE w # 0
    BY <2>1, <2>3 DEF WorkOf, Given
  <2> QED
    BY <2>2, <2>3
<1> QED
  BY <1>2, <1>3 DEF SearchInv, ReturnInv, AllReturned

\* A thread in run() too.
LEMMA CallerIs ==
  ASSUME SearchInv, NEW p \in Pools, NEW caller \in notifying[p]
  PROVE  caller[1] \in Asked /\ outcome[caller[1]] = "none"
<1>1. caller \in Callers
  BY DEF SearchInv, PoolInv, PoolTypeOK
<1>2. PICK c \in Calls, w \in Workers : caller = <<c, w>>
  BY <1>1, PoolsAssumption
<1>3. worker[c][w].at \in Giving
  BY <1>2 DEF SearchInv, NotifyInv, InRun
<1>4. worker[c][w].at \notin Over \cup {"off"}
  BY <1>3 DEF Giving, Over
<1>5. c \in Asked /\ outcome[c] = "none"
  BY <1>4, ActiveIs
<1> QED
  BY <1>2, <1>5

\* The tasks of the pools.
LEMMA TaskIs ==
  ASSUME PoolInv, Once, NEW p \in Pools, NEW task \in Pending(p)
  PROVE  /\ task[2] = p /\ task \notin ended /\ task = <<task[1], p, task[3]>> /\ task[1] \in Calls
         /\ p = 0 => task[3] \in Workers
         /\ p \in Parts => task[3] \in Slices
<1>1. task \in Tasks
  BY DEF PoolInv, PoolTypeOK, Pending, Queued, Running
<1>2. task[2] = p /\ task \notin ended
  BY DEF Once
<1> QED
  BY <1>1, <1>2, PoolsAssumption, PoolsAre

LEMMA RunningIs ==
  ASSUME NEW p \in Pools, NEW i \in Threads, running[p][i] # NoTask
  PROVE  running[p][i] \in Pending(p)
BY DEF Pending, Running

-----------------------------------------------------------------------------
(* The steps. *)

\* Steps that move no worker: tasks may end, slices go on, a pool may stop.
LEMMA QuietKeeps ==
  ASSUME SearchInv, UNCHANGED <<scene, next, worker, outcome>>, PoolInv', Once', ScanTypes',
         \A c \in Calls, p \in Parts : Len(scan'[c][p]) = Len(scan[c][p]),
         ended \subseteq ended',
         \A c \in Calls, w \in Workers :
           /\ <<c, 0, w>> \in Pending(0)' \cup ended' => <<c, 0, w>> \in Pending(0) \cup ended
           /\ <<c, 0, w>> \in ended' => <<c, 0, w>> \in ended \/ worker[c][w].at \in Over,
         \A c \in Calls, p \in Parts, n \in Slices :
           /\ <<c, p, n>> \in Pending(p)' => <<c, p, n>> \in Pending(p)
           /\ <<c, p, n>> \in ended' => <<c, p, n>> \in ended \cup Pending(p),
         \A p \in Pools : stop'[p] => stop[p] \/ AllReturned,
         \A p \in Pools : notifying'[p] \subseteq notifying[p]
  PROVE  SearchInv'
<1>0. NotifyInv'
  BY NotifySame DEF SearchInv
<1>1. SearchTypes'
  BY DEF SearchInv, SearchTypes, WorkerStates, Over
<1>2. ASSUME NEW c \in Calls PROVE WorkOf(c)'
  <2>1. WorkOf(c)
    BY DEF SearchInv, WorkInv
  <2> QED
    BY <2>1, WorkSame
<1>3. ASSUME NEW c \in Calls, NEW p \in Parts PROVE PartOf(c, p)'
  <2>1. PartOf(c, p)
    BY DEF SearchInv, SliceInv
  <2>2. next[c] \in Nat /\ next' = next /\ worker' = worker
    BY DEF SearchInv, SearchTypes
  <2>3. PartsNb \in Nat
    BY NumbersOf DEF SearchInv, SearchTypes
  <2>4. \A w \in Workers : /\ At(c, w, p)' <=> At(c, w, p)
                           /\ At(c, w, p) => worker'[c][w].given = worker[c][w].given
    BY DEF At
  <2> QED
    BY <2>1, <2>2, <2>3, <2>4, PartSame
<1>4. ReturnInv'
  BY ReturnSame DEF SearchInv
<1> QED
  BY <1>0, <1>1, <1>2, <1>3, <1>4 DEF SearchInv, WorkInv, SliceInv

\* A slice goes on.
LEMMA ScanKeeps ==
  ASSUME SearchInv, NEW c \in Calls, NEW p \in Parts, NEW n, NEW s, Goes(c, p, n, s),
         UNCHANGED <<scene, next, worker, outcome, poolVars>>
  PROVE  SearchInv' /\ [PoolNext]_poolVars
<1>1. /\ PoolInv' /\ Once' /\ [PoolNext]_poolVars
      /\ ended' = ended /\ stop' = stop /\ \A q \in Pools : Pending(q)' = Pending(q)
      /\ notifying' = notifying
  BY PoolsStill DEF SearchInv
<1>2. ScanTypes' /\ \A d \in Calls, q \in Parts : Len(scan'[d][q]) = Len(scan[d][q])
  BY GoesKeeps DEF SearchInv, SearchTypes
<1> QED
  BY <1>1, <1>2, PoolsAre, QuietKeeps

\* A thread of a pool goes on.
LEMMA PoolStepKeeps ==
  ASSUME SearchInv, NEW p \in Pools, PoolStep(p)
  PROVE  SearchInv' /\ [PoolNext]_poolVars
<1>1. NotifyAll(p) \/ \E i \in Threads : PoolThreadStep(p, i)
  BY DEF PoolStep
<1>2. UNCHANGED <<scene, next, worker, scan, outcome>>
  BY DEF PoolStep, callVars
<1>3. PoolNext
  BY <1>1 DEF PoolNext
<1>4. PoolInv'
  BY <1>3, PoolNextInv DEF SearchInv
<1>5. /\ Once' /\ ended' = ended /\ stop' = stop /\ notifying' = notifying
      /\ \A q \in Pools : Pending(q)' = Pending(q)
  <2>1. ASSUME NEW i \in Threads, TakeTask(p, i)
        PROVE  /\ Once' /\ ended' = ended /\ stop' = stop /\ notifying' = notifying
               /\ \A q \in Pools : Pending(q)' = Pending(q)
    <3>1. stop' = stop /\ notifying' = notifying
      BY <2>1 DEF TakeTask
    <3> QED
      BY <2>1, <3>1, TakeOnce DEF SearchInv, PoolInv
  <2>2. CASE NotifyAll(p) \/ \E i \in Threads : Sleep(p, i) \/ Exit(p, i)
    <3>1. UNCHANGED <<queue, running, stop, notifying, ended>>
      BY <2>2 DEF Sleep, Exit, NotifyAll
    <3> QED
      BY <3>1, SameOnce DEF SearchInv
  <2> QED
    BY <1>1, <2>1, <2>2 DEF PoolThreadStep
<1>6. ScanTypes'
  BY <1>2, ScanSame DEF SearchInv, SearchTypes
<1> QED
  BY <1>2, <1>3, <1>4, <1>5, <1>6, PoolsAre, QuietKeeps

\* A task is given: the caller notifies.
LEMMA GiveEndsKeeps ==
  ASSUME SearchInv, NEW c \in Calls, NEW w \in Workers, GiveEnds(c, w)
  PROVE  SearchInv' /\ [PoolNext]_poolVars
<1>1. PICK p \in Pools : Notify(p, <<c, w>>)
  BY DEF GiveEnds
<1>2. UNCHANGED <<scene, next, worker, scan, outcome>>
  BY DEF GiveEnds, callVars
<1>3. UNCHANGED <<queue, running, stop, ended>>
      /\ notifying' = [notifying EXCEPT ![p] = @ \ {<<c, w>>}]
  BY <1>1 DEF Notify
<1>4. <<c, w>> \in Callers
  BY PoolsAssumption
<1>5. PoolNext
  BY <1>1, <1>4 DEF PoolNext
<1>6. PoolInv'
  BY <1>5, PoolNextInv DEF SearchInv
<1>7. Once' /\ ended' = ended /\ \A q \in Pools : Pending(q)' = Pending(q)
  BY <1>3, SameOnce DEF SearchInv
<1>8. \A q \in Pools : notifying'[q] \subseteq notifying[q]
  BY <1>3 DEF SearchInv, PoolInv, PoolTypeOK
<1>9. ScanTypes'
  BY <1>2, ScanSame DEF SearchInv, SearchTypes
<1> QED
  BY <1>2, <1>3, <1>5, <1>6, <1>7, <1>8, <1>9, PoolsAre, QuietKeeps

\* The index goes: no search is left that calls a pool.
LEMMA CloseKeeps ==
  ASSUME SearchInv, NEW p \in Pools, Close(p)
  PROVE  SearchInv' /\ [PoolNext]_poolVars
<1>1. AllReturned /\ Stop(p) /\ UNCHANGED <<scene, next, worker, scan, outcome>>
  BY DEF Close, callVars
<1>2. notifying[p] = {}
  BY <1>1, CallerIs DEF AllReturned
<1>3. PoolNext
  BY <1>1, <1>2 DEF PoolNext
<1>4. PoolInv'
  BY <1>3, PoolNextInv DEF SearchInv
<1>5. Once' /\ ended' = ended /\ \A q \in Pools : Pending(q)' = Pending(q)
  BY <1>1, SameOnce DEF SearchInv, Stop
<1>6. ScanTypes'
  BY <1>1, ScanSame DEF SearchInv, SearchTypes
<1>7. notifying' = notifying
  BY <1>1 DEF Stop
<1> QED
  BY <1>1, <1>3, <1>4, <1>5, <1>6, <1>7, PoolsAre, QuietKeeps

\* The task of a worker ends, the worker being over.
LEMMA EndWorkKeeps ==
  ASSUME SearchInv, NEW i \in Threads, EndWork(i)
  PROVE  SearchInv' /\ [PoolNext]_poolVars
<1> DEFINE task == running[0][i]
<1>1. Finish(0, i) /\ task # NoTask /\ worker[task[1]][task[3]].at \in Over
      /\ UNCHANGED <<scene, next, worker, scan, outcome>> /\ stop' = stop /\ notifying' = notifying
  BY DEF EndWork, callVars, Finish
<1>2. PoolNext
  BY <1>1, PoolsAre DEF PoolNext
<1>3. PoolInv'
  BY <1>2, PoolNextInv DEF SearchInv
<1>4. /\ Once' /\ ended' = ended \cup {task}
      /\ Pending(0)' = Pending(0) \ {task} /\ \A q \in Pools \ {0} : Pending(q)' = Pending(q)
  BY <1>1, PoolsAre, FinishOnce DEF SearchInv, PoolInv
<1>5. /\ task \in Pending(0)
      /\ task = <<task[1], 0, task[3]>> /\ task[1] \in Calls /\ task[3] \in Workers
  BY <1>1, PoolsAre, RunningIs, TaskIs DEF SearchInv
<1>6. ScanTypes'
  BY <1>1, ScanSame DEF SearchInv, SearchTypes
<1> HIDE DEF task
<1>7. \A c \in Calls, w \in Workers :
        /\ <<c, 0, w>> \in Pending(0)' \cup ended' => <<c, 0, w>> \in Pending(0) \cup ended
        /\ <<c, 0, w>> \in ended' => <<c, 0, w>> \in ended \/ worker[c][w].at \in Over
  <2> TAKE c \in Calls, w \in Workers
  <2>1. <<c, 0, w>> = task => task[1] = c /\ task[3] = w
    OBVIOUS
  <2> QED
    BY <2>1, <1>1, <1>4, <1>5
<1>8. \A c \in Calls, p \in Parts, n \in Slices :
        /\ <<c, p, n>> \in Pending(p)' => <<c, p, n>> \in Pending(p)
        /\ <<c, p, n>> \in ended' => <<c, p, n>> \in ended \cup Pending(p)
  <2> TAKE c \in Calls, p \in Parts, n \in Slices
  <2>1. p # 0 /\ p \in Pools
    BY PoolsAre
  <2>2. <<c, p, n>> # task
    BY <2>1, <1>5
  <2> QED
    BY <2>1, <2>2, <1>4
<1> QED
  BY <1>1, <1>2, <1>3, <1>4, <1>6, <1>7, <1>8, QuietKeeps

\* The task of a slice ends.
LEMMA EndSliceKeeps ==
  ASSUME SearchInv, NEW p \in Parts, NEW i \in Threads, EndSlice(p, i)
  PROVE  SearchInv' /\ [PoolNext]_poolVars
<1> DEFINE task == running[p][i]
<1>1. Finish(p, i) /\ task # NoTask
      /\ UNCHANGED <<scene, next, worker, scan, outcome>> /\ stop' = stop /\ notifying' = notifying
  BY DEF EndSlice, callVars, Finish
<1>2. p \in Pools /\ p # 0
  BY PoolsAre
<1>3. PoolNext
  BY <1>1, <1>2 DEF PoolNext
<1>4. PoolInv'
  BY <1>3, PoolNextInv DEF SearchInv
<1>5. /\ Once' /\ ended' = ended \cup {task}
      /\ Pending(p)' = Pending(p) \ {task} /\ \A q \in Pools \ {p} : Pending(q)' = Pending(q)
  BY <1>1, <1>2, FinishOnce DEF SearchInv, PoolInv
<1>6. task \in Pending(p) /\ task[2] = p
  BY <1>1, <1>2, RunningIs, TaskIs DEF SearchInv
<1>7. ScanTypes'
  BY <1>1, ScanSame DEF SearchInv, SearchTypes
<1> HIDE DEF task
<1>8. \A c \in Calls, w \in Workers :
        /\ <<c, 0, w>> \in Pending(0)' \cup ended' => <<c, 0, w>> \in Pending(0) \cup ended
        /\ <<c, 0, w>> \in ended' => <<c, 0, w>> \in ended \/ worker[c][w].at \in Over
  <2> TAKE c \in Calls, w \in Workers
  <2>1. <<c, 0, w>> # task
    BY <1>2, <1>6
  <2> QED
    BY <2>1, <1>2, <1>5, PoolsAre
<1>9. \A c \in Calls, q \in Parts, n \in Slices :
        /\ <<c, q, n>> \in Pending(q)' => <<c, q, n>> \in Pending(q)
        /\ <<c, q, n>> \in ended' => <<c, q, n>> \in ended \cup Pending(q)
  <2> TAKE c \in Calls, q \in Parts, n \in Slices
  <2>1. <<c, q, n>> = task => q = p
    BY <1>6
  <2> QED
    BY <2>1, <1>5, <1>6, PoolsAre
<1> QED
  BY <1>1, <1>3, <1>4, <1>5, <1>7, <1>8, <1>9, QuietKeeps

\* A worker moves: what the other searches are is left.
LEMMA MoveKeeps ==
  ASSUME SearchInv, NEW c \in Calls, NEW w \in Workers, NEW to \in WorkerStates,
         worker' = [worker EXCEPT ![c][w] = to], worker[c][w].at \notin Over,
         scene' = scene, outcome' = outcome, stop' = stop, ended' = ended,
         next' \in [Calls -> Nat \ {0}], \A d \in Calls : next'[d] >= next[d],
         PoolInv', Once', ScanTypes',
         \A d \in Calls \ {c}, p \in Parts : Len(scan'[d][p]) = Len(scan[d][p]),
         \A d \in Calls \ {c}, v \in Workers :
           <<d, 0, v>> \in Pending(0)' => <<d, 0, v>> \in Pending(0),
         \A d \in Calls \ {c}, p \in Parts, n \in Slices :
           <<d, p, n>> \in Pending(p)' => <<d, p, n>> \in Pending(p),
         WorkOf(c)', \A p \in Parts : PartOf(c, p)', NotifyInv'
  PROVE  SearchInv'
<1>1. /\ worker' \in [Calls -> [Workers -> WorkerStates]]
      /\ \A d \in Calls \ {c} : worker'[d] = worker[d]
      /\ \A v \in Workers : worker'[c][v] = IF v = w THEN to ELSE worker[c][v]
  BY DEF SearchInv, SearchTypes
<1>2. SearchTypes'
  BY <1>1 DEF SearchInv, SearchTypes, WorkerStates, Over
<1>3. ASSUME NEW d \in Calls \ {c} PROVE WorkOf(d)'
  <2>1. WorkOf(d) /\ worker'[d] = worker[d]
    BY <1>1 DEF SearchInv, WorkInv
  <2> QED
    BY <2>1, WorkSame
<1>4. ASSUME NEW d \in Calls \ {c}, NEW p \in Parts PROVE PartOf(d, p)'
  <2>1. PartOf(d, p) /\ worker'[d] = worker[d]
    BY <1>1 DEF SearchInv, SliceInv
  <2>2. next[d] \in Nat /\ next'[d] \in Nat
    BY DEF SearchInv, SearchTypes
  <2>3. PartsNb \in Nat
    BY NumbersOf DEF SearchInv, SearchTypes
  <2>4. \A v \in Workers : /\ At(d, v, p)' <=> At(d, v, p)
                           /\ At(d, v, p) => worker'[d][v].given = worker[d][v].given
    BY <2>1 DEF At
  <2> QED
    BY <2>1, <2>2, <2>3, <2>4, PartSame
<1>5. 0 \in Workers
  BY MaxThreadsAssumption DEF Workers
<1>6. \A d \in Calls : worker[d][0].at \in Over => worker'[d][0].at \in Over
  BY <1>1, <1>5
<1>7. ReturnInv'
  BY <1>6, ReturnSame DEF SearchInv
<1> QED
  BY <1>2, <1>3, <1>4, <1>7 DEF SearchInv, WorkInv, SliceInv

\* The move of a worker that has been given and has begun: who is given is left.
LEMMA WorkMoves ==
  ASSUME SearchInv, NEW c \in Calls, NEW w \in Workers, NEW to \in WorkerStates,
         worker' = [worker EXCEPT ![c][w] = to], worker[c][w].at \notin Over \cup {"hire"},
         to.at \notin {"off", "hire"}, w \in Given(c) \/ worker[c][w].at # "off",
         scene' = scene, ended' = ended,
         \A v \in Workers : <<c, 0, v>> \in Pending(0)' => <<c, 0, v>> \in Pending(0)
  PROVE  WorkOf(c)'
<1>1. \A v \in Workers : worker'[c][v] = IF v = w THEN to ELSE worker[c][v]
  BY DEF SearchInv, SearchTypes
<1>2. WorkOf(c) /\ 0 \in Workers /\ WorkersNb \in Nat
  BY NumbersOf, MaxThreadsAssumption DEF SearchInv, WorkInv, SearchTypes, Workers
<1>3. WorkersNb' = WorkersNb /\ Asked' = Asked
  BY SceneSame
<1>4. Given(c) \in SUBSET (Nat \ {0})
  <2>1. worker[c][0].at = "hire" => worker[c][0].given \in 1..WorkersNb - 1
    BY <1>2 DEF WorkOf
  <2> QED
    BY <2>1, <1>2 DEF Given
<1>5. w = 0 => worker[c][0].at # "off"
  BY <1>4
<1>6. Given(c)' = Given(c)
  BY <1>1, <1>2, <1>3, <1>5 DEF Given
<1>7. w # 0 => w \in Given(c)
  BY <1>2 DEF WorkOf
<1>8. worker'[c][0].at # "off" => c \in Asked
  BY <1>1, <1>2, <1>5 DEF WorkOf
<1>9. worker'[c][0].at = "hire" => worker'[c][0].given \in 1..WorkersNb - 1
  BY <1>1, <1>2 DEF WorkOf
<1>10. \A v \in Workers \ {0} :
         worker'[c][v].at # "off" => worker'[c][v].at # "hire" /\ v \in Given(c)
  BY <1>1, <1>2, <1>7 DEF WorkOf
<1>11. \A v \in Workers :
         /\ <<c, 0, v>> \in Pending(0)' \cup ended' => v \in Given(c)
         /\ <<c, 0, v>> \in ended' => worker'[c][v].at \in Over
  BY <1>1, <1>2 DEF WorkOf
<1> QED
  BY <1>3, <1>6, <1>8, <1>9, <1>10, <1>11 DEF WorkOf, Over

\* A thread of a search goes on.
Moved(c, w, to) ==
  /\ to \in WorkerStates /\ worker' = [worker EXCEPT ![c][w] = to]
  /\ scene' = scene /\ ended' = ended
  /\ next' \in [Calls -> Nat \ {0}] /\ next'[c] >= next[c]

\* A part that it was not at, nor comes to.
Aside(c, w, to, p) ==
  /\ ~At(c, w, p) /\ ~(to.at = "slice" /\ to.part = p)
  /\ Len(scan'[c][p]) = Len(scan[c][p])
  /\ \A n \in Slices : <<c, p, n>> \in Pending(p)' => <<c, p, n>> \in Pending(p)

\* A part that the worker who moves does not scan, before or after.
LEMMA PartAside ==
  ASSUME SearchInv, NEW c \in Calls, NEW w \in Workers, NEW to, Moved(c, w, to),
         NEW p \in Parts, Aside(c, w, to, p)
  PROVE  PartOf(c, p)'
<1>0. /\ to \in WorkerStates /\ worker' = [worker EXCEPT ![c][w] = to]
      /\ scene' = scene /\ ended' = ended
      /\ next' \in [Calls -> Nat \ {0}] /\ next'[c] >= next[c]
  BY DEF Moved
<1>a. /\ ~At(c, w, p) /\ ~(to.at = "slice" /\ to.part = p)
      /\ Len(scan'[c][p]) = Len(scan[c][p])
      /\ \A n \in Slices : <<c, p, n>> \in Pending(p)' => <<c, p, n>> \in Pending(p)
  BY DEF Aside
<1> USE <1>0, <1>a
<1>1. \A v \in Workers : worker'[c][v] = IF v = w THEN to ELSE worker[c][v]
  BY DEF SearchInv, SearchTypes
<1>2. PartOf(c, p) /\ next[c] \in Nat /\ next'[c] \in Nat
  BY DEF SearchInv, SliceInv, SearchTypes
<1>3. PartsNb \in Nat
  BY NumbersOf DEF SearchInv, SearchTypes
<1>4. \A v \in Workers : /\ At(c, v, p)' <=> At(c, v, p)
                         /\ At(c, v, p) => worker'[c][v].given = worker[c][v].given
  BY <1>1 DEF At
<1> QED
  BY <1>2, <1>3, <1>4, PartSame

\* A search starts.
LEMMA StartKeeps ==
  ASSUME SearchInv, NEW c \in Calls, Start(c)
  PROVE  SearchInv' /\ [PoolNext]_poolVars
<1> DEFINE at == IF WorkersNb = 1 THEN "take" ELSE "hire"
           to == [at |-> at, part |-> 0, given |-> 1]
<1>1. /\ worker[c][0].at = "off" /\ worker' = [worker EXCEPT ![c][0] = to] /\ c \in Asked
      /\ UNCHANGED <<scene, next, scan, outcome, poolVars>>
  BY DEF Start, Moves, Asked
<1>2. to \in WorkerStates /\ to.at = at /\ to.given = 1
  BY MaxThreadsAssumption, ScenesAssumption DEF WorkerStates
<1> HIDE DEF to
<1>3. /\ PoolInv' /\ Once' /\ [PoolNext]_poolVars
      /\ ended' = ended /\ stop' = stop /\ \A q \in Pools : Pending(q)' = Pending(q)
  BY <1>1, PoolsStill DEF SearchInv
<1>4. WorkOf(c) /\ 0 \in Workers /\ WorkersNb \in Nat \ {0}
  BY NumbersOf, MaxThreadsAssumption DEF SearchInv, WorkInv, SearchTypes, Workers
<1>5. \A v \in Workers : worker'[c][v] = IF v = 0 THEN to ELSE worker[c][v]
  BY <1>1 DEF SearchInv, SearchTypes
<1>6. WorkersNb' = WorkersNb /\ Asked' = Asked
  BY <1>1, SceneSame
<1>7. Given(c) = {}
  BY <1>1 DEF Given
<1>8. WorkOf(c)'
  <2>1. worker'[c][0].at = "hire" => worker'[c][0].given \in 1..WorkersNb - 1
    BY <1>2, <1>4, <1>5
  <2>2. \A v \in Workers \ {0} : worker'[c][v].at = "off"
    BY <1>4, <1>5, <1>7 DEF WorkOf
  <2>3. \A v \in Workers : <<c, 0, v>> \notin Pending(0)' \cup ended'
    BY <1>3, <1>4, <1>7, PoolsAre DEF WorkOf
  <2> QED
    BY <1>1, <1>6, <2>1, <2>2, <2>3 DEF WorkOf
<1>9. ScanTypes' /\ \A d \in Calls, p \in Parts : Len(scan'[d][p]) = Len(scan[d][p])
  BY <1>1, ScanSame DEF SearchInv, SearchTypes
<1>10. next' \in [Calls -> Nat \ {0}] /\ \A d \in Calls : next'[d] >= next[d]
  BY <1>1 DEF SearchInv, SearchTypes
<1>11. ASSUME NEW p \in Parts PROVE PartOf(c, p)'
  <2>1. ~At(c, 0, p) /\ ~(to.at = "slice" /\ to.part = p)
    BY <1>1, <1>2 DEF At
  <2>2. p \in Pools
    BY PoolsAre
  <2>a. Moved(c, 0, to)
    BY <2>1, <2>2, <1>1, <1>2, <1>3, <1>4, <1>9, <1>10 DEF Moved
  <2>b. Aside(c, 0, to, p)
    BY <2>1, <2>2, <1>1, <1>2, <1>3, <1>4, <1>9, <1>10 DEF Aside
  <2>c. 0 \in Workers
    BY MaxThreadsAssumption DEF Workers
  <2> QED
    BY <2>a, <2>b, <2>c, PartAside
<1>12. worker[c][0].at \notin Over
  BY <1>1 DEF Over
<1>13. NotifyInv'
  <2>1. to.at \in Giving
    BY <1>2 DEF Giving
  <2> QED
    BY <2>1, <1>1, <1>4, NotifyStill
<1>14. SearchInv'
  BY <1>1, <1>2, <1>3, <1>4, <1>8, <1>9, <1>10, <1>11, <1>12, <1>13, PoolsAre, MoveKeeps
<1> QED
  BY <1>3, <1>14

\* The caller gives one more `work`.
LEMMA HireKeeps ==
  ASSUME SearchInv, NEW c \in Calls, Hire(c)
  PROVE  SearchInv' /\ [PoolNext]_poolVars
<1> DEFINE w == worker[c][0].given
           to == [at |-> IF w + 1 < WorkersNb THEN "hire" ELSE "take", part |-> 0, given |-> w + 1]
           task == <<c, 0, w>>
<1>1. /\ worker[c][0].at = "hire" /\ worker' = [worker EXCEPT ![c][0] = to]
      /\ Run(0, <<c, 0>>, task, WorkersNb - 1) /\ UNCHANGED <<scene, next, scan, outcome>>
      /\ stop' = stop /\ ~InRun(<<c, 0>>)
  BY DEF Hire, Moves, Run
<1>2. WorkOf(c) /\ 0 \in Workers /\ WorkersNb \in Nat \ {0} /\ WorkersNb - 1 <= MaxThreads
      /\ MaxThreads \in Nat
  BY NumbersOf, MaxThreadsAssumption DEF SearchInv, WorkInv, SearchTypes, Workers
<1>3. w \in 1..WorkersNb - 1
  BY <1>1, <1>2 DEF WorkOf
<1>4. to \in WorkerStates /\ to.given = w + 1 /\ to.at \in {"hire", "take"}
      /\ (to.at = "hire" <=> w + 1 < WorkersNb)
  <2>1. w + 1 \in 0..MaxThreads + 1
    BY <1>2, <1>3
  <2> HIDE DEF w
  <2> QED
    BY <2>1, ScenesAssumption DEF WorkerStates
<1>5. Given(c) = 1..w - 1
  BY <1>1 DEF Given
<1> HIDE DEF w, to
<1>6. w \in Workers /\ w \notin Given(c) /\ w # 0
  BY <1>2, <1>3, <1>5 DEF Workers
<1> HIDE DEF task
<1>7. task \in Tasks /\ task[2] = 0
  BY <1>6, PoolsAssumption DEF task
<1>8. task \notin Pending(0) /\ task \notin ended
  BY <1>2, <1>6 DEF WorkOf, task
<1>9. /\ Once' /\ ended' = ended /\ Pending(0)' = Pending(0) \cup {task}
      /\ \A q \in Pools \ {0} : Pending(q)' = Pending(q)
  BY <1>1, <1>7, <1>8, PoolsAre, RunOnce DEF SearchInv, PoolInv
<1>10. ~stop[0]
  BY <1>1, <1>2, PoolsAre, ActiveIs DEF Over
<1>11. WorkersNb - 1 \in Threads
  BY <1>2, <1>3 DEF Threads
<1>12. PoolNext
  <2>1. <<c, 0>> \in Callers
    BY <1>2, PoolsAssumption
  <2> QED
    BY <2>1, <1>1, <1>7, <1>10, <1>11, PoolsAre DEF PoolNext
<1>13. PoolInv'
  BY <1>12, PoolNextInv DEF SearchInv
<1>14. \A v \in Workers : worker'[c][v] = IF v = 0 THEN to ELSE worker[c][v]
  BY <1>1 DEF SearchInv, SearchTypes
<1>15. WorkersNb' = WorkersNb /\ Asked' = Asked
  BY <1>1, SceneSame
<1>16. Given(c)' = 1..w
  <2>1. worker'[c][0] = to
    BY <1>2, <1>14
  <2>2. CASE to.at = "hire"
    BY <2>1, <2>2, <1>3, <1>4 DEF Given
  <2>3. CASE to.at = "take"
    <3>1. w = WorkersNb - 1
      BY <2>3, <1>2, <1>3, <1>4
    <3> QED
      BY <3>1, <2>1, <2>3, <1>15 DEF Given
  <2> QED
    BY <2>2, <2>3, <1>4
<1>17. WorkOf(c)'
  <2>1. \A v \in Given(c) : v \in 1..w
    BY <1>3, <1>5
  <2>2. w \in 1..w /\ 0 \notin Given(c)
    BY <1>3, <1>5
  <2>3. c \in Asked
    BY <1>1, <1>2 DEF WorkOf
  <2>4. worker'[c][0].at = "hire" => worker'[c][0].given \in 1..WorkersNb - 1
    BY <1>2, <1>3, <1>4, <1>14
  <2>5. \A v \in Workers \ {0} : worker'[c][v].at # "off" => worker'[c][v].at # "hire" /\ v \in 1..w
    BY <2>1, <1>2, <1>14 DEF WorkOf
  <2>6. \A v \in Workers :
          /\ <<c, 0, v>> \in Pending(0)' \cup ended' => v \in 1..w
          /\ <<c, 0, v>> \in ended' => worker'[c][v].at \in Over
    <3> TAKE v \in Workers
    <3>1. <<c, 0, v>> = task => v = w
      BY DEF task
    <3>2. <<c, 0, v>> \in Pending(0) \cup ended => v \in Given(c)
      BY <1>2 DEF WorkOf
    <3>3. <<c, 0, v>> \in ended => v # 0 /\ worker[c][v].at \in Over
      BY <3>2, <2>2, <1>2 DEF WorkOf
    <3> QED
      BY <3>1, <3>2, <3>3, <2>1, <2>2, <1>9, <1>14
  <2> QED
    BY <1>15, <1>16, <2>3, <2>4, <2>5, <2>6 DEF WorkOf, Over
<1>18. ScanTypes' /\ \A d \in Calls, p \in Parts : Len(scan'[d][p]) = Len(scan[d][p])
  BY <1>1, ScanSame DEF SearchInv, SearchTypes
<1>19. next' \in [Calls -> Nat \ {0}] /\ \A d \in Calls : next'[d] >= next[d]
  BY <1>1 DEF SearchInv, SearchTypes
<1>20. \A d \in Calls, p \in Parts, n \in Slices :
         <<d, p, n>> \in Pending(p)' => <<d, p, n>> \in Pending(p)
  BY <1>9, PoolsAre
<1>21. ASSUME NEW p \in Parts PROVE PartOf(c, p)'
  <2>1. ~At(c, 0, p) /\ ~(to.at = "slice" /\ to.part = p)
    BY <1>1, <1>4 DEF At
  <2>a. Moved(c, 0, to)
    BY <2>1, <1>1, <1>2, <1>4, <1>9, <1>18, <1>19, <1>20 DEF Moved
  <2>b. Aside(c, 0, to, p)
    BY <2>1, <1>1, <1>2, <1>4, <1>9, <1>18, <1>19, <1>20 DEF Aside
  <2>c. 0 \in Workers
    BY MaxThreadsAssumption DEF Workers
  <2> QED
    BY <2>a, <2>b, <2>c, PartAside
<1>22. \A d \in Calls \ {c}, v \in Workers :
         <<d, 0, v>> \in Pending(0)' => <<d, 0, v>> \in Pending(0)
  BY <1>9 DEF task
<1>23. worker[c][0].at \notin Over
  BY <1>1 DEF Over
<1>24. NotifyInv'
  <2>1. to.at \in Giving
    BY <1>4 DEF Giving
  <2>2. \A p \in Pools : notifying'[p] \subseteq notifying[p] \cup {<<c, 0>>}
    BY <1>1, RunCallers DEF SearchInv, PoolInv
  <2> QED
    BY <2>1, <2>2, <1>1, <1>2, NotifyMoves
<1>25. SearchInv'
  BY <1>1, <1>2, <1>4, <1>9, <1>13, <1>17, <1>18, <1>19, <1>20, <1>21, <1>22, <1>23, <1>24,
     MoveKeeps
<1> QED
  BY <1>12, <1>25

\* A step of a worker that leaves the pools alone.
LEMMA WorkerKeeps ==
  ASSUME SearchInv, NEW c \in Calls, NEW w \in Workers, NEW to \in WorkerStates,
         worker' = [worker EXCEPT ![c][w] = to], worker[c][w].at \notin Over \cup {"hire"},
         to.at \notin {"off", "hire"}, w \in Given(c) \/ worker[c][w].at # "off",
         UNCHANGED <<scene, outcome, poolVars>>,
         next' \in [Calls -> Nat \ {0}], \A d \in Calls : next'[d] >= next[d], ScanTypes',
         \A d \in Calls \ {c}, p \in Parts : Len(scan'[d][p]) = Len(scan[d][p]),
         \A p \in Parts : PartOf(c, p)', InRun(<<c, w>>) => to.at \in Giving
  PROVE  SearchInv' /\ [PoolNext]_poolVars
<1>1. /\ PoolInv' /\ Once' /\ [PoolNext]_poolVars
      /\ ended' = ended /\ stop' = stop /\ \A q \in Pools : Pending(q)' = Pending(q)
  BY PoolsStill DEF SearchInv
<1>2. WorkOf(c)'
  BY <1>1, PoolsAre, WorkMoves
<1>3. worker[c][w].at \notin Over
  OBVIOUS
<1>4. NotifyInv'
  BY NotifyStill
<1>5. SearchInv'
  BY <1>1, <1>2, <1>3, <1>4, PoolsAre, MoveKeeps
<1> QED
  BY <1>1, <1>5

\* A thread starts on a `work`.
LEMMA StartWorkKeeps ==
  ASSUME SearchInv, NEW i \in Threads, StartWork(i)
  PROVE  SearchInv' /\ [PoolNext]_poolVars
<1> DEFINE task == running[0][i]
           to == [at |-> "take", part |-> 0, given |-> 0]
<1>0. /\ task # NoTask /\ worker[task[1]][task[3]].at = "off"
      /\ worker' = [worker EXCEPT ![task[1]][task[3]] = to]
      /\ UNCHANGED <<scene, next, scan, outcome, poolVars>>
  BY DEF StartWork, Moves
<1>2. PICK c \in Calls, w \in Workers : task = <<c, 0, w>> /\ <<c, 0, w>> \in Pending(0)
  <2>1. task \in Pending(0)
    BY <1>0, PoolsAre, RunningIs
  <2>2. task = <<task[1], 0, task[3]>> /\ task[1] \in Calls /\ task[3] \in Workers
    BY <2>1, PoolsAre, TaskIs DEF SearchInv
  <2> HIDE DEF task
  <2> QED
    BY <2>1, <2>2
<1> HIDE DEF task
<1>1. /\ worker[c][w].at = "off" /\ worker' = [worker EXCEPT ![c][w] = to]
      /\ UNCHANGED <<scene, next, scan, outcome, poolVars>>
  BY <1>0, <1>2
<1>3. to \in WorkerStates /\ to.at = "take"
  BY MaxThreadsAssumption, ScenesAssumption DEF WorkerStates
<1> HIDE DEF to
<1>4. w \in Given(c)
  <2>1. WorkOf(c)
    BY <1>2 DEF SearchInv, WorkInv
  <2> QED
    BY <2>1, <1>2 DEF WorkOf
<1>5. ScanTypes' /\ \A d \in Calls, p \in Parts : Len(scan'[d][p]) = Len(scan[d][p])
  BY <1>1, ScanSame DEF SearchInv, SearchTypes
<1>6. next' \in [Calls -> Nat \ {0}] /\ \A d \in Calls : next'[d] >= next[d]
  BY <1>1 DEF SearchInv, SearchTypes
<1>7. ended' = ended /\ \A p \in Parts : Pending(p)' = Pending(p)
  BY <1>1, PoolsStill, PoolsAre DEF SearchInv
<1>8. ASSUME NEW p \in Parts PROVE PartOf(c, p)'
  <2>1. ~At(c, w, p) /\ ~(to.at = "slice" /\ to.part = p)
    BY <1>1, <1>3 DEF At
  <2>a. Moved(c, w, to)
    BY <2>1, <1>1, <1>2, <1>3, <1>5, <1>6, <1>7 DEF Moved
  <2>b. Aside(c, w, to, p)
    BY <2>1, <1>1, <1>2, <1>3, <1>5, <1>6, <1>7 DEF Aside
  <2> QED
    BY <2>a, <2>b, PartAside
<1>9. worker[c][w].at \notin Over \cup {"hire"} /\ to.at \notin {"off", "hire"}
  BY <1>1, <1>3 DEF Over
<1>10. to.at \in Giving
  BY <1>3 DEF Giving
<1> QED
  BY <1>1, <1>2, <1>3, <1>4, <1>5, <1>6, <1>8, <1>9, <1>10, WorkerKeeps

\* A part has one slice at least, and no more than its threads.
LEMMA SlicesAre ==
  ASSUME scene \in Scenes, NEW infos
  PROVE  IsList(SlicesOf(infos, Inner)) /\ Len(SlicesOf(infos, Inner)) >= 1
<1> DEFINE first == Min({infos[t].blocks[1].first : t \in DOMAIN infos})
           last == Max({Last(infos[t].blocks).last : t \in DOMAIN infos})
           S == {n \in 1..Inner : n = 1 \/ n <= (last - first) \div SliceSpan + 1}
           m == Max(S)
           Slice(s) == NewScan(SliceOf(first, last, m, s), IF s < m THEN "given" ELSE "window")
           list == [s \in 1..m |-> Slice(s)]
<1>1. SlicesOf(infos, Inner) = list
  BY DEF SlicesOf
<1>2. Inner \in 1..MaxThreads + 1 /\ MaxThreads \in Nat
  BY NumbersOf, MaxThreadsAssumption
<1>3. m \in 1..Inner
  <2>1. S \in SUBSET (1..Inner) /\ 1 \in S /\ Inner \in Nat
    BY <1>2
  <2> HIDE DEF S
  <2> QED
    BY <2>1, LargestUpTo
<1> HIDE DEF m, Slice
<1>4. m \in 0..MaxThreads + 1 /\ m \in Nat /\ m >= 1
  BY <1>2, <1>3
<1>5. list = [s \in 1..m |-> list[s]]
  OBVIOUS
<1> HIDE DEF list
<1>6. DOMAIN list = 1..m /\ Len(list) = m
  BY <1>4, <1>5, ListIs
<1> QED
  BY <1>1, <1>4, <1>5, <1>6 DEF IsList

\* The next part is taken, or there is none left.
LEMMA TakePartKeeps ==
  ASSUME SearchInv, NEW c \in Calls, NEW w \in Workers, TakePart(c, w)
  PROVE  SearchInv' /\ [PoolNext]_poolVars
<1>1. /\ worker[c][w].at = "take" /\ next' = [next EXCEPT ![c] = @ + 1]
      /\ UNCHANGED <<scene, outcome, poolVars>> /\ ~InRun(<<c, w>>)
  BY DEF TakePart
<1>2. /\ scene \in Scenes /\ next \in [Calls -> Nat \ {0}] /\ ScanTypes
      /\ worker \in [Calls -> [Workers -> WorkerStates]] /\ worker[c][w] \in WorkerStates
  BY DEF SearchInv, SearchTypes
<1>3. /\ next' \in [Calls -> Nat \ {0}] /\ \A d \in Calls : next'[d] >= next[d]
      /\ next[c] \in Nat \ {0} /\ next'[c] = next[c] + 1
  BY <1>1, <1>2
<1>4. worker[c][w].at \notin Over \cup {"hire"} /\ worker[c][w].at # "off"
  BY <1>1 DEF Over
<1>5. ended' = ended /\ \A p \in Parts : Pending(p)' = Pending(p)
  BY <1>1, PoolsStill, PoolsAre DEF SearchInv
<1>6. \A p : ~At(c, w, p)
  BY <1>1 DEF At
<1>7. ASSUME NEW to \in WorkerStates, to.at \in {"take", "over"},
             worker' = [worker EXCEPT ![c][w] = to], scan' = scan
      PROVE  SearchInv' /\ [PoolNext]_poolVars
  <2>1. ScanTypes' /\ \A d \in Calls, p \in Parts : Len(scan'[d][p]) = Len(scan[d][p])
    BY <1>2, <1>7, ScanSame
  <2>2. \A p \in Parts : PartOf(c, p)'
    <3> TAKE p \in Parts
    <3>1. ~(to.at = "slice" /\ to.part = p)
      BY <1>7
    <3>a. Moved(c, w, to)
      BY <3>1, <2>1, <1>1, <1>3, <1>5, <1>6, <1>7 DEF Moved
    <3>b. Aside(c, w, to, p)
      BY <3>1, <2>1, <1>1, <1>3, <1>5, <1>6, <1>7 DEF Aside
    <3> QED
      BY <3>a, <3>b, PartAside
  <2>3. to.at \notin {"off", "hire"}
    BY <1>7
  <2> QED
    BY <2>1, <2>2, <2>3, <1>1, <1>3, <1>4, <1>7, WorkerKeeps
<1>8. CASE next[c] > PartsNb /\ worker' = [worker EXCEPT ![c][w] = [@ EXCEPT !.at = "over"]]
           /\ scan' = scan
  <2> DEFINE to == [worker[c][w] EXCEPT !.at = "over"]
  <2>1. to \in WorkerStates /\ to.at = "over" /\ worker' = [worker EXCEPT ![c][w] = to]
    BY <1>2, <1>8 DEF WorkerStates, Over
  <2> HIDE DEF to
  <2> QED
    BY <2>1, <1>7, <1>8
<1>9. CASE worker' = worker /\ scan' = scan
  <2> DEFINE to == worker[c][w]
  <2>1. to \in WorkerStates /\ to.at = "take" /\ worker' = [worker EXCEPT ![c][w] = to]
    BY <1>1, <1>2, <1>9
  <2> HIDE DEF to
  <2> QED
    BY <2>1, <1>7, <1>9
<1>10. ASSUME next[c] <= PartsNb, NEW p, p = BySize[next[c]], NEW infos,
              scan' = [scan EXCEPT ![c][p] = SlicesOf(infos, Inner)],
              worker' = [worker EXCEPT ![c][w] = [at |-> "slice", part |-> p, given |-> 1]]
       PROVE  SearchInv' /\ [PoolNext]_poolVars
  <2> DEFINE to == [at |-> "slice", part |-> p, given |-> 1]
             slices == SlicesOf(infos, Inner)
  <2>1. PartsNb \in 1..MaxParts /\ PartsNb \in Nat /\ next[c] \in 1..PartsNb
    BY <1>2, <1>3, <1>10, NumbersOf
  <2>2. p \in 1..PartsNb /\ \A k \in 1..PartsNb : BySize[k] = p => k = next[c]
    BY <2>1, <1>2, <1>10, BySizeOnce
  <2>3. p \in Parts /\ p \in 0..MaxParts /\ p # 0
    BY <2>1, <2>2, PoolsAre DEF Parts
  <2>4. ~Taken(c, p)
    <3>1. \A m \in 1..PartsNb : m < next[c] => m # next[c]
      BY <2>1
    <3> QED
      BY <3>1, <2>2 DEF Taken
  <2>5. Taken(c, p)'
    <3>1. next[c] \in 1..PartsNb /\ next[c] < next'[c] /\ BySize[next[c]] = p
      BY <2>1, <1>3, <1>10
    <3>2. PartsNb' = PartsNb /\ BySize' = BySize
      BY <1>1, SceneSame
    <3> DEFINE n == next[c]
    <3>3. n \in 1..PartsNb' /\ n < next'[c] /\ BySize'[n] = p
      BY <3>1, <3>2
    <3> HIDE DEF n
    <3> QED
      BY <3>3 DEF Taken
  <2>6. to \in WorkerStates /\ to.at = "slice" /\ to.part = p /\ to.given = 1
    BY <2>3, MaxThreadsAssumption DEF WorkerStates
  <2>7. IsList(slices) /\ Len(slices) >= 1
    BY <1>2, SlicesAre
  <2> HIDE DEF to, slices
  <2>8. /\ DOMAIN scan' = Calls /\ \A d \in Calls : DOMAIN scan'[d] = Parts
        /\ \A d \in Calls, q \in Parts :
             scan'[d][q] = IF d = c /\ q = p THEN slices ELSE scan[d][q]
    BY <1>2, <1>10, <2>3 DEF ScanTypes, slices
  <2>9. ScanTypes'
    <3>1. \A d \in Calls, q \in Parts : IsList(scan'[d][q])
      BY <2>7, <2>8, <1>2 DEF ScanTypes
    <3>2. \A d \in Calls, q \in Parts : IsList(scan[d][q])'
      BY <3>1 DEF IsList
    <3> QED
      BY <2>8, <3>2 DEF ScanTypes
  <2>10. worker' = [worker EXCEPT ![c][w] = to]
    BY <1>10 DEF to
  <2>11. \A v \in Workers : worker'[c][v] = IF v = w THEN to ELSE worker[c][v]
    BY <2>10, <1>2
  <2>12. PartOf(c, p)'
    <3>1. PartOf(c, p)
      BY <2>3 DEF SearchInv, SliceInv
    <3>2. \A v \in Workers : ~At(c, v, p)
      BY <3>1, <2>4 DEF PartOf
    <3>3. \A v \in Workers : At(c, v, p)' => v = w
      BY <3>2, <2>11 DEF At
    <3>4. \A n \in Slices : <<c, p, n>> \notin Pending(p)' \cup ended'
      BY <3>1, <2>3, <2>4, <1>5 DEF PartOf
    <3>5. worker'[c][w].given \in 1..Len(scan'[c][p])
      <4>1. Len(slices) \in Nat
        BY <2>7, MaxThreadsAssumption DEF IsList
      <4> QED
        BY <4>1, <2>3, <2>6, <2>7, <2>8, <2>11
    <3> QED
      BY <2>5, <3>3, <3>4, <3>5 DEF PartOf
  <2>13. \A q \in Parts : PartOf(c, q)'
    <3> SUFFICES ASSUME NEW q \in Parts, q # p PROVE PartOf(c, q)'
      BY <2>12
    <3>1. ~(to.at = "slice" /\ to.part = q)
      BY <2>6
    <3>2. Len(scan'[c][q]) = Len(scan[c][q])
      BY <2>8
    <3>a. Moved(c, w, to)
      BY <3>1, <3>2, <2>6, <2>10, <1>1, <1>3, <1>5, <1>6 DEF Moved
    <3>b. Aside(c, w, to, q)
      BY <3>1, <3>2, <2>6, <2>10, <1>1, <1>3, <1>5, <1>6 DEF Aside
    <3> QED
      BY <3>a, <3>b, PartAside
  <2>14. \A d \in Calls \ {c}, q \in Parts : Len(scan'[d][q]) = Len(scan[d][q])
    BY <2>8
  <2>15. to.at \notin {"off", "hire"}
    BY <2>6
  <2> QED
    BY <2>6, <2>9, <2>10, <2>13, <2>14, <2>15, <1>1, <1>3, <1>4, WorkerKeeps
<1>11. CASE next[c] > PartsNb /\ Moves(c, w, "take", [worker[c][w] EXCEPT !.at = "over"])
            /\ UNCHANGED <<terms, scan, found>>
  <2>1. worker' = [worker EXCEPT ![c][w] = [@ EXCEPT !.at = "over"]] /\ scan' = scan
    BY <1>11 DEF Moves
  <2> QED
    BY <2>1, <1>8, <1>11
<1>12. CASE /\ next[c] <= PartsNb
            /\ \E p \in {BySize[next[c]]} :
               \E infos \in {IF Prunable(scene.parts[p], scene.query[c])
                             THEN TermInfos(scene.parts[p], scene.query[c]) ELSE <<>>} :
                 \/ /\ infos # <<>>
                    /\ terms' = [terms EXCEPT ![c][p] = infos]
                    /\ scan' = [scan EXCEPT ![c][p] = SlicesOf(infos, Inner)]
                    /\ Moves(c, w, "take", [at |-> "slice", part |-> p, given |-> 1])
                    /\ UNCHANGED found
                 \/ /\ infos = <<>>
                    /\ found' = [found EXCEPT ![c][p] =
                                   Exhaustive(scene.parts[p], scene.query[c], scene.topK)]
                    /\ UNCHANGED <<worker, terms, scan>>
  <2>1. \/ \E p \in {BySize[next[c]]} : \E infos :
             /\ scan' = [scan EXCEPT ![c][p] = SlicesOf(infos, Inner)]
             /\ worker' = [worker EXCEPT ![c][w] = [at |-> "slice", part |-> p, given |-> 1]]
        \/ worker' = worker /\ scan' = scan
    BY <1>12 DEF Moves
  <2> QED
    BY <2>1, <1>9, <1>10, <1>12
<1> QED
  BY <1>11, <1>12 DEF TakePart

\* One more slice goes to the pool of the part's scorer.
LEMMA GiveSliceKeeps ==
  ASSUME SearchInv, NEW c \in Calls, NEW w \in Workers, GiveSlice(c, w)
  PROVE  SearchInv' /\ [PoolNext]_poolVars
<1>1. worker[c][w] \in WorkerStates /\ ScanTypes /\ scene \in Scenes
  BY DEF SearchInv, SearchTypes
<1>2. PICK p \in Parts, n \in 1..MaxThreads + 1, m \in 1..MaxThreads + 1 :
        /\ At(c, w, p) /\ worker[c][w].given = n /\ Len(scan[c][p]) = m /\ n < m
        /\ worker' = [worker EXCEPT ![c][w] = [worker[c][w] EXCEPT !.given = n + 1]]
        /\ Run(p, <<c, w>>, <<c, p, n>>, m - 1)
  <2> DEFINE p == worker[c][w].part
             n == worker[c][w].given
             m == Len(scan[c][p])
  <2>1. /\ worker[c][w].at = "slice" /\ n < m
        /\ worker' = [worker EXCEPT ![c][w] = [worker[c][w] EXCEPT !.given = n + 1]]
        /\ Run(p, <<c, w>>, <<c, p, n>>, m - 1)
    BY DEF GiveSlice, Moves
  <2>2. p \in Parts
    <3>1. p \in 0..MaxParts /\ p # 0
      BY <1>1, <2>1 DEF WorkerStates
    <3> HIDE DEF p
    <3> QED
      BY <3>1, PoolsAre DEF Parts
  <2>3. At(c, w, p) /\ PartOf(c, p)
    BY <2>1, <2>2 DEF At, SearchInv, SliceInv
  <2>4. n \in 1..m
    BY <2>3 DEF PartOf
  <2>5. m \in 0..MaxThreads + 1
    BY <1>1, <2>2 DEF ScanTypes, IsList
  <2> HIDE DEF p, n, m
  <2>6. n \in 1..MaxThreads + 1 /\ m \in 1..MaxThreads + 1
    BY <2>4, <2>5, MaxThreadsAssumption
  <2> QED
    BY <2>1, <2>2, <2>3, <2>6 DEF n, m
<1> DEFINE task == <<c, p, n>>
           to == [worker[c][w] EXCEPT !.given = n + 1]
<1>3. UNCHANGED <<scene, next, scan, outcome>> /\ stop' = stop /\ ~InRun(<<c, w>>)
  BY <1>2 DEF GiveSlice, Run
<1>4. /\ to \in WorkerStates /\ to.at = "slice" /\ to.part = p /\ to.given = n + 1
      /\ MaxThreads \in Nat
  <2>1. n + 1 \in 0..MaxThreads + 1 /\ MaxThreads \in Nat
    BY <1>2, MaxThreadsAssumption
  <2> QED
    BY <2>1, <1>1, <1>2 DEF WorkerStates, At
<1> HIDE DEF to, task
<1>5. p \in Pools /\ p # 0 /\ 0 \in Pools
  BY PoolsAre
<1>6. PartOf(c, p)
  BY DEF SearchInv, SliceInv
<1>7. n \in Slices /\ task \in Tasks /\ task[2] = p
  BY <1>2, PoolsAssumption DEF task, Slices
<1>8. task \notin Pending(p) /\ task \notin ended
  <2>1. task \notin ended
    BY <1>2, <1>6, <1>7 DEF PartOf, task
  <2>2. ASSUME task \in Pending(p) PROVE FALSE
    <3>1. PICK v \in Workers : At(c, v, p) /\ n < worker[c][v].given
      BY <2>2, <1>6, <1>7 DEF PartOf, task
    <3>2. v = w
      BY <3>1, <1>2, <1>6 DEF PartOf
    <3> QED
      BY <3>1, <3>2, <1>2
  <2> QED
    BY <2>1, <2>2
<1>9. /\ Once' /\ ended' = ended /\ Pending(p)' = Pending(p) \cup {task}
      /\ \A q \in Pools \ {p} : Pending(q)' = Pending(q)
  BY <1>2, <1>5, <1>7, <1>8, RunOnce DEF SearchInv, PoolInv, task
<1>10. worker[c][w].at \notin Over \cup {"hire", "off"} /\ worker[c][w].at \notin Over
  BY <1>2 DEF At, Over
<1>11. PoolNext
  <2>1. ~stop[p]
    BY <1>5, <1>10, ActiveIs
  <2>2. m - 1 \in Threads
    BY <1>2, <1>4 DEF Threads
  <2>3. <<c, w>> \in Callers
    BY PoolsAssumption
  <2> QED
    BY <2>1, <2>2, <2>3, <1>2, <1>3, <1>5, <1>7 DEF PoolNext, task
<1>12. PoolInv'
  BY <1>11, PoolNextInv DEF SearchInv
<1>13. worker' = [worker EXCEPT ![c][w] = to]
  BY <1>2 DEF to
<1>14. \A v \in Workers : worker'[c][v] = IF v = w THEN to ELSE worker[c][v]
  BY <1>13 DEF SearchInv, SearchTypes
<1>15. ScanTypes' /\ \A d \in Calls, q \in Parts : Len(scan'[d][q]) = Len(scan[d][q])
  BY <1>1, <1>3, ScanSame
<1>16. next' \in [Calls -> Nat \ {0}] /\ \A d \in Calls : next'[d] >= next[d]
  BY <1>3 DEF SearchInv, SearchTypes
<1>17. WorkOf(c)'
  <2>1. \A v \in Workers : <<c, 0, v>> \in Pending(0)' => <<c, 0, v>> \in Pending(0)
    BY <1>5, <1>9
  <2>2. to.at \notin {"off", "hire"}
    BY <1>4
  <2>3. worker[c][w].at \notin Over \cup {"hire"} /\ worker[c][w].at # "off"
    BY <1>10
  <2> QED
    BY <2>1, <2>2, <2>3, <1>3, <1>4, <1>9, <1>13, WorkMoves
<1>18. PartOf(c, p)'
  <2>1. Taken(c, p)'
    <3>1. Taken(c, p)
      BY <1>2, <1>6 DEF PartOf
    <3> QED
      BY <3>1, <1>3, SceneSame DEF Taken
  <2>2. \A v \in Workers : At(c, v, p)' <=> At(c, v, p)
    BY <1>2, <1>4, <1>14 DEF At
  <2>3. worker'[c][w].given = n + 1
    BY <1>4, <1>14
  <2>4. \A v \in Workers : At(c, v, p) => v = w
    BY <1>2, <1>6 DEF PartOf
  <2>5. Len(scan'[c][p]) = m /\ n + 1 \in 1..m
    BY <1>2, <1>15
  <2>6. \A k \in Slices : <<c, p, k>> \in Pending(p)' => k < n + 1
    <3> TAKE k \in Slices
    <3>1. <<c, p, k>> = task => k = n
      BY DEF task
    <3>2. <<c, p, k>> \in Pending(p) => k < n
      BY <2>4, <1>2, <1>6 DEF PartOf
    <3>3. k \in Nat /\ n \in Nat
      BY <1>2 DEF Slices
    <3> QED
      BY <3>1, <3>2, <3>3, <1>9
  <2>7. \A k \in Slices : <<c, p, k>> \in ended' => k < n + 1
    <3> TAKE k \in Slices
    <3>1. <<c, p, k>> \in ended => k < n
      BY <1>2, <1>6 DEF PartOf
    <3>2. k \in Nat /\ n \in Nat
      BY <1>2 DEF Slices
    <3> QED
      BY <3>1, <3>2, <1>9
  <2>8. At(c, w, p)'
    BY <2>2, <1>2
  <2> QED
    BY <2>1, <2>2, <2>3, <2>4, <2>5, <2>6, <2>7, <2>8 DEF PartOf
<1>19. \A q \in Parts : PartOf(c, q)'
  <2> SUFFICES ASSUME NEW q \in Parts, q # p PROVE PartOf(c, q)'
    BY <1>18
  <2>1. ~At(c, w, q) /\ ~(to.at = "slice" /\ to.part = q)
    BY <1>2, <1>4 DEF At
  <2>2. \A k \in Slices : <<c, q, k>> \in Pending(q)' => <<c, q, k>> \in Pending(q)
    BY <1>9, PoolsAre
  <2>a. Moved(c, w, to)
    BY <2>1, <2>2, <1>3, <1>4, <1>9, <1>13, <1>15, <1>16 DEF Moved
  <2>b. Aside(c, w, to, q)
    BY <2>1, <2>2, <1>3, <1>4, <1>9, <1>13, <1>15, <1>16 DEF Aside
  <2> QED
    BY <2>a, <2>b, PartAside
<1>20. /\ \A d \in Calls \ {c}, v \in Workers :
            <<d, 0, v>> \in Pending(0)' => <<d, 0, v>> \in Pending(0)
       /\ \A d \in Calls \ {c}, q \in Parts, k \in Slices :
            <<d, q, k>> \in Pending(q)' => <<d, q, k>> \in Pending(q)
  BY <1>5, <1>9, PoolsAre DEF task
<1>21. NotifyInv'
  <2>1. to.at \in Giving
    BY <1>4 DEF Giving
  <2>2. \A q \in Pools : notifying'[q] \subseteq notifying[q] \cup {<<c, w>>}
    BY <1>2, RunCallers DEF SearchInv, PoolInv
  <2> QED
    BY <2>1, <2>2, <1>13, NotifyMoves
<1>22. SearchInv'
  BY <1>3, <1>4, <1>9, <1>10, <1>12, <1>13, <1>15, <1>16, <1>17, <1>19, <1>20, <1>21, MoveKeeps
<1> QED
  BY <1>11, <1>22

\* A part is over: its slices have ended.
LEMMA EndPartKeeps ==
  ASSUME SearchInv, NEW c \in Calls, NEW w \in Workers, EndPart(c, w)
  PROVE  SearchInv' /\ [PoolNext]_poolVars
<1> DEFINE part == worker[c][w].part
<1>1. worker[c][w] \in WorkerStates /\ ScanTypes /\ scene \in Scenes
  BY DEF SearchInv, SearchTypes
<1>2. /\ worker[c][w].at = "slice" /\ worker[c][w].given = Len(scan[c][part])
      /\ \A n \in 1..Len(scan[c][part]) - 1 : <<c, part, n>> \in ended
      /\ \E at \in {"failed", "take"} :
           worker' = [worker EXCEPT ![c][w] = [worker[c][w] EXCEPT !.at = at]]
      /\ UNCHANGED <<scene, next, scan, outcome, poolVars>> /\ ~InRun(<<c, w>>)
  BY DEF EndPart, Awaited, Moves
<1>3. part \in Parts
  BY <1>1, <1>2, PoolsAre DEF WorkerStates, Parts
<1>4. PICK p \in Parts : p = part
  BY <1>3
<1>5. PICK at \in {"failed", "take"} :
        worker' = [worker EXCEPT ![c][w] = [worker[c][w] EXCEPT !.at = at]]
  BY <1>2
<1> DEFINE to == [worker[c][w] EXCEPT !.at = at]
<1>6. to \in WorkerStates /\ to.at = at
  BY <1>1 DEF WorkerStates, Over
<1>7. worker' = [worker EXCEPT ![c][w] = to]
  BY <1>5
<1>8. /\ At(c, w, p) /\ worker[c][w].given = Len(scan[c][p])
      /\ \A n \in 1..Len(scan[c][p]) - 1 : <<c, p, n>> \in ended
  BY <1>2, <1>4 DEF At
<1>9. PartOf(c, p) /\ p \in Pools
  BY PoolsAre DEF SearchInv, SliceInv
<1> HIDE DEF to, part
<1>10. /\ ended' = ended /\ \A q \in Parts : Pending(q)' = Pending(q)
  BY <1>2, PoolsStill, PoolsAre DEF SearchInv
<1>11. \A v \in Workers : worker'[c][v] = IF v = w THEN to ELSE worker[c][v]
  BY <1>7 DEF SearchInv, SearchTypes
<1>12. ScanTypes' /\ \A d \in Calls, q \in Parts : Len(scan'[d][q]) = Len(scan[d][q])
  BY <1>1, <1>2, ScanSame
<1>13. next' \in [Calls -> Nat \ {0}] /\ \A d \in Calls : next'[d] >= next[d]
  BY <1>2 DEF SearchInv, SearchTypes
<1>14. \A v \in Workers : ~At(c, v, p)'
  <2>1. \A v \in Workers : At(c, v, p) => v = w
    BY <1>8, <1>9 DEF PartOf
  <2> QED
    BY <2>1, <1>6, <1>11 DEF At
<1>15. \A n \in Slices : <<c, p, n>> \notin Pending(p)
  <2> SUFFICES ASSUME NEW n \in Slices, <<c, p, n>> \in Pending(p) PROVE FALSE
    OBVIOUS
  <2>1. PICK v \in Workers : At(c, v, p) /\ n < worker[c][v].given
    BY <1>9 DEF PartOf
  <2>2. v = w
    BY <2>1, <1>8, <1>9 DEF PartOf
  <2>3. Len(scan[c][p]) \in Nat
    BY <1>1, MaxThreadsAssumption DEF ScanTypes, IsList
  <2>4. n \in 1..Len(scan[c][p]) - 1
    BY <2>1, <2>2, <2>3, <1>8 DEF Slices
  <2> QED
    BY <2>4, <1>8, <1>9 DEF SearchInv, Once
<1>16. PartOf(c, p)'
  <2>1. Taken(c, p)'
    <3>1. Taken(c, p)
      BY <1>8, <1>9 DEF PartOf
    <3> QED
      BY <3>1, <1>2, SceneSame DEF Taken
  <2> QED
    BY <2>1, <1>10, <1>14, <1>15 DEF PartOf
<1>17. \A q \in Parts : PartOf(c, q)'
  <2> SUFFICES ASSUME NEW q \in Parts, q # p PROVE PartOf(c, q)'
    BY <1>16
  <2>1. ~At(c, w, q) /\ ~(to.at = "slice" /\ to.part = q)
    BY <1>6, <1>8 DEF At
  <2>a. Moved(c, w, to)
    BY <2>1, <1>2, <1>6, <1>7, <1>10, <1>12, <1>13 DEF Moved
  <2>b. Aside(c, w, to, q)
    BY <2>1, <1>2, <1>6, <1>7, <1>10, <1>12, <1>13 DEF Aside
  <2> QED
    BY <2>a, <2>b, PartAside
<1>18. /\ worker[c][w].at \notin Over \cup {"hire"} /\ worker[c][w].at # "off"
       /\ to.at \notin {"off", "hire"} /\ ~InRun(<<c, w>>)
  BY <1>2, <1>6 DEF Over
<1> QED
  BY <1>2, <1>6, <1>7, <1>12, <1>13, <1>17, <1>18, WorkerKeeps

\* A search returns.
LEMMA ReturnKeeps ==
  ASSUME SearchInv, NEW c \in Calls, Return(c)
  PROVE  SearchInv' /\ [PoolNext]_poolVars
<1>1. /\ worker[c][0].at \in Over /\ outcome[c] = "none"
      /\ \A w \in 1..WorkersNb - 1 : <<c, 0, w>> \in ended
      /\ UNCHANGED <<scene, next, worker, scan, poolVars>>
      /\ \E result \in {"raised", "answered"} : outcome' = [outcome EXCEPT ![c] = result]
  BY DEF Return
<1>2. /\ PoolInv' /\ Once' /\ [PoolNext]_poolVars
      /\ ended' = ended /\ stop' = stop /\ \A q \in Pools : Pending(q)' = Pending(q)
  BY <1>1, PoolsStill DEF SearchInv
<1>3. ScanTypes' /\ \A d \in Calls, q \in Parts : Len(scan'[d][q]) = Len(scan[d][q])
  BY <1>1, ScanSame DEF SearchInv, SearchTypes
<1>4. outcome' \in [Calls -> {"none", "answered", "raised"}]
      /\ \A d \in Calls : outcome'[d] # "none" => outcome[d] # "none" \/ d = c
  BY <1>1 DEF SearchInv, SearchTypes
<1>5. SearchTypes'
  BY <1>1, <1>3, <1>4 DEF SearchInv, SearchTypes, WorkerStates, Over
<1>6. ASSUME NEW d \in Calls PROVE WorkOf(d)'
  <2>1. WorkOf(d)
    BY DEF SearchInv, WorkInv
  <2> QED
    BY <2>1, <1>1, <1>2, PoolsAre, WorkSame
<1>7. ASSUME NEW d \in Calls, NEW p \in Parts PROVE PartOf(d, p)'
  <2>1. PartOf(d, p)
    BY DEF SearchInv, SliceInv
  <2>2. next[d] \in Nat /\ next'[d] = next[d] /\ worker' = worker
    BY <1>1 DEF SearchInv, SearchTypes
  <2>3. PartsNb \in Nat
    BY NumbersOf DEF SearchInv, SearchTypes
  <2>4. \A w \in Workers : /\ At(d, w, p)' <=> At(d, w, p)
                           /\ At(d, w, p) => worker'[d][w].given = worker[d][w].given
    BY <2>2 DEF At
  <2>5. p \in Pools
    BY PoolsAre
  <2> QED
    BY <2>1, <2>2, <2>3, <2>4, <2>5, <1>1, <1>2, <1>3, PartSame
<1>8. WorkersNb' = WorkersNb /\ Asked' = Asked
  BY <1>1, SceneSame
<1>9. ReturnInv'
  <2>1. \A d \in Calls : outcome'[d] # "none" =>
          worker[d][0].at \in Over /\ \A w \in 1..WorkersNb - 1 : <<d, 0, w>> \in ended
    BY <1>1, <1>4 DEF SearchInv, ReturnInv
  <2>2. AllReturned => AllReturned'
    <3>1. \A d \in Calls : outcome[d] # "none" => outcome'[d] # "none"
      BY <1>1 DEF SearchInv, SearchTypes
    <3> QED
      BY <3>1, <1>8 DEF AllReturned, Asked
  <2> QED
    BY <2>1, <2>2, <1>1, <1>2, <1>8 DEF SearchInv, ReturnInv, Over
<1>10. NotifyInv'
  BY <1>1, NotifySame DEF SearchInv, poolVars
<1> QED
  BY <1>2, <1>5, <1>6, <1>7, <1>9, <1>10 DEF SearchInv, WorkInv, SliceInv

LEMMA InitKeeps == Init => SearchInv
<1> SUFFICES ASSUME Init PROVE SearchInv
  OBVIOUS
<1>1. PoolInit
  BY DEF Init
<1>2. PoolInv
  BY <1>1, PoolInitInv
<1>3. \A p \in Pools : Pending(p) = {}
  <2> TAKE p \in Pools
  <2>1. Queued(p) = {}
    BY <1>1 DEF PoolInit, Queued
  <2>2. Running(p) = {}
    BY <1>1 DEF PoolInit, Running
  <2> QED
    BY <2>1, <2>2 DEF Pending
<1>4. ended = {} /\ \A p \in Pools : ~stop[p]
  BY <1>1 DEF PoolInit
<1>5. Once
  <2>1. \A p \in Pools : queue[p] = <<>> /\ \A i \in Threads : running[p][i] = NoTask
    BY <1>1 DEF PoolInit
  <2>2. \A p \in Pools : Queued(p) \cap Running(p) = {}
    BY <1>3 DEF Pending
  <2> QED
    BY <2>1, <2>2, <1>3, <1>4 DEF Once
<1>6. \A c \in Calls, w \in Workers : worker[c][w] = Idle
  BY DEF Init
<1>7. Idle \in WorkerStates /\ Idle.at = "off"
  BY MaxThreadsAssumption, ScenesAssumption DEF Idle, WorkerStates
<1>8. SearchTypes
  <2>1. worker \in [Calls -> [Workers -> WorkerStates]]
    <3> HIDE DEF WorkerStates
    <3> QED
      BY <1>7 DEF Init
  <2>2. IsList(<<>>)
    <3>1. <<>> = [k \in 1..0 |-> <<>>[k]]
      OBVIOUS
    <3>2. 0 \in 0..MaxThreads + 1
      BY MaxThreadsAssumption
    <3> QED
      BY <3>1, <3>2 DEF IsList
  <2>3. ScanTypes
    BY <2>2 DEF Init, ScanTypes
  <2> QED
    BY <2>1, <2>3 DEF Init, SearchTypes
<1>9. 0 \in Workers /\ 0 \in Pools
  BY PoolsAre, MaxThreadsAssumption DEF Workers
<1>10. WorkInv
  BY <1>3, <1>4, <1>6, <1>7, <1>9 DEF WorkInv, WorkOf
<1>11. SliceInv
  <2>1. \A c \in Calls, w \in Workers, p \in Parts : ~At(c, w, p)
    BY <1>6, <1>7 DEF At
  <2> QED
    BY <2>1, <1>3, <1>4, PoolsAre DEF SliceInv, PartOf
<1>12. ReturnInv
  BY <1>4 DEF Init, ReturnInv
<1>13. NotifyInv
  BY <1>1 DEF PoolInit, NotifyInv, InRun
<1> QED
  BY <1>2, <1>5, <1>8, <1>10, <1>11, <1>12, <1>13 DEF SearchInv

\* Every step keeps the invariant, and is a step of the pools or leaves them alone.
LEMMA SearchNextInv == SearchInv /\ [Next]_vars => SearchInv' /\ [PoolNext]_poolVars
<1> SUFFICES ASSUME SearchInv, [Next]_vars
             PROVE  SearchInv' /\ [PoolNext]_poolVars
  OBVIOUS
<1>1. CASE UNCHANGED vars
  <2>1. UNCHANGED <<scene, next, worker, scan, outcome>> /\ UNCHANGED poolVars
    BY <1>1 DEF vars, callVars
  <2>2. /\ PoolInv' /\ Once' /\ [PoolNext]_poolVars
        /\ ended' = ended /\ stop' = stop /\ \A q \in Pools : Pending(q)' = Pending(q)
        /\ notifying' = notifying
    BY <2>1, PoolsStill DEF SearchInv
  <2>3. ScanTypes' /\ \A d \in Calls, q \in Parts : Len(scan'[d][q]) = Len(scan[d][q])
    BY <2>1, ScanSame DEF SearchInv, SearchTypes
  <2> QED
    BY <2>1, <2>2, <2>3, PoolsAre, QuietKeeps
<1>2. ASSUME NEW c \in Calls, Hire(c) \/ Return(c) \/ Start(c)
      PROVE  SearchInv' /\ [PoolNext]_poolVars
  BY <1>2, HireKeeps, ReturnKeeps, StartKeeps
<1>3. ASSUME NEW c \in Calls, NEW w \in Workers,
             TakePart(c, w) \/ GiveSlice(c, w) \/ GiveEnds(c, w) \/ EndPart(c, w)
      PROVE  SearchInv' /\ [PoolNext]_poolVars
  BY <1>3, TakePartKeeps, GiveSliceKeeps, GiveEndsKeeps, EndPartKeeps
<1>4. ASSUME NEW c \in Calls, NEW p \in Parts, NEW n \in Slices,
             ScanWindow(c, p, n) \/ ScanDocument(c, p, n) \/ ScanFails(c, p, n)
      PROVE  SearchInv' /\ [PoolNext]_poolVars
  <2>1. \E s : Goes(c, p, n, s)
    <3>1. CASE ScanWindow(c, p, n)
      BY <3>1 DEF ScanWindow
    <3>2. CASE ScanDocument(c, p, n)
      BY <3>2 DEF ScanDocument
    <3>3. CASE ScanFails(c, p, n)
      BY <3>3 DEF ScanFails
    <3> QED
      BY <3>1, <3>2, <3>3, <1>4
  <2>2. UNCHANGED <<scene, next, worker, outcome, poolVars>>
    BY <1>4 DEF ScanWindow, ScanDocument, ScanFails
  <2> QED
    BY <2>1, <2>2, ScanKeeps
<1>5. ASSUME NEW i \in Threads, StartWork(i) \/ EndWork(i)
      PROVE  SearchInv' /\ [PoolNext]_poolVars
  BY <1>5, StartWorkKeeps, EndWorkKeeps
<1>6. ASSUME NEW p \in Parts, NEW i \in Threads, StartSlice(p, i)
      PROVE  SearchInv' /\ [PoolNext]_poolVars
  <2> DEFINE task == running[p][i]
  <2>1. /\ task # NoTask
        /\ Goes(task[1], p, task[3], [scan[task[1]][p][task[3]] EXCEPT !.at = "window"])
        /\ UNCHANGED <<scene, next, worker, outcome, poolVars>>
    BY <1>6 DEF StartSlice
  <2>2. task[1] \in Calls
    BY <2>1, PoolsAre, RunningIs, TaskIs DEF SearchInv
  <2>3. \E c \in Calls : \E n, s : Goes(c, p, n, s)
    <3> HIDE DEF task
    <3> QED
      BY <2>1, <2>2 DEF Goes
  <2> QED
    BY <2>1, <2>3, ScanKeeps
<1>7. ASSUME NEW p \in Parts, NEW i \in Threads, EndSlice(p, i)
      PROVE  SearchInv' /\ [PoolNext]_poolVars
  BY <1>7, EndSliceKeeps
<1>8. ASSUME NEW p \in Pools, PoolStep(p) \/ Close(p)
      PROVE  SearchInv' /\ [PoolNext]_poolVars
  BY <1>8, PoolStepKeeps, CloseKeeps
<1>9. Gone => UNCHANGED vars
  BY DEF Gone
<1> QED
  BY <1>1, <1>2, <1>3, <1>4, <1>5, <1>6, <1>7, <1>8, <1>9 DEF Next, SearchStep

-----------------------------------------------------------------------------
(* Theorems. *)

\* What searches do with the pools is what a pool is made for: whoever gives a task
\* gives it to a pool that has not stopped, with a thread for it, and notifies before
\* it gives another; a pool goes when nobody is left in run()
\* (src/cpp/NindIndex/NindBm25Scorer.cpp, NindSegmentedIndex.cpp).
THEOREM SearchesUsePools == Spec => PoolSpec
<1>1. Init => PoolInit
  BY DEF Init
<1> QED
  BY <1>1, InitKeeps, SearchNextInv, PTL DEF Spec, PoolSpec

\* No wake-up of a search is lost: while a task of one waits, a thread of its pool is
\* awake, or a thread of the search is about to notify one.
THEOREM SearchesWake == Spec => []SomeoneAwake
BY SearchesUsePools, NoWakeUpLost, PTL

\* When a search has returned, with its answer or by an exception, no thread of a pool
\* works for it, nor will, and none of its threads is still in run(): for any number
\* of searches at once, of threads, segments and slices, whatever reads fail and
\* whatever the slices do in between.
THEOREM ReturnsAlone == Spec => []NothingRunsAfter
<1>1. SearchInv => NothingRunsAfter
  <2>0. ASSUME SearchInv, NEW c \in Calls, NEW p \in Pools, outcome[c] # "none",
               NEW caller \in notifying[p], caller[1] = c
        PROVE  FALSE
    BY <2>0, CallerIs
  <2> SUFFICES ASSUME SearchInv, NEW c \in Calls, NEW p \in Pools, outcome[c] # "none",
                      NEW task \in Pending(p), task[1] = c
               PROVE  FALSE
    BY <2>0 DEF NothingRunsAfter, Pending
  <2>1. worker[c][0].at \in Over /\ \A w \in 1..WorkersNb - 1 : <<c, 0, w>> \in ended
    BY DEF SearchInv, ReturnInv
  <2>2. WorkOf(c) /\ 0 \in Workers
    BY MaxThreadsAssumption DEF SearchInv, WorkInv, Workers
  <2>3. Given(c) \subseteq 1..WorkersNb - 1
    BY <2>1 DEF Given, Over
  <2>4. /\ task \notin ended /\ task = <<c, p, task[3]>>
        /\ p = 0 => task[3] \in Workers
        /\ p \in Parts => task[3] \in Slices
    BY TaskIs DEF SearchInv
  <2>5. CASE p = 0
    <3>1. task[3] \in Given(c)
      BY <2>2, <2>4, <2>5 DEF WorkOf
    <3> QED
      BY <3>1, <2>1, <2>3, <2>4, <2>5
  <2>6. CASE p \in Parts
    <3>1. PartOf(c, p)
      BY <2>6 DEF SearchInv, SliceInv
    <3>2. PICK w \in Workers : At(c, w, p)
      BY <3>1, <2>4, <2>6 DEF PartOf
    <3>3. worker[c][w].at \notin Over \cup {"off"}
      BY <3>2 DEF At, Over
    <3>4. w # 0
      BY <3>3, <2>1
    <3>5. w \in Given(c)
      BY <3>3, <3>4, <2>2 DEF WorkOf
    <3> QED
      BY <3>3, <3>5, <2>1, <2>2, <2>3 DEF WorkOf
  <2> QED
    BY <2>5, <2>6, PoolsAre
<1> QED
  BY <1>1, InitKeeps, SearchNextInv, PTL DEF Spec

-----------------------------------------------------------------------------
(* The best documents. *)

\* The slices of a part are sound, and those of the pool that have ended are over.
ScansOk(c, p) ==
  \A n \in DOMAIN scan[c][p] :
    /\ terms[c][p] = PartInfos(c, p) /\ DOMAIN scan[c][p] = DOMAIN PartSlices(c, p)
    /\ Sound(c, p, n, scan[c][p][n])
EndedOver(c, p) == \A n \in Slices : <<c, p, n>> \in ended => scan[c][p][n].at \in Over

\* A part that has been taken has given its best documents, unless a thread works on
\* it or one has failed.
FoundOk(c, p) ==
  /\ Range(found[c][p]) \subseteq Exact(c, p)
  /\ Taken(c, p) => \/ Complete(c, p, found[c][p])
                    \/ \E w \in Workers : At(c, w, p) \/ worker[c][w].at = "failed"

\* The threads that are over have each found no part to take.
Outs(c) == {w \in Workers : worker[c][w].at = "over"}
NextOk(c) == /\ next[c] <= PartsNb + 1 + Cardinality(Outs(c))
             /\ Outs(c) # {} => next[c] > PartsNb
ThetaOk(c) == theta[c] \in Nat /\ Attained(All(c), scene.topK, theta[c])
AnswerOk(c) == outcome[c] = "answered" => \A p \in 1..PartsNb : Complete(c, p, found[c][p])

Shapes ==
  /\ DOMAIN theta = Calls /\ theta = [c \in Calls |-> theta[c]]
  /\ DOMAIN terms = Calls /\ \A c \in Calls : DOMAIN terms[c] = Parts
  /\ DOMAIN found = Calls /\ \A c \in Calls : DOMAIN found[c] = Parts

\* What every step keeps, with SearchInv.
BestInv ==
  /\ Shapes
  /\ \A c \in Calls : NextOk(c) /\ ThetaOk(c) /\ AnswerOk(c)
  /\ \A c \in Calls, p \in Parts : ScansOk(c, p) /\ EndedOver(c, p)
  /\ \A c \in Calls, p \in 1..PartsNb : FoundOk(c, p)

\* What depends on the index only.
LEMMA ScoresSame ==
  ASSUME scene' = scene
  PROVE  /\ \A word : Idf(word)' = Idf(word)
         /\ \A part, query, doc : Score(part, query, doc)' = Score(part, query, doc)
         /\ \A c, p : Exact(c, p)' = Exact(c, p)
         /\ \A c : All(c)' = All(c)
<1>1. DocsNb' = DocsNb
  BY DEF DocsNb
<1>2. \A word : DocumentFrequency(word)' = DocumentFrequency(word)
  BY DEF DocumentFrequency
<1>3. \A word : Idf(word)' = Idf(word)
  BY <1>1, <1>2 DEF Idf
<1>4. \A part, query, doc : Score(part, query, doc)' = Score(part, query, doc)
  BY <1>3 DEF Score
<1>5. \A c, p : Exact(c, p)' = Exact(c, p)
  BY <1>4 DEF Exact
<1>6. PartsNb' = PartsNb
  BY DEF PartsNb
<1>7. \A c : All(c)' = All(c)
  BY <1>5, <1>6 DEF All
<1> QED
  BY <1>3, <1>4, <1>5, <1>7

\* The TermInfos of a part, at once.
Places(part, query) == Ordered(Present(part, query), <)
Told(part, query) ==
  LET order == Places(part, query)
      lengths == IF part.known THEN part.lengths ELSE NoDocs
  IN [i \in DOMAIN order |->
        TermInfo(part, query, query[order[i]], Idf(query[order[i]]),
                 WriteTermDef(part.terms[query[order[i]]], lengths)[1])]
ToldIs == \A part, query : TermInfos(part, query) = Told(part, query)

LEMMA TermInfosAre == ToldIs
<1> SUFFICES ASSUME NEW part, NEW query PROVE TermInfos(part, query) = Told(part, query)
  BY DEF ToldIs
<1> DEFINE lengths == IF part.known THEN part.lengths ELSE NoDocs
           order == Ordered(Present(part, query), <)
           Def(n) == WriteTermDef(part.terms[query[n]], lengths)[1]
           Of(n, def, idf) == TermInfo(part, query, query[n], idf, def)
           Made(n, def) == With(Idf(query[n]), LAMBDA idf : Of(n, def, idf))
           Known(n) == With(Def(n), LAMBDA def : Made(n, def))
           Every(s) == [i \in DOMAIN s |-> Known(s[i])]
           infos == TermInfos(part, query)
<1>1. infos = With(order, LAMBDA s : Every(s))
  BY DEF TermInfos
<1> HIDE DEF Every, infos, order
<1>2. infos = Every(order)
  BY <1>1 DEF With
<1> HIDE DEF Made
<1>3. \A n : Known(n) = Made(n, Def(n))
  <2> HIDE DEF Def
  <2> QED
    BY DEF With
<1> HIDE DEF Of, Def, Known
<1>4. \A n, def : Made(n, def) = Of(n, def, Idf(query[n]))
  BY DEF With, Made
<1>5. \A n : Known(n) = Of(n, Def(n), Idf(query[n]))
  BY <1>3, <1>4
<1>6. infos = [i \in DOMAIN order |-> Of(order[i], Def(order[i]), Idf(query[order[i]]))]
  BY <1>2, <1>5 DEF Every
<1> QED
  BY <1>6 DEF Told, Places, infos, order, Of, Def

LEMMA TermInfosStay == ToldIs /\ ToldIs'
<1>1. ToldIs
  BY TermInfosAre
<1>2. ToldIs'
  BY TermInfosAre, PTL
<1> QED
  BY <1>1, <1>2

LEMMA PartsSame ==
  ASSUME scene' = scene
  PROVE  /\ \A c, p : PartInfos(c, p)' = PartInfos(c, p)
         /\ \A c, p : PartSlices(c, p)' = PartSlices(c, p)
         /\ \A c, p : Sliced(c, p)' <=> Sliced(c, p)
<1>0. \A part, query : TermInfos(part, query)' = TermInfos(part, query)
  <2>1. \A part, query : TermInfos(part, query)' = Told(part, query)'
    BY TermInfosStay DEF ToldIs
  <2>2. \A part, query : Told(part, query)' = Told(part, query)
    BY ScoresSame DEF Told
  <2>3. \A part, query : TermInfos(part, query) = Told(part, query)
    BY TermInfosStay DEF ToldIs
  <2> QED
    BY <2>1, <2>2, <2>3
<1>1. \A c, p : PartInfos(c, p)' = PartInfos(c, p)
  BY <1>0 DEF PartInfos
<1>2. PartsNb' = PartsNb /\ Inner' = Inner
  BY DEF PartsNb, Inner
<1>3. \A c, p : PartSlices(c, p)' = PartSlices(c, p)
  BY <1>1, <1>2 DEF PartSlices
<1>4. \A c, p : Prunable(scene.parts[p], scene.query[c])' <=> Prunable(scene.parts[p], scene.query[c])
  BY ScoresSame DEF Prunable
<1>5. \A c, p : Sliced(c, p)' <=> Sliced(c, p)
  BY <1>1, <1>2, <1>4 DEF Sliced
<1> QED
  BY <1>1, <1>3, <1>5

LEMMA SoundSame ==
  ASSUME scene' = scene
  PROVE  /\ \A c, p, n, s : Sound(c, p, n, s)' <=> Sound(c, p, n, s)
         /\ \A c, p, best : Complete(c, p, best)' <=> Complete(c, p, best)
<1>1. \A c, candidates, x : Settled(c, candidates, x)' <=> Settled(c, candidates, x)
  BY ScoresSame DEF Settled
<1>2. \A c, p, lo, s, to, todo : Done(c, p, lo, s, to, todo)' <=> Done(c, p, lo, s, to, todo)
  BY <1>1, ScoresSame DEF Done
<1>3. \A c, p, lo, s : ScanBase(c, p, lo, s)' <=> ScanBase(c, p, lo, s)
  BY ScoresSame DEF ScanBase
<1>4. \A infos, part, query, s : WindowOf(infos, part, query, s)' <=> WindowOf(infos, part, query, s)
  BY ScoresSame DEF WindowOf
<1>5. \A c, p, infos, lo, s : InWindow(c, p, infos, lo, s)' <=> InWindow(c, p, infos, lo, s)
  BY <1>2, <1>4 DEF InWindow
<1>6. \A c, p, infos, lo, s : ScanOk(c, p, infos, lo, s)' <=> ScanOk(c, p, infos, lo, s)
  BY <1>2, <1>3, <1>5 DEF ScanOk
<1>7. \A c, p, n, s : Sound(c, p, n, s)' <=> Sound(c, p, n, s)
  BY <1>6, PartsSame DEF Sound
<1>8. \A c, p, best : Complete(c, p, best)' <=> Complete(c, p, best)
  BY <1>1, ScoresSame DEF Complete
<1> QED
  BY <1>7, <1>8

LEMMA ScansSame ==
  ASSUME scene' = scene, NEW c, NEW p, ScansOk(c, p),
         scan'[c][p] = scan[c][p], terms'[c][p] = terms[c][p]
  PROVE  ScansOk(c, p)'
BY PartsSame, SoundSame DEF ScansOk

LEMMA FoundSame ==
  ASSUME scene' = scene, NEW c, NEW p, FoundOk(c, p), found'[c][p] = found[c][p],
         Taken(c, p)' => Taken(c, p),
         \A w \in Workers : /\ At(c, w, p) => At(c, w, p)'
                            /\ worker[c][w].at = "failed" => worker'[c][w].at = "failed"
  PROVE  FoundOk(c, p)'
<1>1. Range(found'[c][p]) = Range(found[c][p]) /\ Exact(c, p)' = Exact(c, p)
  BY ScoresSame
<1>2. Complete(c, p, found[c][p])' <=> Complete(c, p, found[c][p])
  BY SoundSame
<1> QED
  BY <1>1, <1>2, SoundSame DEF FoundOk

LEMMA NextSame ==
  ASSUME scene' = scene, NEW c, NextOk(c), next'[c] = next[c],
         \A w \in Workers : worker'[c][w].at = "over" <=> worker[c][w].at = "over"
  PROVE  NextOk(c)'
<1>1. Outs(c)' = Outs(c)
  BY DEF Outs
<1> QED
  BY <1>1, SceneSame DEF NextOk

LEMMA AnswerSame ==
  ASSUME scene' = scene, NEW c, AnswerOk(c), outcome'[c] = outcome[c],
         outcome[c] = "none" \/ found'[c] = found[c]
  PROVE  AnswerOk(c)'
<1>1. CASE outcome[c] = "none"
  BY <1>1 DEF AnswerOk
<1>2. CASE found'[c] = found[c]
  BY <1>2, SoundSame, SceneSame DEF AnswerOk
<1> QED
  BY <1>1, <1>2

LEMMA ThetaSame ==
  ASSUME scene' = scene, NEW c, ThetaOk(c), theta'[c] = theta[c]
  PROVE  ThetaOk(c)'
BY ScoresSame DEF ThetaOk

\* A thread moves, or a task: what the scans and the threads have found stays.
LEMMA MovesBest ==
  ASSUME BestInv, UNCHANGED <<scene, theta, next, terms, scan, found, outcome>>,
         \A c \in Calls, p \in Parts, n \in Slices :
           <<c, p, n>> \in ended' => <<c, p, n>> \in ended \/ scan[c][p][n].at \in Over,
         \A c \in Calls, w \in Workers :
           /\ worker'[c][w].at = "over" <=> worker[c][w].at = "over"
           /\ worker[c][w].at = "failed" => worker'[c][w].at = "failed"
           /\ \A p : At(c, w, p) => At(c, w, p)'
  PROVE  BestInv'
<1>1. Shapes'
  BY DEF BestInv, Shapes
<1>2. ASSUME NEW c \in Calls PROVE NextOk(c)' /\ ThetaOk(c)' /\ AnswerOk(c)'
  <2>1. NextOk(c) /\ ThetaOk(c) /\ AnswerOk(c)
    BY DEF BestInv
  <2> QED
    BY <2>1, NextSame, ThetaSame, AnswerSame
<1>3. ASSUME NEW c \in Calls, NEW p \in Parts PROVE ScansOk(c, p)' /\ EndedOver(c, p)'
  <2>1. ScansOk(c, p) /\ EndedOver(c, p)
    BY DEF BestInv
  <2>2. EndedOver(c, p)'
    BY <2>1 DEF EndedOver
  <2> QED
    BY <2>1, <2>2, ScansSame
<1>4. ASSUME NEW c \in Calls, NEW p \in 1..PartsNb PROVE FoundOk(c, p)'
  <2>1. FoundOk(c, p)
    BY DEF BestInv
  <2>2. Taken(c, p)' => Taken(c, p)
    BY SceneSame DEF Taken
  <2> QED
    BY <2>1, <2>2, FoundSame
<1> QED
  BY <1>1, <1>2, <1>3, <1>4, SceneSame DEF BestInv

LEMMA WorkerBest ==
  ASSUME SearchInv, BestInv, NEW c \in Calls, NEW w \in Workers, NEW to,
         worker' = [worker EXCEPT ![c][w] = to], worker[c][w].at \notin Over, to.at \notin Over,
         \A p : At(c, w, p) => to.at = "slice" /\ to.part = p,
         UNCHANGED <<scene, theta, next, terms, scan, found, outcome>>, ended' = ended
  PROVE  BestInv'
<1>1. \A d \in Calls, v \in Workers :
        worker'[d][v] = IF d = c /\ v = w THEN to ELSE worker[d][v]
  BY DEF SearchInv, SearchTypes
<1>2. \A d \in Calls, v \in Workers :
        /\ worker'[d][v].at = "over" <=> worker[d][v].at = "over"
        /\ worker[d][v].at = "failed" => worker'[d][v].at = "failed"
        /\ \A p : At(d, v, p) => At(d, v, p)'
  BY <1>1 DEF At, Over
<1> QED
  BY <1>2, MovesBest

LEMMA StartBest ==
  ASSUME SearchInv, BestInv, NEW c \in Calls, Start(c)
  PROVE  BestInv'
<1> DEFINE to == [at |-> IF WorkersNb = 1 THEN "take" ELSE "hire", part |-> 0, given |-> 1]
<1>1. /\ worker[c][0].at = "off" /\ worker' = [worker EXCEPT ![c][0] = to] /\ ended' = ended
      /\ UNCHANGED <<scene, theta, next, terms, scan, found, outcome>>
  BY DEF Start, Moves, poolVars
<1>2. 0 \in Workers
  BY MaxThreadsAssumption DEF Workers
<1>3. worker[c][0].at \notin Over /\ to.at \notin Over /\ \A p : ~At(c, 0, p)
  BY <1>1 DEF Over, At
<1> HIDE DEF to
<1> QED
  BY <1>1, <1>2, <1>3, WorkerBest

LEMMA HireBest ==
  ASSUME SearchInv, BestInv, NEW c \in Calls, Hire(c)
  PROVE  BestInv'
<1> DEFINE g == worker[c][0].given
           to == [at |-> IF g + 1 < WorkersNb THEN "hire" ELSE "take", part |-> 0, given |-> g + 1]
<1>1. /\ worker[c][0].at = "hire" /\ worker' = [worker EXCEPT ![c][0] = to] /\ ended' = ended
      /\ UNCHANGED <<scene, theta, next, terms, scan, found, outcome>>
  BY DEF Hire, Moves, Run
<1>2. 0 \in Workers
  BY MaxThreadsAssumption DEF Workers
<1>3. worker[c][0].at \notin Over /\ to.at \notin Over /\ \A p : ~At(c, 0, p)
  BY <1>1 DEF Over, At
<1> HIDE DEF to
<1> QED
  BY <1>1, <1>2, <1>3, WorkerBest

LEMMA StartWorkBest ==
  ASSUME SearchInv, BestInv, NEW i \in Threads, StartWork(i)
  PROVE  BestInv'
<1> DEFINE task == running[0][i]
           to == [at |-> "take", part |-> 0, given |-> 0]
<1>1. /\ task # NoTask /\ worker[task[1]][task[3]].at = "off"
      /\ worker' = [worker EXCEPT ![task[1]][task[3]] = to] /\ ended' = ended
      /\ UNCHANGED <<scene, theta, next, terms, scan, found, outcome>>
  BY DEF StartWork, Moves, poolVars
<1>2. task[1] \in Calls /\ task[3] \in Workers
  <2>1. task \in Pending(0)
    BY <1>1, PoolsAre, RunningIs
  <2> QED
    BY <2>1, PoolsAre, TaskIs DEF SearchInv
<1> DEFINE c == task[1]
           w == task[3]
<1>3. /\ c \in Calls /\ w \in Workers /\ worker[c][w].at = "off"
      /\ worker' = [worker EXCEPT ![c][w] = to]
  BY <1>1, <1>2
<1> HIDE DEF c, w, task
<1>4. worker[c][w].at \notin Over /\ to.at \notin Over /\ \A p : ~At(c, w, p)
  BY <1>3 DEF Over, At
<1> HIDE DEF to
<1> QED
  BY <1>1, <1>3, <1>4, WorkerBest

LEMMA GiveSliceBest ==
  ASSUME SearchInv, BestInv, NEW c \in Calls, NEW w \in Workers, GiveSlice(c, w)
  PROVE  BestInv'
<1> DEFINE to == [worker[c][w] EXCEPT !.given = worker[c][w].given + 1]
<1>1. /\ worker[c][w].at = "slice" /\ worker' = [worker EXCEPT ![c][w] = to] /\ ended' = ended
      /\ UNCHANGED <<scene, theta, next, terms, scan, found, outcome>>
  BY DEF GiveSlice, Moves, Run
<1>2. worker[c][w] \in WorkerStates
  BY DEF SearchInv, SearchTypes
<1>3. to.at = "slice" /\ to.part = worker[c][w].part
  BY <1>1, <1>2 DEF WorkerStates
<1>4. /\ worker[c][w].at \notin Over /\ to.at \notin Over
      /\ \A p : At(c, w, p) => to.at = "slice" /\ to.part = p
  BY <1>1, <1>3 DEF Over, At
<1> HIDE DEF to
<1> QED
  BY <1>1, <1>4, WorkerBest

LEMMA StillBest ==
  ASSUME BestInv, UNCHANGED <<scene, callVars>>,
         \A c \in Calls, p \in Parts, n \in Slices :
           <<c, p, n>> \in ended' => <<c, p, n>> \in ended \/ scan[c][p][n].at \in Over
  PROVE  BestInv'
<1>1. /\ UNCHANGED <<scene, theta, next, terms, scan, found, outcome>> /\ worker' = worker
  BY DEF callVars
<1>2. \A c \in Calls, w \in Workers :
        /\ worker'[c][w].at = "over" <=> worker[c][w].at = "over"
        /\ worker[c][w].at = "failed" => worker'[c][w].at = "failed"
        /\ \A p : At(c, w, p) => At(c, w, p)'
  BY <1>1 DEF At
<1> QED
  BY <1>1, <1>2, MovesBest

LEMMA PoolBest ==
  ASSUME SearchInv, BestInv,
         \/ \E p \in Pools : PoolStep(p) \/ Close(p)
         \/ \E i \in Threads : EndWork(i)
         \/ \E p \in Parts, i \in Threads : EndSlice(p, i)
         \/ \E c \in Calls, w \in Workers : GiveEnds(c, w)
         \/ UNCHANGED vars
  PROVE  BestInv'
<1>1. CASE \/ \E p \in Pools : PoolStep(p) \/ Close(p)
           \/ \E c \in Calls, w \in Workers : GiveEnds(c, w)
           \/ UNCHANGED vars
  <2>1. UNCHANGED <<scene, callVars>> /\ ended' = ended
    <3>1. CASE \E p \in Pools : PoolStep(p)
      BY <3>1 DEF PoolStep, PoolThreadStep, TakeTask, Sleep, Exit, NotifyAll
    <3>2. CASE \E p \in Pools : Close(p)
      BY <3>2 DEF Close, Stop
    <3>3. CASE \E c \in Calls, w \in Workers : GiveEnds(c, w)
      BY <3>3 DEF GiveEnds, Notify
    <3>4. CASE UNCHANGED vars
      BY <3>4 DEF vars, poolVars
    <3> QED
      BY <1>1, <3>1, <3>2, <3>3, <3>4
  <2> QED
    BY <2>1, StillBest
<1>2. ASSUME NEW i \in Threads, EndWork(i) PROVE BestInv'
  <2> DEFINE task == running[0][i]
  <2>1. /\ task # NoTask /\ ended' = ended \cup {task} /\ UNCHANGED <<scene, callVars>>
    BY <1>2 DEF EndWork, Finish
  <2>2. task \in Pending(0)
    BY <2>1, PoolsAre, RunningIs
  <2>3. task[2] = 0
    BY <2>2, PoolsAre, TaskIs DEF SearchInv
  <2> HIDE DEF task
  <2>4. \A c \in Calls, p \in Parts, n \in Slices : <<c, p, n>> # task
    BY <2>3, PoolsAre
  <2> QED
    BY <2>1, <2>4, StillBest
<1>3. ASSUME NEW p \in Parts, NEW i \in Threads, EndSlice(p, i) PROVE BestInv'
  <2> DEFINE task == running[p][i]
  <2>1. /\ task # NoTask /\ ended' = ended \cup {task} /\ UNCHANGED <<scene, callVars>>
        /\ scan[task[1]][p][task[3]].at \in Over
    BY <1>3 DEF EndSlice, Finish
  <2>2. task \in Pending(p) /\ p \in Pools
    BY <2>1, PoolsAre, RunningIs
  <2>3. task[2] = p
    BY <2>2, TaskIs DEF SearchInv
  <2> HIDE DEF task
  <2>4. \A c \in Calls, q \in Parts, n \in Slices :
          <<c, q, n>> = task => scan[c][q][n].at \in Over
    BY <2>1, <2>3
  <2> QED
    BY <2>1, <2>4, StillBest
<1> QED
  BY <1>1, <1>2, <1>3

\* A slice goes on, and theta may rise.
LEMMA GoesBest ==
  ASSUME SearchInv, BestInv, NEW c \in Calls, NEW p \in Parts, NEW n \in DOMAIN scan[c][p], NEW s,
         Goes(c, p, n, s), Sound(c, p, n, s), scan[c][p][n].at \notin Over,
         UNCHANGED <<scene, next, worker, terms, found, outcome>>, ended' = ended,
         theta' \in [Calls -> Nat], \A d \in Calls : Attained(All(d), scene.topK, theta'[d])
  PROVE  BestInv'
<1>1. ScanTypes
  BY DEF SearchInv, SearchTypes
<1>2. /\ DOMAIN scan'[c][p] = DOMAIN scan[c][p]
      /\ \A m \in DOMAIN scan[c][p] : scan'[c][p][m] = IF m = n THEN s ELSE scan[c][p][m]
      /\ \A d \in Calls, q \in Parts : d # c \/ q # p => scan'[d][q] = scan[d][q]
  BY <1>1 DEF Goes, ScanTypes
<1>3. Shapes'
  BY DEF BestInv, Shapes
<1>4. ASSUME NEW d \in Calls PROVE NextOk(d)' /\ ThetaOk(d)' /\ AnswerOk(d)'
  <2>1. NextOk(d) /\ AnswerOk(d)
    BY DEF BestInv
  <2>2. ThetaOk(d)'
    BY ScoresSame DEF ThetaOk
  <2> QED
    BY <2>1, <2>2, NextSame, AnswerSame
<1>5. ASSUME NEW d \in Calls, NEW q \in Parts PROVE ScansOk(d, q)' /\ EndedOver(d, q)'
  <2>1. ScansOk(d, q) /\ EndedOver(d, q)
    BY DEF BestInv
  <2>2. CASE d # c \/ q # p
    <3>1. scan'[d][q] = scan[d][q]
      BY <2>2, <1>2
    <3>2. ScansOk(d, q)'
      BY <2>1, <3>1, ScansSame
    <3> QED
      BY <2>1, <3>1, <3>2 DEF EndedOver
  <2>3. CASE d = c /\ q = p
    <3>1. ScansOk(c, p)'
      <4>1. \A m \in DOMAIN scan[c][p] : Sound(c, p, m, scan'[c][p][m])
        BY <2>1, <2>3, <1>2 DEF ScansOk
      <4>2. \A m \in DOMAIN scan[c][p] : /\ terms'[c][p] = PartInfos(c, p)
                                        /\ DOMAIN scan'[c][p] = DOMAIN PartSlices(c, p)
        BY <2>1, <2>3, <1>2 DEF ScansOk
      <4> QED
        BY <4>1, <4>2, <1>2, PartsSame, SoundSame DEF ScansOk
    <3>2. EndedOver(c, p)'
      <4> SUFFICES ASSUME NEW m \in Slices, <<c, p, m>> \in ended
                   PROVE  scan'[c][p][m].at \in Over
        BY DEF EndedOver
      <4>1. scan[c][p][m].at \in Over
        BY <2>1, <2>3 DEF EndedOver
      <4>2. m # n
        BY <4>1
      <4>3. scan'[c][p][m] = scan[c][p][m]
        BY <4>2, <1>1 DEF Goes, ScanTypes
      <4> QED
        BY <4>1, <4>3
    <3> QED
      BY <2>3, <3>1, <3>2
  <2> QED
    BY <2>2, <2>3
<1>6. ASSUME NEW d \in Calls, NEW q \in 1..PartsNb PROVE FoundOk(d, q)'
  <2>1. FoundOk(d, q)
    BY DEF BestInv
  <2>2. Taken(d, q)' => Taken(d, q)
    BY SceneSame DEF Taken
  <2>3. \A w \in Workers : At(d, w, q) => At(d, w, q)'
    BY DEF At
  <2> QED
    BY <2>1, <2>2, <2>3, FoundSame
<1> QED
  BY <1>3, <1>4, <1>5, <1>6, SceneSame DEF BestInv

LEMMA ThetaIs ==
  ASSUME BestInv
  PROVE  /\ theta \in [Calls -> Nat]
         /\ \A c \in Calls : Attained(All(c), scene.topK, theta[c])
BY DEF BestInv, Shapes, ThetaOk

LEMMA ScanIs ==
  ASSUME BestInv, NEW c \in Calls, NEW p \in Parts, NEW n \in DOMAIN scan[c][p]
  PROVE  /\ terms[c][p] = PartInfos(c, p) /\ DOMAIN scan[c][p] = DOMAIN PartSlices(c, p)
         /\ Sound(c, p, n, scan[c][p][n])
BY DEF BestInv, ScansOk

LEMMA ScanWindowBest ==
  ASSUME SearchInv, BestInv, NEW c \in Calls, NEW p \in Parts, NEW n, ScanWindow(c, p, n)
  PROVE  BestInv'
<1> DEFINE s == scan[c][p][n]
           h == theta[c]
           r == Ahead(terms[c][p], s, h)
<1>1. /\ n \in DOMAIN scan[c][p] /\ s.at = "window" /\ Goes(c, p, n, r) /\ ended' = ended
      /\ UNCHANGED <<scene, theta, next, worker, terms, found, outcome>>
  BY DEF ScanWindow, poolVars
<1>2. scene \in Scenes
  BY DEF SearchInv, SearchTypes
<1>3. terms[c][p] = PartInfos(c, p) /\ Sound(c, p, n, s)
  BY <1>1, ScanIs
<1>4. h \in Nat /\ Attained(All(c), scene.topK, h)
  BY ThetaIs
<1>5. r = Ahead(PartInfos(c, p), s, h)
  BY <1>3
<1> HIDE DEF s, h, r
<1>6. Sound(c, p, n, r)
  BY <1>1, <1>2, <1>3, <1>4, <1>5, SoundAhead
<1>7. scan[c][p][n].at \notin Over
  BY <1>1 DEF s, Over
<1>8. theta' \in [Calls -> Nat] /\ \A d \in Calls : Attained(All(d), scene.topK, theta'[d])
  BY <1>1, ThetaIs
<1> QED
  BY <1>1, <1>6, <1>7, <1>8, GoesBest

LEMMA ScanDocumentBest ==
  ASSUME SearchInv, BestInv, NEW c \in Calls, NEW p \in Parts, NEW n, ScanDocument(c, p, n)
  PROVE  BestInv'
<1> DEFINE s == scan[c][p][n]
           f == Further(terms[c][p], s, scene.parts[p], Min(s.todo))
           r == IF f.todo = {} THEN AfterWindow(f) ELSE f
           h == theta[c]
           a == f.theta
           high == IF f.theta > s.theta THEN Max({h, a}) ELSE h
<1>1. /\ n \in DOMAIN scan[c][p] /\ s.at = "docs" /\ Goes(c, p, n, r) /\ ended' = ended
      /\ theta' = [theta EXCEPT ![c] = high]
      /\ UNCHANGED <<scene, next, worker, terms, found, outcome>>
  BY DEF ScanDocument, poolVars
<1>2. scene \in Scenes
  BY DEF SearchInv, SearchTypes
<1>3. terms[c][p] = PartInfos(c, p) /\ Sound(c, p, n, s)
  BY <1>1, ScanIs
<1>4. f = Further(PartInfos(c, p), s, scene.parts[p], Min(s.todo))
  BY <1>3
<1>5. h \in Nat /\ Attained(All(c), scene.topK, h)
  BY ThetaIs
<1> HIDE DEF s, f
<1>6. /\ Sound(c, p, n, r) /\ a \in Nat /\ Attained(All(c), scene.topK, a)
  BY <1>1, <1>2, <1>3, <1>4, SoundFurther
<1> HIDE DEF r, a, h
<1>7. high \in Nat /\ Attained(All(c), scene.topK, high)
  <2>1. Max({h, a}) \in Nat /\ Attained(All(c), scene.topK, Max({h, a}))
    BY <1>5, <1>6, HigherAttained
  <2> QED
    BY <2>1, <1>5
<1> HIDE DEF high
<1>8. scan[c][p][n].at \notin Over
  BY <1>1 DEF s, Over
<1>9. theta' \in [Calls -> Nat] /\ \A d \in Calls : Attained(All(d), scene.topK, theta'[d])
  BY <1>1, <1>7, ThetaIs
<1> QED
  BY <1>1, <1>6, <1>8, <1>9, GoesBest

LEMMA ScanFailsBest ==
  ASSUME SearchInv, BestInv, NEW c \in Calls, NEW p \in Parts, NEW n, ScanFails(c, p, n)
  PROVE  BestInv'
<1> DEFINE s == scan[c][p][n]
           r == [s EXCEPT !.at = "failed"]
<1>1. /\ n \in DOMAIN scan[c][p] /\ s.at \in {"window", "docs"} /\ Goes(c, p, n, r) /\ ended' = ended
      /\ UNCHANGED <<scene, theta, next, worker, terms, found, outcome>>
  BY DEF ScanFails, poolVars
<1>2. Sound(c, p, n, s)
  BY <1>1, ScanIs
<1>3. Sound(c, p, n, r)
  <2> HIDE DEF s
  <2> QED
    BY <1>2, SoundFailed
<1>4. scan[c][p][n].at \notin Over
  BY <1>1 DEF Over
<1>5. theta' \in [Calls -> Nat] /\ \A d \in Calls : Attained(All(d), scene.topK, theta'[d])
  BY <1>1, ThetaIs
<1> HIDE DEF r, s
<1> QED
  BY <1>1, <1>3, <1>4, <1>5, GoesBest

LEMMA StartSliceBest ==
  ASSUME SearchInv, BestInv, NEW p \in Parts, NEW i \in Threads, StartSlice(p, i)
  PROVE  BestInv'
<1> DEFINE c == running[p][i][1]
           n == running[p][i][3]
           s == scan[c][p][n]
           r == [s EXCEPT !.at = "window"]
<1>1. /\ running[p][i] # NoTask /\ s.at = "given" /\ Goes(c, p, n, r) /\ ended' = ended
      /\ UNCHANGED <<scene, theta, next, worker, terms, found, outcome>>
  BY DEF StartSlice, poolVars
<1>2. c \in Calls /\ n \in Slices /\ <<c, p, n>> \in Pending(p)
  <2>1. p \in Pools /\ running[p][i] \in Pending(p)
    BY <1>1, PoolsAre, RunningIs
  <2>2. running[p][i] = <<c, p, n>> /\ c \in Calls /\ n \in Slices
    BY <2>1, TaskIs DEF SearchInv
  <2> QED
    BY <2>1, <2>2
<1> HIDE DEF c, n
<1>3. n \in DOMAIN scan[c][p]
  <2>1. PartOf(c, p)
    BY <1>2 DEF SearchInv, SliceInv
  <2>2. PICK w \in Workers : At(c, w, p) /\ n < worker[c][w].given
    BY <2>1, <1>2 DEF PartOf
  <2>3. worker[c][w].given \in 1..Len(scan[c][p])
    BY <2>1, <2>2 DEF PartOf
  <2>4. IsList(scan[c][p])
    BY <1>2 DEF SearchInv, SearchTypes, ScanTypes
  <2>5. PICK k \in 0..MaxThreads + 1 : DOMAIN scan[c][p] = 1..k /\ Len(scan[c][p]) = k
    BY <2>4 DEF IsList
  <2> QED
    BY <2>2, <2>3, <2>5, <1>2, MaxThreadsAssumption DEF Slices
<1>4. Sound(c, p, n, s)
  BY <1>2, <1>3, ScanIs
<1>5. Sound(c, p, n, r)
  <2> HIDE DEF s
  <2> QED
    BY <1>1, <1>4, SoundStarted
<1>6. scan[c][p][n].at \notin Over
  BY <1>1 DEF Over
<1>7. theta' \in [Calls -> Nat] /\ \A d \in Calls : Attained(All(d), scene.topK, theta'[d])
  BY <1>1, ThetaIs
<1> HIDE DEF r, s
<1> QED
  BY <1>1, <1>2, <1>3, <1>5, <1>6, <1>7, GoesBest

LEMMA OutsAre ==
  ASSUME NEW c
  PROVE  IsFiniteSet(Outs(c)) /\ Cardinality(Outs(c)) \in Nat /\ Outs(c) \subseteq Workers
<1>1. IsFiniteSet(Workers)
  <2>1. 0 \in Int /\ MaxThreads \in Int
    BY MaxThreadsAssumption
  <2> QED
    BY <2>1, FS_Interval DEF Workers
<1>2. Outs(c) \in SUBSET Workers
  BY DEF Outs
<1> QED
  BY <1>1, <1>2, FS_Subset, FS_CardinalityType

\* A thread takes a part: the next one.
Takes(c, p) ==
  /\ next[c] <= PartsNb /\ p = BySize[next[c]]
  /\ next' = [next EXCEPT ![c] = @ + 1] /\ outcome[c] = "none"
  /\ UNCHANGED <<scene, theta, outcome>> /\ ended' = ended /\ Shapes'

\* What is known of other parts stays.
OthersSame(c, p) ==
  /\ \A d \in Calls, q \in Parts : d # c \/ q # p =>
       /\ scan'[d][q] = scan[d][q] /\ terms'[d][q] = terms[d][q]
       /\ found'[d][q] = found[d][q]
  /\ \A d \in Calls : d # c => found'[d] = found[d]

\* No thread gets over or leaves its part, and those that have failed stay so.
WorkersOn ==
  \A d \in Calls, v \in Workers :
    /\ worker'[d][v].at = "over" <=> worker[d][v].at = "over"
    /\ worker[d][v].at = "failed" => worker'[d][v].at = "failed"
    /\ \A q : At(d, v, q) => At(d, v, q)'

\* A thread takes a part: the other parts stay as they are.
LEMMA TakeBest ==
  ASSUME SearchInv, BestInv, NEW c \in Calls, NEW p, Takes(c, p), OthersSame(c, p), WorkersOn,
         ScansOk(c, p)', EndedOver(c, p)', FoundOk(c, p)'
  PROVE  BestInv'
<1>0. /\ next[c] <= PartsNb /\ p = BySize[next[c]]
      /\ next' = [next EXCEPT ![c] = @ + 1] /\ outcome[c] = "none"
      /\ UNCHANGED <<scene, theta, outcome>> /\ ended' = ended /\ Shapes'
  BY DEF Takes
<1>a. /\ \A d \in Calls, q \in Parts : d # c \/ q # p =>
           /\ scan'[d][q] = scan[d][q] /\ terms'[d][q] = terms[d][q]
           /\ found'[d][q] = found[d][q]
      /\ \A d \in Calls : d # c => found'[d] = found[d]
  BY DEF OthersSame
<1>b. \A d \in Calls, v \in Workers :
        /\ worker'[d][v].at = "over" <=> worker[d][v].at = "over"
        /\ worker[d][v].at = "failed" => worker'[d][v].at = "failed"
        /\ \A q : At(d, v, q) => At(d, v, q)'
  BY DEF WorkersOn
<1> USE <1>0, <1>a, <1>b
<1>1. scene \in Scenes /\ next \in [Calls -> Nat \ {0}]
  BY DEF SearchInv, SearchTypes
<1>2. next[c] \in 1..PartsNb /\ PartsNb \in Nat
  BY <1>1, NumbersOf
<1>3. next'[c] = next[c] + 1 /\ \A d \in Calls \ {c} : next'[d] = next[d]
  BY <1>1
<1>4. ASSUME NEW d \in Calls PROVE NextOk(d)' /\ ThetaOk(d)' /\ AnswerOk(d)'
  <2>1. NextOk(d) /\ AnswerOk(d) /\ ThetaOk(d)
    BY DEF BestInv
  <2>2. ThetaOk(d)'
    BY <2>1, ThetaSame
  <2>3. AnswerOk(d)'
    BY <2>1, AnswerSame
  <2>4. CASE d # c
    <3>1. next'[d] = next[d]
      BY <2>4, <1>3
    <3> QED
      BY <2>1, <2>2, <2>3, <3>1, NextSame
  <2>5. CASE d = c
    <3>1. Outs(c) = {}
      BY <2>1, <2>5, <1>2 DEF NextOk
    <3>2. Outs(c)' = Outs(c)
      BY DEF Outs
    <3>3. Cardinality(Outs(c)) \in Nat
      BY OutsAre
    <3>4. NextOk(c)'
      BY <3>1, <3>2, <3>3, <1>2, <1>3, SceneSame DEF NextOk
    <3> QED
      BY <2>2, <2>3, <2>5, <3>4
  <2> QED
    BY <2>4, <2>5
<1>5. ASSUME NEW d \in Calls, NEW q \in Parts PROVE ScansOk(d, q)' /\ EndedOver(d, q)'
  <2>1. ScansOk(d, q) /\ EndedOver(d, q)
    BY DEF BestInv
  <2>2. CASE d # c \/ q # p
    <3>1. scan'[d][q] = scan[d][q] /\ terms'[d][q] = terms[d][q]
      BY <2>2
    <3>2. ScansOk(d, q)'
      BY <2>1, <3>1, ScansSame
    <3> QED
      BY <2>1, <3>1, <3>2 DEF EndedOver
  <2> QED
    BY <2>2
<1>6. ASSUME NEW d \in Calls, NEW q \in 1..PartsNb PROVE FoundOk(d, q)'
  <2>1. FoundOk(d, q)
    BY DEF BestInv
  <2>2. CASE d # c \/ q # p
    <3>1. q \in Parts
      <4>1. PartsNb \in 1..MaxParts /\ MaxParts \in Nat
        BY <1>1, NumbersOf, ScenesAssumption
      <4> QED
        BY <4>1 DEF Parts
    <3>2. found'[d][q] = found[d][q]
      BY <2>2, <3>1
    <3>3. Taken(d, q)' => Taken(d, q)
      <4>1. PartsNb' = PartsNb /\ BySize' = BySize
        BY SceneSame
      <4>2. ASSUME NEW m \in 1..PartsNb, m < next'[d], BySize[m] = q
            PROVE  m < next[d]
        <5>1. CASE d # c
          BY <4>2, <5>1, <1>3
        <5>2. CASE d = c
          <6>1. m # next[c]
            BY <4>2, <5>2, <2>2
          <6> QED
            BY <4>2, <5>2, <6>1, <1>2, <1>3
        <5> QED
          BY <5>1, <5>2
      <4> QED
        BY <4>1, <4>2 DEF Taken
    <3> QED
      BY <2>1, <3>2, <3>3, FoundSame
  <2> QED
    BY <2>2
<1> QED
  BY <1>4, <1>5, <1>6, SceneSame DEF BestInv

\* The part that a thread takes.
LEMMA PartTaken ==
  ASSUME SearchInv, NEW c \in Calls, next[c] <= PartsNb, NEW p, p = BySize[next[c]]
  PROVE  p \in 1..PartsNb /\ p \in Parts /\ p # 0 /\ ~Taken(c, p)
         /\ \A n \in Slices : <<c, p, n>> \notin ended
<1>1. scene \in Scenes /\ next \in [Calls -> Nat \ {0}]
  BY DEF SearchInv, SearchTypes
<1>2. next[c] \in 1..PartsNb /\ PartsNb \in Nat /\ PartsNb \in 1..MaxParts /\ MaxParts \in Nat
  BY <1>1, NumbersOf, ScenesAssumption
<1>3. p \in 1..PartsNb /\ \A k \in 1..PartsNb : BySize[k] = p => k = next[c]
  BY <1>1, <1>2, BySizeOnce
<1>4. p \in Parts /\ p # 0
  BY <1>2, <1>3 DEF Parts
<1>5. ~Taken(c, p)
  <2>1. \A m \in 1..PartsNb : m < next[c] => m # next[c]
    BY <1>2
  <2> QED
    BY <2>1, <1>3 DEF Taken
<1>6. PartOf(c, p)
  BY <1>4 DEF SearchInv, SliceInv
<1> QED
  BY <1>3, <1>4, <1>5, <1>6 DEF PartOf

\* Its part is searched whole, or cut in slices.
TakenWhole(c, p) ==
  /\ next[c] <= PartsNb /\ p = BySize[next[c]]
  /\ found' = [found EXCEPT ![c][p] = Exhaustive(scene.parts[p], scene.query[c], scene.topK)]
  /\ UNCHANGED <<worker, terms, scan>>

TakenSliced(c, w, p) ==
  /\ next[c] <= PartsNb /\ p = BySize[next[c]]
  /\ Prunable(scene.parts[p], scene.query[c]) /\ PartInfos(c, p) # <<>>
  /\ terms' = [terms EXCEPT ![c][p] = PartInfos(c, p)]
  /\ scan' = [scan EXCEPT ![c][p] = PartSlices(c, p)]
  /\ worker' = [worker EXCEPT ![c][w] = [at |-> "slice", part |-> p, given |-> 1]]
  /\ found' = found

LEMMA TakePartBest ==
  ASSUME SearchInv, BestInv, NEW c \in Calls, NEW w \in Workers, TakePart(c, w)
  PROVE  BestInv'
<1>1. /\ worker[c][w].at = "take" /\ next' = [next EXCEPT ![c] = @ + 1]
      /\ UNCHANGED <<scene, theta, outcome>> /\ ended' = ended
  BY DEF TakePart, poolVars
<1>2. /\ scene \in Scenes /\ next \in [Calls -> Nat \ {0}] /\ ScanTypes
      /\ worker \in [Calls -> [Workers -> WorkerStates]] /\ worker[c][w] \in WorkerStates
  BY DEF SearchInv, SearchTypes
<1>3. outcome[c] = "none" /\ \A q : ~At(c, w, q)
  BY <1>1, ActiveIs DEF Over, At
<1>4. Shapes
  BY DEF BestInv
<1>5. CASE /\ next[c] > PartsNb /\ UNCHANGED <<terms, scan, found>>
           /\ worker' = [worker EXCEPT ![c][w] = [@ EXCEPT !.at = "over"]]
  <2>1. \A d \in Calls, v \in Workers :
          worker'[d][v] = IF d = c /\ v = w THEN [worker[c][w] EXCEPT !.at = "over"]
                          ELSE worker[d][v]
    BY <1>2, <1>5
  <2>2. worker'[c][w].at = "over"
    BY <2>1, <1>2 DEF WorkerStates
  <2>3. Shapes'
    BY <1>1, <1>4, <1>5 DEF Shapes
  <2>4. next'[c] = next[c] + 1 /\ \A d \in Calls \ {c} : next'[d] = next[d]
    BY <1>1, <1>2
  <2>5. PartsNb \in Nat /\ next[c] \in Nat
    BY <1>2, NumbersOf
  <2>6. ASSUME NEW d \in Calls PROVE NextOk(d)' /\ ThetaOk(d)' /\ AnswerOk(d)'
    <3>1. NextOk(d) /\ AnswerOk(d) /\ ThetaOk(d)
      BY DEF BestInv
    <3>2. ThetaOk(d)' /\ AnswerOk(d)'
      BY <3>1, <1>1, <1>5, ThetaSame, AnswerSame
    <3>3. CASE d # c
      <4>1. next'[d] = next[d] /\ \A v \in Workers : worker'[d][v] = worker[d][v]
        BY <3>3, <2>1, <2>4
      <4> QED
        BY <3>1, <3>2, <4>1, <1>1, NextSame
    <3>4. CASE d = c
      <4>1. Outs(c)' = Outs(c) \cup {w} /\ w \notin Outs(c)
        BY <2>1, <2>2, <1>1 DEF Outs
      <4>2. Cardinality(Outs(c)') = Cardinality(Outs(c)) + 1 /\ Cardinality(Outs(c)) \in Nat
        BY <4>1, OutsAre, FS_AddElement
      <4> DEFINE before == Cardinality(Outs(c))
                 after == Cardinality(Outs(c)')
      <4>3. next[c] <= PartsNb + 1 + before
        BY <3>1, <3>4 DEF NextOk
      <4>4. after = before + 1 /\ before \in Nat
        BY <4>2
      <4>5. next'[c] <= PartsNb + 1 + after /\ next'[c] > PartsNb
        <5> HIDE DEF before, after
        <5> QED
          BY <4>3, <4>4, <2>4, <2>5, <1>5
      <4>6. NextOk(c)'
        BY <4>5, <1>1, SceneSame DEF NextOk
      <4> QED
        BY <3>2, <3>4, <4>6
    <3> QED
      BY <3>3, <3>4
  <2>7. ASSUME NEW d \in Calls, NEW q \in Parts PROVE ScansOk(d, q)' /\ EndedOver(d, q)'
    <3>1. ScansOk(d, q) /\ EndedOver(d, q)
      BY DEF BestInv
    <3>2. EndedOver(d, q)'
      BY <3>1, <1>1, <1>5 DEF EndedOver
    <3> QED
      BY <3>1, <3>2, <1>1, <1>5, ScansSame
  <2>8. ASSUME NEW d \in Calls, NEW q \in 1..PartsNb PROVE FoundOk(d, q)'
    <3>1. FoundOk(d, q)
      BY DEF BestInv
    <3>2. Taken(d, q)' => Taken(d, q)
      <4>1. \A m \in 1..PartsNb : m < next'[d] => m < next[d]
        BY <2>4, <2>5, <1>5
      <4> QED
        BY <4>1, <1>1, SceneSame DEF Taken
    <3>3. \A v \in Workers : /\ At(d, v, q) => At(d, v, q)'
                             /\ worker[d][v].at = "failed" => worker'[d][v].at = "failed"
      BY <2>1, <1>1, <1>3 DEF At
    <3> QED
      BY <3>1, <3>2, <3>3, <1>1, <1>5, FoundSame
  <2> QED
    BY <2>3, <2>6, <2>7, <2>8, <1>1, SceneSame DEF BestInv
<1>6. ASSUME NEW p, TakenWhole(c, p) PROVE BestInv'
  <2>a. /\ next[c] <= PartsNb /\ p = BySize[next[c]]
        /\ found' = [found EXCEPT ![c][p] =
                       Exhaustive(scene.parts[p], scene.query[c], scene.topK)]
        /\ UNCHANGED <<worker, terms, scan>>
    BY <1>6 DEF TakenWhole
  <2> DEFINE best == Exhaustive(scene.parts[p], scene.query[c], scene.topK)
  <2>1. p \in 1..PartsNb /\ p \in Parts /\ ScansOk(c, p) /\ EndedOver(c, p)
    BY <2>a, PartTaken DEF BestInv
  <2>2. Complete(c, p, best)
    BY <2>1, <1>2, ExhaustiveComplete
  <2> HIDE DEF best
  <2>3. found' = [found EXCEPT ![c][p] = best]
    BY <2>a DEF best
  <2>4. /\ found'[c][p] = best
        /\ \A d \in Calls, q \in Parts : d # c \/ q # p => found'[d][q] = found[d][q]
        /\ \A d \in Calls : d # c => found'[d] = found[d]
        /\ Shapes'
    BY <2>1, <2>3, <1>1, <1>4, <2>a DEF Shapes
  <2>5. ScansOk(c, p)' /\ EndedOver(c, p)'
    <3>1. EndedOver(c, p)'
      BY <2>1, <1>1, <2>a DEF EndedOver
    <3> QED
      BY <2>1, <3>1, <1>1, <2>a, ScansSame
  <2>6. FoundOk(c, p)'
    <3>1. Complete(c, p, found[c][p])'
      BY <2>2, <2>4, <1>1, SoundSame
    <3>2. Range(best) \subseteq Exact(c, p)
      BY <2>2 DEF Complete
    <3>3. Range(found'[c][p]) \subseteq Exact(c, p)'
      BY <2>4, <3>2, <1>1, ScoresSame
    <3> QED
      BY <3>1, <3>3 DEF FoundOk
  <2>7. \A d \in Calls, v \in Workers :
          /\ worker'[d][v].at = "over" <=> worker[d][v].at = "over"
          /\ worker[d][v].at = "failed" => worker'[d][v].at = "failed"
          /\ \A q : At(d, v, q) => At(d, v, q)'
    BY <2>a DEF At
  <2>8. Takes(c, p)
    BY <2>4, <1>1, <1>3, <2>a DEF Takes
  <2>9. OthersSame(c, p)
    BY <2>4, <2>a DEF OthersSame
  <2>10. WorkersOn
    BY <2>7 DEF WorkersOn
  <2> QED
    BY <2>5, <2>6, <2>8, <2>9, <2>10, TakeBest
<1>7. ASSUME NEW p, TakenSliced(c, w, p) PROVE BestInv'
  <2>a. /\ next[c] <= PartsNb /\ p = BySize[next[c]]
        /\ Prunable(scene.parts[p], scene.query[c]) /\ PartInfos(c, p) # <<>>
        /\ terms' = [terms EXCEPT ![c][p] = PartInfos(c, p)]
        /\ scan' = [scan EXCEPT ![c][p] = PartSlices(c, p)]
        /\ worker' = [worker EXCEPT ![c][w] = [at |-> "slice", part |-> p, given |-> 1]]
        /\ found' = found
    BY <1>7 DEF TakenSliced
  <2> DEFINE infos == PartInfos(c, p)
             slices == PartSlices(c, p)
             to == [at |-> "slice", part |-> p, given |-> 1]
  <2>1. /\ p \in 1..PartsNb /\ p \in Parts /\ FoundOk(c, p)
        /\ \A n \in Slices : <<c, p, n>> \notin ended
    BY <2>a, PartTaken DEF BestInv
  <2>2. Sliced(c, p)
    <3>1. InfosOf(infos, scene.parts[p], scene.query[c])
      BY <2>1, <1>2, <2>a, InfosAre DEF PartInfos
    <3>2. PICK m \in Nat : DOMAIN infos = 1..m /\ infos = [t \in 1..m |-> infos[t]]
      BY <3>1 DEF InfosOf
    <3>3. CASE m = 0
      <4>1. 1..m = {}
        BY <3>3
      <4> HIDE DEF infos
      <4>2. infos = <<>>
        BY <3>2, <4>1
      <4> QED
        BY <4>2, <2>a DEF infos
    <3>4. CASE m # 0
      <4>1. 1 \in 1..m
        BY <3>4
      <4> QED
        BY <4>1, <3>2, <2>1, <2>a DEF Sliced
    <3> QED
      BY <3>3, <3>4
  <2>3. \A n \in DOMAIN slices : Sound(c, p, n, slices[n])
    BY <2>2, <1>2, SoundFirst
  <2> HIDE DEF infos, slices
  <2>4. /\ terms'[c][p] = infos
        /\ \A d \in Calls, q \in Parts : d # c \/ q # p => terms'[d][q] = terms[d][q]
        /\ Shapes'
    BY <2>1, <1>1, <1>4, <2>a DEF Shapes, infos
  <2>5. /\ scan'[c][p] = slices
        /\ \A d \in Calls, q \in Parts : d # c \/ q # p => scan'[d][q] = scan[d][q]
    BY <2>1, <1>2, <2>a DEF ScanTypes, slices
  <2>6. ScansOk(c, p)'
    <3>1. /\ terms'[c][p] = PartInfos(c, p)' /\ DOMAIN scan'[c][p] = DOMAIN PartSlices(c, p)'
      BY <2>4, <2>5, <1>1, PartsSame DEF infos, slices
    <3>2. \A n \in DOMAIN scan'[c][p] : Sound(c, p, n, scan[c][p][n])'
      BY <2>3, <2>5, <1>1, SoundSame
    <3> QED
      BY <3>1, <3>2 DEF ScansOk
  <2>7. EndedOver(c, p)'
    BY <2>1, <1>1 DEF EndedOver
  <2> HIDE DEF to
  <2>8. \A d \in Calls, v \in Workers :
          worker'[d][v] = IF d = c /\ v = w THEN to ELSE worker[d][v]
    BY <1>2, <2>a DEF to
  <2>9. At(c, w, p)' /\ worker'[c][w].at = "slice"
    BY <2>8 DEF At, to
  <2>10. FoundOk(c, p)'
    <3>1. Range(found'[c][p]) \subseteq Exact(c, p)'
      BY <2>1, <1>1, <2>a, ScoresSame DEF FoundOk
    <3> QED
      BY <3>1, <2>9 DEF FoundOk
  <2>11. \A d \in Calls, v \in Workers :
          /\ worker'[d][v].at = "over" <=> worker[d][v].at = "over"
          /\ worker[d][v].at = "failed" => worker'[d][v].at = "failed"
          /\ \A q : At(d, v, q) => At(d, v, q)'
    BY <2>8, <2>9, <1>1, <1>3 DEF At
  <2>12. Takes(c, p)
    BY <2>4, <1>1, <1>3, <2>a DEF Takes
  <2>13. OthersSame(c, p)
    BY <2>4, <2>5, <2>a DEF OthersSame
  <2>14. WorkersOn
    BY <2>11 DEF WorkersOn
  <2> QED
    BY <2>6, <2>7, <2>10, <2>12, <2>13, <2>14, TakeBest
<1>8. CASE next[c] <= PartsNb
  <2> DEFINE p == BySize[next[c]]
             infos == IF Prunable(scene.parts[p], scene.query[c])
                      THEN TermInfos(scene.parts[p], scene.query[c]) ELSE <<>>
  <2>1. \/ /\ infos # <<>>
           /\ terms' = [terms EXCEPT ![c][p] = infos]
           /\ scan' = [scan EXCEPT ![c][p] = SlicesOf(infos, Inner)]
           /\ worker' = [worker EXCEPT ![c][w] = [at |-> "slice", part |-> p, given |-> 1]]
           /\ found' = found
        \/ /\ found' = [found EXCEPT ![c][p] =
                          Exhaustive(scene.parts[p], scene.query[c], scene.topK)]
           /\ UNCHANGED <<worker, terms, scan>>
    <3>1. ~(next[c] > PartsNb)
      BY <1>2, <1>8, NumbersOf
    <3> HIDE DEF infos
    <3> QED
      BY <3>1 DEF TakePart, Moves, infos
  <2>2. infos # <<>> => Prunable(scene.parts[p], scene.query[c]) /\ infos = PartInfos(c, p)
    BY DEF PartInfos
  <2> HIDE DEF infos, p
  <2>3. p = BySize[next[c]]
    BY DEF p
  <2>4. CASE /\ infos # <<>>
             /\ terms' = [terms EXCEPT ![c][p] = infos]
             /\ scan' = [scan EXCEPT ![c][p] = SlicesOf(infos, Inner)]
             /\ worker' = [worker EXCEPT ![c][w] = [at |-> "slice", part |-> p, given |-> 1]]
             /\ found' = found
    <3>1. infos = PartInfos(c, p) /\ SlicesOf(infos, Inner) = PartSlices(c, p)
      BY <2>2, <2>4 DEF PartSlices
    <3>2. Prunable(scene.parts[p], scene.query[c]) /\ PartInfos(c, p) # <<>>
      BY <3>1, <2>2, <2>4
    <3>3. TakenSliced(c, w, p)
      BY <3>1, <3>2, <2>3, <2>4, <1>8 DEF TakenSliced
    <3> QED
      BY <3>3, <1>7
  <2>5. CASE /\ found' = [found EXCEPT ![c][p] =
                           Exhaustive(scene.parts[p], scene.query[c], scene.topK)]
             /\ UNCHANGED <<worker, terms, scan>>
    <3>1. TakenWhole(c, p)
      BY <2>3, <2>5, <1>8 DEF TakenWhole
    <3> QED
      BY <3>1, <1>6
  <2> QED
    BY <2>1, <2>4, <2>5
<1>9. CASE ~(next[c] <= PartsNb)
  <2>1. next[c] > PartsNb
    BY <1>2, <1>9, NumbersOf
  <2> QED
    BY <2>1, <1>5, <1>9 DEF TakePart, Moves
<1> QED
  BY <1>8, <1>9

\* Every slice of a part has ended: its best documents are those of the slices.
LEMMA EndPartFound ==
  ASSUME SearchInv, BestInv, NEW c \in Calls, NEW w \in Workers, NEW p \in Parts, At(c, w, p),
         worker[c][w].given = Len(scan[c][p]), Awaited(c, p),
         \A n \in DOMAIN scan[c][p] : scan[c][p][n].at # "failed",
         NEW threshold,
         threshold = Max({theta[c]} \cup {scan[c][p][n].theta : n \in DOMAIN scan[c][p]})
  PROVE  Complete(c, p, Best(KeptOf(scan[c][p], threshold), scene.topK))
<1> DEFINE slices == scan[c][p]
<1>1. scene \in Scenes
  BY DEF SearchInv, SearchTypes
<1>2. PICK k \in 0..MaxThreads + 1 : DOMAIN slices = 1..k /\ Len(slices) = k
  <2>1. ScanTypes
    BY DEF SearchInv, SearchTypes
  <2>2. IsList(slices)
    BY <2>1 DEF ScanTypes
  <2> HIDE DEF slices
  <2> QED
    BY <2>2 DEF IsList
<1>3. k \in Nat \ {0} /\ k <= MaxThreads + 1
  <2>1. PartOf(c, p)
    BY DEF SearchInv, SliceInv
  <2>2. worker[c][w].given \in 1..Len(slices)
    BY <2>1 DEF PartOf
  <2> QED
    BY <1>2, <2>2, MaxThreadsAssumption
<1>4. \A n \in DOMAIN slices :
        /\ Sound(c, p, n, slices[n]) /\ DOMAIN slices = DOMAIN PartSlices(c, p)
  BY ScanIs
<1>5. \A n \in DOMAIN slices : slices[n].at = "over"
  <2> SUFFICES ASSUME NEW n \in DOMAIN slices PROVE slices[n].at \in Over
    BY DEF Over
  <2>1. CASE n = k
    BY <2>1, <1>2 DEF Awaited
  <2>2. CASE n # k
    <3>1. n \in 1..Len(slices) - 1 /\ n \in Slices
      BY <2>2, <1>2, <1>3, MaxThreadsAssumption DEF Slices
    <3>2. <<c, p, n>> \in ended
      BY <3>1 DEF Awaited
    <3>3. EndedOver(c, p)
      BY DEF BestInv
    <3> QED
      BY <3>1, <3>2, <3>3 DEF EndedOver
  <2> QED
    BY <2>1, <2>2
<1>6. Sliced(c, p)
  <2>1. 1 \in DOMAIN slices
    BY <1>2, <1>3
  <2> QED
    BY <2>1, <1>4 DEF Sound
<1>7. \A n \in DOMAIN slices : /\ slices[n].theta \in Nat
                              /\ Attained(All(c), scene.topK, slices[n].theta)
  BY <1>4 DEF Sound, ScanOk, ScanBase
<1>8. threshold \in Nat /\ Attained(All(c), scene.topK, threshold)
  <2> DEFINE f == [n \in DOMAIN slices |-> slices[n].theta]
             T == {f[n] : n \in DOMAIN f}
             h == theta[c]
             S == {h} \cup T
  <2>1. h \in Nat /\ Attained(All(c), scene.topK, h)
    BY ThetaIs
  <2>2. threshold = Max(S)
    <3>1. T = {scan[c][p][n].theta : n \in DOMAIN scan[c][p]}
      OBVIOUS
    <3> HIDE DEF T
    <3> QED
      BY <3>1
  <2>3. \A x \in S : x \in Nat /\ Attained(All(c), scene.topK, x)
    BY <2>1, <1>7
  <2>4. IsFiniteSet(T)
    <3>1. 1 \in Int /\ k \in Int
      BY <1>3
    <3>2. IsFiniteSet(DOMAIN f)
      BY <3>1, <1>2, FS_Interval
    <3> HIDE DEF f
    <3> QED
      BY <3>2, ImageFinite
  <2>5. IsFiniteSet(S) /\ S # {}
    <3> HIDE DEF T
    <3> QED
      BY <2>4, FS_AddElement
  <2> HIDE DEF S
  <2>6. S \in SUBSET Nat
    BY <2>3
  <2>7. Max(S) \in S
    BY <2>5, <2>6, ExtremesAre
  <2> QED
    BY <2>2, <2>3, <2>7
<1>9. DOMAIN slices = DOMAIN PartSlices(c, p)
  <2>1. 1 \in DOMAIN slices
    BY <1>2, <1>3
  <2> QED
    BY <2>1, <1>4
<1>10. SlicesOver(c, p, slices)
  BY <1>4, <1>5, <1>6, <1>9 DEF SlicesOver
<1>11. Complete(c, p, Best(KeptOf(slices, threshold), scene.topK))
  <2> HIDE DEF slices
  <2> QED
    BY <1>1, <1>8, <1>10, SlicesComplete
<1> QED
  BY <1>11

LEMMA EndPartBest ==
  ASSUME SearchInv, BestInv, NEW c \in Calls, NEW w \in Workers, EndPart(c, w)
  PROVE  BestInv'
<1> DEFINE part == worker[c][w].part
<1>1. /\ worker[c][w].at = "slice" /\ worker[c][w].given = Len(scan[c][part]) /\ Awaited(c, part)
      /\ UNCHANGED <<scene, theta, next, terms, scan, outcome>> /\ ended' = ended
  BY DEF EndPart, poolVars
<1>2. worker[c][w] \in WorkerStates /\ worker \in [Calls -> [Workers -> WorkerStates]]
  BY DEF SearchInv, SearchTypes
<1>3. PICK p \in Parts : p = part
  BY <1>1, <1>2, PoolsAre DEF WorkerStates, Parts
<1> DEFINE threshold(q) == Max({theta[c]} \cup {scan[c][q][n].theta : n \in DOMAIN scan[c][q]})
           lost(q) == \E n \in DOMAIN scan[c][q] : scan[c][q][n].at = "failed"
           given(q) == IF lost(q) THEN <<>> ELSE Best(KeptOf(scan[c][q], threshold(q)), scene.topK)
           goes(q) == [worker[c][w] EXCEPT !.at = IF lost(q) THEN "failed" ELSE "take"]
           failed == lost(p)
           best == given(p)
           to == goes(p)
<1>4. worker' = [worker EXCEPT ![c][w] = to] /\ found' = [found EXCEPT ![c][p] = best]
  <2>1. /\ worker' = [worker EXCEPT ![c][w] = goes(part)]
        /\ found' = [found EXCEPT ![c][part] = given(part)]
    BY DEF EndPart, Moves, KeptOf
  <2> HIDE DEF given, goes, part
  <2> QED
    BY <2>1, <1>3
<1>5. At(c, w, p) /\ worker[c][w].given = Len(scan[c][p]) /\ Awaited(c, p)
  BY <1>1, <1>3 DEF At
<1>6. ~failed => Complete(c, p, best)
  <2>1. ASSUME ~failed
        PROVE  Complete(c, p, Best(KeptOf(scan[c][p], threshold(p)), scene.topK))
    <3> DEFINE h == threshold(p)
    <3>1. h = Max({theta[c]} \cup {scan[c][p][n].theta : n \in DOMAIN scan[c][p]})
      OBVIOUS
    <3>2. \A n \in DOMAIN scan[c][p] : scan[c][p][n].at # "failed"
      BY <2>1
    <3> HIDE DEF h
    <3>3. Complete(c, p, Best(KeptOf(scan[c][p], h), scene.topK))
      BY <3>1, <3>2, <1>5, EndPartFound
    <3> QED
      BY <3>3 DEF h
  <2> QED
    BY <2>1
<1>7. to.at = IF failed THEN "failed" ELSE "take"
  BY <1>2 DEF WorkerStates
<1>8. failed => Range(best) = {}
  <2>1. Range(<<>>) = {}
    BY DEF Range
  <2> QED
    BY <2>1
<1> HIDE DEF best, to, failed, part, threshold, lost, given, goes
<1>9. \A d \in Calls, v \in Workers :
        worker'[d][v] = IF d = c /\ v = w THEN to ELSE worker[d][v]
  BY <1>2, <1>4
<1>10. Shapes
  BY DEF BestInv
<1>11. /\ found'[c][p] = best
       /\ \A d \in Calls, q \in Parts : d # c \/ q # p => found'[d][q] = found[d][q]
       /\ \A d \in Calls : d # c => found'[d] = found[d]
       /\ Shapes'
  BY <1>1, <1>4, <1>10 DEF Shapes
<1>12. outcome[c] = "none"
  BY <1>1, ActiveIs DEF Over
<1>13. ASSUME NEW d \in Calls PROVE NextOk(d)' /\ ThetaOk(d)' /\ AnswerOk(d)'
  <2>1. NextOk(d) /\ AnswerOk(d) /\ ThetaOk(d)
    BY DEF BestInv
  <2>2. \A v \in Workers : worker'[d][v].at = "over" <=> worker[d][v].at = "over"
    BY <1>1, <1>7, <1>9
  <2>3. NextOk(d)' /\ ThetaOk(d)'
    BY <2>1, <2>2, <1>1, NextSame, ThetaSame
  <2>4. AnswerOk(d)'
    BY <2>1, <1>1, <1>11, <1>12, AnswerSame
  <2> QED
    BY <2>3, <2>4
<1>14. ASSUME NEW d \in Calls, NEW q \in Parts PROVE ScansOk(d, q)' /\ EndedOver(d, q)'
  <2>1. ScansOk(d, q) /\ EndedOver(d, q)
    BY DEF BestInv
  <2>2. EndedOver(d, q)'
    BY <2>1, <1>1 DEF EndedOver
  <2> QED
    BY <2>1, <2>2, <1>1, ScansSame
<1>15. ASSUME NEW d \in Calls, NEW q \in 1..PartsNb PROVE FoundOk(d, q)'
  <2>1. FoundOk(d, q)
    BY DEF BestInv
  <2>2. Taken(d, q)' => Taken(d, q)
    BY <1>1, SceneSame DEF Taken
  <2>3. CASE d # c \/ q # p
    <3>1. q \in Parts
      <4>1. PartsNb \in 1..MaxParts /\ MaxParts \in Nat
        BY NumbersOf, ScenesAssumption DEF SearchInv, SearchTypes
      <4> QED
        BY <4>1 DEF Parts
    <3>2. found'[d][q] = found[d][q]
      BY <2>3, <3>1, <1>11
    <3>3. \A v \in Workers : /\ At(d, v, q) => At(d, v, q)'
                             /\ worker[d][v].at = "failed" => worker'[d][v].at = "failed"
      <4>1. ~(d = c /\ At(c, w, q))
        BY <2>3, <1>5 DEF At
      <4> QED
        BY <4>1, <1>1, <1>9 DEF At
    <3> QED
      BY <2>1, <2>2, <3>2, <3>3, <1>1, FoundSame
  <2>4. CASE d = c /\ q = p
    <3>1. CASE failed
      <4>1. worker'[c][w].at = "failed"
        BY <3>1, <1>7, <1>9
      <4>2. Range(found'[c][p]) \subseteq Exact(c, p)'
        BY <3>1, <1>8, <1>11
      <4> QED
        BY <2>4, <4>1, <4>2 DEF FoundOk
    <3>2. CASE ~failed
      <4>1. Complete(c, p, best)
        BY <3>2, <1>6
      <4>2. Complete(c, p, found[c][p])'
        BY <4>1, <1>1, <1>11, SoundSame
      <4>3. Range(found'[c][p]) \subseteq Exact(c, p)'
        BY <4>1, <1>1, <1>11, ScoresSame DEF Complete
      <4> QED
        BY <2>4, <4>2, <4>3 DEF FoundOk
    <3> QED
      BY <3>1, <3>2
  <2> QED
    BY <2>3, <2>4
<1> QED
  BY <1>1, <1>11, <1>13, <1>14, <1>15, SceneSame DEF BestInv

\* Every part has a place.
LEMMA BySizeAll ==
  ASSUME scene \in Scenes, NEW p \in 1..PartsNb
  PROVE  \E m \in 1..PartsNb : BySize[m] = p
<1> DEFINE n == PartsNb
           S == 1..n
           f == [m \in S |-> BySize[m]]
<1>1. n \in Nat /\ IsFiniteSet(S)
  BY SceneIs
<1>2. \A m \in S : BySize[m] \in S
  BY BySizeOnce
<1>3. \A k, l \in S : BySize[k] = BySize[l] => k = l
  BY BySizeOnce
<1> HIDE DEF S
<1>4. f \in Injection(S, S)
  BY <1>2, <1>3 DEF Injection, IsInjective
<1> HIDE DEF f
<1>5. f \in Surjection(S, S)
  BY <1>1, <1>4, FS_Injection
<1>6. \E m \in S : f[m] = p
  BY <1>5 DEF Surjection, S
<1> QED
  BY <1>6 DEF f, S

LEMMA ReturnBest ==
  ASSUME SearchInv, BestInv, NEW c \in Calls, Return(c)
  PROVE  BestInv'
<1>1. /\ worker[c][0].at \in Over /\ \A w \in 1..WorkersNb - 1 : <<c, 0, w>> \in ended
      /\ outcome' = [outcome EXCEPT ![c] =
           IF \E w \in 0..WorkersNb - 1 : worker[c][w].at = "failed" THEN "raised" ELSE "answered"]
      /\ UNCHANGED <<scene, theta, next, worker, terms, scan, found>> /\ ended' = ended
  BY DEF Return, poolVars
<1>2. /\ scene \in Scenes /\ outcome \in [Calls -> {"none", "answered", "raised"}]
      /\ next \in [Calls -> Nat \ {0}]
  BY DEF SearchInv, SearchTypes
<1>3. outcome'[c] = "answered" => \A p \in 1..PartsNb : Complete(c, p, found[c][p])
  <2> SUFFICES ASSUME outcome'[c] = "answered", NEW p \in 1..PartsNb
               PROVE  Complete(c, p, found[c][p])
    OBVIOUS
  <2>1. \A w \in 0..WorkersNb - 1 : worker[c][w].at # "failed"
    BY <1>1, <1>2
  <2>2. WorkersNb \in 1..MaxThreads + 1 /\ MaxThreads \in Nat /\ PartsNb \in Nat
    BY <1>2, NumbersOf, MaxThreadsAssumption
  <2>3. 0 \in 0..WorkersNb - 1 /\ 0 \in Workers
    BY <2>2 DEF Workers
  <2>4. worker[c][0].at = "over"
    BY <2>1, <2>3, <1>1 DEF Over
  <2>5. NextOk(c)
    BY DEF BestInv
  <2>6. next[c] > PartsNb
    BY <2>3, <2>4, <2>5 DEF NextOk, Outs
  <2>7. Taken(c, p)
    <3>1. PICK m \in 1..PartsNb : BySize[m] = p
      BY <1>2, BySizeAll
    <3> QED
      BY <3>1, <2>2, <2>6, <1>2 DEF Taken
  <2>8. ASSUME NEW w \in Workers
        PROVE  worker[c][w].at # "failed" /\ ~At(c, w, p)
    <3>1. WorkOf(c)
      BY DEF SearchInv, WorkInv
    <3>2. CASE w = 0
      BY <3>2, <2>4 DEF At
    <3>3. CASE w \in 1..WorkersNb - 1
      <4>1. worker[c][w].at \in Over
        BY <3>1, <3>3, <1>1 DEF WorkOf
      <4>2. w \in 0..WorkersNb - 1
        BY <3>3, <2>2
      <4> QED
        BY <4>1, <4>2, <2>1 DEF At, Over
    <3>4. CASE w # 0 /\ w \notin 1..WorkersNb - 1
      <4>1. w \notin Given(c)
        BY <3>4, <2>4 DEF Given
      <4>2. worker[c][w].at = "off"
        BY <3>1, <3>4, <4>1 DEF WorkOf
      <4> QED
        BY <4>2 DEF At
    <3> QED
      BY <3>2, <3>3, <3>4
  <2>9. FoundOk(c, p)
    BY DEF BestInv
  <2> QED
    BY <2>7, <2>8, <2>9 DEF FoundOk
<1>4. Shapes'
  BY <1>1 DEF BestInv, Shapes
<1>5. ASSUME NEW d \in Calls PROVE NextOk(d)' /\ ThetaOk(d)' /\ AnswerOk(d)'
  <2>1. NextOk(d) /\ AnswerOk(d) /\ ThetaOk(d)
    BY DEF BestInv
  <2>2. NextOk(d)' /\ ThetaOk(d)'
    BY <2>1, <1>1, NextSame, ThetaSame
  <2>3. CASE d # c
    <3>1. outcome'[d] = outcome[d]
      BY <2>3, <1>1, <1>2
    <3> QED
      BY <2>1, <2>2, <3>1, <1>1, AnswerSame
  <2>4. CASE d = c
    <3>1. AnswerOk(c)'
      BY <1>1, <1>3, SoundSame, SceneSame DEF AnswerOk
    <3> QED
      BY <2>2, <2>4, <3>1
  <2> QED
    BY <2>3, <2>4
<1>6. ASSUME NEW d \in Calls, NEW q \in Parts PROVE ScansOk(d, q)' /\ EndedOver(d, q)'
  <2>1. ScansOk(d, q) /\ EndedOver(d, q)
    BY DEF BestInv
  <2>2. EndedOver(d, q)'
    BY <2>1, <1>1 DEF EndedOver
  <2> QED
    BY <2>1, <2>2, <1>1, ScansSame
<1>7. ASSUME NEW d \in Calls, NEW q \in 1..PartsNb PROVE FoundOk(d, q)'
  <2>1. FoundOk(d, q)
    BY DEF BestInv
  <2>2. Taken(d, q)' => Taken(d, q)
    BY <1>1, SceneSame DEF Taken
  <2>3. \A v \in Workers : At(d, v, q) => At(d, v, q)'
    BY <1>1 DEF At
  <2> QED
    BY <2>1, <2>2, <2>3, <1>1, FoundSame
<1> QED
  BY <1>1, <1>4, <1>5, <1>6, <1>7, SceneSame DEF BestInv

LEMMA InitBest == Init => BestInv
<1> SUFFICES ASSUME Init PROVE BestInv
  OBVIOUS
<1>1. scene \in Scenes /\ ended = {}
  BY DEF Init, PoolInit
<1>2. \A c \in Calls :
        /\ theta[c] = 0 /\ next[c] = 1 /\ outcome[c] = "none"
        /\ \A p \in Parts : scan[c][p] = <<>> /\ found[c][p] = <<>>
        /\ \A w \in Workers : worker[c][w].at = "off"
  BY DEF Init, Idle
<1>3. Shapes
  BY DEF Init, Shapes
<1>4. PartsNb \in Nat /\ PartsNb \in 1..MaxParts /\ MaxParts \in Nat
  BY <1>1, NumbersOf, ScenesAssumption
<1>5. ASSUME NEW c \in Calls PROVE NextOk(c) /\ ThetaOk(c) /\ AnswerOk(c)
  <2>1. Outs(c) = {}
    BY <1>2 DEF Outs
  <2>2. Cardinality(Outs(c)) \in Nat
    BY OutsAre
  <2>3. NextOk(c)
    BY <2>1, <2>2, <1>2, <1>4 DEF NextOk
  <2>4. ThetaOk(c)
    BY <1>2 DEF ThetaOk, Attained
  <2> QED
    BY <2>3, <2>4, <1>2 DEF AnswerOk
<1>6. ASSUME NEW c \in Calls, NEW p \in Parts PROVE ScansOk(c, p) /\ EndedOver(c, p)
  <2>1. scan[c][p] = <<>>
    BY <1>2
  <2> QED
    BY <2>1, <1>1 DEF ScansOk, EndedOver
<1>7. ASSUME NEW c \in Calls, NEW p \in 1..PartsNb PROVE FoundOk(c, p)
  <2>1. p \in Parts
    BY <1>4 DEF Parts
  <2>2. found[c][p] = <<>>
    BY <1>2, <2>1
  <2>3. Range(found[c][p]) = {}
    BY <2>2 DEF Range
  <2>4. ~Taken(c, p)
    BY <1>2, <1>4 DEF Taken
  <2> QED
    BY <2>3, <2>4 DEF FoundOk
<1> QED
  BY <1>3, <1>5, <1>6, <1>7 DEF BestInv

LEMMA NextBest == SearchInv /\ BestInv /\ [Next]_vars => BestInv'
<1> SUFFICES ASSUME SearchInv, BestInv, [Next]_vars
             PROVE  BestInv'
  OBVIOUS
<1>1. CASE UNCHANGED vars
  BY <1>1, PoolBest
<1>2. ASSUME NEW c \in Calls, Hire(c) \/ Return(c) \/ Start(c)
      PROVE  BestInv'
  BY <1>2, HireBest, ReturnBest, StartBest
<1>3. ASSUME NEW c \in Calls, NEW w \in Workers,
             TakePart(c, w) \/ GiveSlice(c, w) \/ GiveEnds(c, w) \/ EndPart(c, w)
      PROVE  BestInv'
  BY <1>3, TakePartBest, GiveSliceBest, PoolBest, EndPartBest
<1>4. ASSUME NEW c \in Calls, NEW p \in Parts, NEW n \in Slices,
             ScanWindow(c, p, n) \/ ScanDocument(c, p, n) \/ ScanFails(c, p, n)
      PROVE  BestInv'
  BY <1>4, ScanWindowBest, ScanDocumentBest, ScanFailsBest
<1>5. ASSUME NEW i \in Threads, StartWork(i) \/ EndWork(i)
      PROVE  BestInv'
  BY <1>5, StartWorkBest, PoolBest
<1>6. ASSUME NEW p \in Parts, NEW i \in Threads, StartSlice(p, i) \/ EndSlice(p, i)
      PROVE  BestInv'
  BY <1>6, StartSliceBest, PoolBest
<1>7. ASSUME NEW p \in Pools, PoolStep(p) \/ Close(p)
      PROVE  BestInv'
  BY <1>7, PoolBest
<1>8. CASE Next
  <2>1. CASE SearchStep
    BY <2>1, <1>2, <1>3, <1>4, <1>5, <1>6, <1>7 DEF SearchStep
  <2>2. CASE Gone
    BY <2>2, <1>1 DEF Gone
  <2> QED
    BY <2>1, <2>2, <1>8, <1>2, <1>4, <1>7 DEF Next
<1> QED
  BY <1>1, <1>8

LEMMA SpecBest == Spec => [](SearchInv /\ BestInv)
<1>1. Init => SearchInv /\ BestInv
  BY InitKeeps, InitBest
<1>2. SearchInv /\ BestInv /\ [Next]_vars => (SearchInv /\ BestInv)'
  BY SearchNextInv, NextBest
<1> QED
  BY <1>1, <1>2, PTL DEF Spec

\* The state of a search stays in its domain, however its threads interleave: the
\* counter of the parts goes past the last one once a thread at most, and a window
\* never goes past its slice (search, scanRange).
THEOREM SearchTypesHold == Spec => []SearchTypeOK
<1>1. SearchInv /\ BestInv => SearchTypeOK
  <2> SUFFICES ASSUME SearchInv, BestInv PROVE SearchTypeOK
    OBVIOUS
  <2>1. theta \in [Calls -> Nat]
    BY ThetaIs
  <2>2. next \in [Calls -> 1..MaxParts + MaxThreads + 2]
    <3>1. next \in [Calls -> Nat \ {0}] /\ scene \in Scenes
      BY DEF SearchInv, SearchTypes
    <3>2. ASSUME NEW c \in Calls PROVE next[c] <= MaxParts + MaxThreads + 2
      <4> DEFINE k == Cardinality(Outs(c))
                 m == Cardinality(Workers)
      <4>1. 0 \in Int /\ MaxThreads \in Int /\ MaxThreads \in Nat
        BY MaxThreadsAssumption
      <4>2. IsFiniteSet(Workers) /\ m = MaxThreads + 1
        BY <4>1, FS_Interval DEF Workers
      <4>3. k <= m /\ k \in Nat
        BY <4>2, OutsAre, FS_Subset
      <4>4. next[c] <= PartsNb + 1 + k
        BY DEF BestInv, NextOk
      <4>5. PartsNb \in 1..MaxParts /\ MaxParts \in Nat /\ next[c] \in Nat
        BY <3>1, NumbersOf, ScenesAssumption
      <4> HIDE DEF k, m
      <4> QED
        BY <4>1, <4>2, <4>3, <4>4, <4>5
    <3> QED
      BY <3>1, <3>2, MaxThreadsAssumption, ScenesAssumption
  <2>3. ASSUME NEW c \in Calls, NEW w \in Workers
        PROVE  worker[c][w] \in [at : {"off", "hire", "take", "slice"} \cup Over,
                                 part : 0..MaxParts, given : 0..MaxThreads + 1]
    <3>1. worker[c][w] \in WorkerStates
      BY DEF SearchInv, SearchTypes
    <3> QED
      BY <3>1 DEF WorkerStates
  <2>4. ASSUME NEW c \in Calls, NEW p \in Parts, NEW n \in DOMAIN scan[c][p]
        PROVE  /\ scan[c][p][n].at \in {"given", "window", "docs"} \cup Over
               /\ scan[c][p][n].to <= scan[c][p][n].hi
    BY ScanIs DEF Sound, ScanOk, ScanBase
  <2>5. outcome \in [Calls -> {"none", "answered", "raised"}] /\ PoolTypeOK
    BY DEF SearchInv, SearchTypes, PoolInv
  <2> QED
    BY <2>1, <2>2, <2>3, <2>4, <2>5 DEF SearchTypeOK
<1> QED
  BY <1>1, SpecBest, PTL

LEMMA WantedIs == ASSUME NEW c PROVE Wanted(c) = Best(All(c), scene.topK)
BY DEF Wanted, All, Exact

\* "a lower bound of the k-th best score of all": whatever the threads have scored,
\* and in whatever order they raise theta, as many live documents of the whole index
\* as asked for reach it (raiseThreshold, scanRange).
THEOREM ThetaIsReached == Spec => []ThetaReached
<1>1. SearchInv /\ BestInv => ThetaReached
  <2> SUFFICES ASSUME SearchInv, BestInv, NEW c \in Calls, theta[c] > 0
               PROVE  Len(Wanted(c)) = scene.topK /\ Last(Wanted(c)).score >= theta[c]
    BY DEF ThetaReached
  <2> DEFINE h == theta[c]
             D == All(c)
             k == scene.topK
  <2>1. h \in Nat \ {0} /\ Attained(D, k, h)
    BY ThetaIs
  <2>2. D \in SUBSET Records /\ IsFiniteSet(D) /\ k \in Int
    BY AllIs, SceneIs DEF SearchInv, SearchTypes
  <2> HIDE DEF h, D, k
  <2>3. Len(Best(D, k)) = k /\ Last(Best(D, k)).score >= h
    BY <2>1, <2>2, AttainedIs
  <2> QED
    BY <2>3, WantedIs DEF h, D, k
<1> QED
  BY <1>1, SpecBest, PTL

\* "exact": the answer of a search is that of an exhaustive search of one index,
\* whatever the segments, the slices, the blocks skipped, and the interleaving of
\* the threads (search, searchMaxScore, scanRange).
THEOREM AnswersExactly == Spec => []TopKExact
<1>1. SearchInv /\ BestInv => TopKExact
  <2> SUFFICES ASSUME SearchInv, BestInv, NEW c \in Calls, outcome[c] = "answered"
               PROVE  Answer(c) = Wanted(c)
    BY DEF TopKExact
  <2> DEFINE D == All(c)
             k == scene.topK
             F == UNION {Range(found[c][p]) : p \in 1..PartsNb}
  <2>1. D \in SUBSET Records /\ IsFiniteSet(D) /\ k \in Int
    BY AllIs, SceneIs DEF SearchInv, SearchTypes
  <2>2. \A p \in 1..PartsNb : Complete(c, p, found[c][p])
    BY DEF BestInv, AnswerOk
  <2>3. F \in SUBSET D
    BY <2>2 DEF Complete, All
  <2>4. \A x \in D \ F : Outdone(D, k, x)
    <3> SUFFICES ASSUME NEW x \in D, x \notin F PROVE Outdone(D, k, x)
      OBVIOUS
    <3>1. PICK p \in 1..PartsNb : x \in Exact(c, p)
      BY DEF All
    <3>2. x \notin Range(found[c][p])
      OBVIOUS
    <3> QED
      BY <3>1, <3>2, <2>2 DEF Complete, Settled
  <2>5. Answer(c) = Best(F, k)
    BY DEF Answer
  <2> HIDE DEF D, k, F
  <2>6. Best(F, k) = Best(D, k)
    BY <2>1, <2>3, <2>4, BestSame
  <2> QED
    BY <2>5, <2>6, WantedIs DEF D, k
<1> QED
  BY <1>1, SpecBest, PTL

=============================================================================
