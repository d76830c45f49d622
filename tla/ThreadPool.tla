----------------------------- MODULE ThreadPool -----------------------------
(***************************************************************************)
(* The thread pool that runs the handlers of incoming messages             *)
(* (sdk/utility/threadpool/threadpool.c).                                  *)
(*                                                                         *)
(* Every section between taking and releasing pool->lock is one step.      *)
(* pthread_cond_wait releases the lock and leaves the thread in the set of *)
(* waiting threads; it takes the lock again in the thread's next step.     *)
(* A signal wakes one waiting thread if there is one, a broadcast all, and *)
(* a thread may wake without either.  Calls that are refused (queue full,  *)
(* shutting down, NULL arguments) change nothing and are not steps.        *)
(* Failures of pthread mutexes and condition variables are left out; calls *)
(* on a pool that has been freed are modelled in Lifecycle, which makes    *)
(* them.                                                                   *)
(***************************************************************************)
EXTENDS Integers, FiniteSets

CONSTANTS
  ThreadCount,  \* thread_count given to threadpool_create, 5 in leda_init
  QueueSize,    \* queue_size given to threadpool_create
  MaxTasks      \* bound: tasks submitted

ASSUME PoolAssumption ==
  /\ ThreadCount \in Nat \ {0}
  /\ QueueSize \in Nat \ {0}
  /\ MaxTasks \in Nat

Threads == 1..ThreadCount
Outside == 0       \* the thread of the application that owns the pool
NoOne   == -1
Slots   == 0..(QueueSize - 1)

VARIABLES
  \* the struct threadpool_t
  queue, head, tail, count, shutdown, started, thread_count,
  phase,      \* creating, open (threadpool_create has returned), failed
  state,      \* per thread: unborn, ready, waiting, running, exited
  doing,      \* the task each thread runs, or 0
  \* threadpool_destroy
  destroyer,  \* the thread that is in it, or NoOne
  joined,     \* the threads joined so far
  err,        \* a join has failed
  freed,      \* threadpool_free has freed the pool
  \* history
  accepted,   \* number of the last task accepted
  finished    \* the tasks that have returned

ringVars    == <<queue, head, tail, count>>
createVars  == <<started, thread_count, phase>>
destroyVars == <<destroyer, joined, err, freed>>
vars == <<ringVars, shutdown, createVars, state, doing, destroyVars,
          accepted, finished>>

Init ==
  /\ queue = [i \in Slots |-> 0]
  /\ head = 0 /\ tail = 0 /\ count = 0
  /\ shutdown = "none"
  /\ started = 0 /\ thread_count = 0 /\ phase = "creating"
  /\ state = [t \in Threads |-> "unborn"]
  /\ doing = [t \in Threads |-> 0]
  /\ destroyer = NoOne /\ joined = 0 /\ err = FALSE /\ freed = FALSE
  /\ accepted = 0 /\ finished = {}

Waiting == {t \in Threads : state[t] = "waiting"}
Ready   == {t \in Threads : state[t] = "ready"}
Alive   == {t \in Threads : state[t] \notin {"unborn", "exited"}}

-----------------------------------------------------------------------------
(* threadpool_create.                                                      *)

(* There is no memory for the pool, its threads or its queue: what there   *)
(* is of the pool is freed.  (A queue without threads stays allocated.)    *)
AllocationFails ==
  /\ phase = "creating" /\ thread_count = 0
  /\ phase' = "failed"
  /\ freed' = TRUE
  /\ UNCHANGED <<ringVars, shutdown, started, thread_count, state, doing,
                 destroyer, joined, err, accepted, finished>>

CreateThread ==
  /\ phase = "creating" /\ thread_count < ThreadCount
  /\ thread_count' = thread_count + 1
  /\ started' = started + 1
  /\ state' = [state EXCEPT ![thread_count + 1] = "ready"]
  /\ UNCHANGED <<ringVars, shutdown, phase, doing, destroyVars, accepted, finished>>

CreateReturns ==
  /\ phase = "creating" /\ thread_count = ThreadCount
  /\ phase' = "open"
  /\ UNCHANGED <<ringVars, shutdown, started, thread_count, state, doing,
                 destroyVars, accepted, finished>>

-----------------------------------------------------------------------------
(* threadpool_add.                                                         *)

(* (i + 1) % queue_size                                                    *)
NextSlot(i) == IF i = QueueSize - 1 THEN 0 ELSE i + 1

Full == count = QueueSize

(* Mutant: no signal.                                                      *)
SignalNobody == UNCHANGED state

(* pthread_cond_signal.                                                    *)
Signal ==
  IF Waiting = {} THEN UNCHANGED state
                  ELSE \E t \in Waiting : state' = [state EXCEPT ![t] = "ready"]

(* Mutant: a pool that shuts down still accepts tasks.                     *)
AddAnyTime ==
  /\ phase = "open" /\ ~freed /\ ~Full
  /\ accepted < MaxTasks
  /\ accepted' = accepted + 1
  /\ queue' = [queue EXCEPT ![tail] = accepted']
  /\ tail' = NextSlot(tail)
  /\ count' = count + 1
  /\ Signal
  /\ UNCHANGED <<head, shutdown, createVars, doing, destroyVars, finished>>

Add ==
  /\ phase = "open" /\ ~freed
  /\ ~Full /\ shutdown = "none"
  /\ accepted < MaxTasks
  /\ accepted' = accepted + 1
  /\ queue' = [queue EXCEPT ![tail] = accepted']
  /\ tail' = NextSlot(tail)
  /\ count' = count + 1
  /\ Signal
  /\ UNCHANGED <<head, shutdown, createVars, doing, destroyVars, finished>>

-----------------------------------------------------------------------------
(* threadpool_thread: what a thread does once it has the lock.             *)

NothingToDo == count = 0 /\ shutdown = "none"

MustExit == shutdown = "immediate" \/ (shutdown = "graceful" /\ count = 0)

Wait(t) ==
  /\ state[t] = "ready" /\ NothingToDo
  /\ state' = [state EXCEPT ![t] = "waiting"]
  /\ UNCHANGED <<ringVars, shutdown, createVars, doing, destroyVars, accepted,
                 finished>>

(* A spurious wake-up.                                                     *)
Wake(t) ==
  /\ state[t] = "waiting"
  /\ state' = [state EXCEPT ![t] = "ready"]
  /\ UNCHANGED <<ringVars, shutdown, createVars, doing, destroyVars, accepted,
                 finished>>

Take(t) ==
  /\ state[t] = "ready" /\ ~NothingToDo /\ ~MustExit
  /\ doing' = [doing EXCEPT ![t] = queue[head]]
  /\ head' = NextSlot(head)
  /\ count' = count - 1
  /\ state' = [state EXCEPT ![t] = "running"]
  /\ UNCHANGED <<queue, tail, shutdown, createVars, destroyVars, accepted, finished>>

(* The task returns; a task that has called threadpool_destroy does so     *)
(* after that call.                                                        *)
Finish(t) ==
  /\ state[t] = "running" /\ destroyer # t
  /\ finished' = finished \cup {doing[t]}
  /\ doing' = [doing EXCEPT ![t] = 0]
  /\ state' = [state EXCEPT ![t] = "ready"]
  /\ UNCHANGED <<ringVars, shutdown, createVars, destroyVars, accepted>>

Exit(t) ==
  /\ state[t] = "ready" /\ MustExit
  /\ started' = started - 1
  /\ state' = [state EXCEPT ![t] = "exited"]
  /\ UNCHANGED <<ringVars, shutdown, thread_count, phase, doing, destroyVars,
                 accepted, finished>>

-----------------------------------------------------------------------------
(* threadpool_destroy.                                                     *)

(* Mutant: no broadcast.                                                   *)
BroadcastNobody == UNCHANGED state

(* pthread_cond_broadcast.                                                 *)
Broadcast == state' = [t \in Threads |-> IF t \in Waiting THEN "ready" ELSE state[t]]

(* The first lock section: only the first caller gets past it.             *)
BeginDestroy(d, mode) ==
  /\ shutdown = "none"
  /\ shutdown' = mode
  /\ Broadcast
  /\ destroyer' = d
  /\ UNCHANGED <<ringVars, started, thread_count, doing, joined, err, freed,
                 accepted, finished>>

(* The application's thread destroys the pool.                             *)
Destroy ==
  /\ phase = "open" /\ ~freed
  /\ \E mode \in {"graceful", "immediate"} : BeginDestroy(Outside, mode)
  /\ UNCHANGED phase

(* A task destroys the pool it runs in.                                    *)
DestroyFromTask(t) ==
  /\ phase = "open" /\ state[t] = "running"
  /\ \E mode \in {"graceful", "immediate"} : BeginDestroy(t, mode)
  /\ UNCHANGED phase

(* pthread_create fails: threadpool_create destroys what there is.         *)
CreateFails ==
  /\ phase = "creating" /\ thread_count < ThreadCount
  /\ phase' = "failed"
  /\ BeginDestroy(Outside, "immediate")

InDestroy == destroyer # NoOne

(* Mutant: threads are not waited for.                                     *)
JoinNobody ==
  /\ InDestroy /\ joined < thread_count
  /\ joined' = joined + 1
  /\ UNCHANGED <<ringVars, shutdown, createVars, state, doing, destroyer, err,
                 freed, accepted, finished>>

(* pthread_join of the next thread returns when that thread has exited ... *)
Join ==
  /\ InDestroy /\ joined < thread_count
  /\ state[joined + 1] = "exited"
  /\ joined' = joined + 1
  /\ UNCHANGED <<ringVars, shutdown, createVars, state, doing, destroyer, err,
                 freed, accepted, finished>>

(* ... or fails at once when it is the calling thread.                     *)
JoinSelf ==
  /\ InDestroy /\ joined < thread_count
  /\ joined + 1 = destroyer
  /\ joined' = joined + 1
  /\ err' = TRUE
  /\ UNCHANGED <<ringVars, shutdown, createVars, state, doing, destroyer,
                 freed, accepted, finished>>

(* All threads have been joined: threadpool_free, which does nothing when  *)
(* it thinks that a thread is still there.                                 *)
EndDestroy ==
  /\ InDestroy /\ joined = thread_count
  /\ destroyer' = NoOne
  /\ freed' = (~err /\ started <= 0)
  /\ UNCHANGED <<ringVars, shutdown, createVars, state, doing, joined, err,
                 accepted, finished>>

-----------------------------------------------------------------------------
Worker(t) == Wait(t) \/ Take(t) \/ Finish(t) \/ Exit(t)

DestroyStep == Join \/ JoinSelf \/ EndDestroy

Next ==
  \/ AllocationFails \/ CreateThread \/ CreateReturns \/ CreateFails
  \/ Add
  \/ Destroy
  \/ DestroyStep
  \/ \E t \in Threads : Worker(t) \/ Wake(t) \/ DestroyFromTask(t)

Spec == Init /\ [][Next]_vars

(* Threads run, tasks return, and whoever called threadpool_destroy goes   *)
(* on; nobody has to add a task, to destroy the pool or to wake up for     *)
(* nothing.                                                                *)
FairSpec ==
  /\ Spec
  /\ \A t \in Threads : WF_vars(Worker(t))
  /\ WF_vars(DestroyStep)

-----------------------------------------------------------------------------
TypeOK ==
  /\ queue \in [Slots -> 0..MaxTasks]
  /\ head \in Slots /\ tail \in Slots /\ count \in 0..QueueSize
  /\ shutdown \in {"none", "graceful", "immediate"}
  /\ started \in 0..ThreadCount /\ thread_count \in 0..ThreadCount
  /\ phase \in {"creating", "open", "failed"}
  /\ state \in [Threads -> {"unborn", "ready", "waiting", "running", "exited"}]
  /\ doing \in [Threads -> 0..MaxTasks]
  /\ destroyer \in Threads \cup {Outside, NoOne}
  /\ joined \in 0..ThreadCount
  /\ err \in BOOLEAN /\ freed \in BOOLEAN
  /\ accepted \in 0..MaxTasks
  /\ finished \subseteq 1..MaxTasks

(* pool->started counts the threads that have not left the pool, so that   *)
(* threadpool_free can rely on it.                                         *)
StartedCountsThreads == started = Cardinality(Alive)

(* threadpool_destroy frees the pool only when no thread can touch it any  *)
(* more, and does free it unless a task called it.                         *)
FreedWhenUnused ==
  /\ freed => Alive = {}
  /\ joined = thread_count /\ shutdown # "none" /\ ~InDestroy /\ ~err => freed

(* threadpool.h: with threadpool_graceful the pool "processes all pending  *)
(* tasks before shutdown".                                                 *)
GracefulProcessesAll ==
  shutdown = "graceful" /\ freed => finished = 1..accepted

(* One signal per task is enough: as long as a thread waits, there are at  *)
(* least as many threads on their way to the queue as tasks in it.         *)
SignalsSuffice == Waiting # {} => count <= Cardinality(Ready)

(* How far slot i is behind the head of the queue.                         *)
Behind(i) == IF i >= head THEN i - head ELSE i - head + QueueSize

(* The count slots from head on hold the tasks accepted last, in order.    *)
QueueLayout ==
  /\ \A i \in Slots : Behind(i) < count => queue[i] = accepted - count + 1 + Behind(i)
  /\ Behind(tail) = IF Full THEN 0 ELSE count

(* A task is in the queue, run by exactly one thread, or finished.         *)
TasksAccounted ==
  /\ \A t \in Threads : /\ doing[t] <= accepted - count
                        /\ doing[t] # 0 <=> state[t] = "running"
                        /\ doing[t] \notin finished
  /\ \A t, u \in Threads : doing[t] = doing[u] => t = u \/ doing[t] = 0
  /\ \A n \in 1..accepted - count : n \in finished \/ \E t \in Threads : doing[t] = n
  /\ finished \subseteq 1..(accepted - count)

(* The pool implements the queue of TaskQueue.                             *)
Tasks == INSTANCE TaskQueue WITH
           Capacity <- QueueSize, begun <- accepted - count, ended <- finished,
           mode <- shutdown, gone <- freed

ImplementsTaskQueue == Tasks!QueueSpec

-----------------------------------------------------------------------------
(* Why the invariants above hold: their inductive strengthening.           *)

(* Threads are created in order; only a complete pool is opened, and       *)
(* nobody adds a task to it before.                                        *)
CreateInv ==
  /\ \A t \in Threads : state[t] = "unborn" <=> t > thread_count
  /\ phase = "creating" => shutdown = "none" /\ accepted = 0 /\ ~freed
  /\ phase = "open" => thread_count = ThreadCount

(* Nobody waits in a pool that shuts down, and nobody leaves a gracefully  *)
(* shut down pool before its queue is empty.                               *)
ShutdownInv ==
  /\ shutdown # "none" => Waiting = {}
  /\ shutdown = "graceful" => phase = "open"
  /\ \A t \in Threads : state[t] = "exited" =>
                           /\ shutdown # "none"
                           /\ shutdown = "graceful" => count = 0

(* How far threadpool_destroy is.                                          *)
JoinInv ==
  /\ shutdown = "none" => destroyer = NoOne /\ joined = 0 /\ ~err
  /\ shutdown = "none" /\ freed => phase = "failed" /\ thread_count = 0
  /\ joined <= thread_count
  /\ destroyer \in Threads => state[destroyer] = "running"
  /\ ~err => \A t \in Threads : t <= joined => state[t] = "exited"
  /\ shutdown # "none" /\ ~InDestroy => joined = thread_count /\ (err \/ freed)
  /\ freed => ~err /\ ~InDestroy

(* Together: an invariant that every step preserves.                       *)
IInv == /\ TypeOK /\ StartedCountsThreads
        /\ CreateInv /\ ShutdownInv /\ JoinInv
        /\ QueueLayout /\ TasksAccounted

-----------------------------------------------------------------------------
(* A task that was accepted is run, unless the pool is shut down           *)
(* immediately.                                                            *)
AcceptedTasksRun ==
  \A n \in 1..MaxTasks :
    accepted >= n ~> (n \in finished \/ shutdown = "immediate")

(* threadpool_destroy returns.                                             *)
DestroyReturns == InDestroy ~> ~InDestroy
=============================================================================
