-------------------------- MODULE ThreadPoolProofs --------------------------
(***************************************************************************)
(* Theorems about ThreadPool, for any number of threads, any size of the   *)
(* queue and any number of tasks.                                          *)
(***************************************************************************)
EXTENDS ThreadPool, FiniteSetTheorems, TLAPS

States == {"unborn", "ready", "waiting", "running", "exited"}

(* Threads that were waiting may have become ready; the others are where   *)
(* they were.                                                              *)
Woken == /\ state' \in [Threads -> States]
         /\ \A t \in Threads : \/ state'[t] = state[t]
                               \/ state[t] = "waiting" /\ state'[t] = "ready"

(* What a signal, a broadcast and a spurious wake-up have in common.       *)
LEMMA WakingUp ==
  ASSUME state \in [Threads -> States],
         Signal \/ Broadcast \/ \E t \in Threads : Wake(t)
  PROVE  Woken
<1>1. CASE Signal
  <2>1. CASE Waiting = {}
    BY <1>1, <2>1 DEF Signal, Woken
  <2>2. CASE \E t \in Waiting : state' = [state EXCEPT ![t] = "ready"]
    BY <2>2 DEF Woken, Waiting, States
  <2>3. QED
    BY <1>1, <2>1, <2>2 DEF Signal
<1>2. CASE Broadcast
  BY <1>2 DEF Broadcast, Woken, Waiting, States
<1>3. CASE \E t \in Threads : Wake(t)
  BY <1>3 DEF Wake, Woken, States
<1>4. QED
  BY <1>1, <1>2, <1>3

LEMMA ThreadsFinite == /\ IsFiniteSet(Threads) /\ Cardinality(Threads) = ThreadCount
                       /\ \A S \in SUBSET Threads :
                            /\ IsFiniteSet(S)
                            /\ Cardinality(S) \in 0..ThreadCount
<1>1. IsFiniteSet(Threads) /\ Cardinality(Threads) = ThreadCount
  BY PoolAssumption, FS_Interval DEF Threads
<1>2. ASSUME NEW S \in SUBSET Threads
      PROVE  IsFiniteSet(S) /\ Cardinality(S) \in 0..ThreadCount
  <2>1. IsFiniteSet(S) /\ Cardinality(S) <= ThreadCount
    BY <1>1, FS_Subset
  <2>2. Cardinality(S) \in Nat
    BY <2>1, FS_CardinalityType
  <2>3. QED
    BY <2>1, <2>2, PoolAssumption
<1>3. QED
  BY <1>1, <1>2

-----------------------------------------------------------------------------
(* pool->started.                                                          *)

LEMMA StartedKept ==
  ASSUME IInv, [Next]_vars
  PROVE  StartedCountsThreads' /\ started' \in 0..ThreadCount
<1> USE PoolAssumption DEF vars, createVars
<1>0. /\ state \in [Threads -> States] /\ started = Cardinality(Alive)
      /\ started \in 0..ThreadCount /\ thread_count \in 0..ThreadCount
      /\ \A t \in Threads : state[t] = "unborn" <=> t > thread_count
  BY DEF IInv, TypeOK, StartedCountsThreads, CreateInv, States
<1> SUFFICES StartedCountsThreads'
  <2>1. Alive' \subseteq Threads
    BY DEF Alive
  <2>2. QED
    BY <2>1, ThreadsFinite DEF StartedCountsThreads
<1>1. Alive \in SUBSET Threads /\ IsFiniteSet(Alive)
  BY ThreadsFinite DEF Alive
<1>2. CASE Alive' = Alive /\ started' = started
  BY <1>0, <1>2 DEF StartedCountsThreads
<1>3. CASE CreateThread
  <2>1. /\ thread_count + 1 \in Threads /\ thread_count + 1 \notin Alive
        /\ Alive' = Alive \cup {thread_count + 1}
    BY <1>0, <1>3 DEF CreateThread, Alive, Threads
  <2>2. Cardinality(Alive \cup {thread_count + 1}) = Cardinality(Alive) + 1
    BY <1>1, <2>1, FS_AddElement
  <2>3. QED
    BY <1>0, <1>3, <2>1, <2>2 DEF CreateThread, StartedCountsThreads
<1>4. ASSUME NEW t \in Threads, Exit(t) PROVE StartedCountsThreads'
  <2>1. t \in Alive /\ Alive' = Alive \ {t}
    BY <1>0, <1>4 DEF Exit, Alive
  <2>2. Cardinality(Alive \ {t}) = Cardinality(Alive) - 1
    BY <1>1, <2>1, FS_RemoveElement
  <2>3. QED
    BY <1>0, <1>4, <2>1, <2>2 DEF Exit, StartedCountsThreads
<1>5. CASE Woken /\ started' = started
  <2>1. Alive' = Alive
    BY <1>0, <1>5 DEF Woken, Alive
  <2>2. QED
    BY <1>2, <1>5, <2>1
<1>6. CASE Add
  BY <1>0, <1>5, <1>6, WakingUp DEF Add
<1>7. CASE CreateFails \/ Destroy
  BY <1>0, <1>5, <1>7, WakingUp DEF CreateFails, Destroy, BeginDestroy
<1>8. ASSUME NEW t \in Threads, Wake(t) \/ DestroyFromTask(t)
      PROVE  StartedCountsThreads'
  BY <1>0, <1>5, <1>8, WakingUp DEF Wake, DestroyFromTask, BeginDestroy
<1>9. CASE AllocationFails \/ CreateReturns \/ DestroyStep \/ UNCHANGED vars
  <2>1. state' = state /\ started' = started
    BY <1>9 DEF AllocationFails, CreateReturns, DestroyStep, Join, JoinSelf, EndDestroy
  <2>2. QED
    BY <1>2, <2>1 DEF Alive
<1>10. ASSUME NEW t \in Threads, Wait(t) \/ Take(t) \/ Finish(t)
       PROVE  StartedCountsThreads'
  <2>1. started' = started
    BY <1>10 DEF Wait, Take, Finish
  <2>2. Alive' = Alive
    BY <1>0, <1>10 DEF Wait, Take, Finish, Alive
  <2>3. QED
    BY <1>2, <2>1, <2>2
<1>11. QED
  BY <1>3, <1>4, <1>6, <1>7, <1>8, <1>9, <1>10 DEF Next, Worker

-----------------------------------------------------------------------------
(* What a step does to the state of the threads, in terms of CreateInv,    *)
(* ShutdownInv and JoinInv.                                                *)

LEMMA TypedState ==
  ASSUME TypeOK
  PROVE  /\ state \in [Threads -> States]
         /\ thread_count \in 0..ThreadCount /\ joined \in 0..ThreadCount
         /\ count \in 0..QueueSize
         /\ shutdown \in {"none", "graceful", "immediate"}
         /\ destroyer \in Threads \cup {Outside, NoOne}
         /\ Outside \notin Threads /\ NoOne \notin Threads /\ Outside # NoOne
BY DEF TypeOK, States, Outside, NoOne, Threads

(* A call of threadpool_destroy that gets past the first lock section.     *)
LEMMA DestroyBegins ==
  ASSUME state \in [Threads -> States],
         CreateFails \/ Destroy \/ \E t \in Threads : DestroyFromTask(t)
  PROVE  /\ shutdown = "none" /\ shutdown' \in {"graceful", "immediate"}
         /\ phase = "creating" => shutdown' = "immediate" /\ phase' = "failed"
         /\ phase # "creating" => phase = "open" /\ phase' = "open"
         /\ Woken /\ Waiting' = {}
         /\ \/ destroyer' = Outside
            \/ destroyer' \in Threads /\ state[destroyer'] = "running"
         /\ UNCHANGED <<ringVars, started, thread_count, doing, joined, err,
                        freed, accepted, finished>>
<1>1. \A d : \A mode \in {"graceful", "immediate"} :
        BeginDestroy(d, mode) =>
          /\ shutdown = "none" /\ shutdown' = mode
          /\ Woken /\ Waiting' = {} /\ destroyer' = d
          /\ UNCHANGED <<ringVars, started, thread_count, doing, joined, err,
                         freed, accepted, finished>>
  <2>1. Broadcast => Waiting' = {}
    BY DEF Broadcast, Waiting
  <2>2. QED
    BY <2>1, WakingUp DEF BeginDestroy
<1>2. CASE CreateFails
  BY <1>1, <1>2 DEF CreateFails
<1>3. CASE Destroy
  BY <1>1, <1>3 DEF Destroy
<1>4. CASE \E t \in Threads : DestroyFromTask(t)
  BY <1>1, <1>4 DEF DestroyFromTask
<1>5. QED
  BY <1>2, <1>3, <1>4

LEMMA CreateInvKept ==
  ASSUME IInv, [Next]_vars
  PROVE  CreateInv'
<1> USE PoolAssumption
<1>0. TypeOK /\ CreateInv
  BY DEF IInv
<1>1. /\ state \in [Threads -> States] /\ thread_count \in 0..ThreadCount
  BY <1>0, TypedState
<1>a. CASE AllocationFails
  BY <1>0, <1>a DEF AllocationFails, CreateInv
<1>2. CASE CreateThread
  BY <1>0, <1>1, <1>2 DEF CreateThread, CreateInv, Threads, destroyVars
<1>3. CASE CreateReturns
  BY <1>0, <1>3 DEF CreateReturns, CreateInv
<1>4. CASE CreateFails \/ Destroy \/ \E t \in Threads : DestroyFromTask(t)
  BY <1>0, <1>1, <1>4, DestroyBegins DEF CreateInv, Woken
<1>5. CASE Add
  <2>1. Woken /\ phase = "open" /\ UNCHANGED <<shutdown, createVars>>
    BY <1>1, <1>5, WakingUp DEF Add
  <2>2. QED
    BY <1>0, <2>1 DEF CreateInv, createVars, Woken
<1>6. CASE DestroyStep \/ UNCHANGED vars
  <2>1. /\ UNCHANGED <<state, shutdown, thread_count, phase, accepted>>
        /\ phase = "creating" => freed' = freed
    BY <1>0, <1>6 DEF DestroyStep, Join, JoinSelf, EndDestroy, InDestroy, vars,
                      createVars, destroyVars, CreateInv, IInv, JoinInv
  <2>2. QED
    BY <1>0, <2>1 DEF CreateInv
<1>7. ASSUME NEW t \in Threads, Worker(t) \/ Wake(t)
      PROVE  CreateInv'
  <2>1. UNCHANGED <<shutdown, thread_count, phase, accepted, freed>>
    BY <1>7 DEF Worker, Wait, Take, Finish, Exit, Wake, createVars, destroyVars
  <2>2. \A u \in Threads : state'[u] = "unborn" <=> state[u] = "unborn"
    BY <1>1, <1>7 DEF Worker, Wait, Take, Finish, Exit, Wake
  <2>3. QED
    BY <1>0, <2>1, <2>2 DEF CreateInv
<1>8. QED
  BY <1>a, <1>2, <1>3, <1>4, <1>5, <1>6, <1>7 DEF Next

LEMMA ShutdownInvKept ==
  ASSUME IInv, [Next]_vars
  PROVE  ShutdownInv'
<1> USE PoolAssumption
<1>0. TypeOK /\ CreateInv /\ ShutdownInv
  BY DEF IInv
<1>1. /\ state \in [Threads -> States] /\ thread_count \in 0..ThreadCount
      /\ count \in 0..QueueSize
      /\ shutdown \in {"none", "graceful", "immediate"}
  BY <1>0, TypedState
<1>2. CASE CreateThread
  BY <1>0, <1>1, <1>2 DEF CreateThread, CreateInv, ShutdownInv, Waiting, ringVars
<1>a. CASE AllocationFails
  BY <1>0, <1>a DEF AllocationFails, CreateInv, ShutdownInv, Waiting, ringVars
<1>3. CASE CreateReturns
  BY <1>0, <1>3 DEF CreateReturns, ShutdownInv, Waiting, ringVars
<1>4. CASE CreateFails \/ Destroy \/ \E t \in Threads : DestroyFromTask(t)
  BY <1>0, <1>1, <1>4, DestroyBegins DEF ShutdownInv, Woken, ringVars
<1>5. CASE Add
  <2>1. Woken /\ shutdown = "none" /\ UNCHANGED <<shutdown, createVars>>
    BY <1>1, <1>5, WakingUp DEF Add
  <2>2. QED
    BY <1>0, <2>1 DEF ShutdownInv, createVars, Woken
<1>6. CASE DestroyStep \/ UNCHANGED vars
  <2>1. UNCHANGED <<state, shutdown, phase, count>>
    BY <1>6 DEF DestroyStep, Join, JoinSelf, EndDestroy, vars, createVars, ringVars
  <2>2. QED
    BY <1>0, <2>1 DEF ShutdownInv, Waiting
<1>7. ASSUME NEW t \in Threads, Worker(t) \/ Wake(t)
      PROVE  ShutdownInv'
  <2>1. UNCHANGED <<shutdown, phase>>
    BY <1>7 DEF Worker, Wait, Take, Finish, Exit, Wake, createVars
  <2>2. CASE Wait(t)
    BY <1>0, <1>1, <2>1, <2>2 DEF Wait, NothingToDo, ShutdownInv, ringVars
  <2>3. CASE Take(t)
    <3>1. ~(shutdown = "graceful" /\ count = 0) /\ shutdown # "immediate"
      BY <2>3 DEF Take, MustExit
    <3>2. count \in Nat /\ count' = count - 1
      BY <1>1, <2>3 DEF Take
    <3>3. \A u \in Threads : /\ state'[u] = "exited" => state[u] = "exited"
                             /\ state'[u] = "waiting" => state[u] = "waiting"
      BY <1>1, <2>3 DEF Take
    <3>4. QED
      BY <1>0, <2>1, <3>1, <3>2, <3>3 DEF ShutdownInv, Waiting
  <2>4. CASE Finish(t) \/ Wake(t)
    BY <1>0, <1>1, <2>1, <2>4 DEF Finish, Wake, ShutdownInv, Waiting, ringVars
  <2>5. CASE Exit(t)
    BY <1>0, <1>1, <2>1, <2>5 DEF Exit, MustExit, ShutdownInv, Waiting, ringVars
  <2>6. QED
    BY <1>7, <2>2, <2>3, <2>4, <2>5 DEF Worker
<1>8. QED
  BY <1>a, <1>2, <1>3, <1>4, <1>5, <1>6, <1>7 DEF Next

LEMMA JoinInvKept ==
  ASSUME IInv, [Next]_vars
  PROVE  JoinInv'
<1> USE PoolAssumption DEF destroyVars
<1>0. TypeOK /\ CreateInv /\ ShutdownInv /\ JoinInv
  BY DEF IInv
<1>1. /\ state \in [Threads -> States] /\ thread_count \in 0..ThreadCount
      /\ joined \in 0..ThreadCount
      /\ shutdown \in {"none", "graceful", "immediate"}
      /\ destroyer \in Threads \cup {Outside, NoOne}
      /\ Outside \notin Threads /\ NoOne \notin Threads /\ Outside # NoOne
  BY <1>0, TypedState
<1>2. CASE CreateThread
  BY <1>0, <1>1, <1>2 DEF CreateThread, CreateInv, JoinInv, InDestroy, Threads
<1>a. CASE AllocationFails
  BY <1>0, <1>a DEF AllocationFails, CreateInv, JoinInv, InDestroy
<1>3. CASE CreateReturns
  BY <1>0, <1>3 DEF CreateReturns, CreateInv, JoinInv, InDestroy
<1>4. CASE CreateFails \/ Destroy \/ \E t \in Threads : DestroyFromTask(t)
  <2>1. PICK d \in Threads \cup {Outside} :
          /\ destroyer' = d
          /\ d # Outside => state[d] = "running"
    BY <1>1, <1>4, DestroyBegins
  <2>2. /\ joined = 0 /\ ~err /\ ~freed /\ UNCHANGED <<thread_count, joined, err, freed>>
        /\ shutdown' # "none" /\ Woken
    BY <1>0, <1>1, <1>4, DestroyBegins DEF JoinInv, CreateInv
  <2>3. d \in Threads => state'[d] = "running"
    BY <1>1, <2>1, <2>2 DEF Woken
  <2>4. \A t \in Threads : ~(t <= 0)
    BY DEF Threads
  <2>5. QED
    BY <1>0, <1>1, <2>1, <2>2, <2>3, <2>4 DEF JoinInv, InDestroy
<1>5. CASE Add
  <2>1. Woken /\ UNCHANGED <<shutdown, createVars, destroyVars>>
    BY <1>1, <1>5, WakingUp DEF Add
  <2>2. QED
    BY <1>0, <1>1, <2>1 DEF JoinInv, createVars, Woken, InDestroy
<1>6. CASE Join
  BY <1>0, <1>1, <1>6 DEF Join, JoinInv, InDestroy, createVars, Threads
<1>7. CASE JoinSelf
  BY <1>0, <1>1, <1>7 DEF JoinSelf, JoinInv, InDestroy, createVars
<1>8. CASE EndDestroy
  <2>1. ~err => started <= 0
    <3>1. SUFFICES ASSUME ~err PROVE Alive = {}
      BY FS_EmptySet, <1>0 DEF IInv, StartedCountsThreads
    <3>2. \A t \in Threads : t <= thread_count => state[t] = "exited"
      BY <1>0, <1>8, <3>1 DEF EndDestroy, JoinInv
    <3>3. \A t \in Threads : t > thread_count => state[t] = "unborn"
      BY <1>0 DEF CreateInv
    <3>4. \A t \in Threads : t <= thread_count \/ t > thread_count
      BY <1>1 DEF Threads
    <3>5. QED
      BY <3>2, <3>3, <3>4 DEF Alive
  <2>2. /\ destroyer' = NoOne /\ (freed' <=> ~err) /\ InDestroy
        /\ UNCHANGED <<shutdown, thread_count, state, joined, err>>
        /\ joined = thread_count
    BY <1>8, <2>1 DEF EndDestroy, createVars
  <2>3. shutdown # "none"
    BY <1>0, <2>2 DEF JoinInv, InDestroy
  <2>4. QED
    BY <1>0, <1>1, <2>2, <2>3 DEF JoinInv, InDestroy
<1>9. ASSUME NEW t \in Threads, Worker(t) \/ Wake(t)
      PROVE  JoinInv'
  <2>1. UNCHANGED <<shutdown, phase, thread_count, destroyVars>>
    BY <1>9 DEF Worker, Wait, Take, Finish, Exit, Wake, createVars
  <2>2. \A u \in Threads : /\ state[u] = "exited" => state'[u] = "exited"
                           /\ u = destroyer => (state[u] = "running" => state'[u] = "running")
    BY <1>1, <1>9 DEF Worker, Wait, Take, Finish, Exit, Wake
  <2>3. QED
    BY <1>0, <2>1, <2>2 DEF JoinInv, InDestroy
<1>10. CASE UNCHANGED vars
  BY <1>0, <1>10 DEF vars, createVars, JoinInv, InDestroy
<1>11. QED
  BY <1>a, <1>2, <1>3, <1>4, <1>5, <1>6, <1>7, <1>8, <1>9, <1>10 DEF Next, DestroyStep

-----------------------------------------------------------------------------
(* The queue and the tasks.                                                *)

(* The distance from the head of the queue tells the slots apart.          *)
LEMMA Distances ==
  ASSUME head \in Slots
  PROVE  /\ \A i \in Slots : Behind(i) \in 0..(QueueSize - 1)
         /\ \A i, j \in Slots : Behind(i) = Behind(j) => i = j
         /\ Behind(head) = 0
         /\ \A i \in Slots : /\ NextSlot(i) \in Slots
                             /\ Behind(NextSlot(i)) =
                                  IF Behind(i) = QueueSize - 1 THEN 0 ELSE Behind(i) + 1
BY PoolAssumption DEF Slots, Behind, NextSlot

(* A step that moves the head to the next slot.                            *)
LEMMA HeadMoves ==
  ASSUME head \in Slots, head' = NextSlot(head)
  PROVE  \A i \in Slots :
           Behind(i)' = IF i = head THEN QueueSize - 1 ELSE Behind(i) - 1
BY PoolAssumption DEF Slots, Behind, NextSlot

LEMMA QueueLayoutKept ==
  ASSUME IInv, [Next]_vars
  PROVE  QueueLayout' /\ count' \in 0..QueueSize /\ head' \in Slots /\ tail' \in Slots
<1> USE PoolAssumption
<1>0. /\ QueueLayout /\ queue \in [Slots -> 0..MaxTasks]
      /\ head \in Slots /\ tail \in Slots /\ count \in 0..QueueSize
      /\ accepted \in 0..MaxTasks
  BY DEF IInv, TypeOK
<1>1. CASE Add
  <2>1. /\ accepted' = accepted + 1 /\ queue' = [queue EXCEPT ![tail] = accepted + 1]
        /\ head' = head /\ tail' = NextSlot(tail) /\ count' = count + 1 /\ count < QueueSize
    BY <1>0, <1>1 DEF Add, Full
  <2>2. Behind(tail) = count /\ \A i \in Slots : Behind(i)' = Behind(i)
    BY <1>0, <2>1 DEF QueueLayout, Full, Behind
  <2>3. ASSUME NEW i \in Slots, Behind(i) < count + 1
        PROVE  queue'[i] = accepted - count + 1 + Behind(i)
    <3>1. CASE i = tail
      BY <1>0, <2>1, <2>2, <3>1
    <3>2. CASE i # tail
      <4>1. Behind(i) < count
        BY <1>0, <2>2, <2>3, <3>2, Distances
      <4>2. QED
        BY <1>0, <2>1, <3>2, <4>1 DEF QueueLayout
    <3>3. QED
      BY <3>1, <3>2
  <2>4. \A i \in Slots : Behind(i)' < count' =>
          queue'[i] = accepted' - count' + 1 + Behind(i)'
    BY <1>0, <2>1, <2>2, <2>3
  <2>5. Behind(tail)' = IF count' = QueueSize THEN 0 ELSE count'
    <3>1. Behind(tail)' = Behind(NextSlot(tail))
      BY <2>1 DEF Behind
    <3>2. QED
      BY <1>0, <2>1, <2>2, <3>1, Distances
  <2>6. QED
    BY <1>0, <2>1, <2>4, <2>5, Distances DEF QueueLayout, Full
<1>2. ASSUME NEW t \in Threads, Take(t)
      PROVE  QueueLayout' /\ count' \in 0..QueueSize /\ head' \in Slots /\ tail' \in Slots
  <2>1. /\ head' = NextSlot(head) /\ tail' = tail /\ queue' = queue
        /\ accepted' = accepted /\ count' = count - 1 /\ count > 0
    <3>1. count # 0
      BY <1>2 DEF Take, NothingToDo, MustExit, IInv, TypeOK
    <3>2. QED
      BY <1>0, <1>2, <3>1 DEF Take
  <2>2. \A i \in Slots : /\ Behind(i)' = IF i = head THEN QueueSize - 1 ELSE Behind(i) - 1
                         /\ Behind(i) \in 0..(QueueSize - 1)
                         /\ i # head => Behind(i) # 0
    BY <1>0, <2>1, HeadMoves, Distances
  <2>3. \A i \in Slots : Behind(i)' < count' =>
          queue'[i] = accepted' - count' + 1 + Behind(i)'
    BY <1>0, <2>1, <2>2 DEF QueueLayout
  <2>4. Behind(tail)' = IF count' = QueueSize THEN 0 ELSE count'
    <3>1. PICK k \in Slots : k = tail
      BY <1>0
    <3>2. Behind(tail)' = Behind(k)'
      BY <2>1, <3>1 DEF Behind
    <3>3. Behind(k) = IF count = QueueSize THEN 0 ELSE count
      BY <1>0, <3>1 DEF QueueLayout, Full
    <3>4. (k = head) <=> Behind(k) = 0
      BY <1>0, Distances
    <3>5. QED
      BY <1>0, <2>1, <2>2, <3>2, <3>3, <3>4
  <2>5. QED
    BY <1>0, <2>1, <2>3, <2>4, Distances DEF QueueLayout, Full
<1>3. CASE UNCHANGED <<ringVars, accepted>>
  BY <1>0, <1>3 DEF ringVars, QueueLayout, Behind, Full
<1>4. CASE AllocationFails \/ CreateThread \/ CreateReturns \/ DestroyStep \/ UNCHANGED vars
  BY <1>3, <1>4 DEF AllocationFails, CreateThread, CreateReturns, DestroyStep, Join, JoinSelf,
                    EndDestroy, vars, ringVars
<1>5. CASE CreateFails \/ Destroy \/ \E t \in Threads : DestroyFromTask(t)
  BY <1>3, <1>5 DEF CreateFails, Destroy, DestroyFromTask, BeginDestroy
<1>6. ASSUME NEW t \in Threads, Wait(t) \/ Wake(t) \/ Finish(t) \/ Exit(t)
      PROVE  QueueLayout' /\ count' \in 0..QueueSize /\ head' \in Slots /\ tail' \in Slots
  BY <1>3, <1>6 DEF Wait, Wake, Finish, Exit
<1>7. QED
  BY <1>1, <1>2, <1>4, <1>5, <1>6 DEF Next, Worker

(* Who runs what: tasks are begun in the order they were accepted, each by *)
(* one thread.                                                             *)
LEMMA TasksKept ==
  ASSUME IInv, [Next]_vars
  PROVE  /\ TasksAccounted' /\ doing' \in [Threads -> 0..MaxTasks]
         /\ finished' \subseteq 1..MaxTasks
<1> USE PoolAssumption
<1> DEFINE Goal == /\ TasksAccounted /\ doing \in [Threads -> 0..MaxTasks]
                   /\ finished \subseteq 1..MaxTasks
<1>0. /\ TasksAccounted /\ QueueLayout /\ queue \in [Slots -> 0..MaxTasks]
      /\ head \in Slots /\ count \in 0..QueueSize /\ accepted \in 0..MaxTasks
      /\ state \in [Threads -> States] /\ doing \in [Threads -> 0..MaxTasks]
      /\ finished \subseteq 1..MaxTasks
  BY DEF IInv, TypeOK, States
<1>1. accepted - count \in Nat
  <2>1. 1 \in Threads
    BY DEF Threads
  <2>2. QED
    BY <1>0, <2>1 DEF TasksAccounted
<1>2. ASSUME UNCHANGED <<doing, finished>>, accepted' - count' = accepted - count,
             \A t \in Threads : state'[t] = "running" <=> state[t] = "running"
      PROVE  Goal'
  BY <1>0, <1>2 DEF TasksAccounted
<1>3. CASE Add
  <2>1. Woken /\ UNCHANGED <<doing, finished>>
        /\ accepted' = accepted + 1 /\ count' = count + 1
    BY <1>0, <1>3, WakingUp DEF Add
  <2>2. \A t \in Threads : state'[t] = "running" <=> state[t] = "running"
    BY <2>1 DEF Woken
  <2>3. QED
    BY <1>0, <1>2, <2>1, <2>2
<1>4. CASE CreateFails \/ Destroy \/ \E t \in Threads : DestroyFromTask(t)
  <2>1. Woken /\ UNCHANGED <<ringVars, doing, accepted, finished>>
    BY <1>0, <1>4, DestroyBegins
  <2>2. \A t \in Threads : state'[t] = "running" <=> state[t] = "running"
    BY <2>1 DEF Woken
  <2>3. QED
    BY <1>2, <2>1, <2>2 DEF ringVars
<1>5. CASE CreateThread
  <2>1. state[thread_count + 1] = "unborn" /\ thread_count + 1 \in Threads
    BY <1>5 DEF CreateThread, IInv, CreateInv, TypeOK, Threads
  <2>2. QED
    BY <1>0, <1>2, <1>5, <2>1 DEF CreateThread, ringVars
<1>6. CASE AllocationFails \/ CreateReturns \/ DestroyStep \/ UNCHANGED vars
  <2>1. UNCHANGED <<ringVars, state, doing, accepted, finished>>
    BY <1>6 DEF AllocationFails, CreateReturns, DestroyStep, Join, JoinSelf, EndDestroy, vars
  <2>2. QED
    BY <1>2, <2>1 DEF ringVars
<1>7. ASSUME NEW t \in Threads, Wait(t) \/ Wake(t) \/ Exit(t)
      PROVE  Goal'
  <2>1. UNCHANGED <<ringVars, doing, accepted, finished>>
    BY <1>7 DEF Wait, Wake, Exit
  <2>2. \A u \in Threads : state'[u] = "running" <=> state[u] = "running"
    BY <1>0, <1>7 DEF Wait, Wake, Exit
  <2>3. QED
    BY <1>2, <2>1, <2>2 DEF ringVars
<1>8. ASSUME NEW t \in Threads, Take(t)
      PROVE  Goal'
  <2>1. /\ state[t] = "ready" /\ state' = [state EXCEPT ![t] = "running"]
        /\ doing' = [doing EXCEPT ![t] = queue[head]]
        /\ count' = count - 1 /\ accepted' = accepted /\ finished' = finished
    BY <1>8 DEF Take
  <2>2. count > 0
    BY <1>0, <1>8 DEF Take, NothingToDo, MustExit, IInv, TypeOK
  <2>3. queue[head] = accepted - count + 1
    BY <1>0, <2>2, Distances DEF QueueLayout
  <2>4. \A n \in 1..(accepted - count + 1) :
          n \in 1..(accepted - count) \/ n = accepted - count + 1
    BY <1>1
  <2>5. QED
    BY <1>0, <1>1, <2>1, <2>2, <2>3, <2>4 DEF TasksAccounted
<1>9. ASSUME NEW t \in Threads, Finish(t)
      PROVE  Goal'
  <2>1. /\ state[t] = "running" /\ state' = [state EXCEPT ![t] = "ready"]
        /\ doing' = [doing EXCEPT ![t] = 0]
        /\ finished' = finished \cup {doing[t]}
        /\ count' = count /\ accepted' = accepted
    BY <1>9 DEF Finish, ringVars
  <2>2. doing[t] \in 1..(accepted - count)
    BY <1>0, <1>1, <2>1 DEF TasksAccounted
  <2>3. PICK k \in 1..(accepted - count) : k = doing[t]
    BY <2>2
  <2>4. \A u \in Threads : u # t => doing'[u] = doing[u] /\ doing[u] # k
    BY <1>0, <2>1, <2>3 DEF TasksAccounted
  <2>5. doing'[t] = 0 /\ finished' = finished \cup {k} /\ 0 \notin finished'
    BY <1>0, <2>1, <2>3
  <2>6. \A u \in Threads : /\ doing'[u] <= accepted' - count'
                           /\ doing'[u] # 0 <=> state'[u] = "running"
                           /\ doing'[u] \notin finished'
    BY <1>0, <1>1, <2>1, <2>4, <2>5 DEF TasksAccounted
  <2>7. \A u, v \in Threads : doing'[u] = doing'[v] => u = v \/ doing'[u] = 0
    BY <1>0, <2>4, <2>5 DEF TasksAccounted
  <2>8. ASSUME NEW n \in 1..(accepted' - count')
        PROVE  n \in finished' \/ \E u \in Threads : doing'[u] = n
    <3>1. n \in finished \/ \E u \in Threads : doing[u] = n
      BY <1>0, <2>1 DEF TasksAccounted
    <3>2. ASSUME NEW u \in Threads, doing[u] = n
          PROVE  n = k \/ doing'[u] = n
      BY <2>3, <2>4, <3>2
    <3>3. QED
      BY <2>5, <3>1, <3>2
  <2>9. finished' \subseteq 1..(accepted' - count') /\ finished' \subseteq 1..MaxTasks
    <3>1. accepted' - count' = accepted - count /\ k \in 1..MaxTasks
      BY <1>0, <1>1, <2>1, <2>3
    <3>2. finished \subseteq 1..(accepted - count)
      BY <1>0 DEF TasksAccounted
    <3>3. QED
      BY <1>0, <2>5, <3>1, <3>2
  <2>10. doing' \in [Threads -> 0..MaxTasks]
    BY <1>0, <2>1
  <2>11. QED
    BY <2>6, <2>7, <2>8, <2>9, <2>10 DEF TasksAccounted
<1>10. QED
  BY <1>3, <1>4, <1>5, <1>6, <1>7, <1>8, <1>9 DEF Next, Worker

LEMMA TypeKept ==
  ASSUME IInv, [Next]_vars
  PROVE  TypeOK'
<1> USE PoolAssumption
<1>0. TypeOK /\ JoinInv
  BY DEF IInv
<1>1. /\ started' \in 0..ThreadCount /\ count' \in 0..QueueSize
      /\ head' \in Slots /\ tail' \in Slots
      /\ doing' \in [Threads -> 0..MaxTasks] /\ finished' \subseteq 1..MaxTasks
  BY StartedKept, QueueLayoutKept, TasksKept
<1>2. err' \in BOOLEAN /\ freed' \in BOOLEAN
  <2>1. err \in BOOLEAN /\ freed \in BOOLEAN
    BY <1>0 DEF TypeOK
  <2>2. CASE EndDestroy
    BY <2>1, <2>2, Zenon DEF EndDestroy
  <2>3. CASE JoinSelf
    BY <2>1, <2>3, Zenon DEF JoinSelf
  <2>4. CASE UNCHANGED <<err, freed>>
    BY <2>1, <2>4
  <2>a. CASE AllocationFails
    BY <2>1, <2>a, Zenon DEF AllocationFails
  <2>5. UNCHANGED <<err, freed>> \/ AllocationFails \/ EndDestroy \/ JoinSelf
    BY DEF Next, CreateThread, CreateReturns, CreateFails, BeginDestroy, Add,
           Destroy, DestroyStep, Join, Worker, Wait, Take, Finish, Exit, Wake,
           DestroyFromTask, destroyVars, vars
  <2>6. QED
    BY <2>2, <2>3, <2>4, <2>5, <2>a
<1>3. state' \in [Threads -> States]
  <2>1. state \in [Threads -> States]
    BY <1>0, TypedState
  <2>2. CASE Woken \/ state' = state
    BY <2>1, <2>2 DEF Woken
  <2>3. \/ Woken \/ state' = state \/ CreateThread
        \/ \E t \in Threads : Worker(t)
    <3>1. CASE AllocationFails \/ CreateReturns \/ DestroyStep \/ UNCHANGED vars
      BY <3>1 DEF AllocationFails, CreateReturns, DestroyStep, Join, JoinSelf, EndDestroy, vars
    <3>2. CASE Add \/ \E t \in Threads : Wake(t)
      BY <2>1, <3>2, WakingUp DEF Add
    <3>3. CASE CreateFails \/ Destroy \/ \E t \in Threads : DestroyFromTask(t)
      BY <2>1, <3>3, DestroyBegins
    <3>4. QED
      BY <3>1, <3>2, <3>3 DEF Next
  <2>4. CASE CreateThread
    BY <2>1, <2>4 DEF CreateThread, States
  <2>5. ASSUME NEW t \in Threads, Worker(t) PROVE state' \in [Threads -> States]
    BY <2>1, <2>5 DEF Worker, Wait, Take, Finish, Exit, States
  <2>6. QED
    BY <2>2, <2>3, <2>4, <2>5
<1>4. /\ queue' \in [Slots -> 0..MaxTasks] /\ accepted' \in 0..MaxTasks
  <2>1. queue \in [Slots -> 0..MaxTasks] /\ accepted \in 0..MaxTasks /\ tail \in Slots
    BY <1>0 DEF TypeOK
  <2>2. CASE Add
    BY <2>1, <2>2 DEF Add
  <2>3. UNCHANGED <<queue, accepted>> \/ Add
    BY DEF Next, AllocationFails, CreateThread, CreateReturns, CreateFails, BeginDestroy,
           Destroy, DestroyStep, Join, JoinSelf, EndDestroy, Worker, Wait, Take,
           Finish, Exit, Wake, DestroyFromTask, ringVars, vars
  <2>4. CASE UNCHANGED <<queue, accepted>>
    BY <2>1, <2>4
  <2>5. QED
    BY <2>2, <2>3, <2>4
<1>5. /\ shutdown' \in {"none", "graceful", "immediate"}
      /\ phase' \in {"creating", "open", "failed"}
      /\ destroyer' \in Threads \cup {Outside, NoOne}
      /\ thread_count' \in 0..ThreadCount /\ joined' \in 0..ThreadCount
  <2>1. /\ shutdown \in {"none", "graceful", "immediate"}
        /\ phase \in {"creating", "open", "failed"}
        /\ destroyer \in Threads \cup {Outside, NoOne}
        /\ thread_count \in 0..ThreadCount /\ joined \in 0..ThreadCount
        /\ state \in [Threads -> States]
    BY <1>0, TypedState DEF TypeOK
  <2>2. CASE CreateFails \/ Destroy \/ \E t \in Threads : DestroyFromTask(t)
    BY <2>1, <2>2, DestroyBegins
  <2>3. CASE CreateThread
    BY <2>1, <2>3 DEF CreateThread, destroyVars
  <2>4. CASE AllocationFails \/ CreateReturns
    BY <2>1, <2>4 DEF AllocationFails, CreateReturns, destroyVars
  <2>5. CASE DestroyStep
    BY <2>1, <2>5 DEF DestroyStep, Join, JoinSelf, EndDestroy, createVars
  <2>6. CASE UNCHANGED <<shutdown, createVars, destroyVars>>
    BY <2>1, <2>6 DEF createVars, destroyVars
  <2>7. CASE Add \/ UNCHANGED vars \/ \E t \in Threads : Wake(t)
    BY <2>6, <2>7 DEF Add, Wake, vars
  <2>8. ASSUME NEW t \in Threads, Worker(t)
        PROVE  UNCHANGED <<shutdown, phase, thread_count, destroyVars>>
    BY <2>8 DEF Worker, Wait, Take, Finish, Exit, createVars
  <2>9. QED
    BY <2>1, <2>2, <2>3, <2>4, <2>5, <2>7, <2>8 DEF Next, destroyVars
<1>6. QED
  BY <1>1, <1>2, <1>3, <1>4, <1>5 DEF TypeOK, States

-----------------------------------------------------------------------------
(* The theorems.                                                           *)

LEMMA InitIInv == Init => IInv
<1> SUFFICES ASSUME Init PROVE IInv
  OBVIOUS
<1> USE PoolAssumption
<1>1. err \in BOOLEAN /\ freed \in BOOLEAN
  BY Zenon DEF Init
<1>2. TypeOK
  BY <1>1 DEF Init, TypeOK, Slots, Threads, NoOne, Outside
<1>3. StartedCountsThreads
  <2>1. Alive = {}
    BY DEF Init, Alive
  <2>2. QED
    BY <2>1, FS_EmptySet DEF Init, StartedCountsThreads
<1>4. CreateInv /\ ShutdownInv /\ JoinInv
  BY DEF Init, CreateInv, ShutdownInv, JoinInv, Waiting, InDestroy, Threads, NoOne
<1>5. QueueLayout /\ TasksAccounted
  BY DEF Init, QueueLayout, TasksAccounted, Behind, Full, Slots, Threads
<1>6. QED
  BY <1>2, <1>3, <1>4, <1>5 DEF IInv

LEMMA InvariantKept ==
  ASSUME IInv, [Next]_vars
  PROVE  IInv'
<1>1. TypeOK' /\ StartedCountsThreads'
  BY TypeKept, StartedKept
<1>2. CreateInv' /\ ShutdownInv' /\ JoinInv'
  BY CreateInvKept, ShutdownInvKept, JoinInvKept
<1>3. QueueLayout' /\ TasksAccounted'
  BY QueueLayoutKept, TasksKept
<1>4. QED
  BY <1>1, <1>2, <1>3 DEF IInv

(* The inductive invariant of the pool.                                    *)
THEOREM InvariantHolds == Spec => []IInv
<1>1. IInv /\ [Next]_vars => IInv'
  BY InvariantKept
<1>2. QED
  BY InitIInv, <1>1, PTL DEF Spec

(* Every variable of the pool keeps its type; in particular count never    *)
(* leaves 0..queue_size and started never becomes negative.                *)
THEOREM TypeCorrect == Spec => []TypeOK
<1>1. IInv => TypeOK
  BY DEF IInv
<1>2. QED
  BY <1>1, InvariantHolds, PTL

(* pool->started is the number of threads that have not left the pool.     *)
THEOREM StartedCounts == Spec => []StartedCountsThreads
<1>1. IInv => StartedCountsThreads
  BY DEF IInv
<1>2. QED
  BY <1>1, InvariantHolds, PTL

(* The ring of tasks: head, tail and count agree.                          *)
THEOREM LayoutKept == Spec => []QueueLayout
<1>1. IInv => QueueLayout
  BY DEF IInv
<1>2. QED
  BY <1>1, InvariantHolds, PTL

(* A task is in the queue, run by exactly one thread, or finished.         *)
THEOREM NoTaskLost == Spec => []TasksAccounted
<1>1. IInv => TasksAccounted
  BY DEF IInv
<1>2. QED
  BY <1>1, InvariantHolds, PTL

(* When every thread has been joined without an error none is left.        *)
LEMMA AllJoinedNobodyLeft ==
  ASSUME IInv, ~err, joined = thread_count
  PROVE  Alive = {}
<1>1. TypeOK /\ CreateInv /\ JoinInv
  BY DEF IInv
<1>2. \A t \in Threads : t <= thread_count => state[t] = "exited"
  BY <1>1 DEF JoinInv
<1>3. \A t \in Threads : t > thread_count => state[t] = "unborn"
  BY <1>1 DEF CreateInv
<1>4. \A t \in Threads : t <= thread_count \/ t > thread_count
  BY <1>1, TypedState DEF Threads
<1>5. QED
  BY <1>2, <1>3, <1>4 DEF Alive

(* When the pool has been freed none of its threads is left.               *)
LEMMA FreedNobodyLeft == IInv /\ freed => Alive = {}
<1> SUFFICES ASSUME IInv, freed PROVE Alive = {}
  OBVIOUS
<1>1. ~err /\ joined = thread_count
  <2>1. JoinInv
    BY DEF IInv
  <2>2. ~err /\ ~InDestroy
    BY <2>1 DEF JoinInv
  <2>3. QED
    BY <2>1, <2>2 DEF JoinInv
<1>2. QED
  BY <1>1, AllJoinedNobodyLeft

(* threadpool_destroy frees the pool only when no thread is left in it,    *)
(* and frees it whenever all joins succeeded.                              *)
THEOREM FreedOnlyUnused == Spec => []FreedWhenUnused
<1>1. IInv => FreedWhenUnused
  BY FreedNobodyLeft DEF IInv, JoinInv, FreedWhenUnused
<1>2. QED
  BY <1>1, InvariantHolds, PTL

(* When all threads have left a gracefully shut down pool, every accepted  *)
(* task has been run.                                                      *)
LEMMA DrainedWhenEmpty ==
  ASSUME IInv, Alive = {}
  PROVE  /\ shutdown = "graceful" => count = 0
         /\ finished = 1..(accepted - count)
<1> USE PoolAssumption
<1>1. TypeOK /\ CreateInv /\ ShutdownInv /\ TasksAccounted
  BY DEF IInv
<1>2. finished = 1..(accepted - count)
  <2>1. \A t \in Threads : doing[t] = 0
    BY <1>1 DEF TasksAccounted, Alive
  <2>2. \A n \in 1..(accepted - count) : n \in finished
    BY <1>1, <2>1 DEF TasksAccounted, TypeOK
  <2>3. QED
    BY <1>1, <2>2 DEF TasksAccounted
<1>3. ASSUME shutdown = "graceful" PROVE count = 0
  <2>1. 1 \in Threads /\ ~(1 > thread_count)
    BY <1>1, <1>3 DEF ShutdownInv, CreateInv, Threads
  <2>2. state[1] = "exited"
    BY <1>1, <2>1 DEF CreateInv, Alive
  <2>3. QED
    BY <1>1, <1>3, <2>1, <2>2 DEF ShutdownInv
<1>4. QED
  BY <1>2, <1>3

(* threadpool_graceful: all pending tasks are processed before shutdown.   *)
THEOREM GracefulDrains == Spec => []GracefulProcessesAll
<1>1. IInv => GracefulProcessesAll
  <2>1. SUFFICES ASSUME IInv, shutdown = "graceful", freed PROVE finished = 1..accepted
    BY DEF GracefulProcessesAll
  <2>2. accepted \in Nat
    BY <2>1 DEF IInv, TypeOK
  <2>3. count = 0 /\ finished = 1..(accepted - count)
    BY <2>1, FreedNobodyLeft, DrainedWhenEmpty
  <2>4. QED
    BY <2>2, <2>3
<1>2. QED
  BY <1>1, InvariantHolds, PTL

-----------------------------------------------------------------------------
(* One signal per task.                                                    *)

(* A waiting thread that becomes ready is one more that is ready.          *)
LEMMA OneMoreReady ==
  ASSUME state \in [Threads -> States], NEW t \in Threads,
         state[t] # "ready", state' = [state EXCEPT ![t] = "ready"]
  PROVE  Cardinality(Ready') = Cardinality(Ready) + 1
<1>1. Ready' = Ready \cup {t} /\ t \notin Ready
  BY DEF Ready, States
<1>2. IsFiniteSet(Ready)
  BY ThreadsFinite DEF Ready
<1>3. QED
  BY <1>1, <1>2, FS_AddElement

(* One that leaves for something else is one less.                         *)
LEMMA OneLessReady ==
  ASSUME state \in [Threads -> States], NEW t \in Threads,
         state[t] = "ready", NEW s \in States \ {"ready"},
         state' = [state EXCEPT ![t] = s]
  PROVE  Cardinality(Ready') = Cardinality(Ready) - 1
<1>1. Ready' = Ready \ {t} /\ t \in Ready
  BY DEF Ready
<1>2. IsFiniteSet(Ready)
  BY ThreadsFinite DEF Ready
<1>3. QED
  BY <1>1, <1>2, FS_RemoveElement

LEMMA SignalsKept ==
  ASSUME IInv, SignalsSuffice, [Next]_vars
  PROVE  SignalsSuffice'
<1> USE PoolAssumption
<1>0. /\ TypeOK /\ ShutdownInv /\ CreateInv /\ state \in [Threads -> States]
      /\ count \in 0..QueueSize /\ Cardinality(Ready) \in Nat
      /\ thread_count \in 0..ThreadCount
  <2>1. TypeOK /\ ShutdownInv /\ CreateInv
    BY DEF IInv
  <2>2. Ready \in SUBSET Threads
    BY DEF Ready
  <2>3. QED
    BY <2>1, <2>2, TypedState, ThreadsFinite
<1>1. CASE UNCHANGED <<state, count>>
  BY <1>1 DEF SignalsSuffice, Waiting, Ready
<1>2. CASE AllocationFails \/ CreateReturns \/ DestroyStep \/ UNCHANGED vars
  BY <1>1, <1>2 DEF AllocationFails, CreateReturns, DestroyStep, Join, JoinSelf, EndDestroy, vars, ringVars
<1>3. CASE CreateThread
  <2>1. PICK u \in Threads : u = thread_count + 1
    BY <1>0, <1>3 DEF CreateThread, Threads
  <2>2. state[u] = "unborn" /\ state' = [state EXCEPT ![u] = "ready"] /\ count' = count
    BY <1>0, <1>3, <2>1 DEF CreateThread, CreateInv, ringVars, Threads
  <2>3. Cardinality(Ready') = Cardinality(Ready) + 1
    BY <1>0, <2>2, OneMoreReady
  <2>4. Waiting' = Waiting
    BY <1>0, <2>2 DEF Waiting
  <2>5. QED
    BY <1>0, <2>2, <2>3, <2>4 DEF SignalsSuffice
<1>4. CASE Add
  <2>1. count' = count + 1
    BY <1>4 DEF Add
  <2>2. CASE Waiting = {}
    BY <1>4, <2>2 DEF Add, Signal, SignalsSuffice, Waiting
  <2>3. CASE \E t \in Waiting : state' = [state EXCEPT ![t] = "ready"]
    <3>1. PICK t \in Threads : /\ state[t] = "waiting"
                              /\ state' = [state EXCEPT ![t] = "ready"]
      BY <2>3 DEF Waiting
    <3>2. Cardinality(Ready') = Cardinality(Ready) + 1
      BY <1>0, <3>1, OneMoreReady
    <3>3. Waiting # {}
      BY <3>1 DEF Waiting
    <3>4. QED
      BY <1>0, <2>1, <3>2, <3>3 DEF SignalsSuffice
  <2>4. QED
    BY <1>4, <2>2, <2>3 DEF Add, Signal
<1>5. CASE CreateFails \/ Destroy \/ \E t \in Threads : DestroyFromTask(t)
  BY <1>0, <1>5, DestroyBegins DEF SignalsSuffice
<1>6. ASSUME NEW t \in Threads, Wait(t) PROVE SignalsSuffice'
  <2>1. count' = 0
    BY <1>6 DEF Wait, NothingToDo, ringVars
  <2>2. Ready' \in SUBSET Threads
    BY DEF Ready
  <2>3. Cardinality(Ready') \in 0..ThreadCount
    BY <2>2, ThreadsFinite
  <2>4. QED
    BY <2>1, <2>3 DEF SignalsSuffice
<1>7. ASSUME NEW t \in Threads, Wake(t) \/ Finish(t) PROVE SignalsSuffice'
  <2>1. /\ count' = count /\ state' = [state EXCEPT ![t] = "ready"]
        /\ state[t] # "ready"
    BY <1>7 DEF Wake, Finish, ringVars
  <2>2. Cardinality(Ready') = Cardinality(Ready) + 1
    BY <1>0, <2>1, OneMoreReady
  <2>3. Waiting' # {} => Waiting # {}
    BY <1>0, <2>1 DEF Waiting
  <2>4. QED
    BY <1>0, <2>1, <2>2, <2>3 DEF SignalsSuffice
<1>8. ASSUME NEW t \in Threads, Take(t) PROVE SignalsSuffice'
  <2>1. /\ count' = count - 1 /\ state[t] = "ready"
        /\ state' = [state EXCEPT ![t] = "running"]
    BY <1>8 DEF Take
  <2>2. Cardinality(Ready') = Cardinality(Ready) - 1
    BY <1>0, <2>1, OneLessReady DEF States
  <2>3. Waiting' = Waiting
    BY <1>0, <2>1 DEF Waiting
  <2>4. QED
    BY <1>0, <2>1, <2>2, <2>3 DEF SignalsSuffice
<1>9. ASSUME NEW t \in Threads, Exit(t) PROVE SignalsSuffice'
  <2>1. shutdown # "none" /\ shutdown' = shutdown
    BY <1>9 DEF Exit, MustExit
  <2>2. Waiting' = {}
    BY <1>0, <1>9, <2>1 DEF Exit, ShutdownInv, Waiting
  <2>3. QED
    BY <2>2 DEF SignalsSuffice
<1>10. QED
  BY <1>2, <1>3, <1>4, <1>5, <1>6, <1>7, <1>8, <1>9 DEF Next, Worker

(* threadpool_add signals once for each task, and that is enough: while a  *)
(* thread waits, every task in the queue has a thread on its way to it.    *)
THEOREM OneSignalPerTask == Spec => []SignalsSuffice
<1>1. Init => SignalsSuffice
  BY DEF Init, SignalsSuffice, Waiting
<1>2. IInv /\ SignalsSuffice /\ [Next]_vars => SignalsSuffice'
  BY SignalsKept
<1>3. QED
  BY <1>1, <1>2, InvariantHolds, PTL DEF Spec

-----------------------------------------------------------------------------
(* Refinement.                                                             *)

LEMMA StepRefines ==
  ASSUME IInv, [Next]_vars
  PROVE  [Tasks!QueueNext]_(Tasks!queueVars)
<1> USE PoolAssumption DEF Tasks!queueVars
<1>0. /\ TypeOK /\ CreateInv /\ JoinInv /\ TasksAccounted
      /\ count \in 0..QueueSize /\ accepted \in 0..MaxTasks
      /\ shutdown \in {"none", "graceful", "immediate"}
      /\ shutdown = "none" /\ phase # "failed" => ~freed
  BY TypedState DEF IInv, JoinInv, TypeOK
<1>1. accepted - count \in Nat
  <2>1. 1 \in Threads
    BY DEF Threads
  <2>2. QED
    BY <1>0, <2>1 DEF TasksAccounted, TypeOK
<1>2. ASSUME NEW t \in Threads, state[t] = "ready" \/ state[t] = "running"
      PROVE  ~freed
  BY <1>2, FreedNobodyLeft DEF Alive
<1>3. CASE Add
  <2>1. Tasks!Submit
    BY <1>0, <1>3 DEF Add, Full, Tasks!Submit, destroyVars
  <2>2. QED
    BY <2>1 DEF Tasks!QueueNext
<1>4. ASSUME NEW t \in Threads, Take(t)
      PROVE  Tasks!QueueNext
  <2>1. ~freed /\ shutdown # "immediate" /\ count > 0
    <3>1. count # 0 /\ shutdown # "immediate"
      BY <1>0, <1>4 DEF Take, NothingToDo, MustExit
    <3>2. QED
      BY <1>0, <1>2, <1>4, <3>1 DEF Take
  <2>2. Tasks!Begin
    BY <1>0, <1>4, <2>1 DEF Take, Tasks!Begin, destroyVars
  <2>3. QED
    BY <2>2 DEF Tasks!QueueNext
<1>5. ASSUME NEW t \in Threads, Finish(t)
      PROVE  Tasks!QueueNext
  <2>1. ~freed
    BY <1>2, <1>5 DEF Finish
  <2>2. doing[t] \in 1..(accepted - count) /\ doing[t] \notin finished
    BY <1>0, <1>1, <1>5 DEF Finish, TasksAccounted, TypeOK
  <2>3. Tasks!End
    BY <1>5, <2>1, <2>2 DEF Finish, Tasks!End, ringVars, destroyVars
  <2>4. QED
    BY <2>3 DEF Tasks!QueueNext
<1>6. CASE CreateFails \/ Destroy \/ \E t \in Threads : DestroyFromTask(t)
  <2>1. state \in [Threads -> States]
    BY <1>0, TypedState
  <2>2. ~freed
    BY <1>0, <1>6, <2>1, DestroyBegins
  <2>a. Tasks!ShutDown
    BY <1>6, <2>1, <2>2, DestroyBegins DEF Tasks!ShutDown, ringVars
  <2>3. QED
    BY <2>a DEF Tasks!QueueNext
<1>a. CASE AllocationFails
  <2>1. /\ ~freed /\ freed' = TRUE /\ accepted = 0 /\ shutdown = "none"
        /\ UNCHANGED <<accepted, count, finished, shutdown>>
    BY <1>0, <1>a DEF AllocationFails, CreateInv, ringVars
  <2>2. finished = 1..(accepted - count)
    <3>1. thread_count = 0
      BY <1>a DEF AllocationFails
    <3>2. \A t \in Threads : state[t] = "unborn"
      BY <1>0, <3>1 DEF CreateInv, Threads
    <3>3. Alive = {}
      BY <3>2 DEF Alive
    <3> QED BY <3>3, DrainedWhenEmpty
  <2>3. Tasks!Vanish
    BY <1>0, <2>1, <2>2 DEF Tasks!Vanish
  <2>4. QED
    BY <2>3 DEF Tasks!QueueNext
<1>7. CASE EndDestroy
  <2>1. /\ ~freed /\ shutdown # "none"
        /\ UNCHANGED <<accepted, count, finished, shutdown, state>>
    BY <1>0, <1>7 DEF EndDestroy, JoinInv, InDestroy, ringVars
  <2>2. CASE freed'
    <3>1. ~err /\ joined = thread_count
      BY <1>7, <2>2 DEF EndDestroy
    <3>2. /\ shutdown = "graceful" => count = 0
          /\ finished = 1..(accepted - count)
      BY <1>0, <3>1, AllJoinedNobodyLeft, DrainedWhenEmpty
    <3>3. freed' = TRUE
      BY <1>7, <2>2 DEF EndDestroy
    <3>4. Tasks!Vanish
      BY <1>0, <2>1, <3>2, <3>3 DEF Tasks!Vanish
    <3>5. QED
      BY <3>4 DEF Tasks!QueueNext
  <2>3. CASE ~freed'
    <3>1. freed' = FALSE /\ freed = FALSE
      BY <1>0, <1>7, <2>1, <2>3 DEF EndDestroy, TypeOK
    <3>2. QED
      BY <2>1, <3>1
  <2>4. QED
    BY <2>2, <2>3
<1>8. CASE UNCHANGED <<accepted, count, finished, shutdown, freed>>
  BY <1>8
<1>9. CASE CreateThread \/ CreateReturns \/ Join \/ JoinSelf \/ UNCHANGED vars
  BY <1>8, <1>9 DEF CreateThread, CreateReturns, Join, JoinSelf, vars, ringVars, destroyVars
<1>10. ASSUME NEW t \in Threads, Wait(t) \/ Wake(t) \/ Exit(t)
       PROVE  UNCHANGED <<accepted, count, finished, shutdown, freed>>
  BY <1>10 DEF Wait, Wake, Exit, ringVars, destroyVars
<1>11. QED
  BY <1>a, <1>3, <1>4, <1>5, <1>6, <1>7, <1>8, <1>9, <1>10 DEF Next, Worker, DestroyStep

(* The pool implements TaskQueue.                                          *)
THEOREM RefinesTaskQueue == Spec => ImplementsTaskQueue
<1>1. Init => Tasks!QueueInit
  BY DEF Init, Tasks!QueueInit
<1>2. IInv /\ [Next]_vars => [Tasks!QueueNext]_(Tasks!queueVars)
  BY StepRefines
<1>3. QED
  BY <1>1, <1>2, InvariantHolds, PTL DEF Spec, ImplementsTaskQueue, Tasks!QueueSpec

=============================================================================
