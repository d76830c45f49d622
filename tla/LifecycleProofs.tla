-------------------------- MODULE LifecycleProofs --------------------------
(***************************************************************************)
(* What leda_init and leda_exit leave and what they leave alone, for any   *)
(* number of calls.                                                        *)
(***************************************************************************)
EXTENDS Lifecycle, TLAPS

(* Where a network thread is when it takes a step.                         *)
LEMMA NetStepAlive ==
  ASSUME TypeOK, NEW i \in Inits, NetStep(i)
  PROVE  /\ Alive(i)
         /\ \A j \in Inits : Alive(j)' => Alive(j)
         /\ net' \in [Inits -> NetStates]
         /\ UNCHANGED <<app, inits, g_has_init, g_wsc_conn, g_threadpool, pool,
                        g_cbs, g_ws_buf, force_exit, late, unpaired, lostPools>>
<1>1. net \in [Inits -> NetStates]
  BY DEF TypeOK
<1>2. /\ net[i] \in {"starting", "loop", "serving", "leaving"}
      /\ \E n \in NetStates : net' = [net EXCEPT ![i] = n]
  BY <1>1 DEF NetStep, NetStart, LeaveLoop, Connect, Serve, Served, Established,
     Lost, Receive, NetExit, NetStates
<1>3. UNCHANGED <<app, inits, g_has_init, g_wsc_conn, g_threadpool, pool,
                  g_cbs, g_ws_buf, force_exit, late, unpaired, lostPools>>
  BY DEF NetStep, NetStart, LeaveLoop, Connect, Serve, Served, Established,
     Lost, Receive, NetExit, poolVars, wsVars, exitVars
<1>4. PICK n \in NetStates : net' = [net EXCEPT ![i] = n]
  BY <1>2
<1>5. \A j \in Inits : j # i => net'[j] = net[j]
  BY <1>1, <1>4
<1>6. QED
  BY <1>1, <1>2, <1>3, <1>4, <1>5 DEF Alive

(* The tasks of the pools when a network thread takes a step.              *)
LEMMA NetStepTasks ==
  ASSUME TypeOK, NEW i \in Inits, NetStep(i)
  PROVE  /\ tasks' \in [Inits -> 0..MaxTasks] /\ poolMisused' \in BOOLEAN
         /\ \A j \in Inits : tasks'[j] > 0 =>
              tasks[j] > 0 \/ (j = g_threadpool /\ pool[j] = "open")
<1>1. tasks \in [Inits -> 0..MaxTasks] /\ poolMisused \in BOOLEAN
      /\ g_threadpool \in 0..inits /\ inits \in 0..MaxInits
  BY DEF TypeOK
<1>2. CASE UNCHANGED <<tasks, poolMisused>>
  BY <1>1, <1>2
<1>3. CASE Receive(i) /\ pool[g_threadpool] = "open" /\ tasks[g_threadpool] < MaxTasks
           /\ tasks' = [tasks EXCEPT ![g_threadpool] = @ + 1] /\ UNCHANGED poolMisused
  <2>1. g_threadpool \in Inits
    BY <1>1, <1>3, LifeAssumption DEF Receive, Inits
  <2>2. PICK g \in Inits : g = g_threadpool
    BY <2>1
  <2>3. tasks' = [tasks EXCEPT ![g] = tasks[g] + 1] /\ tasks[g] \in 0..MaxTasks
        /\ tasks[g] < MaxTasks
    BY <1>1, <1>3, <2>2
  <2>4. tasks' \in [Inits -> 0..MaxTasks]
    BY <1>1, <2>3, LifeAssumption
  <2>5. \A j \in Inits : j # g => tasks'[j] = tasks[j]
    BY <1>1, <2>3
  <2>6. QED
    BY <1>1, <1>3, <2>2, <2>4, <2>5
<1>4. CASE Receive(i) /\ pool[g_threadpool] = "freed" /\ poolMisused' = TRUE
           /\ UNCHANGED tasks
  BY <1>1, <1>4
<1>5. QED
  BY <1>2, <1>3, <1>4 DEF NetStep, NetStart, LeaveLoop, Connect, Serve, Served,
     Established, Lost, Receive, NetExit, poolVars

-----------------------------------------------------------------------------
(* Types.                                                                  *)
LEMMA InitTypeOK == Init => TypeOK
<1> SUFFICES ASSUME Init PROVE TypeOK
  OBVIOUS
<1>1. 0 \in 0..MaxInits /\ 0 \in 0..MaxTasks /\ 0 \in 0..0
  BY LifeAssumption
<1>2. /\ g_has_init \in BOOLEAN /\ g_cbs \in BOOLEAN /\ g_ws_buf \in BOOLEAN
      /\ force_exit \in BOOLEAN /\ late \in BOOLEAN /\ poolMisused \in BOOLEAN
      /\ unpaired \in BOOLEAN /\ lostPools \subseteq Inits /\ crashed \in BOOLEAN
  BY DEF Init
<1>3. /\ app \in AppStates /\ inits \in 0..MaxInits
      /\ g_conn_state \in {"none", "connected", "disconnected"}
      /\ g_threadpool \in 0..inits
      /\ g_wsc_conn \subseteq Strings /\ g_wsi \in {"null", "connecting", "up"}
  BY <1>1 DEF Init, AppStates
<1>4. /\ pool \in [Inits -> {"none", "open", "closing", "freed"}]
      /\ tasks \in [Inits -> 0..MaxTasks] /\ net \in [Inits -> NetStates]
  BY <1>1 DEF Init, NetStates
<1>5. QED
  BY <1>2, <1>3, <1>4 DEF TypeOK

(* The flags stay Boolean.                                                 *)
LEMMA FlagsTyped ==
  ASSUME TypeOK, [Next]_vars
  PROVE  /\ g_has_init' \in BOOLEAN /\ g_cbs' \in BOOLEAN /\ g_ws_buf' \in BOOLEAN
         /\ force_exit' \in BOOLEAN /\ late' \in BOOLEAN
         /\ unpaired' \in BOOLEAN /\ crashed' \in BOOLEAN
<1>1. /\ g_has_init \in BOOLEAN /\ g_cbs \in BOOLEAN /\ g_ws_buf \in BOOLEAN
      /\ force_exit \in BOOLEAN /\ late \in BOOLEAN
      /\ unpaired \in BOOLEAN /\ crashed \in BOOLEAN
  BY DEF TypeOK
<1>2. CASE InitStep
  BY <1>1, <1>2 DEF InitStep, CreatePool, CreatePoolFails, CopyInfo, InfoFails,
     AllocCbs, AllocCbsFails, InitBuffer, InitBufferFails, CreateThread,
     CreateThreadFails, InitReturns, wsVars, exitVars
<1>3. CASE ExitStep
  BY <1>1, <1>3 DEF ExitStep, DestroyPool, JoinPool, StopNetwork, WaitOver,
     FreeCbs, FreeBuffer, ExitReturns, wsVars, exitVars
<1>4. CASE LedaInit \/ LedaExit
  BY <1>1, <1>4 DEF LedaInit, LedaExit, wsVars, exitVars
<1>5. ASSUME NEW i \in Inits, NetStep(i)
      PROVE  /\ UNCHANGED <<g_has_init, g_cbs, g_ws_buf, force_exit, late, unpaired>>
             /\ crashed' \in BOOLEAN
  <2>1. crashed' \in BOOLEAN
    BY <1>1, <1>5 DEF NetStep, NetStart, ParametersMissing, LeaveLoop, Connect,
       Serve, Served, Established, Lost, Receive, NetExit, exitVars
  <2>2. QED
    BY <1>5, <2>1, NetStepAlive
<1>6. ASSUME NEW i \in Inits, TaskEnds(i)
      PROVE  UNCHANGED <<g_has_init, g_cbs, g_ws_buf, force_exit, late, unpaired,
                         crashed>>
  BY <1>6 DEF TaskEnds, wsVars, exitVars
<1>7. CASE UNCHANGED vars
  BY <1>1, <1>7 DEF vars, wsVars, exitVars
<1>8. QED
  BY <1>1, <1>2, <1>3, <1>4, <1>5, <1>6, <1>7 DEF Next

(* The forgotten pools are pools.                                          *)
LEMMA LostTyped ==
  ASSUME TypeOK, [Next]_vars
  PROVE  lostPools' \subseteq Inits
<1>1. lostPools \subseteq Inits
  BY DEF TypeOK
<1>2. CASE CreatePool \/ CreatePoolFails
  BY <1>1, <1>2 DEF CreatePool, CreatePoolFails, ForgetPool
<1>3. CASE InitStep /\ ~(CreatePool \/ CreatePoolFails)
  BY <1>1, <1>3 DEF InitStep, CopyInfo, InfoFails, AllocCbs, AllocCbsFails,
     InitBuffer, InitBufferFails, CreateThread, CreateThreadFails, InitReturns,
     exitVars
<1>4. CASE ExitStep \/ LedaInit \/ LedaExit
  BY <1>1, <1>4 DEF ExitStep, DestroyPool, JoinPool, StopNetwork, WaitOver,
     FreeCbs, FreeBuffer, ExitReturns, LedaInit, LedaExit, exitVars
<1>5. ASSUME NEW i \in Inits, NetStep(i) PROVE UNCHANGED lostPools
  BY <1>5, NetStepAlive
<1>6. ASSUME NEW i \in Inits, TaskEnds(i) PROVE UNCHANGED lostPools
  BY <1>6 DEF TaskEnds, exitVars
<1>7. CASE UNCHANGED vars
  BY <1>1, <1>7 DEF vars, exitVars
<1>8. QED
  BY <1>1, <1>2, <1>3, <1>4, <1>5, <1>6, <1>7 DEF Next

(* A task that ends.                                                       *)
LEMMA TaskEndsTyped ==
  ASSUME TypeOK, NEW i \in Inits, TaskEnds(i)
  PROVE  tasks' \in [Inits -> 0..MaxTasks] /\ \A j \in Inits : tasks'[j] > 0 => tasks[j] > 0
<1>1. tasks \in [Inits -> 0..MaxTasks] /\ tasks[i] \in 0..MaxTasks /\ tasks[i] > 0
  BY DEF TypeOK, TaskEnds
<1>2. tasks' = [tasks EXCEPT ![i] = tasks[i] - 1]
  BY DEF TaskEnds
<1>3. tasks[i] - 1 \in 0..MaxTasks
  BY <1>1, LifeAssumption
<1>4. tasks' \in [Inits -> 0..MaxTasks]
  BY <1>1, <1>2, <1>3
<1>5. \A j \in Inits : j # i => tasks'[j] = tasks[j]
  BY <1>1, <1>2
<1>6. QED
  BY <1>1, <1>4, <1>5

(* The steps of leda_init and leda_exit keep the types.                    *)
LEMMA CallsTyped ==
  ASSUME TypeOK, StageInv, LedaInit \/ InitStep \/ LedaExit \/ ExitStep
  PROVE  /\ app' \in AppStates /\ inits' \in 0..MaxInits
         /\ g_threadpool' \in 0..inits'
         /\ pool' \in [Inits -> {"none", "open", "closing", "freed"}]
         /\ net' \in [Inits -> NetStates]
         /\ g_wsc_conn' \subseteq Strings
         /\ g_conn_state' \in {"none", "connected", "disconnected"}
         /\ UNCHANGED <<tasks, g_wsi, poolMisused>>
<1> USE LifeAssumption
<1>1. /\ app \in AppStates /\ inits \in 0..MaxInits /\ g_threadpool \in 0..inits
      /\ pool \in [Inits -> {"none", "open", "closing", "freed"}]
      /\ net \in [Inits -> NetStates]
      /\ g_wsc_conn \subseteq Strings
      /\ g_conn_state \in {"none", "connected", "disconnected"}
  BY DEF TypeOK
<1>2. app \in InitSteps => inits \in Inits
  BY <1>1 DEF StageInv, Inits
<1>3. CASE LedaInit
  <2>1. inits' \in 0..MaxInits /\ g_threadpool \in 0..inits'
    BY <1>1, <1>3 DEF LedaInit
  <2>2. QED
    BY <1>1, <1>3, <2>1 DEF LedaInit, AppStates, InitSteps, poolVars, netVars
<1>4. CASE LedaExit
  BY <1>1, <1>4 DEF LedaExit, AppStates, ExitSteps, poolVars, netVars
<1>5. CASE CreatePool
  <2>1. pool' \in [Inits -> {"none", "open", "closing", "freed"}]
    BY <1>1, <1>2, <1>5 DEF CreatePool, InitSteps
  <2>2. QED
    BY <1>1, <1>5, <2>1 DEF CreatePool, AppStates, InitSteps, netVars
<1>6. CASE CreatePoolFails \/ CopyInfo \/ InfoFails
  <2>1. g_wsc_conn' \subseteq Strings
    BY <1>1, <1>6 DEF CreatePoolFails, CopyInfo, InfoFails, Strings
  <2>2. g_threadpool' \in 0..inits'
    BY <1>1, <1>6 DEF CreatePoolFails, CopyInfo, InfoFails, poolVars
  <2>3. app' \in AppStates
    BY <1>6 DEF CreatePoolFails, CopyInfo, InfoFails, AppStates, InitSteps
  <2>4. QED
    BY <1>1, <1>6, <2>1, <2>2, <2>3 DEF CreatePoolFails, CopyInfo, InfoFails,
       poolVars, netVars
<1>7. CASE AllocCbs \/ AllocCbsFails \/ InitBuffer \/ InitBufferFails
  BY <1>1, <1>7 DEF AllocCbs, AllocCbsFails, InitBuffer, InitBufferFails,
     AppStates, InitSteps, poolVars, netVars
<1>8. CASE CreateThread
  <2>1. net' \in [Inits -> NetStates]
    BY <1>1, <1>2, <1>8 DEF CreateThread, NetStates, InitSteps
  <2>2. QED
    BY <1>1, <1>8, <2>1 DEF CreateThread, AppStates, InitSteps, poolVars
<1>9. CASE CreateThreadFails \/ InitReturns
  BY <1>1, <1>9 DEF CreateThreadFails, InitReturns, AppStates, poolVars, netVars
<1>10. CASE DestroyPool \/ JoinPool
  <2>1. pool' \in [Inits -> {"none", "open", "closing", "freed"}]
    BY <1>1, <1>10 DEF DestroyPool, JoinPool
  <2>2. app' \in AppStates
    BY <1>10 DEF DestroyPool, JoinPool, AppStates, ExitSteps
  <2>3. QED
    BY <1>1, <1>10, <2>1, <2>2 DEF DestroyPool, JoinPool, netVars
<1>11. CASE StopNetwork \/ WaitOver \/ FreeCbs \/ FreeBuffer \/ ExitReturns
  BY <1>1, <1>11 DEF StopNetwork, WaitOver, FreeCbs, FreeBuffer, ExitReturns,
     AppStates, ExitSteps, poolVars, netVars
<1>12. QED
  BY <1>3, <1>4, <1>5, <1>6, <1>7, <1>8, <1>9, <1>10, <1>11 DEF InitStep, ExitStep

(* So do those of the network thread.                                      *)
LEMMA NetStepConn ==
  ASSUME TypeOK, NEW i \in Inits, NetStep(i)
  PROVE  /\ g_wsi' \in {"null", "connecting", "up"}
         /\ g_conn_state' \in {"none", "connected", "disconnected"}
<1>1. /\ g_wsi \in {"null", "connecting", "up"}
      /\ g_conn_state \in {"none", "connected", "disconnected"}
  BY DEF TypeOK
<1>2. CASE Established(i) \/ Lost(i) \/ NetExit(i)
  BY <1>1, <1>2 DEF Established, Lost, NetExit, TellApplication
<1>3. CASE ~(Established(i) \/ Lost(i) \/ NetExit(i))
  BY <1>1, <1>3 DEF NetStep, NetStart, LeaveLoop, Connect, Serve, Served, Receive
<1>4. QED
  BY <1>2, <1>3

LEMMA TypeKept == TypeOK /\ StageInv /\ [Next]_vars => TypeOK'
<1> SUFFICES ASSUME TypeOK, StageInv, [Next]_vars PROVE TypeOK'
  OBVIOUS
<1>1. /\ g_has_init' \in BOOLEAN /\ g_cbs' \in BOOLEAN /\ g_ws_buf' \in BOOLEAN
      /\ force_exit' \in BOOLEAN /\ late' \in BOOLEAN
      /\ unpaired' \in BOOLEAN /\ lostPools' \subseteq Inits /\ crashed' \in BOOLEAN
  BY FlagsTyped, LostTyped
<1>2. CASE LedaInit \/ InitStep \/ LedaExit \/ ExitStep
  <2>1. /\ tasks \in [Inits -> 0..MaxTasks] /\ g_wsi \in {"null", "connecting", "up"}
        /\ poolMisused \in BOOLEAN
    BY DEF TypeOK
  <2>2. QED
    BY <1>1, <1>2, <2>1, CallsTyped DEF TypeOK
<1>3. ASSUME NEW i \in Inits, NetStep(i) PROVE TypeOK'
  <2>1. /\ app' \in AppStates /\ inits' \in 0..MaxInits /\ g_threadpool' \in 0..inits'
        /\ pool' \in [Inits -> {"none", "open", "closing", "freed"}]
        /\ g_wsc_conn' \subseteq Strings
    BY <1>3, NetStepAlive DEF TypeOK
  <2>2. QED
    BY <1>1, <1>3, <2>1, NetStepAlive, NetStepTasks, NetStepConn DEF TypeOK
<1>4. ASSUME NEW i \in Inits, TaskEnds(i) PROVE TypeOK'
  <2>1. UNCHANGED <<app, inits, g_has_init, g_wsc_conn, g_threadpool, pool, wsVars,
                    netVars, late, poolMisused>>
    BY <1>4 DEF TaskEnds
  <2>2. tasks' \in [Inits -> 0..MaxTasks]
    BY <1>4, TaskEndsTyped
  <2>3. poolMisused' \in BOOLEAN
    BY <2>1 DEF TypeOK
  <2>4. /\ app' \in AppStates /\ inits' \in 0..MaxInits /\ g_threadpool' \in 0..inits'
        /\ pool' \in [Inits -> {"none", "open", "closing", "freed"}]
        /\ g_wsc_conn' \subseteq Strings /\ net' \in [Inits -> NetStates]
        /\ g_wsi' \in {"null", "connecting", "up"}
        /\ g_conn_state' \in {"none", "connected", "disconnected"}
    BY <2>1 DEF TypeOK, netVars
  <2>5. QED
    BY <1>1, <2>2, <2>3, <2>4 DEF TypeOK
<1>5. CASE UNCHANGED vars
  <2>1. poolMisused' \in BOOLEAN
    BY <1>5 DEF vars, TypeOK
  <2>2. /\ app' \in AppStates /\ inits' \in 0..MaxInits /\ g_threadpool' \in 0..inits'
        /\ pool' \in [Inits -> {"none", "open", "closing", "freed"}]
        /\ tasks' \in [Inits -> 0..MaxTasks]
        /\ g_wsc_conn' \subseteq Strings /\ net' \in [Inits -> NetStates]
        /\ g_wsi' \in {"null", "connecting", "up"}
        /\ g_conn_state' \in {"none", "connected", "disconnected"}
    BY <1>5 DEF vars, poolVars, netVars, TypeOK
  <2>3. QED
    BY <1>1, <2>1, <2>2 DEF TypeOK
<1>6. QED
  BY <1>2, <1>3, <1>4, <1>5 DEF Next

-----------------------------------------------------------------------------
(* What exists at which stage.                                             *)
LEMMA StageKept == TypeOK /\ StageInv /\ [Next]_vars => StageInv'
<1> SUFFICES ASSUME TypeOK, StageInv, [Next]_vars PROVE StageInv'
  OBVIOUS
<1> USE LifeAssumption
<1>1. inits \in 0..MaxInits
  BY DEF TypeOK
<1>2. CASE LedaInit \/ LedaExit
  BY <1>1, <1>2 DEF LedaInit, LedaExit, StageInv, Working, InitSteps, ExitSteps,
     wsVars
<1>3. CASE CreatePool \/ CreatePoolFails \/ InfoFails
  BY <1>1, <1>3 DEF CreatePool, CreatePoolFails, InfoFails, StageInv, Working,
     InitSteps, ExitSteps, wsVars
<1>4. CASE CopyInfo
  BY <1>1, <1>4 DEF CopyInfo, StageInv, Working, InitSteps, ExitSteps, wsVars,
     Strings, Mandatory
<1>5. CASE AllocCbs \/ AllocCbsFails \/ InitBuffer \/ InitBufferFails
  BY <1>1, <1>5 DEF AllocCbs, AllocCbsFails, InitBuffer, InitBufferFails,
     StageInv, Working, InitSteps, ExitSteps, wsVars
<1>6. CASE CreateThread \/ CreateThreadFails \/ InitReturns
  BY <1>1, <1>6 DEF CreateThread, CreateThreadFails, InitReturns, StageInv,
     Working, InitSteps, ExitSteps, wsVars
<1>7. CASE DestroyPool \/ JoinPool \/ StopNetwork \/ WaitOver
  BY <1>1, <1>7 DEF DestroyPool, JoinPool, StopNetwork, WaitOver, StageInv,
     Working, InitSteps, ExitSteps, wsVars
<1>8. CASE FreeCbs \/ FreeBuffer \/ ExitReturns
  BY <1>1, <1>8 DEF FreeCbs, FreeBuffer, ExitReturns, StageInv, Working,
     InitSteps, ExitSteps, wsVars
<1>9. ASSUME NEW i \in Inits, NetStep(i) PROVE StageInv'
  <2>1. UNCHANGED <<app, inits, g_has_init, g_wsc_conn, g_cbs, g_ws_buf>>
    BY <1>9, NetStepAlive
  <2>2. QED
    BY <2>1 DEF StageInv
<1>10. ASSUME NEW i \in Inits, TaskEnds(i) PROVE StageInv'
  BY <1>10 DEF TaskEnds, StageInv, wsVars
<1>11. CASE UNCHANGED vars
  BY <1>11 DEF vars, StageInv, wsVars
<1>12. QED
  BY <1>2, <1>3, <1>4, <1>5, <1>6, <1>7, <1>8, <1>9, <1>10, <1>11
     DEF Next, InitStep, ExitStep

-----------------------------------------------------------------------------
(* The pools.                                                              *)
LEMMA PoolKept == TypeOK /\ StageInv /\ PoolInv /\ [Next]_vars => PoolInv'
<1> SUFFICES ASSUME TypeOK, StageInv, PoolInv, [Next]_vars PROVE PoolInv'
  OBVIOUS
<1> USE LifeAssumption
<1>1. /\ inits \in 0..MaxInits /\ g_threadpool \in 0..inits
      /\ pool \in [Inits -> {"none", "open", "closing", "freed"}]
      /\ tasks \in [Inits -> 0..MaxTasks]
  BY DEF TypeOK
<1>2. g_threadpool = 0 \/ g_threadpool \in Inits
  BY <1>1 DEF Inits
<1>3. CASE LedaInit \/ LedaExit
  <2>1. UNCHANGED <<g_threadpool, pool, tasks, lostPools>>
    BY <1>3 DEF LedaInit, LedaExit, poolVars, exitVars
  <2>2. CASE LedaInit
    BY <2>1, <2>2 DEF LedaInit, PoolInv, PoolOpen, PoolGone, Building, ExitSteps
  <2>3. CASE LedaExit
    BY <2>1, <2>3 DEF LedaExit, PoolInv, PoolOpen, PoolGone, Building, ExitSteps
  <2>4. QED
    BY <1>3, <2>2, <2>3
<1>4. CASE CreatePool
  <2>1. inits \in Inits
    BY <1>1, <1>4 DEF CreatePool, StageInv, Inits, InitSteps
  <2>2. PICK n \in Inits : n = inits
    BY <2>1
  <2>3. /\ \A i \in Inits : pool'[i] = IF i = n THEN "open" ELSE pool[i]
        /\ g_threadpool' = n /\ app' = "info" /\ tasks' = tasks
    BY <1>1, <1>4, <2>2 DEF CreatePool
  <2>4. n # 0
    BY DEF Inits
  <2>5. \A i \in Inits : pool[i] # "closing"
    BY <1>4 DEF CreatePool, PoolInv
  <2>6. \A i \in Inits : pool[i] = "open" => i \in lostPools'
    BY <1>4 DEF CreatePool, ForgetPool, PoolInv
  <2>7. QED
    BY <2>3, <2>4, <2>5, <2>6 DEF PoolInv, PoolOpen, PoolGone, Building, ExitSteps
<1>5. CASE CreatePoolFails
  <2>1. \A i \in Inits : pool[i] # "closing"
    BY <1>5 DEF CreatePoolFails, PoolInv
  <2>2. \A i \in Inits : pool[i] = "open" => i \in lostPools'
    BY <1>5 DEF CreatePoolFails, ForgetPool, PoolInv
  <2>3. g_threadpool' = 0 /\ app' = "failed" /\ UNCHANGED <<pool, tasks>>
    BY <1>5 DEF CreatePoolFails
  <2>4. QED
    BY <2>1, <2>2, <2>3 DEF PoolInv, PoolOpen, PoolGone, Building, ExitSteps
<1>6. CASE CopyInfo \/ InfoFails \/ AllocCbs \/ AllocCbsFails \/ InitBuffer
           \/ InitBufferFails \/ CreateThread \/ CreateThreadFails \/ InitReturns
  <2>1. /\ UNCHANGED <<g_threadpool, pool, tasks, lostPools>>
        /\ app \in {"lock"} \cup Building
        /\ app' \in {"lock", "inited", "failed"} \cup Building
    BY <1>6 DEF CopyInfo, InfoFails, AllocCbs, AllocCbsFails, InitBuffer,
       InitBufferFails, CreateThread, CreateThreadFails, InitReturns, Building,
       poolVars, exitVars
  <2>2. QED
    BY <2>1 DEF PoolInv, PoolOpen, PoolGone, Building, ExitSteps
<1>7. CASE DestroyPool
  <2>1. app = "destroy" /\ UNCHANGED <<g_threadpool, tasks, lostPools>>
    BY <1>7 DEF DestroyPool
  <2>2. \A i \in Inits : pool[i] # "closing"
    BY <2>1 DEF PoolInv
  <2>3. CASE PoolGone /\ UNCHANGED pool /\ app' = "stop"
    BY <2>1, <2>2, <2>3 DEF PoolInv, PoolOpen, PoolGone, Building, ExitSteps
  <2>4. CASE /\ g_threadpool # 0 /\ app' = "join"
             /\ pool' = [pool EXCEPT ![g_threadpool] = "closing"]
    <3>1. PICK g \in Inits : g = g_threadpool
      BY <1>2, <2>4
    <3>2. \A i \in Inits : pool'[i] = IF i = g THEN "closing" ELSE pool[i]
      BY <1>1, <2>4, <3>1
    <3>3. QED
      BY <2>1, <2>2, <2>4, <3>1, <3>2
         DEF PoolInv, PoolOpen, PoolGone, Building, ExitSteps
  <2>5. QED
    BY <1>7, <2>3, <2>4 DEF DestroyPool, PoolGone
<1>8. CASE JoinPool
  <2>1. PICK g \in Inits : g = g_threadpool
    BY <1>2, <1>8 DEF JoinPool, PoolInv
  <2>2. /\ \A i \in Inits : pool'[i] = IF i = g THEN "freed" ELSE pool[i]
        /\ app' = "stop" /\ UNCHANGED <<g_threadpool, tasks, lostPools>>
    BY <1>1, <1>8, <2>1 DEF JoinPool, exitVars
  <2>3. ~(tasks[g] > 0)
    BY <1>1, <1>8, <2>1 DEF JoinPool
  <2>4. \A i \in Inits : pool[i] = "closing" => i = g
    BY <2>1 DEF PoolInv
  <2>5. \A i \in Inits : pool'[i] # "closing"
    BY <2>2, <2>4
  <2>6. QED
    BY <2>1, <2>2, <2>3, <2>5 DEF PoolInv, PoolOpen, PoolGone, Building, ExitSteps
<1>9. CASE StopNetwork \/ WaitOver \/ FreeCbs \/ FreeBuffer \/ ExitReturns
  <2>1. /\ UNCHANGED <<g_threadpool, pool, tasks, lostPools>>
        /\ app \in {"stop", "wait", "free_cbs", "free_buffer", "reset"}
        /\ app' \in {"wait", "free_cbs", "free_buffer", "reset", "idle"}
    BY <1>9 DEF StopNetwork, WaitOver, FreeCbs, FreeBuffer, ExitReturns, poolVars,
       exitVars
  <2>2. QED
    BY <2>1 DEF PoolInv, PoolOpen, PoolGone, Building, ExitSteps
<1>10. ASSUME NEW i \in Inits, NetStep(i) PROVE PoolInv'
  <2>1. UNCHANGED <<app, g_threadpool, pool, unpaired, lostPools>>
    BY <1>10, NetStepAlive
  <2>2. \A j \in Inits : tasks'[j] > 0 => tasks[j] > 0 \/ pool[j] = "open"
    BY <1>10, NetStepTasks
  <2>3. QED
    BY <2>1, <2>2 DEF PoolInv, PoolOpen, PoolGone
<1>11. ASSUME NEW i \in Inits, TaskEnds(i) PROVE PoolInv'
  <2>1. UNCHANGED <<app, g_threadpool, pool, unpaired, lostPools>>
    BY <1>11 DEF TaskEnds, exitVars
  <2>2. \A j \in Inits : tasks'[j] > 0 => tasks[j] > 0
    BY <1>11, TaskEndsTyped
  <2>3. QED
    BY <2>1, <2>2 DEF PoolInv, PoolOpen, PoolGone
<1>12. CASE UNCHANGED vars
  BY <1>12 DEF vars, poolVars, exitVars, PoolInv, PoolOpen, PoolGone
<1>13. QED
  BY <1>3, <1>4, <1>5, <1>6, <1>7, <1>8, <1>9, <1>10, <1>11, <1>12
     DEF Next, InitStep, ExitStep

-----------------------------------------------------------------------------
(* The life of the network thread.                                         *)

(* While a thread lives and none has been late, what it uses is there.     *)
LEMMA LiveUses ==
  ASSUME RunInv, ~late, NEW i \in Inits, Alive(i)
  PROVE  /\ i = inits /\ app \in {"stop", "wait"} \cup Working
         /\ g_cbs /\ g_ws_buf /\ Mandatory \subseteq g_wsc_conn
<1>1. i = inits /\ app \in {"stop", "wait"} \cup Working
  BY DEF RunInv
<1>2. QED
  BY <1>1 DEF RunInv

LEMMA RunKept ==
  TypeOK /\ StageInv /\ PoolInv /\ RunInv /\ [Next]_vars => RunInv'
<1> SUFFICES ASSUME TypeOK, StageInv, PoolInv, RunInv, [Next]_vars, ~late'
             PROVE  RunInv'
  BY DEF RunInv
<1> USE LifeAssumption
<1>1. /\ inits \in 0..MaxInits /\ net \in [Inits -> NetStates]
      /\ tasks \in [Inits -> 0..MaxTasks]
  BY DEF TypeOK
<1>2. CASE LedaInit
  <2>1. ~late /\ app \in {"idle", "failed"} /\ app' = "pool" /\ UNCHANGED <<net, tasks>>
    BY <1>2 DEF LedaInit, poolVars, netVars
  <2>2. \A i \in Inits : ~Alive(i) /\ ~(tasks[i] > 0)
    BY <2>1 DEF RunInv, Working
  <2>3. QED
    BY <2>1, <2>2 DEF RunInv, Alive
<1>3. CASE LedaExit
  <2>1. /\ ~late /\ app \in {"idle", "inited", "failed"} /\ app' = "destroy"
        /\ UNCHANGED <<inits, g_threadpool, net, tasks, g_cbs, g_ws_buf, g_wsc_conn>>
    BY <1>3 DEF LedaExit, poolVars, netVars, wsVars
  <2>2. QED
    BY <2>1 DEF RunInv, Alive, Working
<1>4. CASE \/ CreatePool \/ CreatePoolFails \/ CopyInfo \/ InfoFails \/ AllocCbs
           \/ AllocCbsFails \/ InitBuffer \/ InitBufferFails \/ CreateThreadFails
  <2>1. /\ ~late /\ app \in {"pool"} \cup Building
        /\ app' \in {"failed"} \cup Building
        /\ UNCHANGED <<inits, net, tasks>>
    BY <1>4 DEF CreatePool, CreatePoolFails, CopyInfo, InfoFails, AllocCbs,
       AllocCbsFails, InitBuffer, InitBufferFails, CreateThreadFails, Building,
       poolVars, netVars
  <2>2. \A i \in Inits : ~Alive(i) /\ ~(tasks[i] > 0)
    BY <2>1 DEF RunInv, Working, Building
  <2>3. app' # "idle"
    BY <2>1 DEF Building
  <2>4. QED
    BY <2>1, <2>2, <2>3 DEF RunInv, Alive
<1>5. CASE CreateThread
  <2>1. /\ ~late /\ app = "thread" /\ app' = "lock"
        /\ UNCHANGED <<inits, tasks, g_cbs, g_ws_buf, g_wsc_conn>>
        /\ net' = [net EXCEPT ![inits] = "starting"]
    BY <1>5 DEF CreateThread, poolVars, wsVars
  <2>2. \A i \in Inits : ~Alive(i) /\ ~(tasks[i] > 0)
    BY <2>1 DEF RunInv, Working
  <2>3. \A i \in Inits : Alive(i)' => i = inits'
    BY <1>1, <2>1, <2>2 DEF Alive
  <2>4. g_cbs' /\ g_ws_buf' /\ Mandatory \subseteq g_wsc_conn'
    BY <2>1 DEF StageInv
  <2>5. \A i \in Inits : ~(tasks'[i] > 0)
    BY <2>1, <2>2
  <2>6. app' \in Working /\ app' # "idle"
    BY <2>1 DEF Working
  <2>7. QED
    BY <2>3, <2>4, <2>5, <2>6 DEF RunInv
<1>6. CASE InitReturns \/ DestroyPool
  <2>1. /\ ~late /\ app \in {"lock", "destroy"}
        /\ app' \in {"inited", "join"} \/ (PoolGone /\ app' = "stop")
        /\ UNCHANGED <<inits, g_threadpool, net, tasks, g_cbs, g_ws_buf, g_wsc_conn>>
    BY <1>6 DEF InitReturns, DestroyPool, PoolGone, poolVars, netVars, wsVars
  <2>2. \A i \in Inits : tasks[i] > 0 => i = g_threadpool /\ ~PoolGone
    BY <2>1 DEF RunInv, PoolInv, PoolGone, Inits
  <2>3. \A i \in Inits : tasks'[i] > 0 =>
          i = g_threadpool' /\ app' \in Working /\ g_ws_buf'
    BY <2>1, <2>2 DEF RunInv, Working
  <2>4. \A i \in Inits : Alive(i)' => Alive(i)
    BY <2>1 DEF Alive
  <2>5. \A i \in Inits : Alive(i) =>
          /\ i = inits /\ g_cbs /\ g_ws_buf /\ Mandatory \subseteq g_wsc_conn
    BY <2>1, LiveUses
  <2>6. app' \in {"stop", "wait"} \cup Working /\ app' # "idle"
    BY <2>1 DEF Working
  <2>7. QED
    BY <2>1, <2>3, <2>4, <2>5, <2>6 DEF RunInv
<1>7. CASE JoinPool \/ StopNetwork
  <2>1. /\ ~late /\ app \in {"join", "stop"} /\ app' \in {"stop", "wait"}
        /\ UNCHANGED <<inits, net, tasks, g_cbs, g_ws_buf, g_wsc_conn>>
    BY <1>7 DEF JoinPool, StopNetwork, poolVars, netVars, wsVars
  <2>2. \A i \in Inits : ~(tasks[i] > 0)
    BY <1>1, <1>7 DEF JoinPool, StopNetwork, PoolInv, RunInv, Working
  <2>3. \A i \in Inits : Alive(i)' => Alive(i)
    BY <2>1 DEF Alive
  <2>4. \A i \in Inits : Alive(i) =>
          /\ i = inits /\ g_cbs /\ g_ws_buf /\ Mandatory \subseteq g_wsc_conn
    BY <2>1, LiveUses
  <2>5. QED
    BY <2>1, <2>2, <2>3, <2>4 DEF RunInv
<1>8. CASE WaitOver
  <2>1. /\ ~late /\ app = "wait" /\ app' = "free_cbs"
        /\ UNCHANGED <<inits, net, tasks>>
        /\ \A i \in Inits : ~Alive(i)
    BY <1>8 DEF WaitOver, poolVars, netVars
  <2>2. \A i \in Inits : ~(tasks[i] > 0)
    BY <2>1 DEF RunInv, Working
  <2>3. QED
    BY <2>1, <2>2 DEF RunInv, Alive
<1>9. CASE FreeCbs \/ FreeBuffer \/ ExitReturns
  <2>1. /\ ~late /\ app \in {"free_cbs", "free_buffer", "reset"}
        /\ UNCHANGED <<inits, net, tasks>>
        /\ app' = "idle" => g_conn_state' = "none"
    BY <1>9 DEF FreeCbs, FreeBuffer, ExitReturns, poolVars, netVars
  <2>2. \A i \in Inits : ~Alive(i) /\ ~(tasks[i] > 0)
    BY <2>1 DEF RunInv, Working
  <2>3. QED
    BY <2>1, <2>2 DEF RunInv, Alive
<1>10. ASSUME NEW i \in Inits, NetStep(i) PROVE RunInv'
  <2>1. /\ UNCHANGED <<app, inits, g_threadpool, g_wsc_conn, g_cbs, g_ws_buf, late>>
        /\ Alive(i)
        /\ \A j \in Inits : Alive(j)' => Alive(j)
    BY <1>10, NetStepAlive
  <2>2. /\ i = inits /\ app \in {"stop", "wait"} \cup Working
        /\ g_cbs /\ g_ws_buf /\ Mandatory \subseteq g_wsc_conn
    BY <1>10, <2>1, LiveUses
  <2>3. \A j \in Inits : j = g_threadpool /\ pool[j] = "open" => app \in Working
    BY <2>2 DEF PoolInv, PoolGone, Building, Working, ExitSteps, Inits
  <2>4. \A j \in Inits : tasks'[j] > 0 =>
          tasks[j] > 0 \/ (j = g_threadpool /\ pool[j] = "open")
    BY <1>10, NetStepTasks
  <2>5. \A j \in Inits : tasks'[j] > 0 => j = g_threadpool /\ app \in Working
    BY <2>1, <2>3, <2>4 DEF RunInv
  <2>6. \A j \in Inits : Alive(j)' => j = inits
    BY <2>1 DEF RunInv
  <2>7. app' # "idle"
    BY <2>1, <2>2 DEF Working
  <2>8. QED
    BY <2>1, <2>2, <2>5, <2>6, <2>7 DEF RunInv
<1>11. ASSUME NEW i \in Inits, TaskEnds(i) PROVE RunInv'
  <2>1. UNCHANGED <<app, inits, g_threadpool, net, g_conn_state, g_wsc_conn, g_cbs,
                    g_ws_buf, late>>
    BY <1>11 DEF TaskEnds, netVars, wsVars
  <2>2. \A j \in Inits : tasks'[j] > 0 => tasks[j] > 0
    BY <1>11, TaskEndsTyped
  <2>3. QED
    BY <2>1, <2>2 DEF RunInv, Alive
<1>12. CASE UNCHANGED vars
  BY <1>12 DEF vars, poolVars, wsVars, netVars, RunInv, Alive
<1>13. QED
  BY <1>2, <1>3, <1>4, <1>5, <1>6, <1>7, <1>8, <1>9, <1>10, <1>11, <1>12
     DEF Next, InitStep, ExitStep

-----------------------------------------------------------------------------
(* The mark of the connection.                                             *)
LEMMA ConnectedKept ==
  TypeOK /\ RunInv /\ ConnectedHasThread /\ [Next]_vars => ConnectedHasThread'
<1> SUFFICES ASSUME TypeOK, RunInv, ConnectedHasThread, [Next]_vars,
                    ~late', g_conn_state' = "connected"
             PROVE  g_wsi' = "up" /\ \E i \in Inits : Alive(i)'
  BY DEF ConnectedHasThread
<1>1. net \in [Inits -> NetStates]
  BY DEF TypeOK
<1>2. CASE ~late /\ UNCHANGED netVars
  BY <1>2 DEF netVars, ConnectedHasThread, Alive
<1>3. CASE \/ LedaInit \/ LedaExit \/ CreatePool \/ CreatePoolFails \/ CopyInfo
           \/ InfoFails \/ AllocCbs \/ AllocCbsFails \/ InitBuffer
           \/ InitBufferFails \/ CreateThreadFails \/ InitReturns
           \/ DestroyPool \/ JoinPool \/ StopNetwork \/ WaitOver \/ FreeCbs
           \/ FreeBuffer
  <2>1. ~late
    BY <1>3 DEF LedaInit, LedaExit, CreatePool, CreatePoolFails, CopyInfo,
       InfoFails, AllocCbs, AllocCbsFails, InitBuffer, InitBufferFails,
       CreateThreadFails, InitReturns, DestroyPool, JoinPool, StopNetwork,
       WaitOver, FreeCbs, FreeBuffer
  <2>2. UNCHANGED netVars
    BY <1>3 DEF LedaInit, LedaExit, CreatePool, CreatePoolFails, CopyInfo,
       InfoFails, AllocCbs, AllocCbsFails, InitBuffer, InitBufferFails,
       CreateThreadFails, InitReturns, DestroyPool, JoinPool, StopNetwork,
       WaitOver, FreeCbs, FreeBuffer
  <2>3. QED
    BY <1>2, <2>1, <2>2
<1>4. CASE CreateThread
  <2>1. ~late /\ app = "thread" /\ g_conn_state = "connected"
    BY <1>4 DEF CreateThread
  <2>2. \E i \in Inits : Alive(i)
    BY <2>1 DEF ConnectedHasThread
  <2>3. QED
    BY <2>1, <2>2 DEF RunInv, Working
<1>5. CASE ExitReturns
  BY <1>5 DEF ExitReturns
<1>6. ASSUME NEW i \in Inits, NetStep(i)
      PROVE  g_wsi' = "up" /\ \E j \in Inits : Alive(j)'
  <2>1. ~late /\ Alive(i)
    BY <1>6, NetStepAlive
  <2>2. g_cbs
    BY <2>1, LiveUses
  <2>3. CASE NetExit(i)
    BY <2>1, <2>2, <2>3 DEF NetExit, TellApplication, ConnectedHasThread
  <2>4. CASE Lost(i)
    BY <2>2, <2>4 DEF Lost, TellApplication
  <2>5. CASE Established(i)
    <3>1. g_wsi' = "up" /\ net' = [net EXCEPT ![i] = "loop"]
      BY <2>5 DEF Established
    <3>2. Alive(i)'
      BY <1>1, <3>1 DEF Alive
    <3>3. QED
      BY <3>1, <3>2
  <2>6. CASE Connect(i)
    BY <2>1, <2>6 DEF Connect, ConnectedHasThread
  <2>7. CASE NetStart(i) \/ LeaveLoop(i) \/ Serve(i) \/ Served(i) \/ Receive(i)
    <3>1. UNCHANGED <<g_wsi, g_conn_state>>
      BY <2>7 DEF NetStart, LeaveLoop, Serve, Served, Receive
    <3>2. \E n \in {"loop", "leaving", "serving"} : net' = [net EXCEPT ![i] = n]
      BY <2>7 DEF NetStart, LeaveLoop, Serve, Served, Receive
    <3>3. Alive(i)'
      BY <1>1, <3>2 DEF Alive
    <3>4. QED
      BY <2>1, <3>1, <3>3 DEF ConnectedHasThread
  <2>8. QED
    BY <1>6, <2>3, <2>4, <2>5, <2>6, <2>7 DEF NetStep
<1>7. ASSUME NEW i \in Inits, TaskEnds(i)
      PROVE  ~late /\ UNCHANGED netVars
  BY <1>7 DEF TaskEnds
<1>8. CASE UNCHANGED vars
  BY <1>2, <1>8 DEF vars
<1>9. QED
  BY <1>2, <1>3, <1>4, <1>5, <1>6, <1>7, <1>8 DEF Next, InitStep, ExitStep

-----------------------------------------------------------------------------
(* What ends the process.                                                  *)
LEMMA CrashesKept ==
  TypeOK /\ PoolInv /\ RunInv /\ CrashesExplained /\ [Next]_vars => CrashesExplained'
<1> SUFFICES ASSUME TypeOK, PoolInv, RunInv, CrashesExplained, [Next]_vars, crashed'
             PROVE  CrashesExplained'
  BY DEF CrashesExplained
<1>1. CASE UNCHANGED vars
  BY <1>1 DEF vars, exitVars, CrashesExplained
<1>2. CASE ~crashed /\ (LedaInit \/ LedaExit \/ InitStep)
  <2>1. ~crashed'
    BY <1>2 DEF LedaInit, LedaExit, InitStep, CreatePool, CreatePoolFails,
       CopyInfo, InfoFails, AllocCbs, AllocCbsFails, InitBuffer, InitBufferFails,
       CreateThread, CreateThreadFails, InitReturns, exitVars
  <2>2. QED
    BY <2>1
<1>3. CASE ~crashed /\ DestroyPool
  <2>1. app = "destroy" /\ g_threadpool # 0 /\ pool[g_threadpool] = "freed"
    BY <1>3 DEF DestroyPool
  <2>2. unpaired /\ unpaired' = unpaired
    BY <1>3, <2>1 DEF DestroyPool, PoolInv, PoolOpen
  <2>3. QED
    BY <2>2 DEF CrashesExplained
<1>4. CASE ~crashed /\ ExitStep /\ ~DestroyPool
  <2>1. ~crashed'
    BY <1>4 DEF ExitStep, JoinPool, StopNetwork, WaitOver, FreeCbs, FreeBuffer,
       ExitReturns, exitVars
  <2>2. QED
    BY <2>1
<1>5. ASSUME NEW i \in Inits, NetStep(i), ~crashed PROVE CrashesExplained'
  <2>1. NetStart(i)
    BY <1>5 DEF NetStep, LeaveLoop, Connect, Serve, Served, Established, Lost,
       Receive, NetExit, exitVars
  <2>2. ParametersMissing /\ UNCHANGED <<late, g_wsc_conn>> /\ Alive(i)
    BY <2>1, <1>5, NetStepAlive DEF NetStart
  <2>3. CASE late
    BY <2>2, <2>3 DEF CrashesExplained
  <2>4. CASE ~late
    <3>1. Mandatory \subseteq g_wsc_conn
      BY <2>2, <2>4, LiveUses
    <3>2. "wss" \in g_wsc_conn /\ "ca_path" \notin g_wsc_conn
      BY <2>2, <3>1 DEF ParametersMissing, Mandatory
    <3>3. QED
      BY <2>2, <3>2 DEF CrashesExplained
  <2>5. QED
    BY <2>3, <2>4
<1>6. ASSUME NEW i \in Inits, TaskEnds(i), ~crashed PROVE ~crashed'
  BY <1>6 DEF TaskEnds, exitVars
<1>7. QED
  BY <1>1, <1>2, <1>3, <1>4, <1>5, <1>6 DEF Next

-----------------------------------------------------------------------------
LEMMA InitIInv == Init => IInv
<1> SUFFICES ASSUME Init PROVE IInv
  OBVIOUS
<1>1. TypeOK
  BY InitTypeOK
<1>2. StageInv
  BY DEF Init, StageInv, InitSteps
<1>3. \A i \in Inits : pool[i] = "none" /\ tasks[i] = 0 /\ net[i] = "none"
  BY DEF Init
<1>4. PoolInv
  BY <1>3 DEF Init, PoolInv, PoolOpen, PoolGone, Building
<1>5. RunInv
  BY <1>3 DEF Init, RunInv, Alive
<1>6. ConnectedHasThread
  BY DEF Init, ConnectedHasThread
<1>7. CrashesExplained
  BY DEF Init, CrashesExplained
<1>8. QED
  BY <1>1, <1>2, <1>4, <1>5, <1>6, <1>7 DEF IInv

(* The inductive invariant of the calls and the network thread.            *)
THEOREM InvariantHolds == Spec => []IInv
<1>1. IInv /\ [Next]_vars => IInv'
  BY TypeKept, StageKept, PoolKept, RunKept, ConnectedKept, CrashesKept
     DEF IInv
<1>2. QED
  BY InitIInv, <1>1, PTL DEF Spec

(* Every variable keeps its type.                                          *)
THEOREM TypeCorrect == Spec => []TypeOK
<1>1. IInv => TypeOK
  BY DEF IInv
<1>2. QED
  BY <1>1, InvariantHolds, PTL

(* leda_exit leaves nothing behind, whatever failed in leda_init before,   *)
(* and even when the network thread is late; except the pool of a failed   *)
(* leda_init that was tried again without a leda_exit.                     *)
THEOREM NothingLeft == Spec => []ReleasedAfterExit
<1>1. IInv => ReleasedAfterExit
  <2> SUFFICES ASSUME IInv, app = "idle" PROVE ReleasedAfterExit
    BY DEF ReleasedAfterExit
  <2>1. g_wsc_conn = {} /\ ~g_cbs /\ ~g_ws_buf /\ ~g_has_init
    BY DEF IInv, StageInv, Working, ExitSteps
  <2>2. \A i \in Inits \ lostPools : pool[i] \in {"none", "freed"}
    BY DEF IInv, TypeOK, PoolInv, PoolGone, Inits
  <2>3. \A i \in Inits \ lostPools : tasks[i] = 0
    <3>1. \A i \in Inits \ lostPools : ~(tasks[i] > 0) /\ tasks[i] \in 0..MaxTasks
      BY <2>2 DEF IInv, TypeOK, PoolInv
    <3>2. QED
      BY <3>1, LifeAssumption
  <2>4. late \/ g_conn_state = "none"
    BY DEF IInv, RunInv
  <2>5. QED
    BY <2>1, <2>2, <2>3, <2>4 DEF ReleasedAfterExit
<1>2. QED
  BY <1>1, InvariantHolds, PTL

(* What the network thread uses is there as long as it lives, unless it    *)
(* outlived the wait for it.                                               *)
THEOREM NetworkSafe == Spec => []NetworkUsesLive
<1>1. IInv => NetworkUsesLive
  BY LiveUses DEF IInv, NetworkUsesLive
<1>2. QED
  BY <1>1, InvariantHolds, PTL

(* A worker finds the buffer it pushes its response into.                  *)
THEOREM WorkersSafe == Spec => []TasksHaveBuffer
<1>1. IInv => TasksHaveBuffer
  BY DEF IInv, RunInv, PoolInv, TasksHaveBuffer
<1>2. QED
  BY <1>1, InvariantHolds, PTL

(* The freed pool is destroyed again only by a leda_exit that has no       *)
(* leda_init to undo; apart from that only a late network thread and TLS   *)
(* without a ca_path end the process.                                      *)
THEOREM CrashesAreExplained == Spec => []CrashesExplained
<1>1. IInv => CrashesExplained
  BY DEF IInv
<1>2. QED
  BY <1>1, InvariantHolds, PTL

(* A connection that is marked as up has its network thread.               *)
THEOREM ConnectionServed == Spec => []ConnectedHasThread
<1>1. IInv => ConnectedHasThread
  BY DEF IInv
<1>2. QED
  BY <1>1, InvariantHolds, PTL
=============================================================================
