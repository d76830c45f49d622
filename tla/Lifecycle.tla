----------------------------- MODULE Lifecycle -----------------------------
(***************************************************************************)
(* leda_init and leda_exit with what they create and free (leda.c,         *)
(* ws_client.c), and the network thread that uses it in the meantime       *)
(* (ws_client_network.c, ws_client_callback.c).                            *)
(*                                                                         *)
(* One application thread calls leda_init and leda_exit in any order: it   *)
(* may try leda_init again after one that failed, and it may call          *)
(* leda_exit before any leda_init or again after a leda_exit, which        *)
(* `unpaired` records.  (While g_has_init is set leda_init does nothing.)  *)
(* Each call creates its own pool and network thread, named by the number  *)
(* of the call.  The wait of ws_client_destroy is a delay and no more: it  *)
(* ends at any time, and `late` records that it ended before the network   *)
(* thread did.                                                             *)
(***************************************************************************)
EXTENDS Naturals, FiniteSets

CONSTANTS MaxInits,     \* calls of leda_init
          MaxTasks      \* tasks at a time in one pool

ASSUME LifeAssumption == MaxInits \in Nat \ {0} /\ MaxTasks \in Nat \ {0}

VARIABLES
  app,           \* where the application thread is in leda_init or leda_exit
  inits,         \* calls of leda_init so far
  g_has_init,
  g_conn_state,  \* "none" (-1), "connected" or "disconnected"
  g_threadpool,  \* the pool it points at, 0 for NULL
  pool,          \* pool[i]: how far the pool of call i is
  tasks,         \* tasks[i]: its tasks, waiting or running
  g_wsc_conn,    \* its strings that are allocated; "wss" if the url begins so
  g_cbs,         \* is it allocated?
  g_ws_buf,      \* is the send buffer allocated?
  force_exit,
  net,           \* net[i]: how far the network thread of call i is
  g_wsi,         \* "null", "connecting" or "up"
  late,          \* history: a network thread outlived the wait for it
  poolMisused,   \* history: a freed pool was given a task
  unpaired,      \* history: the latest leda_exit had no leda_init to undo
  lostPools,     \* history: the pools a further leda_init forgot
  crashed        \* undefined behaviour, with which the process ends or hangs

poolVars == <<g_threadpool, pool, tasks>>
wsVars   == <<g_cbs, g_ws_buf, force_exit>>
netVars  == <<net, g_wsi, g_conn_state>>
exitVars == <<unpaired, lostPools, crashed>>
vars == <<app, inits, g_has_init, g_wsc_conn, poolVars, wsVars, netVars,
          late, poolMisused, exitVars>>

Inits == 1..MaxInits

Mandatory == {"protocol", "url"}
Strings   == Mandatory \cup {"wss", "ca_path"}

InitSteps == {"pool", "info", "cbs", "buffer", "thread", "lock"}
ExitSteps == {"destroy", "join", "stop", "wait", "free_cbs", "free_buffer",
              "reset"}
AppStates == {"idle", "failed", "inited"} \cup InitSteps \cup ExitSteps

NetStates == {"none", "starting", "loop", "serving", "leaving", "exited"}

Alive(i) == net[i] \notin {"none", "exited"}

Init ==
  /\ app = "idle" /\ inits = 0
  /\ g_has_init = FALSE /\ g_conn_state = "none"
  /\ g_threadpool = 0
  /\ pool = [i \in Inits |-> "none"] /\ tasks = [i \in Inits |-> 0]
  /\ g_wsc_conn = {} /\ g_cbs = FALSE /\ g_ws_buf = FALSE
  /\ force_exit = FALSE
  /\ net = [i \in Inits |-> "none"] /\ g_wsi = "null"
  /\ late = FALSE /\ poolMisused = FALSE
  /\ unpaired = FALSE /\ lostPools = {} /\ crashed = FALSE

-----------------------------------------------------------------------------
(* leda_init.                                                              *)

(* It is called for the first time, after leda_exit, or after a leda_init  *)
(* that failed.                                                            *)
LedaInit ==
  /\ app \in {"idle", "failed"} /\ inits < MaxInits
  /\ ~g_has_init
  /\ inits' = inits + 1
  /\ app' = "pool"
  /\ UNCHANGED <<g_has_init, g_wsc_conn, poolVars, wsVars, netVars, late,
                 poolMisused, exitVars>>

(* What g_threadpool pointed at is overwritten.  After leda_exit it has    *)
(* been freed; after a leda_init that failed nothing points at it now.     *)
ForgetPool ==
  lostPools' = lostPools
                 \cup {i \in Inits : i = g_threadpool /\ pool[i] = "open"}

(* threadpool_create.                                                      *)
CreatePool ==
  /\ app = "pool"
  /\ app' = "info"
  /\ ForgetPool
  /\ g_threadpool' = inits
  /\ pool' = [pool EXCEPT ![inits] = "open"]
  /\ UNCHANGED <<inits, g_has_init, g_wsc_conn, tasks, wsVars, netVars, late,
                 poolMisused, unpaired, crashed>>

(* Mutant: only a pool that could be created is assigned.                  *)
CreatePoolFailsKeeping ==
  /\ app = "pool"
  /\ app' = "failed"
  /\ UNCHANGED <<inits, g_has_init, g_wsc_conn, poolVars, wsVars, netVars,
                 late, poolMisused, exitVars>>

CreatePoolFails ==
  /\ app = "pool"
  /\ app' = "failed"
  /\ ForgetPool
  /\ g_threadpool' = 0
  /\ UNCHANGED <<inits, g_has_init, g_wsc_conn, pool, tasks, wsVars, netVars,
                 late, poolMisused, unpaired, crashed>>

(* The address, port and use_tls are checked and the strings copied.  A    *)
(* connection without TLS clears ca_path; one with TLS copies the one it   *)
(* is given, and without one keeps what an earlier call has left.          *)
CopyInfo ==
  /\ app = "info"
  /\ app' = "cbs"
  /\ g_wsc_conn' \in {Mandatory, Strings,
                      Mandatory \cup {"wss"} \cup (g_wsc_conn \cap {"ca_path"})}
  /\ UNCHANGED <<inits, g_has_init, poolVars, wsVars, netVars, late,
                 poolMisused, exitVars>>

(* A bad address, port or use_tls is refused before anything is copied and *)
(* leaves the strings alone; at END every string is freed.  The pool stays *)
(* in both cases.                                                          *)
InfoFails ==
  /\ app = "info"
  /\ app' = "failed"
  /\ g_wsc_conn' \in {{}, g_wsc_conn}
  /\ UNCHANGED <<inits, g_has_init, poolVars, wsVars, netVars, late,
                 poolMisused, exitVars>>

-----------------------------------------------------------------------------
(* wsc_init.                                                               *)

AllocCbs ==
  /\ app = "cbs"
  /\ app' = "buffer"
  /\ g_cbs' = TRUE
  /\ force_exit' = FALSE
  /\ UNCHANGED <<inits, g_has_init, g_wsc_conn, poolVars, g_ws_buf, netVars,
                 late, poolMisused, exitVars>>

AllocCbsFails ==
  /\ app = "cbs"
  /\ app' = "failed"
  /\ g_cbs' = FALSE
  /\ UNCHANGED <<inits, g_has_init, g_wsc_conn, poolVars, g_ws_buf, force_exit,
                 netVars, late, poolMisused, exitVars>>

(* client_buf_mgmt_init.                                                   *)
InitBuffer ==
  /\ app = "buffer"
  /\ app' = "thread"
  /\ g_ws_buf' = TRUE
  /\ UNCHANGED <<inits, g_has_init, g_wsc_conn, poolVars, g_cbs, force_exit,
                 netVars, late, poolMisused, exitVars>>

InitBufferFails ==
  /\ app = "buffer"
  /\ app' = "failed"
  /\ g_cbs' = FALSE
  /\ UNCHANGED <<inits, g_has_init, g_wsc_conn, poolVars, g_ws_buf, force_exit,
                 netVars, late, poolMisused, exitVars>>

(* pthread_create of thread_wsc_network.                                   *)
CreateThread ==
  /\ app = "thread"
  /\ app' = "lock"
  /\ net' = [net EXCEPT ![inits] = "starting"]
  /\ UNCHANGED <<inits, g_has_init, g_wsc_conn, poolVars, wsVars, g_wsi,
                 g_conn_state, late, poolMisused, exitVars>>

CreateThreadFails ==
  /\ app = "thread"
  /\ app' = "failed"
  /\ g_cbs' = FALSE
  /\ g_ws_buf' = FALSE
  /\ UNCHANGED <<inits, g_has_init, g_wsc_conn, poolVars, force_exit, netVars,
                 late, poolMisused, exitVars>>

(* The lock of the replies is initialised; leda_init returns.              *)
InitReturns ==
  /\ app = "lock"
  /\ app' = "inited"
  /\ g_has_init' = TRUE
  /\ UNCHANGED <<inits, g_wsc_conn, poolVars, wsVars, netVars, late,
                 poolMisused, exitVars>>

InitStep == \/ CreatePool \/ CreatePoolFails \/ CopyInfo \/ InfoFails
            \/ AllocCbs \/ AllocCbsFails \/ InitBuffer \/ InitBufferFails
            \/ CreateThread \/ CreateThreadFails \/ InitReturns

-----------------------------------------------------------------------------
(* leda_exit, at any time outside leda_init.                               *)
LedaExit ==
  /\ app \in {"idle", "inited", "failed"}
  /\ app' = "destroy"
  /\ unpaired' = (app = "idle")
  /\ UNCHANGED <<inits, g_has_init, g_wsc_conn, poolVars, wsVars, netVars,
                 late, poolMisused, lostPools, crashed>>

(* Mutants: only after a successful leda_init; without shutting it down.   *)
DestroyPoolIfInit ==
  /\ app = "destroy"
  /\ \/ /\ g_threadpool = 0 \/ ~g_has_init
        /\ app' = "stop" /\ UNCHANGED <<pool, crashed>>
     \/ /\ g_threadpool # 0 /\ g_has_init
        /\ app' = "join" /\ pool' = [pool EXCEPT ![g_threadpool] = "closing"]
        /\ UNCHANGED crashed
  /\ UNCHANGED <<inits, g_has_init, g_wsc_conn, g_threadpool, tasks, wsVars,
                 netVars, late, poolMisused, unpaired, lostPools>>

DestroyPoolOpen ==
  /\ app = "destroy"
  /\ app' = IF g_threadpool # 0 /\ pool[g_threadpool] = "open"
              THEN "join" ELSE "stop"
  /\ UNCHANGED <<inits, g_has_init, g_wsc_conn, poolVars, wsVars, netVars,
                 late, poolMisused, exitVars>>

(* threadpool_destroy, gracefully: it shuts the pool down ...  A pool that *)
(* has been freed before, as g_threadpool is never reset, is read and      *)
(* locked although it is no longer there: at best this is refused.         *)
DestroyPool ==
  /\ app = "destroy"
  /\ \/ /\ g_threadpool = 0
        /\ app' = "stop" /\ UNCHANGED <<pool, crashed>>
     \/ /\ g_threadpool # 0 /\ pool[g_threadpool] = "open"
        /\ app' = "join" /\ pool' = [pool EXCEPT ![g_threadpool] = "closing"]
        /\ UNCHANGED crashed
     \/ /\ g_threadpool # 0 /\ pool[g_threadpool] = "freed"
        /\ app' = "stop" /\ crashed' \in BOOLEAN
        /\ UNCHANGED pool
  /\ UNCHANGED <<inits, g_has_init, g_wsc_conn, g_threadpool, tasks, wsVars,
                 netVars, late, poolMisused, unpaired, lostPools>>

(* Mutant: the network is stopped before the workers are joined.           *)
JoinNobody ==
  /\ app = "join"
  /\ app' = "stop"
  /\ UNCHANGED <<inits, g_has_init, g_wsc_conn, poolVars, wsVars, netVars,
                 late, poolMisused, exitVars>>

(* ... joins its threads, which run all tasks first, and frees it.         *)
(* g_threadpool keeps pointing at it.                                      *)
JoinPool ==
  /\ app = "join"
  /\ tasks[g_threadpool] = 0
  /\ app' = "stop"
  /\ pool' = [pool EXCEPT ![g_threadpool] = "freed"]
  /\ UNCHANGED <<inits, g_has_init, g_wsc_conn, g_threadpool, tasks, wsVars,
                 netVars, late, poolMisused, exitVars>>

(* ws_client_destroy.                                                      *)
StopNetwork ==
  /\ app = "stop"
  /\ app' = "wait"
  /\ force_exit' = TRUE
  /\ UNCHANGED <<inits, g_has_init, g_wsc_conn, poolVars, g_cbs, g_ws_buf,
                 netVars, late, poolMisused, exitVars>>

(* Mutant: there is no wait.                                               *)
WaitForgotten ==
  /\ app = "wait"
  /\ app' = "free_cbs"
  /\ UNCHANGED <<inits, g_has_init, g_wsc_conn, poolVars, wsVars, netVars, late,
                 poolMisused, exitVars>>

(* The second is over, whether the network thread has left or not.         *)
WaitOver ==
  /\ app = "wait"
  /\ app' = "free_cbs"
  /\ late' = (late \/ \E i \in Inits : Alive(i))
  /\ UNCHANGED <<inits, g_has_init, g_wsc_conn, poolVars, wsVars, netVars,
                 poolMisused, exitVars>>

FreeCbs ==
  /\ app = "free_cbs"
  /\ app' = "free_buffer"
  /\ g_cbs' = FALSE
  /\ UNCHANGED <<inits, g_has_init, g_wsc_conn, poolVars, g_ws_buf, force_exit,
                 netVars, late, poolMisused, exitVars>>

FreeBuffer ==
  /\ app = "free_buffer"
  /\ app' = "reset"
  /\ g_ws_buf' = FALSE
  /\ UNCHANGED <<inits, g_has_init, g_wsc_conn, poolVars, g_cbs, force_exit,
                 netVars, late, poolMisused, exitVars>>

(* The flags are reset and the strings freed; leda_exit returns.           *)
ExitReturns ==
  /\ app = "reset"
  /\ app' = "idle"
  /\ g_has_init' = FALSE
  /\ g_conn_state' = "none"
  /\ g_wsc_conn' = {}
  /\ UNCHANGED <<inits, poolVars, wsVars, net, g_wsi, late, poolMisused,
                 exitVars>>

ExitStep == DestroyPool \/ JoinPool \/ StopNetwork \/ WaitOver \/ FreeCbs
            \/ FreeBuffer \/ ExitReturns

-----------------------------------------------------------------------------
(* The network thread of call i.                                           *)

(* cb_ws_estab and cb_ws_close, called through g_cbs.                      *)
TellApplication(state) == g_conn_state' = IF g_cbs THEN state ELSE g_conn_state

(* It reads its parameters and creates the context.  (When it cannot, it   *)
(* ends the process, which is no step of this model.)  It reads the first  *)
(* character of ca_path whenever the url asks for TLS; that there is none  *)
(* has only been printed by wsc_init.                                      *)
ParametersMissing ==
  \/ "url" \notin g_wsc_conn
  \/ "wss" \in g_wsc_conn /\ "ca_path" \notin g_wsc_conn

NetStart(i) ==
  /\ net[i] = "starting"
  /\ net' = [net EXCEPT ![i] = "loop"]
  /\ crashed' = ParametersMissing
  /\ UNCHANGED <<app, inits, g_has_init, g_wsc_conn, poolVars, wsVars, g_wsi,
                 g_conn_state, late, poolMisused, unpaired, lostPools>>

(* Mutant: it looks at force_exit only while it is connected.              *)
LeaveLoopIfUp(i) ==
  /\ net[i] = "loop" /\ force_exit /\ g_wsi = "up"
  /\ net' = [net EXCEPT ![i] = "leaving"]
  /\ UNCHANGED <<app, inits, g_has_init, g_wsc_conn, poolVars, wsVars, g_wsi,
                 g_conn_state, late, poolMisused, exitVars>>

LeaveLoop(i) ==
  /\ net[i] = "loop" /\ force_exit
  /\ net' = [net EXCEPT ![i] = "leaving"]
  /\ UNCHANGED <<app, inits, g_has_init, g_wsc_conn, poolVars, wsVars, g_wsi,
                 g_conn_state, late, poolMisused, exitVars>>

(* It tries to connect, and sleeps for a second.                           *)
Connect(i) ==
  /\ net[i] = "loop" /\ ~force_exit /\ g_wsi = "null"
  /\ g_wsi' = "connecting"
  /\ UNCHANGED <<app, inits, g_has_init, g_wsc_conn, poolVars, wsVars, net,
                 g_conn_state, late, poolMisused, exitVars>>

(* lws_service, which delivers one of the callbacks below, or none.        *)
Serve(i) ==
  /\ net[i] = "loop" /\ ~force_exit /\ g_wsi # "null"
  /\ net' = [net EXCEPT ![i] = "serving"]
  /\ UNCHANGED <<app, inits, g_has_init, g_wsc_conn, poolVars, wsVars, g_wsi,
                 g_conn_state, late, poolMisused, exitVars>>

(* Nothing, a writable callback, or an error, which ends the loop.         *)
Served(i) ==
  /\ net[i] = "serving"
  /\ \E next \in {"loop", "leaving"} : net' = [net EXCEPT ![i] = next]
  /\ UNCHANGED <<app, inits, g_has_init, g_wsc_conn, poolVars, wsVars, g_wsi,
                 g_conn_state, late, poolMisused, exitVars>>

Established(i) ==
  /\ net[i] = "serving" /\ g_wsi = "connecting"
  /\ net' = [net EXCEPT ![i] = "loop"]
  /\ g_wsi' = "up"
  /\ TellApplication("connected")
  /\ UNCHANGED <<app, inits, g_has_init, g_wsc_conn, poolVars, wsVars, late,
                 poolMisused, exitVars>>

(* CLIENT_CONNECTION_ERROR and CLOSED.                                     *)
Lost(i) ==
  /\ net[i] = "serving" /\ g_wsi # "null"
  /\ net' = [net EXCEPT ![i] = "loop"]
  /\ g_wsi' = "null"
  /\ TellApplication("disconnected")
  /\ UNCHANGED <<app, inits, g_has_init, g_wsc_conn, poolVars, wsVars, late,
                 poolMisused, exitVars>>

(* A message: cb_ws_recv adds a task to the pool, which may have been      *)
(* freed.  (A message that is refused, because the pool is full or         *)
(* closing, is no more than Served.)                                       *)
Receive(i) ==
  /\ net[i] = "serving" /\ g_wsi = "up"
  /\ net' = [net EXCEPT ![i] = "loop"]
  /\ g_cbs /\ g_threadpool # 0
  /\ \/ /\ pool[g_threadpool] = "open" /\ tasks[g_threadpool] < MaxTasks
        /\ tasks' = [tasks EXCEPT ![g_threadpool] = @ + 1]
        /\ UNCHANGED poolMisused
     \/ /\ pool[g_threadpool] = "freed"
        /\ poolMisused' = TRUE
        /\ UNCHANGED tasks
  /\ UNCHANGED <<app, inits, g_has_init, g_wsc_conn, g_threadpool, pool, wsVars,
                 g_wsi, g_conn_state, late, exitVars>>

(* lws_context_destroy closes the connection, with its callback.           *)
NetExit(i) ==
  /\ net[i] = "leaving"
  /\ net' = [net EXCEPT ![i] = "exited"]
  /\ g_wsi' = "null"
  /\ IF g_wsi = "null" THEN UNCHANGED g_conn_state
                       ELSE TellApplication("disconnected")
  /\ UNCHANGED <<app, inits, g_has_init, g_wsc_conn, poolVars, wsVars, late,
                 poolMisused, exitVars>>

NetStep(i) == \/ NetStart(i) \/ LeaveLoop(i) \/ Connect(i) \/ Serve(i)
              \/ Served(i) \/ Established(i) \/ Lost(i) \/ Receive(i)
              \/ NetExit(i)

(* A worker of pool i ends a task; it may have pushed a response.          *)
TaskEnds(i) ==
  /\ tasks[i] > 0
  /\ tasks' = [tasks EXCEPT ![i] = @ - 1]
  /\ UNCHANGED <<app, inits, g_has_init, g_wsc_conn, g_threadpool, pool, wsVars,
                 netVars, late, poolMisused, exitVars>>

-----------------------------------------------------------------------------
Next == /\ ~crashed
        /\ \/ LedaInit \/ InitStep \/ LedaExit \/ ExitStep
           \/ \E i \in Inits : NetStep(i) \/ TaskEnds(i)

Spec == Init /\ [][Next]_vars

(* A call that has begun goes on, and so do the network thread and the     *)
(* workers; nobody is made to call leda_init or leda_exit.                 *)
FairSpec == /\ Spec
            /\ WF_vars(~crashed /\ InitStep) /\ WF_vars(~crashed /\ ExitStep)
            /\ \A i \in Inits : /\ WF_vars(~crashed /\ NetStep(i))
                               /\ WF_vars(~crashed /\ TaskEnds(i))

-----------------------------------------------------------------------------
TypeOK ==
  /\ app \in AppStates /\ inits \in 0..MaxInits
  /\ g_has_init \in BOOLEAN /\ g_conn_state \in {"none", "connected", "disconnected"}
  /\ g_threadpool \in 0..inits
  /\ pool \in [Inits -> {"none", "open", "closing", "freed"}]
  /\ tasks \in [Inits -> 0..MaxTasks]
  /\ g_wsc_conn \subseteq Strings /\ g_cbs \in BOOLEAN /\ g_ws_buf \in BOOLEAN
  /\ force_exit \in BOOLEAN
  /\ net \in [Inits -> NetStates] /\ g_wsi \in {"null", "connecting", "up"}
  /\ late \in BOOLEAN /\ poolMisused \in BOOLEAN
  /\ unpaired \in BOOLEAN /\ lostPools \subseteq Inits /\ crashed \in BOOLEAN

(* Whatever steps of leda_init failed, leda_exit (leda.c:1322) leaves no   *)
(* pool, no callbacks, no buffer and no string behind, even when the       *)
(* network thread is late; when it is not, no mark of a connection either. *)
(* Only the pool of a failed leda_init that was followed by another        *)
(* leda_init is out of its reach (leda.c:1117).                            *)
ReleasedAfterExit ==
  app = "idle" =>
    /\ \A i \in Inits \ lostPools : pool[i] \in {"none", "freed"} /\ tasks[i] = 0
    /\ g_wsc_conn = {} /\ ~g_cbs /\ ~g_ws_buf /\ ~g_has_init
    /\ late \/ g_conn_state = "none"

(* Unless the network thread has been late, what it uses is there for as   *)
(* long as it lives: the callbacks, the buffer, the strings of its         *)
(* parameters (ws_client_network.c:69), and it is the only one.            *)
NetworkUsesLive ==
  ~late => \A i \in Inits : Alive(i) =>
             /\ g_cbs /\ g_ws_buf /\ Mandatory \subseteq g_wsc_conn
             /\ \A j \in Inits : Alive(j) => j = i

(* Unless the network thread has been late, the buffer into which a task   *)
(* pushes its response is there: leda_exit joins the workers first.        *)
TasksHaveBuffer ==
  ~late => \A i \in Inits : tasks[i] > 0 => g_ws_buf /\ pool[i] # "freed"

(* Three uses of this interface can end the process, and no other: a       *)
(* leda_exit that has nothing to undo, which destroys the freed pool that  *)
(* g_threadpool still points at (leda.c:1324), a network thread that       *)
(* outlived the wait for it, and TLS without a ca_path                     *)
(* (ws_client_network.c:106).  So leda_exit after any leda_init, failed or *)
(* not and tried again or not, meets an open pool or none.                 *)
CrashesExplained ==
  crashed => unpaired \/ late \/ {"wss", "ca_path"} \cap g_wsc_conn = {"wss"}

(* Unless the network thread has been late, the connection is marked as up *)
(* only while the network thread that has it is there: afterwards calls of *)
(* the application are refused (leda.c:894).                               *)
ConnectedHasThread ==
  ~late /\ g_conn_state = "connected" =>
    g_wsi = "up" /\ \E i \in Inits : Alive(i)

(* What exists at which stage of the calls.                                *)
Building == {"info", "cbs", "buffer", "thread"}
Working  == {"lock", "inited", "destroy", "join"}

StageInv ==
  /\ g_cbs => app \in {"buffer", "thread", "stop", "wait", "free_cbs"} \cup Working
  /\ g_ws_buf => app \in {"thread", "stop", "wait", "free_cbs", "free_buffer"}
                           \cup Working
  /\ g_wsc_conn # {} => app # "idle"
  /\ g_has_init => app \in {"inited"} \cup ExitSteps
  /\ app \in InitSteps => inits > 0
  /\ app \in {"buffer", "thread"} => g_cbs
  /\ app = "thread" => g_ws_buf
  /\ app \in {"cbs", "buffer", "thread"} => Mandatory \subseteq g_wsc_conn

(* Only the pool g_threadpool points at can be in use, until it is joined; *)
(* that one is open, none, or freed by an earlier leda_exit.               *)
PoolGone == g_threadpool = 0 \/ pool[g_threadpool] = "freed"
PoolOpen == g_threadpool = 0 \/ pool[g_threadpool] = "open"

PoolInv ==
  /\ \A i \in Inits : pool[i] = "open" => i = g_threadpool \/ i \in lostPools
  /\ \A i \in Inits : pool[i] = "closing" => i = g_threadpool /\ app = "join"
  /\ app \in {"inited", "failed", "lock"} \cup Building => PoolOpen
  /\ app \in {"pool", "destroy"} => PoolOpen \/ PoolGone
  /\ app = "destroy" /\ ~unpaired => PoolOpen
  /\ app = "join" => g_threadpool # 0
  /\ app \in {"idle"} \cup (ExitSteps \ {"destroy", "join"}) => PoolGone
  /\ \A i \in Inits : tasks[i] > 0 => pool[i] \in {"open", "closing"}

(* Unless it has been late, the network thread lives between its creation  *)
(* and the end of the wait, and only then tasks are given to the pool.     *)
RunInv ==
  ~late => /\ \A i \in Inits : Alive(i) =>
                i = inits /\ app \in {"stop", "wait"} \cup Working
           /\ app \in {"stop", "wait"} \cup Working /\ (\E i \in Inits : Alive(i)) =>
                g_cbs /\ g_ws_buf /\ Mandatory \subseteq g_wsc_conn
           /\ \A i \in Inits : tasks[i] > 0 =>
                i = g_threadpool /\ app \in Working /\ g_ws_buf
           /\ app = "idle" => g_conn_state = "none"

(* Together: an invariant that every step preserves.                       *)
IInv == TypeOK /\ StageInv /\ PoolInv /\ RunInv /\ ConnectedHasThread
        /\ CrashesExplained

(* leda_exit returns, unless the process has ended.                        *)
ExitTerminates == app \in ExitSteps ~> crashed \/ app = "idle"

(* The network thread ends after leda_exit has asked it to, unless the     *)
(* next leda_init takes the request back (ws_client.c:40).                 *)
NetworkEnds ==
  app = "wait" ~> crashed \/ ~force_exit \/ \A i \in Inits : ~Alive(i)

(* A pool that is destroyed gracefully does not accept any new task        *)
(* (threadpool.h), and none is given to it once it is freed.               *)
PoolUsedAlive == ~poolMisused
=============================================================================
