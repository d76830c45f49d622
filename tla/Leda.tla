-------------------------------- MODULE Leda --------------------------------
(***************************************************************************)
(* The calls of ReplyRegistry together with the threads that make them.    *)
(*                                                                         *)
(* The application calls leda_online and its like from threads of its own, *)
(* and also from the callbacks the SDK runs: the property and service      *)
(* callbacks and report_reply_cb on the workers of the pool                *)
(* (threadpool_recv_proc), conn_state_change_cb on the network thread      *)
(* (cb_ws_estab, cb_ws_close).  A worker inside a callback takes no answer *)
(* from the pool, and while the network thread is inside one nothing is    *)
(* sent to the gateway or received from it.                                *)
(*                                                                         *)
(* The steps of the calls and of the workers are those of ReplyRegistry;   *)
(* this module adds which thread is where and when it may take a step.     *)
(***************************************************************************)
EXTENDS ReplyRegistry

CONSTANTS
  Tasks,    \* requests of the gateway: getProperty, setProperty, callService
  APP,      \* the threads of the application
  NET,      \* the network thread
  REPORT    \* the callback report_reply_cb

ASSUME ThreadsAssumption ==
  /\ APP \notin Workers /\ NET \notin Workers /\ APP # NET
  /\ NULL \notin Workers \cup {APP, NET}
  /\ NULL \notin Tasks /\ REPORT \notin Tasks /\ REPORT # NULL

VARIABLES
  thread,   \* the thread that makes each call, NULL before it begins
  task,     \* each request of the gateway: is it in the pool, or served
  cb,       \* cb[w]: what worker w runs a callback for, or NULL
  net       \* the network thread: in its loop, or in conn_state_change_cb

threadVars == <<thread, task, cb, net>>
ledaVars == <<vars, threadVars>>

LedaInit ==
  /\ Init
  /\ thread = [c \in Calls |-> NULL]
  /\ task = [t \in Tasks |-> "unsent"]
  /\ cb = [w \in Workers |-> NULL]
  /\ net = "loop"

(* Thread t is inside a call.                                              *)
InCall(t) == \E c \in Calls : thread[c] = t /\ pc[c] # "done"

(* The application's code runs on thread t and can begin a call.           *)
RunsApplication(t) ==
  \/ t = APP
  \/ t = NET /\ net = "told" /\ ~InCall(NET)
  \/ t \in Workers /\ cb[t] # NULL /\ ~InCall(t)

-----------------------------------------------------------------------------
(* The calls.                                                              *)
Begin(c, t) ==
  /\ pc[c] = "idle" /\ RunsApplication(t)
  /\ Refuse(c) \/ IncMsgId(c)
  /\ thread' = [thread EXCEPT ![c] = t]
  /\ UNCHANGED <<aborted, task, cb, net>>

Continue(c) ==
  /\ pc[c] # "idle"
  /\ (CallStep(c) /\ UNCHANGED aborted) \/ FreeReply(c)
  /\ UNCHANGED threadVars

-----------------------------------------------------------------------------
(* The network thread.                                                     *)

(* Mutant: answers are received while the callback runs.                   *)
Anywhere == net \in {"loop", "told"}

InLoop == net = "loop"

(* The network thread writes the request of c, receives its answer and     *)
(* adds it to the pool.                                                    *)
AnswerReceived(c) ==
  /\ InLoop
  /\ Answer(c)
  /\ UNCHANGED <<aborted, threadVars>>

(* It receives a request of the gateway and adds it to the pool.           *)
TaskReceived(t) ==
  /\ InLoop
  /\ task[t] = "unsent"
  /\ task' = [task EXCEPT ![t] = "queued"]
  /\ UNCHANGED <<vars, thread, cb, net>>

(* A connection is established or closed: conn_state_change_cb is called.  *)
TellState ==
  /\ net = "loop"
  /\ net' = "told"
  /\ UNCHANGED <<vars, thread, task, cb>>

StateTold ==
  /\ net = "told" /\ ~InCall(NET)
  /\ net' = "loop"
  /\ UNCHANGED <<vars, thread, task, cb>>

-----------------------------------------------------------------------------
(* The workers.                                                            *)

(* Only a worker that has returned from its callback takes a task.         *)
FreeToServe(w) == cb[w] = NULL

(* A step of an answer.  When the answer goes to report_reply_cb, the      *)
(* worker is inside that callback from now on.                             *)
ServeAnswer(w) ==
  /\ FreeToServe(w)
  /\ WorkerStep(w)
  /\ cb' = IF reported' = reported THEN cb ELSE [cb EXCEPT ![w] = REPORT]
  /\ UNCHANGED <<aborted, thread, task, net>>

(* threadpool_recv_proc on a request: the application's callback begins.   *)
TakeTask(w) ==
  /\ cb[w] = NULL /\ wpc[w] = "idle"
  /\ \E t \in Tasks : /\ task[t] = "queued"
                      /\ task' = [task EXCEPT ![t] = "running"]
                      /\ cb' = [cb EXCEPT ![w] = t]
  /\ UNCHANGED <<vars, thread, net>>

(* The callback returns and, for a request, leda_send_rsp pushes the       *)
(* response.                                                               *)
CallbackReturns(w) ==
  /\ cb[w] # NULL /\ ~InCall(w)
  /\ cb' = [cb EXCEPT ![w] = NULL]
  /\ task' = [t \in Tasks |-> IF t = cb[w] THEN "served" ELSE task[t]]
  /\ UNCHANGED <<vars, thread, net>>

-----------------------------------------------------------------------------
LedaNext ==
  /\ ~aborted
  /\ \/ \E c \in Calls : \/ \E t \in Workers \cup {APP, NET} : Begin(c, t)
                         \/ Continue(c)
                         \/ AnswerReceived(c)
     \/ \E t \in Tasks : TaskReceived(t)
     \/ TellState \/ StateTold
     \/ \E w \in Workers : ServeAnswer(w) \/ TakeTask(w) \/ CallbackReturns(w)

LedaSpec == LedaInit /\ [][LedaNext]_ledaVars

(* A call that has begun and a worker are running threads.  The            *)
(* application's callbacks return when the calls they made have returned.  *)
(* Nothing makes the application begin a call or the gateway say anything. *)
LedaFairSpec ==
  /\ LedaSpec
  /\ \A c \in Calls : WF_ledaVars(~aborted /\ Continue(c))
  /\ \A w \in Workers :
       /\ WF_ledaVars(~aborted /\ (ServeAnswer(w) \/ TakeTask(w)))
       /\ WF_ledaVars(~aborted /\ CallbackReturns(w))
  /\ WF_ledaVars(~aborted /\ StateTold)

-----------------------------------------------------------------------------
LedaTypeOK ==
  /\ thread \in [Calls -> Workers \cup {APP, NET, NULL}]
  /\ task \in [Tasks -> {"unsent", "queued", "running", "served"}]
  /\ cb \in [Workers -> Tasks \cup {REPORT, NULL}]
  /\ net \in {"loop", "told"}

(* leda_online called from conn_state_change_cb (cb_ws_estab) keeps the    *)
(* network thread from receiving its answer: whatever it returns is not    *)
(* the verdict on its request.                                             *)
NetworkCallUnanswered ==
  \A c \in SyncCalls : thread[c] = NET /\ ret[c] = "success" => code[c] # c

(* report_reply_cb may hear of a report before leda_asyn_send_method has   *)
(* stored the id for its caller (leda.c:1069); but a report it hears of is *)
(* never one whose call fails.                                             *)
ReportedCallsSucceed ==
  \A c \in reported \cap ReportCalls : ret[c] \in {"none", "success"}

-----------------------------------------------------------------------------
(* Why the invariants above hold: their inductive strengthening.           *)

(* A thread inside a call is inside the callback that made the call.       *)
ThreadsInv ==
  /\ \A c \in Calls :
       /\ pc[c] = "idle" => thread[c] = NULL
       /\ thread[c] = NET => code[c] # c
       /\ thread[c] = NET /\ pc[c] # "done" =>
            net = "told" /\ request[c] \in {"unsent", "sent"}
       /\ thread[c] \in Workers /\ pc[c] # "done" => cb[thread[c]] # NULL
  /\ \A w \in Workers : cb[w] # NULL => wpc[w] = "idle"

-----------------------------------------------------------------------------
(* A request of the gateway is served although the callbacks of all        *)
(* workers may wait in leda_online for answers that need a worker: the     *)
(* time-out frees them.                                                    *)
RequestsServed ==
  \A t \in Tasks : task[t] = "queued" ~> (task[t] = "served" \/ aborted)
=============================================================================
