-------------------------------- MODULE Demo --------------------------------
(***************************************************************************)
(* The demo's devices (demo.c): thread_online keeps them online over       *)
(* connections that come and go, holding g_conn_state_locker while it      *)
(* waits for answers; cb_state_changed runs on the network thread and      *)
(* waits for that lock, and while it waits nothing is sent or received;    *)
(* main takes the devices offline in the end, without the lock.            *)
(*                                                                         *)
(* The model begins when leda_init has succeeded and ends with leda_exit.  *)
(* What happens in the SDK to a call is in ReplyRegistry and SendBuffer:   *)
(* here its request waits to be written, is decided by the gateway, and    *)
(* answered, and the call may time out at any stage before the answer has  *)
(* come.  A request whose call has timed out may still be written, on a    *)
(* later connection too (stray).  A verdict is that on the call's own      *)
(* request: the registry keeps to this unless a call times out while a     *)
(* worker has its entry in hand, and that case is left to it.              *)
(***************************************************************************)
EXTENDS Integers, FiniteSets

CONSTANT Count   \* g_devices_count

ASSUME DemoAssumption == Count \in Nat \ {0}

VARIABLES
  g_is_running, g_is_connected, g_online_dev_num,
  online,        \* online[i]: g_devices[i].online
  locker,        \* who holds g_conn_state_locker
  keeper, i,     \* where thread_online is, and its index
  main, j,       \* where main is, and its index
  call,          \* call[t]: what became of the request of a thread's call
  stray,         \* requests of calls that have timed out, not yet written
  net,           \* "idle", or what cb_state_changed is called for
  g_conn_state,
  link,          \* the connection: "down", "up", or "broken" but not noticed
  known,         \* the devices that the gateway has online
  unnoticed      \* history: devices online when a connection came back

flagVars   == <<g_is_running, g_is_connected>>
deviceVars == <<g_online_dev_num, online, unnoticed>>
keeperVars == <<locker, keeper, i>>
mainVars   == <<main, j>>
callVars   == <<call, stray>>
netVars    == <<net, g_conn_state, link, known>>
vars == <<flagVars, deviceVars, keeperVars, mainVars, callVars, netVars>>

Devices  == 1..Count
Threads  == {"thread_online", "main"}
Requests == Devices \X {"online", "offline"}

Init ==
  /\ g_is_running = TRUE /\ g_is_connected = FALSE /\ g_online_dev_num = 0
  /\ online = [d \in Devices |-> FALSE]
  /\ locker = "free" /\ keeper = "none" /\ i = 1
  /\ main = "starting" /\ j = 1
  /\ call = [t \in Threads |-> "none"] /\ stray = {}
  /\ net = "idle" /\ g_conn_state = "none" /\ link = "down"
  /\ known = {} /\ unnoticed = {}

-----------------------------------------------------------------------------
(* thread_online.                                                          *)

(* Mutant: g_is_connected is changed and used without the lock.            *)
Unlocked == TRUE

(* pthread_mutex_lock(&g_conn_state_locker) returns.                       *)
Locks == locker = "free"

(* The thread goes on, ...                                                 *)
Wake ==
  /\ keeper = "asleep" /\ g_is_running
  /\ keeper' = "waiting"
  /\ UNCHANGED <<flagVars, deviceVars, locker, i, mainVars, callVars, netVars>>

(* ... or ends.                                                            *)
End ==
  /\ keeper = "asleep" /\ ~g_is_running
  /\ keeper' = "ended"
  /\ UNCHANGED <<flagVars, deviceVars, locker, i, mainVars, callVars, netVars>>

(* A round begins when it has the lock.                                    *)
Begin ==
  /\ keeper = "waiting" /\ Locks
  /\ keeper' = "round" /\ locker' = "thread_online" /\ i' = 1
  /\ UNCHANGED <<flagVars, deviceVars, mainVars, callVars, netVars>>

InRound == keeper = "round" /\ i <= Count

(* Mutant: nothing is done while there is no connection.                   *)
SkipIfDown ==
  /\ InRound /\ (g_is_connected => online[i])
  /\ i' = i + 1
  /\ UNCHANGED <<flagVars, deviceVars, locker, keeper, mainVars, callVars, netVars>>

(* The device is as it should be.                                          *)
Skip ==
  /\ InRound /\ online[i] = g_is_connected
  /\ i' = i + 1
  /\ UNCHANGED <<flagVars, deviceVars, locker, keeper, mainVars, callVars, netVars>>

(* The connection is lost: the device is no longer online.                 *)
Clear ==
  /\ InRound /\ ~g_is_connected /\ online[i]
  /\ online' = [online EXCEPT ![i] = FALSE]
  /\ g_online_dev_num' = g_online_dev_num - 1
  /\ unnoticed' = unnoticed \ {i}
  /\ i' = i + 1
  /\ UNCHANGED <<flagVars, locker, keeper, mainVars, callVars, netVars>>

(* leda_online is called and waits.                                        *)
CallOnline ==
  /\ InRound /\ g_is_connected /\ ~online[i]
  /\ g_conn_state = "connected"
  /\ keeper' = "calling"
  /\ call' = [call EXCEPT !["thread_online"] = "queued"]
  /\ UNCHANGED <<flagVars, deviceVars, locker, i, mainVars, stray, netVars>>

(* It returns at once: there is no connection, or no memory.               *)
OnlineFails ==
  /\ InRound /\ g_is_connected /\ ~online[i]
  /\ i' = i + 1
  /\ UNCHANGED <<flagVars, deviceVars, locker, keeper, mainVars, callVars, netVars>>

(* It returns with the verdict.                                            *)
OnlineReturns ==
  /\ keeper = "calling"
  /\ keeper' = "round" /\ i' = i + 1
  /\ call' = [call EXCEPT !["thread_online"] = "none"]
  /\ \/ /\ call["thread_online"] = "success"
        /\ online' = [online EXCEPT ![i] = TRUE]
        /\ g_online_dev_num' = g_online_dev_num + 1
        /\ UNCHANGED unnoticed
     \/ call["thread_online"] = "failure" /\ UNCHANGED deviceVars
  /\ UNCHANGED <<flagVars, locker, mainVars, stray, netVars>>

NoAnswer(t) == call[t] \in {"queued", "granted", "refused", "lost"}

Strays(t, request) == IF call[t] = "queued" THEN stray \cup {request} ELSE stray

(* Mutant: there is no time-out.                                           *)
OnlineWaits ==
  /\ keeper = "calling" /\ NoAnswer("thread_online") /\ link = "up"
  /\ keeper' = "round" /\ i' = i + 1
  /\ call' = [call EXCEPT !["thread_online"] = "none"]
  /\ stray' = Strays("thread_online", <<i, "online">>)
  /\ UNCHANGED <<flagVars, deviceVars, locker, mainVars, netVars>>

(* It times out.                                                           *)
OnlineTimesOut ==
  /\ keeper = "calling" /\ NoAnswer("thread_online")
  /\ keeper' = "round" /\ i' = i + 1
  /\ call' = [call EXCEPT !["thread_online"] = "none"]
  /\ stray' = Strays("thread_online", <<i, "online">>)
  /\ UNCHANGED <<flagVars, deviceVars, locker, mainVars, netVars>>

(* The round is over.                                                      *)
Sleep ==
  /\ keeper = "round" /\ i > Count
  /\ keeper' = "asleep" /\ locker' = "free"
  /\ UNCHANGED <<flagVars, deviceVars, i, mainVars, callVars, netVars>>

KeeperStep == Wake \/ End \/ Begin \/ Skip \/ Clear \/ CallOnline \/ OnlineFails
              \/ OnlineReturns \/ OnlineTimesOut \/ Sleep

-----------------------------------------------------------------------------
(* main, and the signal that ends it.  A look at the two flags is one step *)
(* with the beginning of the call that follows it.                         *)

StartThreads ==
  /\ main = "starting"
  /\ main' = "running" /\ keeper' = "asleep"
  /\ UNCHANGED <<flagVars, deviceVars, locker, i, j, callVars, netVars>>

(* thread_online or thread_report cannot be created.                       *)
StartFails ==
  /\ main = "starting"
  /\ main' = "offline" /\ keeper' \in {"none", "asleep"}
  /\ UNCHANGED <<flagVars, deviceVars, locker, i, j, callVars, netVars>>

sigint_handler ==
  /\ g_is_running
  /\ g_is_running' = FALSE
  /\ UNCHANGED <<g_is_connected, deviceVars, keeperVars, mainVars, callVars, netVars>>

Leave ==
  /\ main = "running" /\ ~g_is_running
  /\ main' = "offline"
  /\ UNCHANGED <<flagVars, deviceVars, keeperVars, j, callVars, netVars>>

InMain == main = "offline" /\ j <= Count

SkipOffline ==
  /\ InMain /\ ~(g_is_connected /\ online[j])
  /\ j' = j + 1
  /\ UNCHANGED <<flagVars, deviceVars, keeperVars, main, callVars, netVars>>

CallOffline ==
  /\ InMain /\ g_is_connected /\ online[j]
  /\ g_conn_state = "connected"
  /\ main' = "calling"
  /\ call' = [call EXCEPT !["main"] = "queued"]
  /\ UNCHANGED <<flagVars, deviceVars, keeperVars, j, stray, netVars>>

OfflineFails ==
  /\ InMain /\ g_is_connected /\ online[j]
  /\ j' = j + 1
  /\ UNCHANGED <<flagVars, deviceVars, keeperVars, main, callVars, netVars>>

OfflineReturns ==
  /\ main = "calling"
  /\ main' = "offline" /\ j' = j + 1
  /\ call' = [call EXCEPT !["main"] = "none"]
  /\ \/ call["main"] = "success" /\ online' = [online EXCEPT ![j] = FALSE]
     \/ call["main"] = "failure" /\ UNCHANGED online
  /\ UNCHANGED <<flagVars, g_online_dev_num, unnoticed, keeperVars, stray, netVars>>

OfflineTimesOut ==
  /\ main = "calling" /\ NoAnswer("main")
  /\ main' = "offline" /\ j' = j + 1
  /\ call' = [call EXCEPT !["main"] = "none"]
  /\ stray' = Strays("main", <<j, "offline">>)
  /\ UNCHANGED <<flagVars, deviceVars, keeperVars, netVars>>

(* leda_exit, and the process ends.                                        *)
Exit ==
  /\ main = "offline" /\ j > Count
  /\ main' = "gone"
  /\ UNCHANGED <<flagVars, deviceVars, keeperVars, j, callVars, netVars>>

MainStep == StartThreads \/ StartFails \/ Leave \/ SkipOffline \/ CallOffline
            \/ OfflineFails \/ OfflineReturns \/ OfflineTimesOut \/ Exit

-----------------------------------------------------------------------------
(* The network thread and the gateway.                                     *)

(* cb_ws_estab: it goes on to cb_state_changed.                            *)
Established ==
  /\ net = "idle" /\ link = "down"
  /\ link' = "up" /\ g_conn_state' = "connected" /\ net' = "connected"
  /\ UNCHANGED <<flagVars, deviceVars, keeperVars, mainVars, callVars, known>>

(* The gateway is no longer there, and with the connection its devices are *)
(* not online any more.                                                    *)
Break ==
  /\ link = "up"
  /\ link' = "broken" /\ known' = {}
  /\ UNCHANGED <<flagVars, deviceVars, keeperVars, mainVars, callVars, net, g_conn_state>>

(* cb_ws_close, for a connection that is lost ...                          *)
Closed ==
  /\ net = "idle" /\ link = "broken"
  /\ link' = "down" /\ g_conn_state' = "disconnected" /\ net' = "closed"
  /\ call' = [t \in Threads |-> IF call[t] \in {"granted", "refused"}
                                  THEN "lost" ELSE call[t]]
  /\ UNCHANGED <<flagVars, deviceVars, keeperVars, mainVars, stray, known>>

(* ... or could not be made.                                               *)
ConnectionError ==
  /\ net = "idle" /\ link = "down"
  /\ g_conn_state' = "disconnected" /\ net' = "error"
  /\ UNCHANGED <<flagVars, deviceVars, keeperVars, mainVars, callVars, link, known>>

(* cb_state_changed has the lock.                                          *)
ToldConnected ==
  /\ net = "connected" /\ Locks
  /\ g_is_connected' = TRUE /\ net' = "idle"
  /\ unnoticed' = {d \in Devices : online[d]}
  /\ UNCHANGED <<g_is_running, g_online_dev_num, online, keeperVars, mainVars, callVars,
                 g_conn_state, link, known>>

(* After the callback for a lost connection the send buffer is cleared.    *)
(* Which requests that concerns is a matter of SendBuffer: here, any.      *)
ClearMsg ==
  /\ stray' \in SUBSET stray
  /\ call' \in {[t \in Threads |->
                  IF t \in dropped /\ call[t] = "queued" THEN "lost" ELSE call[t]] :
                dropped \in SUBSET Threads}

ToldDisconnected ==
  /\ net \in {"closed", "error"} /\ Locks
  /\ g_is_connected' = FALSE /\ net' = "idle"
  /\ IF net = "closed" THEN ClearMsg ELSE UNCHANGED callVars
  /\ UNCHANGED <<g_is_running, deviceVars, keeperVars, mainVars, g_conn_state, link,
                 known>>

After(request) ==
  IF request[2] = "online" THEN known \cup {request[1]} ELSE known \ {request[1]}

Request(t) == IF t = "main" THEN <<j, "offline">> ELSE <<i, "online">>

(* The request of a call is written and decided; so is one of the strays.  *)
Decide(t) ==
  /\ net = "idle" /\ link = "up" /\ call[t] = "queued"
  /\ \/ call' = [call EXCEPT ![t] = "granted"] /\ known' = After(Request(t))
     \/ call' = [call EXCEPT ![t] = "refused"] /\ UNCHANGED known
  /\ UNCHANGED <<flagVars, deviceVars, keeperVars, mainVars, stray, net, g_conn_state,
                 link>>

DecideStray ==
  /\ net = "idle" /\ link = "up"
  /\ \E request \in stray :
       /\ stray' = stray \ {request}
       /\ known' \in {known, After(request)}
  /\ UNCHANGED <<flagVars, deviceVars, keeperVars, mainVars, call, net, g_conn_state,
                 link>>

(* The answer is received and posted.                                      *)
Answer(t) ==
  /\ net = "idle" /\ link # "down"
  /\ \/ call[t] = "granted" /\ call' = [call EXCEPT ![t] = "success"]
     \/ call[t] = "refused" /\ call' = [call EXCEPT ![t] = "failure"]
  /\ UNCHANGED <<flagVars, deviceVars, keeperVars, mainVars, stray, netVars>>

Told == ToldConnected \/ ToldDisconnected

NetStep == \/ Established \/ Break \/ Closed \/ ConnectionError \/ Told \/ DecideStray
           \/ \E t \in Threads : Decide(t) \/ Answer(t)

Next == main # "gone" /\ (KeeperStep \/ MainStep \/ sigint_handler \/ NetStep)

Spec == Init /\ [][Next]_vars

(* The threads go on, and calls return; the lock is free for five seconds  *)
(* at a time, so who waits for it gets it.                                 *)
FairSpec == Spec /\ WF_vars(main # "gone" /\ KeeperStep)
                 /\ WF_vars(main # "gone" /\ MainStep)
                 /\ SF_vars(main # "gone" /\ Told)

-----------------------------------------------------------------------------
CallStates == {"none", "queued", "granted", "refused", "lost", "success", "failure"}

TypeOK ==
  /\ g_is_running \in BOOLEAN /\ g_is_connected \in BOOLEAN
  /\ g_online_dev_num \in 0..(2 * Count) /\ online \in [Devices -> BOOLEAN]
  /\ locker \in {"free", "thread_online"}
  /\ keeper \in {"none", "asleep", "waiting", "round", "calling", "ended"}
  /\ main \in {"starting", "running", "offline", "calling", "gone"}
  /\ i \in 1..(Count + 1) /\ j \in 1..(Count + 1)
  /\ call \in [Threads -> CallStates] /\ stray \subseteq Requests
  /\ net \in {"idle", "connected", "closed", "error"}
  /\ g_conn_state \in {"none", "connected", "disconnected"}
  /\ link \in {"down", "up", "broken"}
  /\ known \subseteq Devices /\ unnoticed \subseteq Devices

Believed == {d \in Devices : online[d]}

(* Until main takes the devices offline, a device that the demo keeps as   *)
(* online over a connection is online for the gateway, unless the          *)
(* connection before was lost and this one made between two rounds of      *)
(* thread_online (demo.c:217): what an earlier connection granted, and a   *)
(* request of one that is written late, are not mistaken for this one's.   *)
BelievedIsKnown ==
  main \in {"starting", "running"} /\ g_is_connected /\ link = "up" =>
    Believed \ unnoticed \subseteq known

(* The number that thread_online prints is that of the devices online,     *)
(* until main takes devices offline (demo.c:241, 444).                     *)
NumberIsRight ==
  main \in {"starting", "running"} =>
    g_online_dev_num = Cardinality(Believed)

(* Who has the lock, and what that keeps as it is.                         *)
HolderInv ==
  /\ locker = "thread_online" <=> keeper \in {"round", "calling"}
  /\ keeper = "calling" => g_is_connected /\ i \in Devices /\ ~online[i]
  /\ call["thread_online"] # "none" => keeper = "calling"
  /\ main = "calling" => j \in Devices
  /\ call["main"] # "none" => main = "calling"

(* What the network thread has told of the connection.                     *)
LinkInv ==
  /\ net \in {"closed", "error"} => link = "down"
  /\ net = "connected" => link # "down"
  /\ net \in {"connected", "error"} \/ (net = "idle" /\ link = "down") =>
       ~g_is_connected

(* Until main takes devices offline, nobody asks for that.                 *)
StartInv ==
  /\ main = "starting" => keeper = "none"
  /\ main \in {"starting", "running"} =>
       stray \subseteq Devices \X {"online"} /\ j = 1

(* A device whose call was granted is known on the same connection.        *)
GrantedInv ==
  main \in {"starting", "running"} /\ link = "up" /\ g_is_connected
    /\ call["thread_online"] \in {"granted", "success"} => i \in known

(* The number is wrong by at most the devices that main has been through.  *)
NumberInv ==
  /\ Cardinality(Believed) <= g_online_dev_num
  /\ g_online_dev_num <= Cardinality(Believed) + (j - 1)

(* Together: an invariant that every step preserves.                       *)
IInv == TypeOK /\ HolderInv /\ LinkInv /\ StartInv /\ GrantedInv /\ NumberInv
        /\ BelievedIsKnown

(* cb_state_changed returns (demo.c:188), although thread_online may wait  *)
(* with the lock held for answers that only the network thread can bring.  *)
StateChangedReturns == net # "idle" ~> (net = "idle" \/ main = "gone")

(* When the demo has been told of a lost connection, each device is marked *)
(* as offline (leda.h:44), unless there is a connection again or the demo  *)
(* ends.                                                                   *)
LossIsSeen ==
  ~g_is_connected ~>
    (Believed = {} \/ g_is_connected \/ ~g_is_running \/ main = "gone")
=============================================================================
