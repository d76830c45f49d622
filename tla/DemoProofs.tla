----------------------------- MODULE DemoProofs -----------------------------
(***************************************************************************)
(* Theorems about Demo, for any number of devices.                         *)
(***************************************************************************)
EXTENDS Demo, FiniteSetTheorems, TLAPS

LEMMA Cards ==
  ASSUME NEW S \in SUBSET Devices
  PROVE  IsFiniteSet(S) /\ Cardinality(S) \in Nat /\ Cardinality(S) <= Count
<1>1. IsFiniteSet(Devices) /\ Cardinality(Devices) = Count
  BY FS_Interval, DemoAssumption DEF Devices
<1>2. QED
  BY <1>1, FS_Subset, FS_CardinalityType

(* A device is marked as online, or as not online.                         *)
LEMMA MarkedOnline ==
  ASSUME online \in [Devices -> BOOLEAN], NEW d \in Devices, ~online[d],
         online' = [online EXCEPT ![d] = TRUE]
  PROVE  /\ Believed' = Believed \cup {d}
         /\ Cardinality(Believed') = Cardinality(Believed) + 1
<1>1. Believed' = Believed \cup {d}
  BY DEF Believed
<1>2. d \notin Believed /\ Believed \in SUBSET Devices
  BY DEF Believed
<1>3. QED
  BY <1>1, <1>2, Cards, FS_AddElement

LEMMA MarkedOffline ==
  ASSUME online \in [Devices -> BOOLEAN], NEW d \in Devices,
         online' = [online EXCEPT ![d] = FALSE]
  PROVE  /\ Believed' = Believed \ {d}
         /\ Cardinality(Believed') = IF online[d] THEN Cardinality(Believed) - 1
                                                  ELSE Cardinality(Believed)
<1>1. Believed' = Believed \ {d}
  BY DEF Believed
<1>2. (d \in Believed <=> online[d]) /\ Believed \in SUBSET Devices
  BY DEF Believed
<1>3. Cardinality(Believed') = IF d \in Believed THEN Cardinality(Believed) - 1
                                                 ELSE Cardinality(Believed)
  BY <1>1, <1>2, Cards, FS_RemoveElement
<1>4. QED
  BY <1>1, <1>2, <1>3

(* The types of all but the number.                                        *)
FlagType == g_is_running \in BOOLEAN /\ g_is_connected \in BOOLEAN

DeviceType ==
  /\ online \in [Devices -> BOOLEAN] /\ known \subseteq Devices
  /\ unnoticed \subseteq Devices /\ g_online_dev_num \in Int

PlaceType ==
  /\ locker \in {"free", "thread_online"}
  /\ keeper \in {"none", "asleep", "waiting", "round", "calling", "ended"}
  /\ main \in {"starting", "running", "offline", "calling", "gone"}
  /\ i \in 1..(Count + 1) /\ j \in 1..(Count + 1)

CallType == call \in [Threads -> CallStates] /\ stray \subseteq Requests

LinkType ==
  /\ net \in {"idle", "connected", "closed", "error"}
  /\ g_conn_state \in {"none", "connected", "disconnected"}
  /\ link \in {"down", "up", "broken"}

LEMMA Typed ==
  ASSUME IInv
  PROVE  FlagType /\ DeviceType /\ PlaceType /\ CallType /\ LinkType
<1>1. g_online_dev_num \in Int
  BY DemoAssumption DEF IInv, TypeOK
<1>2. QED
  BY <1>1 DEF IInv, TypeOK, FlagType, DeviceType, PlaceType, CallType, LinkType

LEMMA FlagKept ==
  ASSUME IInv, [Next]_vars
  PROVE  FlagType'
<1>1. g_is_running \in BOOLEAN /\ g_is_connected \in BOOLEAN
  BY DEF IInv, TypeOK
<1>2. g_is_running' \in {g_is_running, FALSE}
  BY DEF Next, vars, KeeperStep, Wake, Begin, End, Skip, Clear, CallOnline, OnlineFails,
     OnlineReturns, OnlineTimesOut, Sleep, MainStep, StartThreads, StartFails, Leave,
     SkipOffline, CallOffline, OfflineFails, OfflineReturns, OfflineTimesOut, Exit,
     sigint_handler, NetStep, Established, Break, Closed, ConnectionError, Told,
     ToldConnected, ToldDisconnected, DecideStray, Decide, Answer, flagVars
<1>3. g_is_connected' \in {g_is_connected, TRUE, FALSE}
  BY DEF Next, vars, KeeperStep, Wake, Begin, End, Skip, Clear, CallOnline, OnlineFails,
     OnlineReturns, OnlineTimesOut, Sleep, MainStep, StartThreads, StartFails, Leave,
     SkipOffline, CallOffline, OfflineFails, OfflineReturns, OfflineTimesOut, Exit,
     sigint_handler, NetStep, Established, Break, Closed, ConnectionError, Told,
     ToldConnected, ToldDisconnected, DecideStray, Decide, Answer, flagVars
<1>4. QED
  BY <1>1, <1>2, <1>3 DEF FlagType

(* Where the threads are.                                                  *)
LEMMA PlaceKept ==
  ASSUME IInv, [Next]_vars
  PROVE  PlaceType' /\ HolderInv'
<1>1. PlaceType /\ CallType /\ online \in [Devices -> BOOLEAN]
      /\ HolderInv /\ (main = "starting" => keeper = "none")
      /\ Count \in Nat
  BY Typed, DemoAssumption DEF DeviceType, IInv, StartInv
<1>2. CASE KeeperStep
  <2>1. CASE Wake \/ Begin \/ End \/ Skip \/ OnlineFails \/ Sleep
    BY <1>1, <2>1 DEF Wake, Begin, End, Skip, OnlineFails, Sleep, InRound, Locks,
       PlaceType, HolderInv, flagVars, deviceVars, mainVars, callVars, Devices
  <2>2. CASE Clear
    BY <1>1, <2>2 DEF Clear, InRound, PlaceType, HolderInv, flagVars, mainVars,
       callVars, Devices
  <2>3. CASE CallOnline
    BY <1>1, <2>3 DEF CallOnline, InRound, PlaceType, HolderInv, flagVars, deviceVars,
       mainVars, Devices, CallType, Threads
  <2>4. CASE OnlineReturns \/ OnlineTimesOut
    BY <1>1, <2>4 DEF OnlineReturns, OnlineTimesOut, PlaceType, HolderInv, flagVars,
       mainVars, Devices, CallType, Threads
  <2>5. QED
    BY <1>2, <2>1, <2>2, <2>3, <2>4 DEF KeeperStep
<1>3. CASE MainStep
  <2>1. CASE StartThreads \/ StartFails \/ Leave \/ SkipOffline \/ OfflineFails \/ Exit
    BY <1>1, <2>1 DEF StartThreads, StartFails, Leave, SkipOffline, OfflineFails, Exit,
       InMain, PlaceType, HolderInv, flagVars, deviceVars, keeperVars, callVars, Devices
  <2>2. CASE CallOffline
    BY <1>1, <2>2 DEF CallOffline, InMain, PlaceType, HolderInv, flagVars, deviceVars,
       keeperVars, Devices, CallType, Threads
  <2>3. CASE OfflineReturns \/ OfflineTimesOut
    BY <1>1, <2>3 DEF OfflineReturns, OfflineTimesOut, PlaceType, HolderInv, flagVars,
       deviceVars, keeperVars, Devices, CallType, Threads
  <2>4. QED
    BY <1>3, <2>1, <2>2, <2>3 DEF MainStep
<1>4. CASE sigint_handler \/ UNCHANGED vars
  BY <1>1, <1>4 DEF sigint_handler, vars, PlaceType, HolderInv, flagVars, deviceVars,
     keeperVars, mainVars, callVars
<1>5. CASE NetStep
  <2>1. CASE Established \/ Break \/ ConnectionError \/ DecideStray
    BY <1>1, <2>1 DEF Established, Break, ConnectionError, DecideStray, PlaceType,
       HolderInv, flagVars, deviceVars, keeperVars, mainVars, callVars
  <2>2. CASE Closed
    BY <1>1, <2>2 DEF Closed, PlaceType, HolderInv, flagVars, deviceVars, keeperVars,
       mainVars, CallType, Threads
  <2>3. CASE ToldConnected \/ ToldDisconnected
    BY <1>1, <2>3 DEF ToldConnected, ToldDisconnected, Locks, ClearMsg, PlaceType,
       HolderInv, deviceVars, keeperVars, mainVars, callVars, CallType, Threads
  <2>4. ASSUME NEW t \in Threads, Decide(t) \/ Answer(t)
        PROVE  PlaceType' /\ HolderInv'
    BY <1>1, <2>4 DEF Decide, Answer, PlaceType, HolderInv, flagVars, deviceVars,
       keeperVars, mainVars, CallType, Threads
  <2>5. QED
    BY <1>5, <2>1, <2>2, <2>3, <2>4 DEF NetStep, Told
<1>6. QED
  BY <1>2, <1>3, <1>4, <1>5 DEF Next

(* What became of the requests.                                            *)
LEMMA CallKept ==
  ASSUME IInv, [Next]_vars
  PROVE  CallType'
<1>1. /\ call \in [Threads -> CallStates] /\ stray \subseteq Requests
      /\ keeper = "calling" => <<i, "online">> \in Requests
      /\ main = "calling" => <<j, "offline">> \in Requests
  BY Typed DEF CallType, IInv, HolderInv, Requests
<1>2. CASE UNCHANGED callVars
  BY <1>1, <1>2 DEF CallType, callVars
<1>3. CASE CallOnline \/ CallOffline \/ OnlineReturns \/ OfflineReturns
  BY <1>1, <1>3 DEF CallOnline, CallOffline, OnlineReturns, OfflineReturns, CallType,
     CallStates
<1>4. CASE OnlineTimesOut \/ OfflineTimesOut
  BY <1>1, <1>4 DEF OnlineTimesOut, OfflineTimesOut, Strays, CallType, CallStates
<1>5. CASE Closed
  BY <1>1, <1>5 DEF Closed, CallType, CallStates
<1>6. CASE ToldDisconnected
  <2>1. CASE ClearMsg
    BY <1>1, <2>1 DEF ClearMsg, CallType, CallStates
  <2>2. QED
    BY <1>2, <1>6, <2>1 DEF ToldDisconnected
<1>7. CASE DecideStray
  BY <1>1, <1>7 DEF DecideStray, CallType
<1>8. ASSUME NEW t \in Threads, Decide(t) \/ Answer(t)
      PROVE  CallType'
  BY <1>1, <1>8 DEF Decide, Answer, CallType, CallStates
<1>9. QED
  BY <1>2, <1>3, <1>4, <1>5, <1>6, <1>7, <1>8
  DEF Next, vars, KeeperStep, Wake, Begin, End, Skip, Clear, OnlineFails, Sleep, MainStep,
     StartThreads, StartFails, Leave, SkipOffline, OfflineFails, Exit, sigint_handler,
     NetStep, Established, Break, ConnectionError, Told, ToldConnected, mainVars

(* The connection, and what the network thread has told of it.             *)
LEMMA LinkKept ==
  ASSUME IInv, [Next]_vars
  PROVE  LinkType' /\ LinkInv'
<1>1. LinkType /\ LinkInv /\ FlagType
  BY Typed DEF IInv
<1>2. CASE UNCHANGED <<net, link, g_conn_state, g_is_connected>>
  BY <1>1, <1>2 DEF LinkType, LinkInv
<1>3. CASE Established \/ Break \/ Closed \/ ConnectionError \/ ToldConnected
           \/ ToldDisconnected
  BY <1>1, <1>3 DEF Established, Break, Closed, ConnectionError, ToldConnected,
     ToldDisconnected, LinkType, LinkInv, FlagType, flagVars
<1>4. QED
  BY <1>2, <1>3
  DEF Next, vars, KeeperStep, Wake, Begin, End, Skip, Clear, CallOnline, OnlineFails,
     OnlineReturns, OnlineTimesOut, Sleep, MainStep, StartThreads, StartFails, Leave,
     SkipOffline, CallOffline, OfflineFails, OfflineReturns, OfflineTimesOut, Exit,
     sigint_handler, NetStep, Told, DecideStray, Decide, Answer, flagVars, netVars

(* Until main takes devices offline, nobody asks for that.                 *)
LEMMA StartKept ==
  ASSUME IInv, [Next]_vars
  PROVE  StartInv'
<1>1. PlaceType /\ CallType /\ HolderInv /\ StartInv
  BY Typed DEF IInv
<1>2. CASE UNCHANGED <<keeper, main, j, call, stray>>
  BY <1>1, <1>2 DEF StartInv
<1>3. CASE Wake \/ Begin \/ End \/ Sleep \/ CallOnline \/ OnlineReturns \/ OnlineTimesOut
  BY <1>1, <1>3 DEF Wake, Begin, End, Sleep, CallOnline, OnlineReturns, OnlineTimesOut,
     Strays, InRound, StartInv, PlaceType, CallType, Threads, mainVars, callVars,
     HolderInv
<1>4. CASE StartThreads \/ StartFails \/ Leave \/ SkipOffline \/ CallOffline
           \/ OfflineFails \/ OfflineReturns \/ OfflineTimesOut \/ Exit
  BY <1>1, <1>4 DEF StartThreads, StartFails, Leave, SkipOffline, CallOffline,
     OfflineFails, OfflineReturns, OfflineTimesOut, Exit, InMain, StartInv, callVars
<1>5. CASE Closed \/ ToldDisconnected \/ DecideStray
  BY <1>1, <1>5 DEF Closed, ToldDisconnected, ClearMsg, DecideStray, StartInv, callVars,
     keeperVars, mainVars, CallType, Threads
<1>6. ASSUME NEW t \in Threads, Decide(t) \/ Answer(t)
      PROVE  StartInv'
  BY <1>1, <1>6 DEF Decide, Answer, StartInv, keeperVars, mainVars, CallType, Threads
<1>7. QED
  BY <1>2, <1>3, <1>4, <1>5, <1>6
  DEF Next, vars, KeeperStep, Skip, Clear, OnlineFails, MainStep, sigint_handler, NetStep,
     Established, Break, ConnectionError, Told, ToldConnected, keeperVars, mainVars,
     callVars

(* What the devices are to the demo and to the gateway.                    *)
LEMMA DeviceKept ==
  ASSUME IInv, [Next]_vars
  PROVE  /\ online' \in [Devices -> BOOLEAN] /\ unnoticed' \subseteq Devices
         /\ known' \subseteq Devices
<1>1. /\ online \in [Devices -> BOOLEAN] /\ unnoticed \subseteq Devices
      /\ known \subseteq Devices /\ stray \subseteq Requests
      /\ i \in 1..(Count + 1) /\ j \in 1..(Count + 1) /\ HolderInv
      /\ call["thread_online"] = "queued" => i \in Devices
      /\ call["main"] = "queued" => j \in Devices
  BY Typed DEF DeviceType, CallType, PlaceType, IInv, HolderInv
<1>2. CASE UNCHANGED <<online, unnoticed, known>>
  BY <1>1, <1>2
<1>3. CASE Clear \/ OnlineReturns \/ OfflineReturns \/ ToldConnected \/ Break
  BY <1>1, <1>3 DEF Clear, OnlineReturns, OfflineReturns, ToldConnected, Break, netVars,
     deviceVars
<1>4. CASE DecideStray
  BY <1>1, <1>4 DEF DecideStray, After, deviceVars, Requests
<1>5. ASSUME NEW t \in Threads, Decide(t)
      PROVE  online' \in [Devices -> BOOLEAN] /\ unnoticed' \subseteq Devices
             /\ known' \subseteq Devices
  BY <1>1, <1>5 DEF Decide, After, Request, deviceVars, Threads
<1>6. QED
  BY <1>2, <1>3, <1>4, <1>5
  DEF Next, vars, KeeperStep, Wake, Begin, End, Skip, CallOnline, OnlineFails,
     OnlineTimesOut, Sleep, MainStep, StartThreads, StartFails, Leave, SkipOffline,
     CallOffline, OfflineFails, OfflineTimesOut, Exit, sigint_handler, NetStep,
     Established, Closed, ConnectionError, Told, ToldDisconnected, Answer, netVars,
     deviceVars

(* What was granted on this connection is known on it.                     *)
LEMMA GrantedKept ==
  ASSUME IInv, [Next]_vars
  PROVE  GrantedInv'
<1>1. /\ CallType /\ PlaceType /\ HolderInv /\ LinkInv /\ GrantedInv /\ FlagType
      /\ main \in {"starting", "running"} => stray \subseteq Devices \X {"online"}
      /\ main' \in {"starting", "running"} => main \in {"starting", "running"}
  <2>1. main' \in {"starting", "running"} => main \in {"starting", "running"}
    BY DEF Next, vars, KeeperStep, Wake, Begin, End, Skip, Clear, CallOnline, OnlineFails,
       OnlineReturns, OnlineTimesOut, Sleep, MainStep, StartThreads, StartFails, Leave,
       SkipOffline, CallOffline, OfflineFails, OfflineReturns, OfflineTimesOut, Exit,
       sigint_handler, NetStep, Established, Break, Closed, ConnectionError, Told,
       ToldConnected, ToldDisconnected, DecideStray, Decide, Answer, mainVars, InMain
  <2>2. QED
    BY <2>1, Typed DEF IInv, StartInv
<1>2. CASE UNCHANGED <<link, g_is_connected, call, i, known>>
  BY <1>1, <1>2 DEF GrantedInv
<1>3. CASE Wake \/ Begin \/ Skip \/ Clear \/ CallOnline \/ OnlineFails \/ OnlineReturns
           \/ OnlineTimesOut
  BY <1>1, <1>3 DEF Wake, Begin, Skip, Clear, CallOnline, OnlineFails, OnlineReturns,
     OnlineTimesOut, InRound, HolderInv, GrantedInv, callVars, CallType, Threads
<1>4. CASE CallOffline \/ OfflineReturns \/ OfflineTimesOut
  BY <1>1, <1>4 DEF CallOffline, OfflineReturns, OfflineTimesOut, GrantedInv, flagVars,
     keeperVars, netVars, CallType, Threads
<1>5. CASE Established \/ Break \/ Closed \/ ToldConnected \/ ToldDisconnected
  BY <1>1, <1>5 DEF Established, Break, Closed, ToldConnected, ToldDisconnected, Locks,
     HolderInv, LinkInv, GrantedInv, flagVars, keeperVars, callVars
<1>6. CASE DecideStray
  BY <1>1, <1>6 DEF DecideStray, After, GrantedInv, flagVars, keeperVars
<1>7. ASSUME NEW t \in Threads, Decide(t)
      PROVE  GrantedInv'
  <2>1. CASE t = "main"
    BY <1>1, <1>7, <2>1 DEF Decide, HolderInv, GrantedInv, mainVars
  <2>2. CASE t = "thread_online"
    <3>1. main' \in {"starting", "running"}
            /\ call'["thread_online"] \in {"granted", "success"} => i \in known'
      BY <1>1, <1>7, <2>2 DEF Decide, After, Request, CallType, Threads
    <3>2. i' = i
      BY <1>7 DEF Decide, keeperVars
    <3>3. QED
      BY <3>1, <3>2 DEF GrantedInv
  <2>3. QED
    BY <2>1, <2>2 DEF Threads
<1>8. ASSUME NEW t \in Threads, Answer(t)
      PROVE  GrantedInv'
  BY <1>1, <1>8 DEF Answer, GrantedInv, flagVars, keeperVars, mainVars, netVars, CallType,
     Threads
<1>9. QED
  BY <1>2, <1>3, <1>4, <1>5, <1>6, <1>7, <1>8
  DEF Next, vars, KeeperStep, End, Sleep, MainStep, StartThreads, StartFails, Leave,
     SkipOffline, OfflineFails, Exit, sigint_handler, NetStep, ConnectionError, Told,
     flagVars, keeperVars, callVars, netVars

LEMMA KnownKept ==
  ASSUME IInv, [Next]_vars
  PROVE  BelievedIsKnown'
<1>1. /\ CallType /\ DeviceType /\ HolderInv /\ LinkInv /\ GrantedInv /\ FlagType
      /\ BelievedIsKnown
      /\ main \in {"starting", "running"} => stray \subseteq Devices \X {"online"}
  BY Typed DEF IInv, StartInv
<1>2. main' \in {"starting", "running"} => main \in {"starting", "running"}
  BY DEF Next, vars, KeeperStep, Wake, Begin, End, Skip, Clear, CallOnline, OnlineFails,
     OnlineReturns, OnlineTimesOut, Sleep, MainStep, StartThreads, StartFails, Leave,
     SkipOffline, CallOffline, OfflineFails, OfflineReturns, OfflineTimesOut, Exit,
     sigint_handler, NetStep, Established, Break, Closed, ConnectionError, Told,
     ToldConnected, ToldDisconnected, DecideStray, Decide, Answer, mainVars, InMain
<1>3. CASE UNCHANGED <<link, g_is_connected, online, unnoticed, known>>
  BY <1>1, <1>2, <1>3 DEF BelievedIsKnown, Believed
<1>4. CASE OnlineReturns
  <2>1. CASE call["thread_online"] = "success"
    BY <1>1, <1>2, <1>4, <2>1 DEF OnlineReturns, HolderInv, GrantedInv, BelievedIsKnown,
       Believed, DeviceType, flagVars, netVars, mainVars
  <2>2. CASE UNCHANGED deviceVars
    BY <1>3, <1>4, <2>2 DEF OnlineReturns, deviceVars, flagVars, netVars
  <2>3. QED
    BY <1>4, <2>1, <2>2 DEF OnlineReturns
<1>5. CASE Clear
  BY <1>5 DEF Clear, BelievedIsKnown, flagVars
<1>6. CASE OfflineReturns
  BY <1>2, <1>6 DEF OfflineReturns, BelievedIsKnown
<1>7. CASE Established \/ Break \/ ToldConnected \/ ToldDisconnected
  BY <1>1, <1>7 DEF Established, Break, ToldConnected, ToldDisconnected, LinkInv,
     BelievedIsKnown, Believed, flagVars
<1>8. CASE Closed
  BY <1>8 DEF Closed, BelievedIsKnown
<1>9. CASE DecideStray
  BY <1>1, <1>2, <1>9 DEF DecideStray, After, BelievedIsKnown, Believed, flagVars,
     deviceVars
<1>10. ASSUME NEW t \in Threads, Decide(t)
       PROVE  BelievedIsKnown'
  BY <1>1, <1>2, <1>10 DEF Decide, After, Request, HolderInv, BelievedIsKnown, Believed,
     flagVars, deviceVars, Threads
<1>11. QED
  BY <1>3, <1>4, <1>5, <1>6, <1>7, <1>8, <1>9, <1>10
  DEF Next, vars, KeeperStep, Wake, Begin, End, Skip, CallOnline, OnlineFails,
     OnlineTimesOut, Sleep, MainStep, StartThreads, StartFails, Leave, SkipOffline,
     CallOffline, OfflineFails, OfflineTimesOut, Exit, sigint_handler, NetStep,
     ConnectionError, Told, Answer, flagVars, deviceVars, netVars

(* How far the number may be from the truth.                               *)
LEMMA NumberKept ==
  ASSUME IInv, [Next]_vars
  PROVE  NumberInv'
<1> DEFINE card == Cardinality(Believed)
<1>1. /\ DeviceType /\ PlaceType /\ HolderInv /\ NumberInv /\ card \in Nat
      /\ InRound => i \in Devices
  <2>1. card \in Nat
    BY Cards DEF Believed
  <2>2. InRound => i \in Devices
    BY Typed, DemoAssumption DEF InRound, PlaceType, Devices
  <2>3. QED
    BY <2>1, <2>2, Typed DEF IInv
<1>2. CASE UNCHANGED <<online, g_online_dev_num>>
  <2>1. j' \in {j, j + 1}
    BY <1>2 DEF Next, vars, KeeperStep, Wake, Begin, End, Skip, Clear, CallOnline,
       OnlineFails, OnlineReturns, OnlineTimesOut, Sleep, MainStep, StartThreads,
       StartFails, Leave, SkipOffline, CallOffline, OfflineFails, OfflineReturns,
       OfflineTimesOut, Exit, sigint_handler, NetStep, Established, Break, Closed,
       ConnectionError, Told, ToldConnected, ToldDisconnected, DecideStray, Decide,
       Answer, mainVars
  <2>2. card' = card
    BY <1>2 DEF Believed
  <2>3. QED
    BY <1>1, <1>2, <2>1, <2>2 DEF NumberInv, DeviceType, PlaceType
<1>3. CASE OnlineReturns /\ call["thread_online"] = "success"
  <2>1. i \in Devices /\ ~online[i] /\ online' = [online EXCEPT ![i] = TRUE]
    BY <1>1, <1>3 DEF OnlineReturns, HolderInv
  <2>2. card' = card + 1
    BY <1>1, <2>1, MarkedOnline DEF DeviceType
  <2>3. g_online_dev_num' = g_online_dev_num + 1 /\ j' = j
    BY <1>3 DEF OnlineReturns, mainVars
  <2>4. QED
    BY <1>1, <2>2, <2>3 DEF NumberInv, DeviceType, PlaceType
<1>4. CASE Clear
  <2>1. i \in Devices /\ online[i] /\ online' = [online EXCEPT ![i] = FALSE]
    BY <1>1, <1>4 DEF Clear
  <2>2. card' = card - 1
    BY <1>1, <2>1, MarkedOffline DEF DeviceType
  <2>3. g_online_dev_num' = g_online_dev_num - 1 /\ j' = j
    BY <1>4 DEF Clear, mainVars
  <2>4. QED
    BY <1>1, <2>2, <2>3 DEF NumberInv, DeviceType, PlaceType
<1>5. CASE OfflineReturns /\ call["main"] = "success"
  <2>1. j \in Devices /\ online' = [online EXCEPT ![j] = FALSE]
    BY <1>1, <1>5 DEF OfflineReturns, HolderInv
  <2>2. card' \in {card, card - 1}
    BY <1>1, <2>1, MarkedOffline DEF DeviceType
  <2>3. g_online_dev_num' = g_online_dev_num /\ j' = j + 1
    BY <1>5 DEF OfflineReturns
  <2>4. QED
    BY <1>1, <2>2, <2>3 DEF NumberInv, DeviceType, PlaceType
<1>6. QED
  BY <1>2, <1>3, <1>4, <1>5
  DEF Next, vars, KeeperStep, Wake, Begin, End, Skip, CallOnline, OnlineFails,
     OnlineReturns, OnlineTimesOut, Sleep, MainStep, StartThreads, StartFails, Leave,
     SkipOffline, CallOffline, OfflineFails, OfflineReturns, OfflineTimesOut, Exit,
     sigint_handler, NetStep, Established, Break, Closed, ConnectionError, Told,
     ToldConnected, ToldDisconnected, DecideStray, Decide, Answer, deviceVars

(* The beginning of the demo meets the invariant.                          *)
LEMMA Begins ==
  ASSUME Init
  PROVE  IInv
<1>1. Believed = {} /\ Cardinality(Believed) = 0
  <2>1. Believed = {}
    BY DEF Init, Believed
  <2>2. QED
    BY <2>1, FS_EmptySet
<1>2. NumberInv /\ BelievedIsKnown
  BY <1>1 DEF Init, NumberInv, BelievedIsKnown
<1>3. TypeOK
  <2>1. FlagType /\ online \in [Devices -> BOOLEAN]
    BY DEF Init, FlagType
  <2>2. CallType /\ known \subseteq Devices /\ unnoticed \subseteq Devices
    BY DEF Init, CallType, CallStates
  <2>3. PlaceType /\ LinkType /\ g_online_dev_num \in 0..(2 * Count)
    BY DemoAssumption DEF Init, PlaceType, LinkType
  <2>4. QED
    BY <2>1, <2>2, <2>3 DEF TypeOK, FlagType, CallType, PlaceType, LinkType
<1>4. HolderInv /\ LinkInv /\ StartInv /\ GrantedInv
  BY DEF Init, HolderInv, LinkInv, StartInv, GrantedInv, Threads
<1>5. QED
  BY <1>2, <1>3, <1>4 DEF IInv

(* A step keeps the invariant: the lemmas above together.                  *)
LEMMA Kept ==
  ASSUME IInv, [Next]_vars
  PROVE  IInv'
<1>1. g_online_dev_num' \in 0..(2 * Count)
  <2>1. g_online_dev_num' \in Int
    <3>1. g_online_dev_num' \in
            {g_online_dev_num, g_online_dev_num + 1, g_online_dev_num - 1}
      BY DEF Next, vars, KeeperStep, Wake, Begin, End, Skip, Clear, CallOnline,
         OnlineFails, OnlineReturns, OnlineTimesOut, Sleep, MainStep, StartThreads,
         StartFails, Leave, SkipOffline, CallOffline, OfflineFails, OfflineReturns,
         OfflineTimesOut, Exit, sigint_handler, NetStep, Established, Break, Closed,
         ConnectionError, Told, ToldConnected, ToldDisconnected, DecideStray, Decide,
         Answer, deviceVars
    <3>2. QED
      BY <3>1, Typed DEF DeviceType
  <2>2. Cardinality(Believed') \in Nat /\ Cardinality(Believed') <= Count
    BY Cards DEF Believed
  <2>3. j' \in 1..(Count + 1) /\ NumberInv'
    BY PlaceKept, NumberKept DEF PlaceType
  <2>4. QED
    BY <2>1, <2>2, <2>3, DemoAssumption DEF NumberInv
<1>2. TypeOK'
  BY <1>1, FlagKept, PlaceKept, CallKept, LinkKept, DeviceKept
  DEF TypeOK, FlagType, PlaceType, CallType, LinkType
<1>3. QED
  BY <1>2, PlaceKept, LinkKept, StartKept, GrantedKept, KnownKept, NumberKept DEF IInv

(* The inductive invariant holds in every reachable state, for any number  *)
(* of devices.                                                             *)
THEOREM InvariantHolds == Spec => []IInv
<1>1. QED
  BY Begins, Kept, PTL DEF Spec

(* Type correctness: the printed number stays between zero and twice the   *)
(* number of devices, also when main takes devices offline.                *)
THEOREM TypeCorrect == Spec => []TypeOK
<1>1. IInv => TypeOK
  BY DEF IInv
<1>2. QED
  BY <1>1, InvariantHolds, PTL

(* What the demo keeps as online is online for the gateway, except for the *)
(* connection that came back between two rounds of thread_online.          *)
THEOREM BelievedKnown == Spec => []BelievedIsKnown
<1>1. IInv => BelievedIsKnown
  BY DEF IInv
<1>2. QED
  BY <1>1, InvariantHolds, PTL

(* The number that thread_online prints is right until main interferes.    *)
THEOREM NumberRight == Spec => []NumberIsRight
<1>1. IInv => NumberIsRight
  <2>1. SUFFICES ASSUME IInv, main \in {"starting", "running"}
                 PROVE  g_online_dev_num = Cardinality(Believed)
    BY DEF NumberIsRight
  <2>2. j = 1 /\ NumberInv
    BY <2>1 DEF IInv, StartInv
  <2>3. Cardinality(Believed) \in Nat /\ g_online_dev_num \in Int
    BY <2>1, Cards, Typed DEF Believed, DeviceType
  <2>4. QED
    BY <2>2, <2>3 DEF NumberInv
<1>2. QED
  BY <1>1, InvariantHolds, PTL
=============================================================================
