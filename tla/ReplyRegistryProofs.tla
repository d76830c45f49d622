------------------------ MODULE ReplyRegistryProofs ------------------------
(***************************************************************************)
(* Theorems about ReplyRegistry and, over it, Leda, for any numbers of     *)
(* calls, workers, requests and addresses.                                 *)
(***************************************************************************)
EXTENDS Leda, FiniteSetTheorems, TLAPS

(* Every variable of the reply registry keeps its type, and a pointer that *)
(* the code is about to follow is not NULL.                                *)
THEOREM TypeCorrect == Spec => []TypeOK
<1> USE IdsAssumption DEF MsgIds, NoId
<1>1. Init => TypeOK
  <2> SUFFICES ASSUME Init PROVE TypeOK
    OBVIOUS
  <2>1. raced \in BOOLEAN /\ aborted \in BOOLEAN
    BY Zenon DEF Init
  <2>2. QED
    BY <2>1 DEF Init, TypeOK, CallSteps, Returns, Requests
<1>2. TypeOK /\ [Next]_vars => TypeOK'
  <2> SUFFICES ASSUME TypeOK, [Next]_vars PROVE TypeOK'
    OBVIOUS
  <2> USE NullAssumption DEF TypeOK, heapVars, callVars, workerVars, CallSteps,
          Returns, Requests, Goto, Return
  <2>1. ASSUME NEW c \in Calls, UNCHANGED aborted,
               Refuse(c) \/ ReadMsgId(c) \/ ReportReturns(c)
        PROVE  TypeOK'
    BY <2>1 DEF Refuse, ReadMsgId, ReportReturns
  <2>2. ASSUME NEW c \in Calls, UNCHANGED aborted, InsertReply(c)
        PROVE  TypeOK'
    <3>1. KeyOf(c) \in Int
      BY DEF KeyOf, AsInt
    <3>2. QED
      BY <2>2, <3>1 DEF InsertReply, NewEntry
  <2>3. ASSUME NEW c \in Calls, UNCHANGED aborted, AddMsg(c) \/ AddMsgFails(c)
        PROVE  TypeOK'
    BY <2>3 DEF AddMsg, AddMsgFails
  <2>4. ASSUME NEW c \in Calls, UNCHANGED aborted, GetReply(c)
        PROVE  TypeOK'
    BY <2>4 DEF GetReply
  <2>5. ASSUME NEW c \in Calls, UNCHANGED aborted,
               Acquire(c) \/ GiveUp(c) \/ ReadCode(c)
        PROVE  TypeOK'
    BY <2>5 DEF Acquire, GiveUp, ReadCode, Posted
  <2>6. ASSUME NEW c \in Calls, UNCHANGED aborted, LookupToRemove(c)
        PROVE  TypeOK'
    BY <2>6 DEF LookupToRemove
  <2>7. ASSUME NEW c \in Calls, UNCHANGED aborted, Answer(c)
        PROVE  TypeOK'
    BY <2>7 DEF Answer
  <2>8. ASSUME NEW c \in Calls, FreeReply(c)
        PROVE  TypeOK'
    BY <2>8 DEF FreeReply
  <2>9. ASSUME NEW w \in Workers, UNCHANGED aborted, WorkerStep(w)
        PROVE  TypeOK'
    <3>1. CASE DropEmpty(w)
      BY <2>9, <3>1 DEF DropEmpty
    <3>2. CASE TakeAnswer(w)
      BY <2>9, <3>2 DEF TakeAnswer, ReportReplyCb
    <3>3. CASE SetResult(w)
      BY <2>9, <3>3 DEF SetResult
    <3>4. CASE PostReply(w)
      BY <2>9, <3>4 DEF PostReply
    <3>5. QED
      BY <2>9, <3>1, <3>2, <3>3, <3>4 DEF WorkerStep
  <2>10. ASSUME NEW c \in Calls, UNCHANGED aborted, IncMsgId(c)
         PROVE  TypeOK'
    <3>1. raced' \in BOOLEAN
      BY <2>10, Zenon DEF IncMsgId
    <3>2. QED
      BY <2>10, <3>1 DEF IncMsgId, NextMsgId
  <2>11. CASE UNCHANGED vars
    BY <2>11 DEF vars
  <2>12. QED
    BY <2>1, <2>2, <2>3, <2>4, <2>5, <2>6, <2>7, <2>8, <2>9, <2>10, <2>11
       DEF Next, CallStep
<1>3. QED
  BY <1>1, <1>2, PTL DEF Spec

-----------------------------------------------------------------------------
(* Keys tell the ids of calls apart: the conversion to int loses nothing.   *)
LEMMA KeysDiffer ==
  ASSUME TypeOK, UniqueIds,
         NEW c \in Calls, NEW d \in Calls, c # d, idOf[c] # NoId
  PROVE  KeyOf(c) # KeyOf(d)
<1>1. idOf[c] # idOf[d]
  BY DEF UniqueIds
<1>2. idOf[c] \in MsgIds /\ idOf[d] \in MsgIds \cup {NoId}
  BY DEF TypeOK
<1>3. QED
  BY <1>1, <1>2, IdsAssumption DEF KeyOf, AsInt, MsgIds, NoId

(* Up to INT_MAX the answer's id finds what the request was listed under;  *)
(* beyond it, never.                                                       *)
LEMMA AnswerIds ==
  ASSUME TypeOK, NEW c \in Calls
  PROVE  /\ idOf[c] <= IntMax => ValueInt(idOf[c]) = KeyOf(c)
         /\ idOf[c] > IntMax => ValueInt(idOf[c]) # KeyOf(c)
<1>1. idOf[c] \in Int /\ idOf[c] <= 2 * IntMax + 1
  BY IdsAssumption DEF TypeOK, MsgIds, NoId
<1>2. QED
  BY <1>1, IdsAssumption DEF KeyOf, AsInt, ValueInt

(* Another draw: one id more has been drawn, within the unsigned range.    *)
LEMMA DrawCounted ==
  ASSUME TypeOK, NEW c \in Calls, pc[c] = "idle", idOf[c] = NoId,
         pc' = [pc EXCEPT ![c] = "drawing"], UNCHANGED idOf
  PROVE  Draws \in Nat /\ Draws' = Draws + 1 /\ Draws' <= 2 * IntMax + 2
<1> DEFINE D == {d \in Calls : pc[d] = "drawing" \/ idOf[d] # NoId}
<1>1. D' = D \cup {c} /\ c \notin D /\ D' \subseteq Calls
  BY DEF TypeOK
<1>2. IsFiniteSet(D) /\ IsFiniteSet(D')
  BY <1>1, FewCalls, FS_Subset
<1>3. Cardinality(D') = Cardinality(D) + 1 /\ Cardinality(D) \in Nat
  BY <1>1, <1>2, FS_AddElement, FS_CardinalityType
<1>4. Cardinality(D') <= Cardinality(Calls) /\ Cardinality(Calls) \in Nat
  BY <1>1, FewCalls, FS_Subset, FS_CardinalityType
<1>5. Draws = Cardinality(D) /\ Draws' = Cardinality(D')
  BY DEF Draws
<1>6. QED
  BY <1>3, <1>4, <1>5, FewCalls, IdsAssumption

(* Draws that do not overlap yield unique ids, whatever else the calls do. *)
LEMMA IdsStep == TypeOK /\ IdsInv /\ [Next]_vars => IdsInv'
<1> SUFFICES ASSUME TypeOK, IdsInv, [Next]_vars, ~raced'
             PROVE  IdsInv'
  BY DEF IdsInv
<1> USE IdsAssumption
<1>1. ASSUME NEW c \in Calls, IncMsgId(c) PROVE IdsInv'
  <2>1. ~raced /\ \A d \in Calls : pc[d] # "drawing"
    BY <1>1, Zenon DEF IncMsgId
  <2>2. /\ pc[c] = "idle" /\ idOf[c] = NoId
        /\ pc' = [pc EXCEPT ![c] = "drawing"]
        /\ g_msg_id' = NextMsgId(g_msg_id) /\ UNCHANGED idOf
    BY <1>1, <2>1 DEF IncMsgId, IdsInv, Goto
  <2>3. Draws \in Nat /\ Draws' = Draws + 1 /\ Draws' <= 2 * IntMax + 2
    BY <2>2, DrawCounted
  <2>4. ASSUME NEW d \in Calls, idOf[d] # NoId
        PROVE  Age(idOf[d])' < Draws' /\ idOf[d] # g_msg_id'
    <3>1. Age(idOf[d]) < Draws
      BY <2>1, <2>4 DEF IdsInv
    <3>2. g_msg_id \in MsgIds /\ idOf[d] \in MsgIds
      BY <2>4 DEF TypeOK
    <3>3. QED
      BY <2>2, <2>3, <3>1, <3>2 DEF Age, NextMsgId, MsgIds
  <2>5. UniqueIds'
    BY <2>1, <2>2 DEF IdsInv, UniqueIds
  <2>6. QED
    BY <2>1, <2>2, <2>4, <2>5 DEF IdsInv, Drawn, TypeOK
<1>2. ASSUME NEW c \in Calls, ReadMsgId(c) PROVE IdsInv'
  <2>1. /\ ~raced /\ pc[c] = "drawing" /\ idOf[c] = NoId
        /\ pc' = [pc EXCEPT ![c] = "drawn"]
        /\ idOf' = [idOf EXCEPT ![c] = g_msg_id] /\ UNCHANGED g_msg_id
    BY <1>2 DEF ReadMsgId, IdsInv, Goto
  <2>2. g_msg_id # NoId /\ g_msg_id \in Int
    BY DEF TypeOK, MsgIds, NoId
  <2>3. Draws' = Draws
    <3>1. \A d \in Calls : (pc[d] = "drawing" \/ idOf[d] # NoId)
                         <=> (pc'[d] = "drawing" \/ idOf'[d] # NoId)
      BY <2>1, <2>2 DEF TypeOK
    <3>2. QED
      BY <3>1 DEF Draws, NoId
  <2>4. Draws \in Nat /\ Draws > 0
    <3> DEFINE D == {d \in Calls : pc[d] = "drawing" \/ idOf[d] # NoId}
    <3>1. IsFiniteSet(D) /\ c \in D
      BY <2>1, FewCalls, FS_Subset
    <3>2. Cardinality(D) \in Nat /\ Cardinality(D) # 0
      BY <3>1, FS_CardinalityType, FS_EmptySet
    <3>3. QED
      BY <3>2 DEF Draws
  <2>5. ASSUME NEW d \in Calls, idOf'[d] # NoId PROVE Age(idOf[d])' < Draws'
    <3>1. CASE d = c
      BY <2>1, <2>2, <2>3, <2>4, <3>1 DEF Age, TypeOK
    <3>2. CASE d # c
      BY <2>1, <2>3, <2>5, <3>2 DEF Age, IdsInv, TypeOK
    <3>3. QED
      BY <3>1, <3>2
  <2>6. UniqueIds'
    BY <2>1, <2>2 DEF IdsInv, UniqueIds, TypeOK
  <2>7. /\ \A d \in Calls : /\ pc'[d] \in {"idle", "drawing"} => idOf'[d] = NoId
                            /\ Drawn(d)' => idOf'[d] # NoId
        /\ \A d \in Calls : pc'[d] # "drawing"
    BY <2>1, <2>2 DEF IdsInv, Drawn, TypeOK
  <2>8. QED
    BY <2>5, <2>6, <2>7 DEF IdsInv, NoId
<1>3. ASSUME NEW c \in Calls,
             UNCHANGED <<idOf, g_msg_id, raced>>,
             pc[c] # "drawing",
             pc[c] # "idle" \/ pc'[c] = "done",
             NEW s \in {"inserted", "sent", "waiting", "acquired",
                        "remove", "free", "done"},
             pc' = [pc EXCEPT ![c] = s],
             s = "done" \/ Drawn(c)
      PROVE  IdsInv'
  <2>1. ~raced
    BY <1>3
  <2>2. Draws' = Draws
    <3>1. \A d \in Calls : pc[d] = "drawing" <=> pc'[d] = "drawing"
      BY <1>3 DEF TypeOK
    <3>2. QED
      BY <1>3, <3>1 DEF Draws, NoId
  <2>3. \A d \in Calls : Age(idOf[d])' = Age(idOf[d])
    BY <1>3 DEF Age
  <2>4. QED
    BY <1>3, <2>1, <2>2, <2>3 DEF IdsInv, UniqueIds, Drawn, TypeOK, NoId
<1>4. CASE UNCHANGED <<idOf, g_msg_id, pc, raced>>
  BY <1>4 DEF IdsInv, UniqueIds, Drawn, Draws, Age, NoId
<1> USE DEF Drawn, Goto, Return
<1>5. ASSUME NEW c \in Calls, CallStep(c) \/ FreeReply(c) PROVE IdsInv'
  <2>1. CASE Refuse(c) \/ InsertReply(c) \/ AddMsg(c) \/ AddMsgFails(c)
    BY <2>1, <1>3 DEF Refuse, InsertReply, AddMsg, AddMsgFails, ReadyToSend,
                      TypeOK
  <2>2. CASE ReportReturns(c) \/ GetReply(c) \/ LookupToRemove(c) \/ FreeReply(c)
    BY <2>2, <1>3 DEF ReportReturns, GetReply, LookupToRemove, FreeReply, TypeOK
  <2>3. CASE Acquire(c) \/ GiveUp(c) \/ ReadCode(c)
    BY <2>3, <1>3 DEF Acquire, GiveUp, ReadCode, TypeOK
  <2>4. QED
    BY <1>5, <1>1, <1>2, <2>1, <2>2, <2>3 DEF CallStep
<1>6. ASSUME NEW w \in Workers, WorkerStep(w) PROVE IdsInv'
  BY <1>6, <1>4 DEF WorkerStep, DropEmpty, TakeAnswer, SetResult, PostReply,
                    callVars
<1>7. ASSUME NEW c \in Calls, Answer(c) PROVE IdsInv'
  BY <1>7, <1>4 DEF Answer, callVars
<1>8. QED
  BY <1>4, <1>5, <1>6, <1>7 DEF Next, vars, callVars

(* Ids are unique unless two calls were in _ws_get_msg_id together.        *)
THEOREM IdsUnlessRaced == Spec => []UniqueIdsUnlessRaced
<1>1. Init => IdsInv
  BY DEF Init, IdsInv, UniqueIds, Drawn, NoId
<1>2. IdsInv => UniqueIdsUnlessRaced
  BY DEF IdsInv, UniqueIdsUnlessRaced
<1>3. QED
  BY <1>1, <1>2, IdsStep, TypeCorrect, PTL DEF Spec

-----------------------------------------------------------------------------
(* Each entry listed belongs to exactly one call, which has not yet freed  *)
(* it: no step of another call or of a worker takes it away.               *)
LEMMA EntriesStep ==
  TypeOK /\ IdsInv /\ EntriesInv /\ [Next]_vars => EntriesInv'
<1> SUFFICES ASSUME TypeOK, IdsInv, EntriesInv, [Next]_vars, ~raced'
             PROVE  EntriesInv'
  BY DEF EntriesInv
<1> USE NullAssumption, CallsAssumption
<1>1. ~raced
  BY DEF Next, vars, callVars, CallStep, WorkerStep, Answer, Refuse, IncMsgId,
         ReadMsgId, InsertReply, AddMsg, AddMsgFails, ReportReturns, GetReply,
         Acquire, GiveUp, ReadCode, LookupToRemove, FreeReply, DropEmpty,
         TakeAnswer, SetResult, PostReply
<1>11. ASSUME NEW c \in Calls, NEW d \in Calls, c # d, Drawn(c)
       PROVE  KeyOf(c) # KeyOf(d)
  BY <1>1, <1>11, KeysDiffer DEF IdsInv
<1> USE <1>1 DEF EntriesInv, Registered, Matches, Goto, Return, KeyOf
<1>2. ASSUME UNCHANGED <<listed, msg_id, idOf, aborted>>,
             NEW c \in Calls, NEW s \in CallSteps,
             pc' = [pc EXCEPT ![c] = s],
             Registered(c) <=> Registered(c)',
             s \in {"waiting", "acquired", "free"} =>
                c \in SyncCalls /\ Matches(ptr'[c], KeyOf(c)),
             \A d \in Calls \ {c} : ptr'[d] = ptr[d]
      PROVE  EntriesInv'
  BY <1>2 DEF TypeOK
<1>3. CASE UNCHANGED <<listed, msg_id, idOf, aborted, pc, ptr>>
  BY <1>3 DEF TypeOK
<1>4. ASSUME NEW c \in Calls, ReadMsgId(c), UNCHANGED aborted PROVE EntriesInv'
  BY <1>4 DEF ReadMsgId, heapVars, TypeOK
<1>5. ASSUME NEW c \in Calls, InsertReply(c), UNCHANGED aborted
      PROVE  EntriesInv'
  <2>1. PICK a \in Addrs \ listed : NewEntry(a, KeyOf(c))
    BY <1>5 DEF InsertReply
  <2>2. \A b \in listed : msg_id[b] # KeyOf(c)
    BY <1>5, <1>11 DEF InsertReply, Drawn, TypeOK
  <2>3. QED
    BY <1>5, <2>1, <2>2 DEF InsertReply, NewEntry, TypeOK
<1>6. ASSUME NEW c \in Calls, FreeReply(c) PROVE EntriesInv'
  <2>1. /\ pc[c] = "free" /\ c \in SyncCalls
        /\ ptr[c] \in listed /\ msg_id[ptr[c]] = KeyOf(c)
    BY <1>6 DEF FreeReply
  <2>2. \A d \in Calls : d # c /\ Registered(d) => KeyOf(d) # KeyOf(c)
    BY <2>1, <1>11 DEF Drawn
  <2>3. \A a \in Addrs : Matches(a, KeyOf(c)) => a = ptr[c]
    BY <2>1
  <2>4. /\ listed' = listed \ {ptr[c]} /\ ~aborted'
        /\ pc' = [pc EXCEPT ![c] = "done"]
        /\ UNCHANGED <<msg_id, idOf, ptr>>
    BY <1>6, <2>1 DEF FreeReply
  <2>5. QED
    BY <2>1, <2>2, <2>3, <2>4 DEF TypeOK
<1>7. ASSUME NEW c \in Calls, CallStep(c), UNCHANGED aborted PROVE EntriesInv'
  <2> USE DEF TypeOK, CallSteps, heapVars, workerVars
  <2>1. CASE Refuse(c) \/ IncMsgId(c) \/ ReportReturns(c)
    BY <1>2, <1>7, <2>1 DEF Refuse, IncMsgId, ReportReturns
  <2>2. CASE AddMsg(c) \/ AddMsgFails(c)
    BY <1>2, <1>7, <2>2 DEF AddMsg, AddMsgFails, ReadyToSend
  <2>3. CASE GetReply(c)
    BY <1>2, <1>7, <2>3 DEF GetReply, Finds, FindsNone
  <2>4. CASE Acquire(c) \/ GiveUp(c) \/ ReadCode(c)
    BY <1>2, <1>7, <2>4 DEF Acquire, GiveUp, ReadCode
  <2>5. CASE LookupToRemove(c)
    <3>1. ASSUME NEW a \in Addrs, Matches(a, KeyOf(c)) PROVE c \in SyncCalls
      BY <2>5, <3>1, <1>11 DEF LookupToRemove, Drawn
    <3>2. Registered(c) => \E a \in Addrs : Matches(a, KeyOf(c))
      OBVIOUS
    <3>3. QED
      BY <1>2, <1>7, <2>5, <3>1, <3>2 DEF LookupToRemove, Finds, FindsNone
  <2>6. QED
    BY <1>4, <1>5, <1>7, <2>1, <2>2, <2>3, <2>4, <2>5 DEF CallStep
<1>8. ASSUME NEW w \in Workers, WorkerStep(w), UNCHANGED aborted
      PROVE  EntriesInv'
  BY <1>3, <1>8 DEF WorkerStep, DropEmpty, TakeAnswer, SetResult, PostReply,
                    callVars, heapVars
<1>9. ASSUME NEW c \in Calls, Answer(c), UNCHANGED aborted PROVE EntriesInv'
  BY <1>3, <1>9 DEF Answer, callVars, heapVars
<1>10. QED
  BY <1>3, <1>6, <1>7, <1>8, <1>9 DEF Next, vars, callVars, heapVars

LEMMA EntriesCorrect == Spec => [](TypeOK /\ IdsInv /\ EntriesInv)
<1>1. Init => IdsInv /\ EntriesInv
  BY NullAssumption
     DEF Init, IdsInv, EntriesInv, UniqueIds, Drawn, Registered, Matches, NoId
<1>2. QED
  BY <1>1, IdsStep, EntriesStep, TypeCorrect, PTL DEF Spec

(* No entry is freed twice unless two calls raced for an id.               *)
THEOREM NeverFreedTwice == Spec => []NoDoubleFree
<1>1. EntriesInv => NoDoubleFree
  BY DEF EntriesInv, NoDoubleFree
<1>2. QED
  BY <1>1, EntriesCorrect, PTL

(* The entry a call of leda_online or leda_offline waits on, reads and     *)
(* frees is its own, and allocated, unless two calls raced for an id.      *)
THEOREM OwnEntryHeld == Spec => []HoldsOwnEntry
<1>1. EntriesInv => HoldsOwnEntry
  BY DEF EntriesInv, HoldsOwnEntry
<1>2. QED
  BY <1>1, EntriesCorrect, PTL

(* Once all calls have returned nothing is left in the list.               *)
THEOREM ListEmptied == Spec => []NothingLeftListed
<1>1. EntriesInv => NothingLeftListed
  BY DEF EntriesInv, NothingLeftListed, Registered
<1>2. QED
  BY <1>1, EntriesCorrect, PTL

-----------------------------------------------------------------------------
(* A call has nothing to return until it removes its reply.                *)
LEMMA ReturnsStep == TypeOK /\ ReturnsInv /\ [Next]_vars => ReturnsInv'
<1> SUFFICES ASSUME TypeOK, ReturnsInv, [Next]_vars PROVE ReturnsInv'
  OBVIOUS
<1> USE DEF ReturnsInv, TypeOK, Goto, Return, vars, callVars
<1>1. ASSUME NEW c \in Calls, CallStep(c) \/ FreeReply(c) PROVE ReturnsInv'
  <2>1. CASE Refuse(c) \/ IncMsgId(c) \/ ReadMsgId(c) \/ ReportReturns(c)
    BY <2>1 DEF Refuse, IncMsgId, ReadMsgId, ReportReturns
  <2>2. CASE InsertReply(c) \/ AddMsg(c) \/ AddMsgFails(c)
    BY <2>2 DEF InsertReply, AddMsg, AddMsgFails, ReadyToSend
  <2>3. CASE GetReply(c) \/ LookupToRemove(c)
    BY <2>3 DEF GetReply, LookupToRemove
  <2>4. CASE Acquire(c) \/ GiveUp(c) \/ ReadCode(c) \/ FreeReply(c)
    BY <2>4 DEF Acquire, GiveUp, ReadCode, FreeReply
  <2>5. QED
    BY <1>1, <2>1, <2>2, <2>3, <2>4 DEF CallStep
<1>2. CASE UNCHANGED <<pc, ret>>
  BY <1>2
<1>3. QED
  BY <1>1, <1>2 DEF Next, WorkerStep, Answer, DropEmpty, TakeAnswer, SetResult,
                    PostReply

(* A time-out is never forgotten, and neither is a race for an id or an id *)
(* beyond int.                                                             *)
LEMMA DisturbanceStays ==
  TypeOK /\ IdsInv /\ ReturnsInv /\ [Next]_vars /\ Undisturbed' => Undisturbed
<1> SUFFICES ASSUME TypeOK, IdsInv, ReturnsInv, [Next]_vars, Undisturbed'
             PROVE  Undisturbed
  OBVIOUS
<1>1. ~raced
  BY DEF Undisturbed, Next, vars, callVars, CallStep, WorkerStep, Answer,
         Refuse, IncMsgId, ReadMsgId, InsertReply, AddMsg, AddMsgFails,
         ReportReturns, GetReply, Acquire, GiveUp, ReadCode, LookupToRemove,
         FreeReply, DropEmpty, TakeAnswer, SetResult, PostReply
<1>2. ASSUME NEW c \in Calls, ret[c] = "timeout" PROVE ret'[c] = "timeout"
  <2> USE <1>2 DEF TypeOK, ReturnsInv, Goto, Return, vars, callVars
  <2>1. ASSUME NEW d \in Calls, CallStep(d) \/ FreeReply(d)
        PROVE  ret'[c] = "timeout"
    BY <2>1 DEF CallStep, Refuse, IncMsgId, ReadMsgId, InsertReply, AddMsg,
       AddMsgFails, ReadyToSend, ReportReturns, GetReply, Acquire, GiveUp,
       ReadCode, LookupToRemove, FreeReply
  <2>2. QED
    BY <2>1 DEF Next, WorkerStep, Answer, DropEmpty, TakeAnswer, SetResult,
                PostReply
<1>3. ASSUME NEW c \in Calls, idOf'[c] <= IntMax PROVE idOf[c] <= IntMax
  <2>1. ASSUME NEW d \in Calls, ReadMsgId(d) PROVE idOf[c] <= IntMax
    <3>1. idOf[d] = NoId /\ NoId <= IntMax
      BY <1>1, <2>1, IdsAssumption DEF ReadMsgId, IdsInv, NoId
    <3>2. QED
      BY <1>3, <2>1, <3>1 DEF ReadMsgId, TypeOK
  <2>2. CASE UNCHANGED idOf
    BY <1>3, <2>2
  <2>3. QED
    BY <2>1, <2>2 DEF Next, vars, callVars, CallStep, WorkerStep, Answer,
       Refuse, IncMsgId, InsertReply, AddMsg, AddMsgFails, ReportReturns,
       GetReply, Acquire, GiveUp, ReadCode, LookupToRemove, FreeReply,
       DropEmpty, TakeAnswer, SetResult, PostReply
<1>4. QED
  BY <1>1, <1>2, <1>3 DEF Undisturbed, TimedOut

(* An answer only ever reaches the entry of the call it answers, and wakes *)
(* its caller after the verdict has been written, unless a call times out. *)
LEMMA AnswersStep == IInv /\ [Next]_vars => AnswersInv'
<1> SUFFICES ASSUME IInv, [Next]_vars, Undisturbed' PROVE AnswersInv'
  BY DEF AnswersInv
<1>1. Undisturbed /\ ~raced
  BY DisturbanceStays DEF IInv, Undisturbed
<1> USE CallsAssumption, NullAssumption
<1>2. \A c, d \in Calls : c # d /\ idOf[c] # NoId => KeyOf(c) # KeyOf(d)
  BY <1>1, KeysDiffer DEF IInv, IdsInv
<1>3. \A c \in Calls : Drawn(c) => idOf[c] # NoId
  BY <1>1 DEF IInv, IdsInv
<1>4. /\ \A c \in Calls : Registered(c) => \E a \in Addrs : Matches(a, KeyOf(c))
      /\ \A a \in listed : \E c \in Calls : Registered(c) /\ msg_id[a] = KeyOf(c)
      /\ \A c \in Calls : pc[c] \in {"waiting", "acquired", "free"} =>
                            c \in SyncCalls /\ Matches(ptr[c], KeyOf(c))
      /\ \A a, b \in listed : msg_id[a] = msg_id[b] => a = b
  BY <1>1 DEF IInv, EntriesInv
<1>5. ASSUME NEW a \in listed, NEW c \in Calls, NEW d \in Calls, Drawn(c),
             msg_id[a] = KeyOf(c), msg_id[a] = KeyOf(d)
      PROVE  c = d
  BY <1>2, <1>3, <1>5
<1>23. \A c \in Calls : ValueInt(idOf[c]) = KeyOf(c)
  BY <1>1, AnswerIds DEF IInv, Undisturbed
<1>6. /\ \A c \in SyncCalls : CallerInv(c)
      /\ \A w \in Workers : WorkerInv(w)
      /\ OneWorkerPerAnswer
      /\ \A a \in listed : PostedInv(a)
      /\ reported \subseteq ReportCalls
  BY <1>1 DEF IInv, AnswersInv
<1>7. TypeOK
  BY DEF IInv
<1> USE DEF Goto, Return, callVars, heapVars, workerVars, KeyOf
(* Steps of a call that touch neither heap nor answers.                    *)
<1>8. ASSUME NEW c \in Calls, NEW s \in CallSteps,
             pc' = [pc EXCEPT ![c] = s],
             UNCHANGED <<listed, msg_id, verdict, sem, request, wpc, job, wptr,
                         reported>>,
             c \in SyncCalls => CallerInv(c)',
             c \in SyncCalls /\ pc[c] \in {"sent", "waiting"} =>
               s \in {"sent", "waiting"},
             Drawn(c) => idOf'[c] = idOf[c],
             \A d \in Calls \ {c} :
               /\ idOf'[d] = idOf[d] /\ ptr'[d] = ptr[d]
               /\ ret'[d] = ret[d] /\ code'[d] = code[d]
      PROVE  AnswersInv'
  <2>1. \A d \in SyncCalls : CallerInv(d)'
    BY <1>6, <1>7, <1>8 DEF CallerInv, Delivered, NoWorkerOn, TypeOK, Calls
  <2>2. \A w \in Workers : WorkerInv(w)'
    BY <1>6, <1>7, <1>8 DEF WorkerInv, Matches, Drawn, TypeOK, Calls
  <2>3. OneWorkerPerAnswer'
    BY <1>6, <1>8 DEF OneWorkerPerAnswer
  <2>4. \A a \in listed' : PostedInv(a)'
    BY <1>6, <1>7, <1>8
       DEF PostedInv, Delivered, NoWorkerOn, Drawn, TypeOK, Calls
  <2>5. QED
    BY <1>6, <1>8, <2>1, <2>2, <2>3, <2>4 DEF AnswersInv
<1>9. ASSUME UNCHANGED <<pc, idOf, ptr, ret, code, listed, msg_id, verdict, sem,
                        wpc, job, wptr, reported>>,
             NEW c \in Calls, NEW r \in Requests,
             request' = [request EXCEPT ![c] = r],
             request[c] \in {"sent", "answered", "empty"}
      PROVE  AnswersInv'
  <2>1. \A d \in SyncCalls : CallerInv(d)'
    BY <1>6, <1>7, <1>9 DEF CallerInv, Delivered, NoWorkerOn, TypeOK, Calls
  <2>2. \A w \in Workers : WorkerInv(w)'
    BY <1>6, <1>7, <1>9 DEF WorkerInv, Matches, TypeOK, Calls
  <2>3. OneWorkerPerAnswer'
    BY <1>6, <1>9 DEF OneWorkerPerAnswer
  <2>4. \A a \in listed' : PostedInv(a)'
    BY <1>6, <1>7, <1>9 DEF PostedInv, Delivered, NoWorkerOn, TypeOK, Calls
  <2>5. QED
    BY <1>6, <1>9, <2>1, <2>2, <2>3, <2>4 DEF AnswersInv
<1>10. ASSUME NEW c \in Calls, InsertReply(c) PROVE AnswersInv'
  <2>1. PICK a \in Addrs \ listed : NewEntry(a, KeyOf(c))
    BY <1>10 DEF InsertReply
  <2>2. /\ c \in SyncCalls /\ pc[c] = "drawn" /\ request[c] = "unsent"
        /\ pc' = [pc EXCEPT ![c] = "inserted"]
        /\ UNCHANGED <<idOf, ptr, ret, code, workerVars>>
        /\ \A b \in listed : /\ b # a /\ msg_id'[b] = msg_id[b]
                             /\ verdict'[b] = verdict[b] /\ sem'[b] = sem[b]
        /\ listed' = listed \cup {a} /\ sem'[a] = 0
    BY <1>6, <1>7, <1>10, <2>1 DEF InsertReply, NewEntry, CallerInv, TypeOK
  <2>3. \A d \in SyncCalls : CallerInv(d)'
    BY <1>4, <1>6, <1>7, <2>2
       DEF CallerInv, Delivered, NoWorkerOn, Matches, TypeOK, Calls
  <2>4. \A w \in Workers : WorkerInv(w)'
    BY <1>6, <1>7, <2>2 DEF WorkerInv, Matches, TypeOK, Calls
  <2>5. OneWorkerPerAnswer'
    BY <1>6, <2>2 DEF OneWorkerPerAnswer
  <2>6. \A b \in listed' : PostedInv(b)'
    BY <1>6, <1>7, <2>2 DEF PostedInv, Delivered, NoWorkerOn, TypeOK, Calls
  <2>7. QED
    BY <1>6, <2>2, <2>3, <2>4, <2>5, <2>6 DEF AnswersInv
<1>11. ASSUME NEW c \in Calls, AddMsg(c) PROVE AnswersInv'
  <2>1. /\ pc' = [pc EXCEPT ![c] = "sent"]
        /\ request' = [request EXCEPT ![c] = "sent"]
        /\ UNCHANGED <<idOf, ptr, ret, code, heapVars, wpc, job, wptr, reported>>
        /\ c \in SyncCalls => pc[c] = "inserted" /\ request[c] = "unsent"
    BY <1>6, <1>11 DEF AddMsg, ReadyToSend, CallerInv
  <2>2. \A d \in SyncCalls : CallerInv(d)'
    BY <1>6, <1>7, <2>1 DEF CallerInv, Delivered, NoWorkerOn, TypeOK, Calls
  <2>3. \A w \in Workers : WorkerInv(w)'
    BY <1>6, <1>7, <2>1 DEF WorkerInv, Matches, TypeOK, Calls
  <2>4. OneWorkerPerAnswer'
    BY <1>6, <2>1 DEF OneWorkerPerAnswer
  <2>5. \A a \in listed' : PostedInv(a)'
    BY <1>6, <1>7, <2>1 DEF PostedInv, Delivered, NoWorkerOn, TypeOK, Calls
  <2>6. QED
    BY <1>6, <2>1, <2>2, <2>3, <2>4, <2>5 DEF AnswersInv
<1>12. ASSUME NEW c \in Calls, Acquire(c) PROVE AnswersInv'
  <2>1. PICK a \in listed : a = ptr[c]
    BY <1>4, <1>12 DEF Acquire, Matches
  <2>2. /\ c \in SyncCalls /\ pc[c] = "waiting" /\ msg_id[a] = KeyOf(c)
        /\ sem[a] > 0
        /\ sem' = [sem EXCEPT ![a] = @ - 1]
        /\ pc' = [pc EXCEPT ![c] = "acquired"]
        /\ UNCHANGED <<idOf, ptr, ret, code, listed, msg_id, verdict, workerVars>>
    BY <1>4, <1>12, <2>1 DEF Acquire, Posted, Matches
  <2>3. sem[a] = 1 /\ Delivered(a, c)
    BY <1>5, <1>6, <2>2 DEF PostedInv, Drawn, Calls
  <2>4. \A d \in SyncCalls : CallerInv(d)'
    BY <1>6, <1>7, <2>1, <2>2, <2>3
       DEF CallerInv, Delivered, NoWorkerOn, TypeOK, Calls
  <2>5. \A w \in Workers : WorkerInv(w)'
    BY <1>6, <1>7, <2>2, <2>3
       DEF WorkerInv, Delivered, NoWorkerOn, Matches, TypeOK, Calls
  <2>6. OneWorkerPerAnswer'
    BY <1>6, <2>2 DEF OneWorkerPerAnswer
  <2>7. \A b \in listed' : PostedInv(b)'
    <3> SUFFICES ASSUME NEW b \in listed, sem'[b] > 0 PROVE PostedInv(b)'
      BY <2>2 DEF PostedInv
    <3>1. b # a /\ sem'[b] = sem[b]
      BY <1>7, <2>2, <2>3 DEF TypeOK
    <3>2. PICK d \in SyncCalls : /\ msg_id[b] = KeyOf(d)
                                /\ pc[d] \in {"sent", "waiting"}
                                /\ Delivered(b, d)
      BY <1>6, <3>1 DEF PostedInv
    <3>3. d # c
      BY <1>4, <2>2, <3>1, <3>2
    <3>4. pc'[d] = pc[d] /\ Delivered(b, d)'
      BY <1>7, <2>2, <3>2, <3>3 DEF TypeOK, Delivered, NoWorkerOn, Calls
    <3>5. QED
      BY <1>6, <2>2, <3>1, <3>2, <3>4 DEF PostedInv
  <2>8. QED
    BY <1>6, <2>2, <2>4, <2>5, <2>6, <2>7 DEF AnswersInv
<1>13. ASSUME NEW c \in Calls, FreeReply(c) PROVE AnswersInv'
  <2>1. PICK a \in listed : a = ptr[c]
    BY <1>4, <1>13 DEF FreeReply, Matches
  <2>2. /\ c \in SyncCalls /\ pc[c] = "free" /\ msg_id[a] = KeyOf(c)
        /\ listed' = listed \ {a}
        /\ pc' = [pc EXCEPT ![c] = "done"]
        /\ UNCHANGED <<idOf, ptr, ret, code, msg_id, verdict, sem, workerVars>>
    BY <1>4, <1>13, <2>1 DEF FreeReply, Matches
  <2>3. \A d \in SyncCalls : CallerInv(d)'
    BY <1>6, <1>7, <2>2 DEF CallerInv, Delivered, NoWorkerOn, TypeOK, Calls
  <2>4. ASSUME NEW d \in Calls, pc[d] \in {"sent", "waiting"}
        PROVE  d # c /\ KeyOf(d) # KeyOf(c) /\ pc'[d] = pc[d]
    BY <1>2, <1>3, <1>7, <2>2, <2>4 DEF Drawn, TypeOK
  <2>5. \A w \in Workers : WorkerInv(w)'
    BY <1>6, <1>7, <2>2, <2>4 DEF WorkerInv, Matches, TypeOK, Calls
  <2>6. OneWorkerPerAnswer'
    BY <1>6, <2>2 DEF OneWorkerPerAnswer
  <2>7. \A b \in listed' : PostedInv(b)'
    BY <1>6, <1>7, <2>2, <2>4
       DEF PostedInv, Delivered, NoWorkerOn, TypeOK, Calls
  <2>8. QED
    BY <1>6, <2>2, <2>3, <2>5, <2>6, <2>7 DEF AnswersInv
<1>14. ASSUME NEW c \in Calls, CallStep(c) PROVE AnswersInv'
  <2> USE DEF CallSteps
  <2>1. CASE Refuse(c)
    BY <1>6, <1>7, <1>8, <2>1 DEF Refuse, CallerInv, TypeOK
  <2>2. CASE IncMsgId(c)
    BY <1>6, <1>7, <1>8, <2>2 DEF IncMsgId, CallerInv, TypeOK
  <2>3. CASE ReadMsgId(c)
    BY <1>6, <1>7, <1>8, <2>3 DEF ReadMsgId, CallerInv, Drawn, TypeOK
  <2>4. CASE AddMsgFails(c)
    BY <1>6, <1>7, <1>8, <2>4 DEF AddMsgFails, ReadyToSend, CallerInv, TypeOK
  <2>5. CASE ReportReturns(c)
    BY <1>7, <1>8, <2>5 DEF ReportReturns, TypeOK
  <2>6. CASE GetReply(c)
    <3>1. ~FindsNone(KeyOf(c))
      BY <1>4, <2>6 DEF GetReply, FindsNone, Registered
    <3>2. PICK a \in Addrs : /\ ptr' = [ptr EXCEPT ![c] = a]
                            /\ pc' = [pc EXCEPT ![c] = "waiting"]
                            /\ UNCHANGED ret
      BY <2>6, <3>1 DEF GetReply
    <3>3. CallerInv(c)'
      BY <1>6, <1>7, <2>6, <3>2 DEF GetReply, CallerInv, TypeOK
    <3>4. QED
      BY <1>7, <1>8, <2>6, <3>2, <3>3 DEF GetReply, TypeOK
  <2>7. CASE GiveUp(c)
    BY <1>7, <2>7 DEF GiveUp, Undisturbed, TimedOut, TypeOK
  <2>8. CASE ReadCode(c)
    <3>1. /\ c \in SyncCalls
          /\ pc' = [pc EXCEPT ![c] = "remove"]
          /\ UNCHANGED <<idOf, ptr, heapVars, workerVars>>
          /\ \A d \in Calls \ {c} : ret'[d] = ret[d] /\ code'[d] = code[d]
      BY <1>4, <1>7, <2>8 DEF ReadCode, TypeOK
    <3>2. request[c] = "taken" /\ code'[c] = c /\ ret'[c] = "success"
      BY <1>6, <1>7, <2>8, <3>1 DEF ReadCode, CallerInv, Delivered, TypeOK
    <3>3. CallerInv(c)'
      BY <1>7, <3>1, <3>2 DEF CallerInv, TypeOK
    <3>4. QED
      BY <1>8, <2>8, <3>1, <3>3 DEF ReadCode
  <2>9. CASE LookupToRemove(c)
    <3>1. PICK s \in {"free", "done"} : pc' = [pc EXCEPT ![c] = s]
      BY <2>9 DEF LookupToRemove
    <3>2. /\ pc[c] = "remove"
          /\ UNCHANGED <<idOf, ret, code, heapVars, workerVars>>
          /\ \A d \in Calls \ {c} : ptr'[d] = ptr[d]
      BY <1>7, <2>9 DEF LookupToRemove, TypeOK
    <3>3. c \in SyncCalls => CallerInv(c)'
      BY <1>6, <1>7, <3>1, <3>2 DEF CallerInv, TypeOK
    <3>4. QED
      BY <1>8, <3>1, <3>2, <3>3
  <2>10. QED
    BY <1>10, <1>11, <1>12, <1>14, <2>1, <2>2, <2>3, <2>4, <2>5, <2>6, <2>7,
       <2>8, <2>9 DEF CallStep
<1>15. ASSUME NEW w \in Workers, TakeAnswer(w) PROVE AnswersInv'
  <2>1. PICK c \in Calls :
          /\ request[c] = "answered"
          /\ request' = [request EXCEPT ![c] = "taken"]
          /\ \/ \E a \in Addrs : /\ Finds(a, KeyOf(c))
                                 /\ wpc' = [wpc EXCEPT ![w] = "found"]
                                 /\ job' = [job EXCEPT ![w] = c]
                                 /\ wptr' = [wptr EXCEPT ![w] = a]
                                 /\ UNCHANGED reported
             \/ /\ FindsNone(KeyOf(c)) /\ ReportReplyCb(c)
                /\ UNCHANGED <<wpc, job, wptr>>
    BY <1>15, <1>23 DEF TakeAnswer
  <2>2. wpc[w] = "idle" /\ UNCHANGED <<callVars, heapVars>>
    BY <1>15 DEF TakeAnswer
  <2>3. c \in SyncCalls => Registered(c) /\ pc[c] \in {"sent", "waiting"}
    BY <1>6, <2>1 DEF CallerInv, Registered
  <2>4. CASE FindsNone(KeyOf(c)) /\ ReportReplyCb(c) /\ UNCHANGED <<wpc, job, wptr>>
    <3>1. c \in ReportCalls
      BY <1>4, <2>3, <2>4 DEF FindsNone, Calls
    <3>2. \A d \in SyncCalls : CallerInv(d)'
      BY <1>6, <1>7, <2>1, <2>2, <2>4, <3>1
         DEF CallerInv, Delivered, NoWorkerOn, TypeOK, Calls
    <3>3. \A v \in Workers : WorkerInv(v)'
      BY <1>6, <1>7, <2>1, <2>2, <2>4 DEF WorkerInv, Matches, TypeOK, Calls
    <3>4. OneWorkerPerAnswer'
      BY <1>6, <2>4 DEF OneWorkerPerAnswer
    <3>5. \A a \in listed' : PostedInv(a)'
      BY <1>6, <1>7, <2>1, <2>2, <2>4
         DEF PostedInv, Delivered, NoWorkerOn, TypeOK, Calls
    <3>6. QED
      BY <1>6, <2>4, <3>1, <3>2, <3>3, <3>4, <3>5 DEF AnswersInv, ReportReplyCb
  <2>5. ASSUME NEW a \in Addrs, Finds(a, KeyOf(c)), UNCHANGED reported,
               wpc' = [wpc EXCEPT ![w] = "found"],
               job' = [job EXCEPT ![w] = c], wptr' = [wptr EXCEPT ![w] = a]
        PROVE  AnswersInv'
    <3>1. Matches(a, KeyOf(c))
      BY <2>5 DEF Finds
    <3>2. c \in SyncCalls
      BY <1>4, <1>5, <3>1 DEF Matches, Registered, Drawn
    <3>3. \A v \in Workers : wpc[v] # "idle" => job[v] # c
      BY <1>6, <2>1 DEF WorkerInv
    <3>4. sem[a] = 0
      BY <1>5, <1>6, <1>7, <2>1, <3>1
         DEF PostedInv, Delivered, Matches, Drawn, TypeOK, Calls
    <3>5. \A d \in SyncCalls : CallerInv(d)'
      BY <1>6, <1>7, <2>1, <2>2, <2>3, <2>5, <3>2
         DEF CallerInv, Delivered, NoWorkerOn, TypeOK, Calls
    <3>6. \A v \in Workers : WorkerInv(v)'
      BY <1>6, <1>7, <2>1, <2>2, <2>3, <2>5, <3>1, <3>2, <3>4
         DEF WorkerInv, Matches, TypeOK, Calls
    <3>7. OneWorkerPerAnswer'
      BY <1>6, <1>7, <2>2, <2>5, <3>3 DEF OneWorkerPerAnswer, TypeOK
    <3>8. \A b \in listed' : PostedInv(b)'
      BY <1>6, <1>7, <2>1, <2>2, <2>5
         DEF PostedInv, Delivered, NoWorkerOn, TypeOK, Calls
    <3>9. QED
      BY <1>6, <2>5, <3>5, <3>6, <3>7, <3>8 DEF AnswersInv
  <2>6. QED
    BY <2>1, <2>4, <2>5
<1>16. ASSUME NEW w \in Workers, wpc[w] # "idle"
       PROVE  /\ job[w] \in SyncCalls /\ wptr[w] \in listed
              /\ msg_id[wptr[w]] = KeyOf(job[w])
              /\ \A v \in Workers \ {w} : wpc[v] # "idle" =>
                   job[v] # job[w] /\ wptr[v] # wptr[w]
              /\ \A d \in Calls : pc[d] = "acquired" => ptr[d] # wptr[w]
  BY <1>4, <1>5, <1>6, <1>16
     DEF WorkerInv, OneWorkerPerAnswer, Matches, Drawn, Calls
<1>17. ASSUME NEW w \in Workers, SetResult(w) PROVE AnswersInv'
  <2>1. /\ wpc[w] # "idle" /\ sem[wptr[w]] = 0
        /\ wpc' = [wpc EXCEPT ![w] = "written"]
        /\ verdict' = [verdict EXCEPT ![wptr[w]] = job[w]]
        /\ UNCHANGED <<callVars, listed, msg_id, sem, request, job, wptr, reported>>
    BY <1>6, <1>17 DEF SetResult, WorkerInv
  <2>2. \A d \in SyncCalls : CallerInv(d)'
    BY <1>6, <1>7, <1>16, <2>1
       DEF CallerInv, Delivered, NoWorkerOn, TypeOK, Calls
  <2>3. \A v \in Workers : WorkerInv(v)'
    BY <1>6, <1>7, <1>16, <2>1 DEF WorkerInv, Matches, TypeOK, Calls
  <2>4. OneWorkerPerAnswer'
    BY <1>6, <1>7, <2>1 DEF OneWorkerPerAnswer, TypeOK
  <2>5. \A b \in listed' : PostedInv(b)'
    BY <1>6, <1>7, <2>1 DEF PostedInv, Delivered, NoWorkerOn, TypeOK, Calls
  <2>6. QED
    BY <1>6, <2>1, <2>2, <2>3, <2>4, <2>5 DEF AnswersInv
<1>18. ASSUME NEW w \in Workers, PostReply(w) PROVE AnswersInv'
  <2>1. /\ wpc[w] = "written"
        /\ wpc' = [wpc EXCEPT ![w] = "idle"]
        /\ job' = [job EXCEPT ![w] = NULL]
        /\ wptr' = [wptr EXCEPT ![w] = NULL]
        /\ sem' = [sem EXCEPT ![wptr[w]] = @ + 1]
        /\ UNCHANGED <<callVars, listed, msg_id, verdict, request, reported>>
    BY <1>18 DEF PostReply
  <2>2. \A d \in Calls : NoWorkerOn(d) => NoWorkerOn(d)'
    BY <1>7, <2>1 DEF NoWorkerOn, TypeOK
  <2>3. PICK c \in SyncCalls, a \in listed : c = job[w] /\ a = wptr[w]
    BY <1>16, <2>1
  <2>4. NoWorkerOn(c)'
    BY <1>7, <1>16, <2>1, <2>3 DEF NoWorkerOn, TypeOK
  <2>5. \A d \in SyncCalls : CallerInv(d)'
    BY <1>6, <2>1, <2>2 DEF CallerInv, Delivered, Calls
  <2>6. \A v \in Workers : WorkerInv(v)'
    BY <1>6, <1>7, <1>16, <2>1 DEF WorkerInv, Matches, TypeOK, Calls
  <2>7. OneWorkerPerAnswer'
    BY <1>6, <1>7, <2>1 DEF OneWorkerPerAnswer, TypeOK
  <2>8. \A b \in listed' : PostedInv(b)'
    <3>1. PostedInv(a)'
      BY <1>6, <1>7, <1>16, <2>1, <2>3, <2>4
         DEF PostedInv, WorkerInv, Delivered, TypeOK
    <3>2. ASSUME NEW b \in listed, b # a PROVE PostedInv(b)'
      BY <1>6, <1>7, <2>1, <2>2, <2>3, <3>2 DEF PostedInv, Delivered, TypeOK, Calls
    <3>3. QED
      BY <2>1, <3>1, <3>2
  <2>9. QED
    BY <1>6, <2>1, <2>5, <2>6, <2>7, <2>8 DEF AnswersInv
<1>19. ASSUME NEW c \in Calls, Answer(c) PROVE AnswersInv'
  BY <1>9, <1>19 DEF Answer, Requests
<1>20. ASSUME NEW w \in Workers, DropEmpty(w) PROVE AnswersInv'
  BY <1>9, <1>20 DEF DropEmpty, Requests
<1>21. CASE UNCHANGED vars
  BY <1>6, <1>21
     DEF vars, AnswersInv, CallerInv, WorkerInv, OneWorkerPerAnswer, PostedInv,
         Delivered, NoWorkerOn, Matches
<1>22. QED
  BY <1>13, <1>14, <1>15, <1>17, <1>18, <1>19, <1>20, <1>21 DEF Next, WorkerStep

(* What an answer has reached, call by call.                               *)
LEMMA RequestStep ==
  TypeOK /\ ReturnsInv /\ RequestInv /\ [Next]_vars => RequestInv'
<1> SUFFICES ASSUME TypeOK, ReturnsInv, RequestInv, [Next]_vars
             PROVE  RequestInv'
  OBVIOUS
<1> USE CallsAssumption, NullAssumption
    DEF TypeOK, RequestInv, Untouched, NoWorkerOn, heapVars, callVars,
        workerVars, Goto, Return
<1>1. ASSUME NEW c \in Calls,
             Refuse(c) \/ IncMsgId(c) \/ ReadMsgId(c) \/ AddMsgFails(c)
             \/ GetReply(c) \/ Acquire(c) \/ GiveUp(c)
             \/ LookupToRemove(c) \/ FreeReply(c)
      PROVE  RequestInv'
  BY <1>1 DEF Refuse, IncMsgId, ReadMsgId, AddMsgFails, GetReply, Acquire,
              GiveUp, LookupToRemove, FreeReply, ReadyToSend
<1>2. ASSUME NEW c \in Calls, InsertReply(c) PROVE RequestInv'
  BY <1>2 DEF InsertReply, NewEntry
<1>3. ASSUME NEW c \in Calls, AddMsg(c) PROVE RequestInv'
  BY <1>3 DEF AddMsg, ReadyToSend, ReturnsInv
<1>4. ASSUME NEW c \in Calls, ReportReturns(c) PROVE RequestInv'
  BY <1>4 DEF ReportReturns
<1>5. ASSUME NEW c \in Calls, ReadCode(c) PROVE RequestInv'
  BY <1>5 DEF ReadCode
<1>6. ASSUME NEW c \in Calls, Answer(c) PROVE RequestInv'
  BY <1>6 DEF Answer
<1>7. ASSUME NEW w \in Workers, DropEmpty(w) PROVE RequestInv'
  BY <1>7 DEF DropEmpty
<1>8. ASSUME NEW w \in Workers, TakeAnswer(w) PROVE RequestInv'
  BY <1>8 DEF TakeAnswer, ReportReplyCb
<1>9. ASSUME NEW w \in Workers, SetResult(w) PROVE RequestInv'
  BY <1>9 DEF SetResult
<1>10. ASSUME NEW w \in Workers, PostReply(w) PROVE RequestInv'
  BY <1>10 DEF PostReply
<1>11. CASE UNCHANGED vars
  BY <1>11 DEF vars
<1>12. QED
  BY <1>1, <1>2, <1>3, <1>4, <1>5, <1>6, <1>7, <1>8, <1>9, <1>10, <1>11
  DEF Next, CallStep, WorkerStep

(* The answer to a call whose id is beyond int never gets to the entry of  *)
(* its own caller.                                                         *)
LEMMA BeyondStep == IInv /\ [Next]_vars => BeyondInv'
<1> SUFFICES ASSUME IInv, [Next]_vars, ~raced',
                    NEW c \in SyncCalls, idOf'[c] > IntMax
             PROVE  /\ \A w \in Workers :
                         wpc'[w] # "idle" /\ job'[w] = c /\ Registered(c)' =>
                           ~(wptr'[w] \in listed' /\ msg_id'[wptr'[w]] = KeyOf(c)')
                    /\ \A a \in Addrs :
                         a \in listed' /\ msg_id'[a] = KeyOf(c)' /\ Registered(c)' =>
                           verdict'[a] # c
                    /\ code'[c] # c
  BY DEF BeyondInv, Matches
<1> c \in Calls
  BY DEF Calls
<1> USE NullAssumption, CallsAssumption, IdsAssumption
    DEF Registered, Goto, Return, callVars, heapVars, workerVars, KeyOf
<1>1. TypeOK /\ RequestInv
  BY DEF IInv
<1>2. ~raced
  BY DEF Next, vars, CallStep, WorkerStep, Answer, Refuse, IncMsgId,
         ReadMsgId, InsertReply, AddMsg, AddMsgFails, ReportReturns, GetReply,
         Acquire, GiveUp, ReadCode, LookupToRemove, FreeReply, DropEmpty,
         TakeAnswer, SetResult, PostReply
<1>3. \A d \in Calls : Drawn(d) /\ d # c => KeyOf(d) # KeyOf(c)
  BY <1>1, <1>2, KeysDiffer DEF IInv, IdsInv
<1>4. pc[c] \in {"waiting", "acquired", "free"} =>
        ptr[c] \in listed /\ msg_id[ptr[c]] = KeyOf(c)
  BY <1>2 DEF IInv, EntriesInv, Matches
<1>5. ASSUME idOf[c] > IntMax
      PROVE  /\ \A w \in Workers :
                  wpc[w] # "idle" /\ job[w] = c /\ Registered(c) =>
                    ~(wptr[w] \in listed /\ msg_id[wptr[w]] = KeyOf(c))
             /\ \A a \in Addrs :
                  a \in listed /\ msg_id[a] = KeyOf(c) /\ Registered(c) =>
                    verdict[a] # c
             /\ code[c] # c
  BY <1>2, <1>5 DEF IInv, BeyondInv, Matches
<1>6. CASE \E d \in Calls : ReadMsgId(d)
  <2>1. PICK d \in Calls : ReadMsgId(d)
    BY <1>6
  <2>2. /\ pc[d] = "drawing" /\ pc' = [pc EXCEPT ![d] = "drawn"]
        /\ idOf' = [idOf EXCEPT ![d] = g_msg_id]
        /\ UNCHANGED <<code, heapVars, workerVars>>
    BY <2>1 DEF ReadMsgId
  <2>3. CASE d = c
    <3>1. ~Registered(c)' /\ code[c] = NULL
      BY <1>1, <2>2, <2>3 DEF TypeOK, RequestInv
    <3>2. QED
      BY <2>2, <3>1
  <2>4. CASE d # c
    BY <1>1, <1>5, <2>2, <2>4 DEF TypeOK
  <2>5. QED
    BY <2>3, <2>4
<1>7. CASE \E d \in Calls : InsertReply(d)
  <2>1. PICK d \in Calls, a \in Addrs \ listed :
               InsertReply(d) /\ NewEntry(a, KeyOf(d))
    BY <1>7 DEF InsertReply
  <2>2. /\ pc[d] = "drawn" /\ pc' = [pc EXCEPT ![d] = "inserted"]
        /\ UNCHANGED <<idOf, code, workerVars>>
        /\ listed' = listed \cup {a}
        /\ msg_id'[a] = KeyOf(d) /\ verdict'[a] # c
        /\ \A b \in Addrs \ {a} :
             msg_id'[b] = msg_id[b] /\ verdict'[b] = verdict[b]
    BY <1>1, <2>1 DEF InsertReply, NewEntry, TypeOK
  <2>3. CASE d = c
    <3>1. Untouched(c)
      BY <1>1, <2>2, <2>3 DEF RequestInv
    <3>2. QED
      BY <1>5, <2>2, <2>3, <3>1 DEF Untouched, NoWorkerOn
  <2>4. CASE d # c
    <3>1. KeyOf(d) # KeyOf(c) /\ (Registered(c)' <=> Registered(c))
      BY <1>1, <1>3, <2>2, <2>4 DEF Drawn, TypeOK
    <3>2. \A w \in Workers : wpc[w] # "idle" => wptr[w] \in Addrs
      BY <1>1 DEF TypeOK
    <3>3. QED
      BY <1>5, <2>2, <2>4, <3>1, <3>2
  <2>5. QED
    BY <2>3, <2>4
<1>8. CASE \E d \in Calls : ReadCode(d)
  <2>1. PICK d \in Calls : ReadCode(d)
    BY <1>8
  <2>2. d = c => verdict[ptr[c]] # c
    BY <1>1, <1>4, <1>5, <2>1 DEF ReadCode, TypeOK
  <2>3. code'[c] # c
    BY <1>1, <1>5, <2>1, <2>2 DEF ReadCode, TypeOK
  <2>4. QED
    BY <1>1, <1>5, <2>1, <2>3 DEF ReadCode, TypeOK
<1>9. CASE \E w \in Workers : TakeAnswer(w)
  <2>1. PICK w \in Workers : TakeAnswer(w)
    BY <1>9
  <2>2. UNCHANGED <<callVars, heapVars>>
    BY <2>1 DEF TakeAnswer
  <2>3. job'[w] = c /\ wpc'[w] # "idle" =>
          msg_id[wptr'[w]] # KeyOf(c)
    BY <1>1, <2>1, <2>2, AnswerIds DEF TakeAnswer, Finds, Matches, TypeOK
  <2>4. \A v \in Workers \ {w} :
          wpc'[v] = wpc[v] /\ job'[v] = job[v] /\ wptr'[v] = wptr[v]
    BY <1>1, <2>1 DEF TakeAnswer, TypeOK
  <2>5. QED
    BY <1>5, <2>2, <2>3, <2>4
<1>10. CASE \E w \in Workers : SetResult(w)
  BY <1>1, <1>5, <1>10 DEF SetResult, TypeOK
<1>11. CASE \E w \in Workers : PostReply(w)
  BY <1>1, <1>5, <1>11 DEF PostReply, TypeOK
<1>12. CASE /\ UNCHANGED <<idOf, code, msg_id, verdict, wpc, job, wptr>>
            /\ listed' \subseteq listed
            /\ Registered(c)' => Registered(c)
  BY <1>5, <1>12
<1>13. ASSUME NEW d \in Calls, CallStep(d) \/ FreeReply(d),
              ~ReadMsgId(d), ~InsertReply(d), ~ReadCode(d)
       PROVE  /\ UNCHANGED <<idOf, code, msg_id, verdict, wpc, job, wptr>>
              /\ listed' \subseteq listed
              /\ Registered(c)' => Registered(c)
  BY <1>1, <1>13
     DEF CallStep, Refuse, IncMsgId, AddMsg, AddMsgFails, ReadyToSend,
         ReportReturns, GetReply, Acquire, GiveUp, LookupToRemove, FreeReply,
         TypeOK
<1>14. CASE UNCHANGED vars
  BY <1>12, <1>14 DEF vars
<1>15. ASSUME NEW d \in Calls, Answer(d)
       PROVE  UNCHANGED <<pc, idOf, code, msg_id, verdict, wpc, job, wptr, listed>>
  BY <1>15 DEF Answer
<1>16. ASSUME NEW w \in Workers, DropEmpty(w)
       PROVE  UNCHANGED <<pc, idOf, code, msg_id, verdict, wpc, job, wptr, listed>>
  BY <1>16 DEF DropEmpty
<1>17. QED
  BY <1>6, <1>7, <1>8, <1>9, <1>10, <1>11, <1>12, <1>13, <1>14, <1>15, <1>16
     DEF Next, WorkerStep

(* The inductive invariant.                                                *)
THEOREM InvariantHolds == Spec => []IInv
<1>1. Init => ReturnsInv /\ AnswersInv /\ RequestInv /\ BeyondInv
  BY NullAssumption, IdsAssumption
     DEF Init, ReturnsInv, AnswersInv, CallerInv, WorkerInv, OneWorkerPerAnswer,
         PostedInv, Calls, RequestInv, Untouched, NoWorkerOn, BeyondInv, NoId
<1>2. /\ TypeOK /\ IdsInv /\ EntriesInv
      /\ ReturnsInv /\ AnswersInv /\ RequestInv /\ BeyondInv
      <=> IInv
  BY DEF IInv
<1>3. QED
  BY <1>1, <1>2, AnswersStep, ReturnsStep, RequestStep, BeyondStep,
     EntriesCorrect, PTL DEF Spec

(* As long as no call times out, no two calls race for an id and no id is  *)
(* beyond int, leda_online and leda_offline return the gateway's verdict   *)
(* on themselves.                                                          *)
THEOREM OwnVerdictReturned == Spec => []VerdictIsOwn
<1>1. IInv => VerdictIsOwn
  BY DEF IInv, AnswersInv, CallerInv, VerdictIsOwn
<1>2. QED
  BY <1>1, InvariantHolds, PTL

(* Under the same conditions report_reply_cb is called about reports only. *)
THEOREM ReportCbSparesSyncCalls == Spec => []ReportCbOnlyForReportsUnlessLate
<1>1. IInv => ReportCbOnlyForReportsUnlessLate
  BY DEF IInv, AnswersInv, ReportCbOnlyForReportsUnlessLate
<1>2. QED
  BY <1>1, InvariantHolds, PTL

(* A blocking call with an id beyond int never returns the verdict on      *)
(* itself, whichever calls time out, as long as no two calls race for an id*)
(* (leda.c:767 reads its answer's id as INT_MAX).                          *)
THEOREM BeyondIntUnserved == Spec => []BeyondIntNeverOwn
<1>1. IInv => BeyondIntNeverOwn
  BY DEF IInv, BeyondInv, BeyondIntNeverOwn
<1>2. QED
  BY <1>1, InvariantHolds, PTL

-----------------------------------------------------------------------------
(* The calls with the threads that make them (Leda).                       *)

(* A step of Leda is, for the calls and the workers' answers, a step of    *)
(* ReplyRegistry or none.                                                  *)
LEMMA StepRefines == [LedaNext]_ledaVars => [Next]_vars
<1> SUFFICES ASSUME [LedaNext]_ledaVars PROVE [Next]_vars
  OBVIOUS
<1>1. ASSUME ~aborted, NEW c \in Calls, NEW t, Begin(c, t) PROVE Next
  BY <1>1 DEF Begin, Next, CallStep
<1>2. ASSUME ~aborted, NEW c \in Calls, Continue(c) PROVE Next
  BY <1>2 DEF Continue, Next
<1>3. ASSUME ~aborted, NEW c \in Calls, AnswerReceived(c) PROVE Next
  BY <1>3 DEF AnswerReceived, Next
<1>4. ASSUME ~aborted, NEW w \in Workers, ServeAnswer(w) PROVE Next
  BY <1>4 DEF ServeAnswer, Next
<1>5. ASSUME NEW t \in Tasks, TaskReceived(t) PROVE UNCHANGED vars
  BY <1>5 DEF TaskReceived
<1>6. ASSUME TellState \/ StateTold PROVE UNCHANGED vars
  BY <1>6 DEF TellState, StateTold
<1>7. ASSUME NEW w \in Workers, TakeTask(w) \/ CallbackReturns(w)
      PROVE  UNCHANGED vars
  BY <1>7 DEF TakeTask, CallbackReturns
<1>8. CASE UNCHANGED ledaVars
  BY <1>8 DEF ledaVars
<1>9. QED
  BY <1>1, <1>2, <1>3, <1>4, <1>5, <1>6, <1>7, <1>8 DEF LedaNext

(* The calls keep all that ReplyRegistry promises of them, whichever       *)
(* threads make them: Leda implements ReplyRegistry.                       *)
THEOREM RefinesRegistry == LedaSpec => Spec
<1>1. LedaInit => Init
  BY DEF LedaInit
<1>2. QED
  BY <1>1, StepRefines, PTL DEF LedaSpec, Spec

LEMMA LedaTypeCorrect == LedaSpec => []LedaTypeOK
<1>1. LedaInit => LedaTypeOK
  BY DEF LedaInit, LedaTypeOK
<1>2. LedaTypeOK /\ [LedaNext]_ledaVars => LedaTypeOK'
  BY DEF LedaTypeOK, LedaNext, ledaVars, threadVars, Begin, Continue,
         AnswerReceived, TaskReceived, TellState, StateTold, ServeAnswer,
         TakeTask, CallbackReturns
<1>3. QED
  BY <1>1, <1>2, PTL DEF LedaSpec

(* What every reachable state of Leda knows of the calls it is made of.    *)
LEMMA CallsCorrect == LedaSpec => [](TypeOK /\ ReturnsInv /\ RequestInv)
<1>1. IInv => TypeOK /\ ReturnsInv /\ RequestInv
  BY DEF IInv
<1>2. QED
  BY <1>1, InvariantHolds, RefinesRegistry, PTL

(* A step of a call that has begun leaves its threads where they are.      *)
LEMMA ThreadsStep ==
  /\ TypeOK /\ ReturnsInv /\ RequestInv /\ LedaTypeOK /\ ThreadsInv
  /\ [LedaNext]_ledaVars
  => ThreadsInv'
<1> SUFFICES ASSUME TypeOK, ReturnsInv, RequestInv, LedaTypeOK, ThreadsInv,
                    [LedaNext]_ledaVars
             PROVE  ThreadsInv'
  OBVIOUS
<1> USE ThreadsAssumption, NullAssumption, CallsAssumption
    DEF ThreadsInv, LedaTypeOK, TypeOK, threadVars
<1>1. ASSUME NEW c \in Calls, NEW t \in Workers \cup {APP, NET}, Begin(c, t)
      PROVE  ThreadsInv'
  <2>1. /\ UNCHANGED <<code, request, wpc, cb, net>>
        /\ pc' \in [Calls -> CallSteps]
        /\ pc[c] = "idle" /\ pc'[c] # "idle"
        /\ \A d \in Calls : d # c => pc'[d] = pc[d]
        /\ thread' = [thread EXCEPT ![c] = t]
        /\ t = NET => net = "told"
        /\ t \in Workers => cb[t] # NULL
    BY <1>1 DEF Begin, Refuse, IncMsgId, Goto, Return, CallSteps,
                RunsApplication, workerVars
  <2>2. request[c] = "unsent" /\ code[c] = NULL
    BY <2>1 DEF RequestInv
  <2>3. QED
    BY <2>1, <2>2
<1>2. ASSUME NEW c \in Calls, Continue(c) PROVE ThreadsInv'
  <2>1. UNCHANGED <<thread, cb, net, wpc>>
    BY <1>2 DEF Continue, CallStep, Refuse, IncMsgId, ReadMsgId, InsertReply,
                AddMsg, AddMsgFails, ReportReturns, GetReply, Acquire, GiveUp,
                ReadCode, LookupToRemove, FreeReply, workerVars
  <2>2. \A d \in Calls : pc[d] = "idle" <=> pc'[d] = "idle"
    BY <1>2 DEF Continue, CallStep, Refuse, IncMsgId, ReadMsgId, InsertReply,
                AddMsg, AddMsgFails, ReportReturns, GetReply, Acquire, GiveUp,
                ReadCode, LookupToRemove, FreeReply, Goto, Return
  <2>3. \A d \in Calls : pc[d] = "done" => pc'[d] = "done"
    BY <1>2 DEF Continue, CallStep, Refuse, IncMsgId, ReadMsgId, InsertReply,
                AddMsg, AddMsgFails, ReportReturns, GetReply, Acquire, GiveUp,
                ReadCode, LookupToRemove, FreeReply, Goto, Return,
                ReadyToSend
  <2>4. \A d \in Calls : \/ request'[d] = request[d]
                         \/ request'[d] = "sent"
    BY <1>2 DEF Continue, CallStep, Refuse, IncMsgId, ReadMsgId, InsertReply,
                AddMsg, AddMsgFails, ReportReturns, GetReply, Acquire, GiveUp,
                ReadCode, LookupToRemove, FreeReply, workerVars
  <2>5. \A d \in Calls : thread[d] = NET => code'[d] # d
    <3>1. CASE ReadCode(c)
      <4>1. thread[c] = NET => verdict[ptr[c]] # c
        BY <3>1 DEF ReadCode, RequestInv, Untouched
      <4>2. QED
        BY <3>1, <4>1 DEF ReadCode
    <3>2. CASE ~ReadCode(c)
      BY <1>2, <3>2 DEF Continue, CallStep, Refuse, IncMsgId, ReadMsgId,
                InsertReply, AddMsg, AddMsgFails, ReportReturns, GetReply,
                Acquire, GiveUp, LookupToRemove, FreeReply
    <3>3. QED
      BY <3>1, <3>2
  <2>6. QED
    BY <2>1, <2>2, <2>3, <2>4, <2>5
<1>3. ASSUME NEW c \in Calls, AnswerReceived(c) PROVE ThreadsInv'
  <2>1. /\ net = "loop" /\ UNCHANGED <<pc, code, thread, cb, net, wpc>>
        /\ \A d \in Calls : d # c => request'[d] = request[d]
        /\ request[c] = "sent"
    BY <1>3 DEF AnswerReceived, InLoop, Answer, callVars
  <2>2. \A d \in Calls : ~(thread[d] = NET /\ pc[d] # "done")
    BY <2>1
  <2>3. QED
    BY <2>1, <2>2
<1>4. ASSUME NEW t \in Tasks, TaskReceived(t) PROVE ThreadsInv'
  BY <1>4 DEF TaskReceived, vars, callVars, workerVars
<1>5. CASE TellState
  BY <1>5 DEF TellState, vars, callVars, workerVars
<1>6. CASE StateTold
  BY <1>6 DEF StateTold, InCall, vars, callVars, workerVars
<1>7. ASSUME NEW w \in Workers, ServeAnswer(w) PROVE ThreadsInv'
  <2>1. /\ cb[w] = NULL /\ UNCHANGED <<pc, code, thread, net>>
        /\ \A v \in Workers : v # w => wpc'[v] = wpc[v] /\ cb'[v] = cb[v]
    BY <1>7 DEF ServeAnswer, FreeToServe, WorkerStep, DropEmpty, TakeAnswer,
                SetResult, PostReply, callVars
  <2>2. \A d \in Calls : request[d] \in {"unsent", "sent"} =>
                           request'[d] = request[d]
    BY <1>7 DEF ServeAnswer, WorkerStep, DropEmpty, TakeAnswer, SetResult,
                PostReply
  <2>3. cb'[w] # NULL => wpc'[w] = "idle"
    BY <1>7, <2>1 DEF ServeAnswer, WorkerStep, DropEmpty, TakeAnswer,
                      SetResult, PostReply
  <2>4. \A d \in Calls : thread[d] = w => pc[d] = "done"
    BY <2>1
  <2>5. QED
    BY <2>1, <2>2, <2>3, <2>4
<1>8. ASSUME NEW w \in Workers, TakeTask(w) PROVE ThreadsInv'
  BY <1>8 DEF TakeTask, vars, callVars, workerVars
<1>9. ASSUME NEW w \in Workers, CallbackReturns(w) PROVE ThreadsInv'
  BY <1>9 DEF CallbackReturns, InCall, vars, callVars, workerVars
<1>10. CASE UNCHANGED ledaVars
  BY <1>10 DEF ledaVars, vars, callVars, workerVars
<1>11. QED
  BY <1>1, <1>2, <1>3, <1>4, <1>5, <1>6, <1>7, <1>8, <1>9, <1>10 DEF LedaNext

LEMMA ThreadsCorrect == LedaSpec => []ThreadsInv
<1>1. LedaInit => ThreadsInv
  BY NullAssumption, ThreadsAssumption DEF LedaInit, Init, ThreadsInv
<1>2. QED
  BY <1>1, ThreadsStep, CallsCorrect, LedaTypeCorrect, PTL DEF LedaSpec

(* leda_online called from conn_state_change_cb never returns the verdict  *)
(* on its own request, however its time-out falls.                         *)
THEOREM NetworkCallsStayUnanswered == LedaSpec => []NetworkCallUnanswered
<1>1. ThreadsInv => NetworkCallUnanswered
  BY DEF ThreadsInv, NetworkCallUnanswered, Calls
<1>2. QED
  BY <1>1, ThreadsCorrect, PTL

(* A report that report_reply_cb hears of, be it before the call that made *)
(* it returns, is one whose call succeeds.                                 *)
THEOREM ReportsHeardOfSucceed == LedaSpec => []ReportedCallsSucceed
<1>1. RequestInv => ReportedCallsSucceed
  BY DEF RequestInv, Untouched, ReportedCallsSucceed, Calls
<1>2. QED
  BY <1>1, CallsCorrect, PTL
=============================================================================
