--------------------------- MODULE ReplyRegistry ---------------------------
(***************************************************************************)
(* How a request sent to the gateway finds its answer (sdk/leda.c).        *)
(*                                                                         *)
(* leda_send_method (leda_online, leda_offline) draws a message id, lists  *)
(* a ws_msg_reply_t under it, queues the request and waits at most ten     *)
(* seconds on the entry's semaphore.  leda_asyn_send_method                *)
(* (leda_report_properties, leda_report_event) draws an id, queues the     *)
(* request and returns.  The workers of the thread pool take the answers:  *)
(* an answer whose id is listed is written into the entry and its          *)
(* semaphore posted, any other goes to report_reply_cb.                    *)
(*                                                                         *)
(* Every lock section is one step; what the code does between two lock     *)
(* sections is a step of its own, so that other threads come in between.   *)
(* Pointers are addresses of a heap: a freed entry can still be written    *)
(* and posted through an old pointer, and malloc may give its address to   *)
(* the next entry.  The verdict the gateway sends to a request is          *)
(* represented by the request itself, so that the model can tell whose     *)
(* verdict a caller was given.                                             *)
(*                                                                         *)
(* An id is an unsigned int where it is drawn and sent and an int wherever *)
(* it is compared: the list holds and is searched for its conversion to    *)
(* int, while the id of an answer is what cJSON makes of the number, which *)
(* stops at INT_MAX.  The two agree up to INT_MAX only.                    *)
(***************************************************************************)
EXTENDS Integers, FiniteSets

CONSTANTS
  SyncCalls,    \* calls of leda_online and leda_offline
  ReportCalls,  \* calls of leda_report_properties and leda_report_event
  Workers,      \* threads of the pool
  Addrs,        \* addresses malloc can give to a ws_msg_reply_t
  IntMax,       \* INT_MAX
  FirstIds,     \* what the calls returned before these can have left in g_msg_id
  NULL

Calls == SyncCalls \cup ReportCalls

(* The values of an unsigned int.                                          *)
MsgIds == 0..(2 * IntMax + 1)

ASSUME CallsAssumption == SyncCalls \cap ReportCalls = {}
ASSUME NullAssumption  == NULL \notin Addrs /\ NULL \notin Calls
ASSUME IdsAssumption   == IntMax \in Nat \ {0} /\ FirstIds \subseteq MsgIds
(* The ids do not come round to the first of these calls.                  *)
ASSUME FewCalls ==
  IsFiniteSet(Calls) /\ Cardinality(Calls) <= 2 * IntMax + 2

VARIABLES
  \* the callers
  g_msg_id,   \* the counter the ids are drawn from
  idOf,       \* the id each call drew, NoId before
  pc,         \* where each call is
  ptr,        \* the ws_msg_reply_t* each call holds
  ret,        \* what each call has to return
  code,       \* the verdict leda_send_method returns when ret is success
  \* the heap
  listed,     \* entries allocated and in g_ws_msg_reply_list
  msg_id, verdict, sem,   \* the fields of the entry at each address
  at, inserts, \* insertion stamps: list_add puts the newest entry first
  \* the gateway and the pool
  request,    \* the request of each call, and what became of its answer
  wpc, job, wptr,  \* per worker: where it is, its answer, its pointer
  reported,   \* requests whose answer was given to report_reply_cb
  \* history and failure
  raced,      \* two calls were in _ws_get_msg_id at the same time
  aborted     \* free of a freed entry: the C library stops the process

callVars    == <<g_msg_id, idOf, pc, ptr, ret, code, raced>>
heapVars    == <<listed, msg_id, verdict, sem, at, inserts>>
workerVars  == <<request, wpc, job, wptr, reported>>
vars == <<callVars, heapVars, workerVars, aborted>>

(* Not the value of any int, so never found.                               *)
NoId == -IntMax - 2

CallSteps == {"idle", "drawing", "drawn", "inserted", "sent", "waiting",
              "acquired", "remove", "free", "done"}
Returns   == {"none", "success", "error", "timeout", "not_registered"}
Requests  == {"unsent", "sent", "answered", "empty", "taken"}

(* The state before these calls: leda_init has emptied everything, or the  *)
(* calls before them have returned.                                        *)
Init ==
  /\ g_msg_id \in FirstIds
  /\ idOf = [c \in Calls |-> NoId]
  /\ pc = [c \in Calls |-> "idle"]
  /\ ptr = [c \in Calls |-> NULL]
  /\ ret = [c \in Calls |-> "none"]
  /\ code = [c \in Calls |-> NULL]
  /\ listed = {}
  /\ msg_id = [a \in Addrs |-> NoId]
  /\ verdict = [a \in Addrs |-> NULL]
  /\ sem = [a \in Addrs |-> 0]
  /\ at = [a \in Addrs |-> 0]
  /\ inserts = 0
  /\ request = [c \in Calls |-> "unsent"]
  /\ wpc = [w \in Workers |-> "idle"]
  /\ job = [w \in Workers |-> NULL]
  /\ wptr = [w \in Workers |-> NULL]
  /\ reported = {}
  /\ raced = FALSE
  /\ aborted = FALSE

-----------------------------------------------------------------------------
(* Searching the list.                                                     *)

(* The conversion of an unsigned int to int where an id becomes the        *)
(* argument of _ws_insert_reply, _ws_remove_reply and _ws_get_reply_result.*)
AsInt(id) == IF id > IntMax THEN id - (2 * IntMax + 2) ELSE id

(* The int the reply of c is listed and looked up under.                   *)
KeyOf(c) == AsInt(idOf[c])

(* Mutant: the answer's id is converted like the id of the request.        *)
ConvertedId(id) == AsInt(id)

(* valueint of the id in the answer: cJSON stops at INT_MAX.               *)
ValueInt(id) == IF id > IntMax THEN IntMax ELSE id

Matches(a, id) == a \in listed /\ msg_id[a] = id

(* Mutant: the search does not compare ids.                                *)
FindsNewest(a, id) == a \in listed /\ \A b \in listed : at[b] <= at[a]

(* _ws_get_reply_by_msg_id returns a: the newest entry listed under id.    *)
Finds(a, id) ==
  /\ Matches(a, id)
  /\ \A b \in Addrs : Matches(b, id) => at[b] <= at[a]

FindsNone(id) == \A a \in Addrs : ~Matches(a, id)

-----------------------------------------------------------------------------
(* The callers.                                                            *)

Goto(c, step) == pc' = [pc EXCEPT ![c] = step]

Return(c, r) == /\ Goto(c, "done")
                /\ ret' = [ret EXCEPT ![c] = r]

(* Refused before an id is drawn (no connection, a NULL argument, no       *)
(* memory), or after it (the message cannot be printed, the data cannot    *)
(* be converted).                                                          *)
Refuse(c) ==
  /\ pc[c] \in {"idle", "drawn"}
  /\ Return(c, "error")
  /\ UNCHANGED <<g_msg_id, idOf, ptr, code, raced, heapVars, workerVars>>

(* Mutant: a counter too narrow for the calls in flight.                   *)
NarrowMsgId(id) == (id % 2) + 1

NextMsgId(id) == IF id = 2 * IntMax + 1 THEN 0 ELSE id + 1

(* _ws_get_msg_id, inside the lock ...                                     *)
IncMsgId(c) ==
  /\ pc[c] = "idle"
  /\ Goto(c, "drawing")
  /\ g_msg_id' = NextMsgId(g_msg_id)
  /\ raced' = (raced \/ \E d \in Calls : pc[d] = "drawing")
  /\ UNCHANGED <<idOf, ptr, ret, code, heapVars, workerVars>>

(* ... and its return statement, after the unlock.                         *)
ReadMsgId(c) ==
  /\ pc[c] = "drawing"
  /\ Goto(c, "drawn")
  /\ idOf' = [idOf EXCEPT ![c] = g_msg_id]
  /\ UNCHANGED <<g_msg_id, ptr, ret, code, raced, heapVars, workerVars>>

(* Mutant: sem_init with the value 1.                                      *)
NewPostedEntry(a, id) ==
  /\ listed' = listed \cup {a}
  /\ msg_id' = [msg_id EXCEPT ![a] = id]
  /\ verdict' = [verdict EXCEPT ![a] = NULL]
  /\ sem' = [sem EXCEPT ![a] = 1]
  /\ at' = [at EXCEPT ![a] = inserts + 1]
  /\ inserts' = inserts + 1

(* A new entry at address a, zeroed and then filled in, the newest of the  *)
(* list.                                                                   *)
NewEntry(a, id) ==
  /\ listed' = listed \cup {a}
  /\ msg_id' = [msg_id EXCEPT ![a] = id]
  /\ verdict' = [verdict EXCEPT ![a] = NULL]
  /\ sem' = [sem EXCEPT ![a] = 0]
  /\ at' = [at EXCEPT ![a] = inserts + 1]
  /\ inserts' = inserts + 1

InsertReply(c) ==
  /\ c \in SyncCalls /\ pc[c] = "drawn"
  /\ \E a \in Addrs \ listed : NewEntry(a, KeyOf(c))
  /\ Goto(c, "inserted")
  /\ UNCHANGED <<g_msg_id, idOf, ptr, ret, code, raced, workerVars>>

(* Mutant: the request is queued before its reply is listed.               *)
ReadyUnlisted(c) == pc[c] = "drawn"

ReadyToSend(c) == pc[c] = (IF c \in SyncCalls THEN "inserted" ELSE "drawn")

(* wsc_add_msg accepts the request: from here on it can be answered.       *)
AddMsg(c) ==
  /\ ReadyToSend(c)
  /\ Goto(c, "sent")
  /\ request' = [request EXCEPT ![c] = "sent"]
  /\ UNCHANGED <<g_msg_id, idOf, ptr, ret, code, raced, heapVars,
                 wpc, job, wptr, reported>>

(* Mutant: wsc_add_msg fails after the message is in the send buffer.      *)
AddMsgFailsLate(c) ==
  /\ ReadyToSend(c)
  /\ Goto(c, "remove")
  /\ ret' = [ret EXCEPT ![c] = "error"]
  /\ request' = [request EXCEPT ![c] = "sent"]
  /\ UNCHANGED <<g_msg_id, idOf, ptr, code, raced, heapVars,
                 wpc, job, wptr, reported>>

(* wsc_add_msg fails.  Both kinds of call then remove the reply, although  *)
(* a report never listed one.                                              *)
AddMsgFails(c) ==
  /\ ReadyToSend(c)
  /\ Goto(c, "remove")
  /\ ret' = [ret EXCEPT ![c] = "error"]
  /\ UNCHANGED <<g_msg_id, idOf, ptr, code, raced, heapVars, workerVars>>

(* leda_asyn_send_method stores the id for its caller and returns.         *)
ReportReturns(c) ==
  /\ c \in ReportCalls /\ pc[c] = "sent"
  /\ Return(c, "success")
  /\ UNCHANGED <<g_msg_id, idOf, ptr, code, raced, heapVars, workerVars>>

(* _ws_get_reply_result: the entry is looked up once and kept by pointer.  *)
GetReply(c) ==
  /\ c \in SyncCalls /\ pc[c] = "sent"
  /\ \/ \E a \in Addrs : /\ Finds(a, KeyOf(c))
                         /\ ptr' = [ptr EXCEPT ![c] = a]
                         /\ Goto(c, "waiting")
                         /\ UNCHANGED ret
     \/ /\ FindsNone(KeyOf(c))
        /\ Return(c, "not_registered")
        /\ UNCHANGED ptr
  /\ UNCHANGED <<g_msg_id, idOf, code, raced, heapVars, workerVars>>

Posted(a) == sem[a] > 0

(* sem_timedwait takes the semaphore ...                                   *)
Acquire(c) ==
  /\ pc[c] = "waiting" /\ Posted(ptr[c])
  /\ sem' = [sem EXCEPT ![ptr[c]] = @ - 1]
  /\ Goto(c, "acquired")
  /\ UNCHANGED <<g_msg_id, idOf, ptr, ret, code, raced,
                 listed, msg_id, verdict, at, inserts, workerVars>>

(* Mutant: sem_wait instead of sem_timedwait.                              *)
NoDeadline(c) == FALSE

(* The deadline may pass at any moment, but sem_timedwait only reports it  *)
(* when it cannot take the semaphore.                                      *)
DeadlinePassed(c) == ~Posted(ptr[c])

(* Mutant: the time-out path returns without removing the reply.           *)
GiveUpOnly(c) ==
  /\ pc[c] = "waiting" /\ DeadlinePassed(c)
  /\ Return(c, "timeout")
  /\ UNCHANGED <<g_msg_id, idOf, ptr, code, raced, heapVars, workerVars>>

(* ... or gives up.                                                        *)
GiveUp(c) ==
  /\ pc[c] = "waiting" /\ DeadlinePassed(c)
  /\ ret' = [ret EXCEPT ![c] = "timeout"]
  /\ Goto(c, "remove")
  /\ UNCHANGED <<g_msg_id, idOf, ptr, code, raced, heapVars, workerVars>>

(* *code = reply->code, read without the lock.                             *)
ReadCode(c) ==
  /\ pc[c] = "acquired"
  /\ code' = [code EXCEPT ![c] = verdict[ptr[c]]]
  /\ ret' = [ret EXCEPT ![c] = "success"]
  /\ Goto(c, "remove")
  /\ UNCHANGED <<g_msg_id, idOf, ptr, raced, heapVars, workerVars>>

(* _ws_remove_reply, first lock section: look the entry up again ...       *)
LookupToRemove(c) ==
  /\ pc[c] = "remove"
  /\ \/ \E a \in Addrs : /\ Finds(a, KeyOf(c))
                         /\ ptr' = [ptr EXCEPT ![c] = a]
                         /\ Goto(c, "free")
     \/ /\ FindsNone(KeyOf(c))
        /\ Goto(c, "done")
        /\ UNCHANGED ptr
  /\ UNCHANGED <<g_msg_id, idOf, ret, code, raced, heapVars, workerVars>>

(* ... second lock section: unlink and free what the first one found.      *)
(* When it has been freed meanwhile and not been allocated again, the      *)
(* C library detects the double free and aborts.                           *)
FreeReply(c) ==
  /\ pc[c] = "free"
  /\ Goto(c, "done")
  /\ aborted' = (ptr[c] \notin listed)
  /\ listed' = listed \ {ptr[c]}
  /\ UNCHANGED <<g_msg_id, idOf, ptr, ret, code, raced,
                 msg_id, verdict, sem, at, inserts, workerVars>>

-----------------------------------------------------------------------------
(* The gateway answers a request it received at most once, at any later    *)
(* time; the answer may have no "payload".                                 *)
Answer(c) ==
  /\ request[c] = "sent"
  /\ \E r \in {"answered", "empty"} : request' = [request EXCEPT ![c] = r]
  /\ UNCHANGED <<callVars, heapVars, wpc, job, wptr, reported>>

-----------------------------------------------------------------------------
(* The workers: threadpool_recv_proc on an answer (MSG_RSP).               *)

(* No payload: cJSON_PrintUnformatted(NULL) is NULL and the answer is      *)
(* dropped.                                                                *)
DropEmpty(w) ==
  /\ wpc[w] = "idle"
  /\ \E c \in Calls :
       /\ request[c] = "empty"
       /\ request' = [request EXCEPT ![c] = "taken"]
  /\ UNCHANGED <<callVars, heapVars, wpc, job, wptr, reported>>

(* Mutant: an answer nobody waits for is dropped.                          *)
IgnoreReply(c) == UNCHANGED reported

(* The answer to c is handed to the application's report_reply_cb.         *)
ReportReplyCb(c) == reported' = reported \cup {c}

(* _ws_set_reply_result, first lock section: find the entry.  When there   *)
(* is none the answer is taken for the answer to a report.                 *)
TakeAnswer(w) ==
  /\ wpc[w] = "idle"
  /\ \E c \in Calls :
       /\ request[c] = "answered"
       /\ request' = [request EXCEPT ![c] = "taken"]
       /\ \/ \E a \in Addrs :
               /\ Finds(a, ValueInt(idOf[c]))
               /\ wpc' = [wpc EXCEPT ![w] = "found"]
               /\ job' = [job EXCEPT ![w] = c]
               /\ wptr' = [wptr EXCEPT ![w] = a]
               /\ UNCHANGED reported
          \/ /\ FindsNone(ValueInt(idOf[c]))
             /\ ReportReplyCb(c)
             /\ UNCHANGED <<wpc, job, wptr>>
  /\ UNCHANGED <<callVars, heapVars>>

(* Second lock section: reply->code = code, whatever is at that address    *)
(* by now.                                                                 *)
SetResult(w) ==
  /\ wpc[w] = "found"
  /\ wpc' = [wpc EXCEPT ![w] = "written"]
  /\ verdict' = [verdict EXCEPT ![wptr[w]] = job[w]]
  /\ UNCHANGED <<callVars, listed, msg_id, sem, at, inserts,
                 request, job, wptr, reported>>

(* Mutant: the worker also removes the reply it has posted.                *)
PostAndRemove(w) ==
  /\ wpc[w] = "written"
  /\ wpc' = [wpc EXCEPT ![w] = "idle"]
  /\ sem' = [sem EXCEPT ![wptr[w]] = @ + 1]
  /\ listed' = listed \ {wptr[w]}
  /\ job' = [job EXCEPT ![w] = NULL]
  /\ wptr' = [wptr EXCEPT ![w] = NULL]
  /\ UNCHANGED <<callVars, msg_id, verdict, at, inserts,
                 request, reported>>

(* sem_post, after the unlock.                                             *)
PostReply(w) ==
  /\ wpc[w] = "written"
  /\ wpc' = [wpc EXCEPT ![w] = "idle"]
  /\ sem' = [sem EXCEPT ![wptr[w]] = @ + 1]
  /\ job' = [job EXCEPT ![w] = NULL]
  /\ wptr' = [wptr EXCEPT ![w] = NULL]
  /\ UNCHANGED <<callVars, listed, msg_id, verdict, at, inserts,
                 request, reported>>

-----------------------------------------------------------------------------
CallStep(c) ==
  \/ Refuse(c) \/ IncMsgId(c) \/ ReadMsgId(c) \/ InsertReply(c)
  \/ AddMsg(c) \/ AddMsgFails(c) \/ ReportReturns(c) \/ GetReply(c)
  \/ Acquire(c) \/ GiveUp(c) \/ ReadCode(c) \/ LookupToRemove(c)

WorkerStep(w) ==
  DropEmpty(w) \/ TakeAnswer(w) \/ SetResult(w) \/ PostReply(w)

Next ==
  /\ ~aborted
  /\ \/ \E c \in Calls : (CallStep(c) \/ Answer(c)) /\ UNCHANGED aborted
     \/ \E c \in Calls : FreeReply(c)
     \/ \E w \in Workers : WorkerStep(w) /\ UNCHANGED aborted

Spec == Init /\ [][Next]_vars

-----------------------------------------------------------------------------
TypeOK ==
  /\ g_msg_id \in MsgIds
  /\ idOf \in [Calls -> MsgIds \cup {NoId}]
  /\ pc \in [Calls -> CallSteps]
  /\ ptr \in [Calls -> Addrs \cup {NULL}]
  /\ \A c \in Calls : pc[c] \in {"waiting", "acquired", "free"} => ptr[c] \in Addrs
  /\ ret \in [Calls -> Returns]
  /\ code \in [Calls -> Calls \cup {NULL}]
  /\ listed \subseteq Addrs
  /\ msg_id \in [Addrs -> Int]
  /\ verdict \in [Addrs -> Calls \cup {NULL}]
  /\ sem \in [Addrs -> Nat]
  /\ at \in [Addrs -> Nat]
  /\ inserts \in Nat
  /\ request \in [Calls -> Requests]
  /\ wpc \in [Workers -> {"idle", "found", "written"}]
  /\ job \in [Workers -> Calls \cup {NULL}]
  /\ wptr \in [Workers -> Addrs \cup {NULL}]
  /\ \A w \in Workers : wpc[w] # "idle" => job[w] \in Calls /\ wptr[w] \in Addrs
  /\ reported \subseteq Calls
  /\ raced \in BOOLEAN
  /\ aborted \in BOOLEAN

(* The id of a message identifies it (protocol-design-description.md,      *)
(* "messageId").                                                           *)
UniqueIds ==
  \A c, d \in Calls : c # d /\ idOf[c] # NoId => idOf[c] # idOf[d]

(* _ws_get_msg_id is right when no two calls are in it at the same time.   *)
UniqueIdsUnlessRaced == raced \/ UniqueIds

(* _ws_remove_reply looks an entry up in one lock section and frees it in  *)
(* another: nobody frees it in between, so no entry is freed twice.        *)
NoDoubleFree == ~raced => ~aborted

(* While leda_send_method waits on the semaphore, reads the verdict or     *)
(* frees the entry, the entry is allocated and is the one it listed.       *)
HoldsOwnEntry ==
  ~raced => \A c \in Calls :
     pc[c] \in {"waiting", "acquired", "free"} => Matches(ptr[c], KeyOf(c))

(* Every path through leda_send_method removes the entry it listed: when   *)
(* the calls have returned, the list is empty.                             *)
NothingLeftListed ==
  ~raced /\ (\A c \in Calls : pc[c] \in {"idle", "done"}) => listed = {}

TimedOut(c) == ret[c] = "timeout"

(* What the answers are delivered under: ids drawn without a race, no call *)
(* timed out, and no id so large that the answer's id is read back as      *)
(* another one (leda.c:767).  With such an id in flight the call that drew *)
(* INT_MAX can be given two answers, and its second answer's worker then   *)
(* holds a stale entry: no call is safe, whatever its own id.              *)
Undisturbed ==
  /\ ~raced
  /\ \A c \in Calls : ~TimedOut(c) /\ idOf[c] <= IntMax

(* leda_send_method returns the verdict on its own request, never the      *)
(* placeholder the entry is created with and never the verdict on another  *)
(* request, as long as no call has timed out and no id is beyond int.      *)
VerdictIsOwn ==
  Undisturbed =>
     \A c \in SyncCalls : /\ ret[c] # "not_registered"
                          /\ ret[c] = "success" => code[c] = c

(* report_reply_cb is only called about reports as long as no call has     *)
(* timed out and no id is beyond int: the answer to a call that waits is   *)
(* never taken for the answer to a report.  (After a time-out even a call  *)
(* that did not give up can be woken by a late post and have its own       *)
(* answer sent there.)                                                     *)
ReportCbOnlyForReportsUnlessLate == Undisturbed => reported \subseteq ReportCalls

(* An answer whose id is beyond int is looked up under INT_MAX while its   *)
(* caller waits under a negative number: leda_online and leda_offline then *)
(* never return the verdict on themselves, be it after a time-out or       *)
(* because a worker with a stale entry woke them.                          *)
BeyondIntNeverOwn ==
  ~raced => \A c \in SyncCalls :
     idOf[c] > IntMax /\ ret[c] = "success" => code[c] # c

-----------------------------------------------------------------------------
(* Why the invariants above hold: their inductive strengthening.           *)

Drawn(c) == pc[c] \notin {"idle", "drawing", "done"}

(* How many ids have been drawn.                                           *)
Draws == Cardinality({c \in Calls : pc[c] = "drawing" \/ idOf[c] # NoId})

(* How many ids have been drawn since id, the counter having wrapped or    *)
(* not.                                                                    *)
Age(id) == g_msg_id - id + (IF id <= g_msg_id THEN 0 ELSE 2 * IntMax + 2)

(* As long as draws do not overlap, the ids drawn are among the last Draws *)
(* values of the counter, and a value that is still to be read is not      *)
(* among them.                                                             *)
IdsInv ==
  ~raced =>
    /\ UniqueIds
    /\ \A c \in Calls : /\ pc[c] \in {"idle", "drawing"} => idOf[c] = NoId
                        /\ Drawn(c) => idOf[c] # NoId
                        /\ idOf[c] # NoId => Age(idOf[c]) < Draws
    /\ \A c, d \in Calls :
         pc[c] = "drawing" /\ idOf[d] # NoId => idOf[d] # g_msg_id
    /\ \A c, d \in Calls : pc[c] = "drawing" /\ pc[d] = "drawing" => c = d

(* The steps of leda_send_method between listing its entry and freeing it. *)
Registered(c) ==
  /\ c \in SyncCalls
  /\ pc[c] \in {"inserted", "sent", "waiting", "acquired", "remove", "free"}

(* Entries and calls that are registered correspond one to one.            *)
EntriesInv ==
  ~raced =>
    /\ ~aborted
    /\ \A c \in Calls : Registered(c) => \E a \in Addrs : Matches(a, KeyOf(c))
    /\ \A a \in listed : \E c \in Calls : Registered(c) /\ msg_id[a] = KeyOf(c)
    /\ \A a, b \in listed : msg_id[a] = msg_id[b] => a = b
    /\ \A c \in Calls : pc[c] \in {"waiting", "acquired", "free"} =>
                          c \in SyncCalls /\ Matches(ptr[c], KeyOf(c))

(* Nothing is there to return before leda_send_method stops waiting.       *)
ReturnsInv ==
  \A c \in Calls :
    pc[c] \notin {"remove", "free", "done"} => ret[c] = "none"

NoWorkerOn(c) == \A w \in Workers : wpc[w] # "idle" => job[w] # c

(* The answer to c has been delivered to the entry at a.                   *)
Delivered(a, c) == verdict[a] = c /\ request[c] = "taken" /\ NoWorkerOn(c)

(* Where a caller is against where its request is; what it has read.       *)
CallerInv(c) ==
  /\ request[c] \in {"sent", "answered", "empty"} => pc[c] \in {"sent", "waiting"}
  /\ pc[c] \in {"idle", "drawing", "drawn", "inserted"} => request[c] = "unsent"
  /\ pc[c] = "acquired" => Delivered(ptr[c], c)
  /\ ret[c] # "not_registered"
  /\ ret[c] = "success" => code[c] = c

(* A worker that serves an answer holds the entry its caller waits on.     *)
WorkerInv(w) ==
  wpc[w] # "idle" =>
    /\ job[w] \in SyncCalls
    /\ request[job[w]] = "taken"
    /\ pc[job[w]] \in {"sent", "waiting"}
    /\ Matches(wptr[w], KeyOf(job[w]))
    /\ sem[wptr[w]] = 0
    /\ wpc[w] = "written" => verdict[wptr[w]] = job[w]

OneWorkerPerAnswer ==
  \A w, v \in Workers :
    wpc[w] # "idle" /\ wpc[v] # "idle" /\ job[w] = job[v] => w = v

(* A semaphore is posted once, after the verdict has been written.         *)
PostedInv(a) ==
  sem[a] > 0 =>
    /\ sem[a] = 1
    /\ \E c \in SyncCalls : /\ msg_id[a] = KeyOf(c)
                           /\ pc[c] \in {"sent", "waiting"}
                           /\ Delivered(a, c)

(* As long as no call times out, every answer reaches its own caller.      *)
AnswersInv ==
  Undisturbed =>
    /\ \A c \in SyncCalls : CallerInv(c)
    /\ \A w \in Workers : WorkerInv(w)
    /\ OneWorkerPerAnswer
    /\ \A a \in listed : PostedInv(a)
    /\ reported \subseteq ReportCalls

(* Nothing of the answer to c has reached a worker, an entry or the        *)
(* application.                                                            *)
Untouched(c) ==
  /\ NoWorkerOn(c)
  /\ \A a \in Addrs : verdict[a] # c
  /\ c \notin reported

(* How far a call and its request have come.                               *)
RequestInv ==
  \A c \in Calls :
    /\ pc[c] \in {"idle", "drawing", "drawn", "inserted"} => request[c] = "unsent"
    /\ request[c] # "taken" => Untouched(c)
    /\ pc[c] \notin {"remove", "free", "done"} => code[c] = NULL
    /\ c \in ReportCalls /\ request[c] # "unsent" =>
         \/ pc[c] = "sent" /\ ret[c] = "none"
         \/ pc[c] = "done" /\ ret[c] = "success"

(* An answer beyond int is on its way to another entry than its caller's,  *)
(* whoever timed out.                                                      *)
BeyondInv ==
  ~raced => \A c \in SyncCalls : idOf[c] > IntMax =>
    /\ \A w \in Workers : wpc[w] # "idle" /\ job[w] = c /\ Registered(c) =>
         ~Matches(wptr[w], KeyOf(c))
    /\ \A a \in Addrs : Matches(a, KeyOf(c)) /\ Registered(c) => verdict[a] # c
    /\ code[c] # c

(* Together: an invariant that every step preserves.                       *)
IInv ==
  /\ TypeOK /\ IdsInv /\ EntriesInv
  /\ ReturnsInv /\ AnswersInv /\ RequestInv /\ BeyondInv

-----------------------------------------------------------------------------
(* Every call of leda_online, leda_offline and leda_report_* returns.      *)
CallsReturn ==
  \A c \in Calls : pc[c] # "idle" ~> (pc[c] = "done" \/ aborted)

(* The answer to a report reaches report_reply_cb, unless its id is beyond *)
(* int.                                                                    *)
ReportAnswersDelivered ==
  \A c \in ReportCalls :
    request[c] = "answered" ~>
      (c \in reported \/ idOf[c] > IntMax \/ raced \/ aborted)

-----------------------------------------------------------------------------
(* What the documentation promises and the code does not keep.             *)

(* leda.h says that leda_online and leda_offline return LE_SUCCESS when    *)
(* they succeeded and an error code when they failed: what they return as  *)
(* the verdict is the verdict on this call, even when ids are unique.      *)
VerdictAlwaysOwn ==
  UniqueIds => \A c \in SyncCalls : ret[c] = "success" => code[c] = c
=============================================================================
