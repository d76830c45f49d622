------------------------------ MODULE Inbound ------------------------------
(***************************************************************************)
(* What happens to the messages of the gateway: the network thread puts    *)
(* the fragments of a message together (ws_client_callback.c), parses it   *)
(* and adds it to the thread pool (cb_ws_recv in leda.c), and a worker     *)
(* runs it (threadpool_recv_proc).  A request makes it call the            *)
(* application and push a response; for an answer see ReplyRegistry.       *)
(*                                                                         *)
(* Messages are numbered in the order the gateway sends them.  A message   *)
(* stands for what the code finds in it, a Shape; its text is the sequence *)
(* of its fragments.  A text that lacks some fragment may parse as any     *)
(* shape, or not at all.  Fragments collect in memory that libwebsockets   *)
(* keeps per connection and clears for a new one.                          *)
(***************************************************************************)
EXTENDS Integers, Sequences, Functions

CONSTANTS
  Workers,     \* threads of the pool
  QueueSize,   \* tasks the pool holds back
  Shapes,      \* what messages can say: a set of Shape
  IntMax,      \* the greatest int
  Hooks,       \* the methods the application has a callback for
  NULL,        \* no buffer, no message
  MaxMsgs,     \* bound: messages
  MaxFrags     \* fragments of the longest message

Msgs == 1..MaxMsgs
Fields  == {"productKey", "deviceName", "properties", "inputData", "identifier"}
Methods == {"getProperty", "setProperty", "callService"}
NoId == -1     \* messageId is missing or not a number

Shape == [messageId : Nat \cup {NoId},
          code      : {"absent", "number", "other"},
          method    : Methods \cup {"absent", "other"},
          payload   : SUBSET Fields,
          convertible : BOOLEAN]  \* json_data_to_struct_data accepts the data

ASSUME InboundAssumption ==
  /\ QueueSize \in Nat \ {0} /\ MaxMsgs \in Nat /\ MaxFrags \in Nat \ {0}
  /\ IntMax \in Nat /\ Hooks \subseteq Methods
  /\ Shapes \subseteq Shape
  /\ NULL \notin Shapes /\ NULL \notin Seq(Msgs \X (1..MaxFrags))

VARIABLES
  up,            \* there is a connection
  sent,          \* number of the last message of the gateway
  shape,         \* shape[n]: what message n says
  size,          \* size[n]: its fragments
  arriving,      \* the message whose fragments are arriving, or 0
  got,           \* the fragments of it that have arrived
  appendBuffer,  \* the text collected so far, or NULL
  parsed,        \* parsed[n]: the parsed_msg_t of message n, as a shape
  heap,          \* the messages whose parsed_msg_t is allocated
  queue,         \* the tasks of the pool that nobody has taken
  doing,         \* doing[w]: the message worker w runs, or 0
  calls,         \* calls of the application, by the message that led to it
  responses,     \* responses pushed, in this order: message and messageId
  cut,           \* history: messages that lost a fragment to a failed malloc
  refused,       \* history: messages the pool refused
  failed         \* history: requests whose response could not be made

gatewayVars == <<up, sent, shape, size>>
textVars    == <<arriving, got, appendBuffer, cut>>
poolVars    == <<queue, doing>>
outVars     == <<calls, responses, failed>>
vars == <<gatewayVars, textVars, parsed, heap, refused, poolVars, outVars>>

Init ==
  /\ up = FALSE /\ sent = 0
  /\ shape = [n \in Msgs |-> NULL] /\ size = [n \in Msgs |-> 0]
  /\ arriving = 0 /\ got = 0 /\ appendBuffer = NULL
  /\ parsed = [n \in Msgs |-> NULL] /\ heap = {}
  /\ queue = <<>> /\ doing = [w \in Workers |-> 0]
  /\ calls = <<>> /\ responses = <<>>
  /\ cut = {} /\ refused = {} /\ failed = {}

-----------------------------------------------------------------------------
(* The gateway and the connection.                                         *)
Connect ==
  /\ ~up
  /\ up' = TRUE
  /\ UNCHANGED <<sent, shape, size, textVars, parsed, heap, refused, poolVars,
                 outVars>>

Send ==
  /\ up /\ arriving = 0 /\ sent < MaxMsgs
  /\ sent' = sent + 1
  /\ \E s \in Shapes, k \in 1..MaxFrags :
       /\ shape' = [shape EXCEPT ![sent + 1] = s]
       /\ size' = [size EXCEPT ![sent + 1] = k]
  /\ arriving' = sent + 1 /\ got' = 0
  /\ UNCHANGED <<up, appendBuffer, cut, parsed, heap, refused, poolVars, outVars>>

(* Mutant: the next connection finds the text of this one.                 *)
CloseKeepingText ==
  /\ up
  /\ up' = FALSE
  /\ arriving' = 0 /\ got' = 0
  /\ UNCHANGED <<sent, shape, size, appendBuffer, cut, parsed, heap, refused,
                 poolVars, outVars>>

(* The connection is closed; a text that is not complete stays behind with *)
(* the memory of the connection.                                           *)
Close ==
  /\ up
  /\ up' = FALSE
  /\ arriving' = 0 /\ got' = 0 /\ appendBuffer' = NULL
  /\ UNCHANGED <<sent, shape, size, cut, parsed, heap, refused, poolVars, outVars>>

-----------------------------------------------------------------------------
(* recvframeAppend: the text with the next fragment, or without it when    *)
(* there is no memory.                                                     *)
Text(buffer) == IF buffer = NULL THEN <<>> ELSE buffer

NextFragment == <<arriving, got + 1>>

Appended(fits) ==
  IF fits THEN Append(Text(appendBuffer), NextFragment) ELSE appendBuffer

NoteCut(fits) == cut' = IF fits THEN cut ELSE cut \cup {arriving}

(* A fragment that is not the last.                                        *)
Fragment ==
  /\ arriving # 0 /\ got + 1 < size[arriving]
  /\ got' = got + 1
  /\ \E fits \in BOOLEAN : appendBuffer' = Appended(fits) /\ NoteCut(fits)
  /\ UNCHANGED <<gatewayVars, arriving, parsed, heap, refused, poolVars, outVars>>

IsWhole(text, n) == text = [k \in 1..size[n] |-> <<n, k>>]

(* What cJSON_Parse can make of a text.                                    *)
Readings(text, n) == IF IsWhole(text, n) THEN {shape[n]} ELSE Shapes

(* The last fragment: the text goes to cb_ws_recv, which adds what it      *)
(* parsed to the pool ...                                                  *)
Received(text, n) ==
  \E s \in Readings(text, n) :
    /\ parsed' = [parsed EXCEPT ![n] = s]
    /\ heap' = heap \cup {n}
    /\ IF Len(queue) < QueueSize
         THEN queue' = Append(queue, n) /\ UNCHANGED refused
         ELSE refused' = refused \cup {n} /\ UNCHANGED queue

(* ... or drops the text: it is NULL or no JSON, or memory is short.       *)
Dropped == UNCHANGED <<parsed, heap, queue, refused>>

FinalFragment ==
  /\ arriving # 0 /\ got + 1 = size[arriving]
  /\ \E fits \in BOOLEAN :
       /\ NoteCut(fits)
       /\ \/ Appended(fits) # NULL /\ Received(Appended(fits), arriving)
          \/ Dropped
  /\ appendBuffer' = NULL
  /\ arriving' = 0 /\ got' = 0
  /\ UNCHANGED <<gatewayVars, doing, outVars>>

-----------------------------------------------------------------------------
(* leda_parse_receive_msg: what kind of message it is, and the branches of *)
(* threadpool_recv_proc that lead a request to its handler.                *)
IsMethod(s) == s.messageId # NoId /\ s.code = "absent" /\ s.method # "absent"

HasData(s) == {"properties", "inputData"} \cap s.payload # {} /\ s.convertible

Serves(s) == /\ IsMethod(s) /\ s.method \in Methods
             /\ {"productKey", "deviceName"} \subseteq s.payload
             /\ HasData(s)
             /\ s.method = "callService" => "identifier" \in s.payload

(* The valueint of a number.                                               *)
ValueInt(i) == IF i > IntMax THEN IntMax ELSE i

Take(w) ==
  /\ doing[w] = 0 /\ queue # <<>>
  /\ doing' = [doing EXCEPT ![w] = Head(queue)]
  /\ queue' = Tail(queue)
  /\ UNCHANGED <<gatewayVars, textVars, parsed, heap, refused, outVars>>

(* Mutant: the message stays allocated when there is nothing to do for it. *)
IgnoreKeeping(w) ==
  /\ doing[w] # 0 /\ ~Serves(parsed[doing[w]])
  /\ doing' = [doing EXCEPT ![w] = 0]
  /\ UNCHANGED <<gatewayVars, textVars, parsed, heap, refused, queue, outVars>>

(* An answer, an invalid message, or a request that lacks something.       *)
Ignore(w) ==
  /\ doing[w] # 0 /\ ~Serves(parsed[doing[w]])
  /\ doing' = [doing EXCEPT ![w] = 0]
  /\ heap' = heap \ {doing[w]}
  /\ UNCHANGED <<gatewayVars, textVars, parsed, refused, queue, outVars>>

(* The application is called if it has a callback for the method.          *)
Called(n) ==
  IF parsed[n].method \in Hooks THEN Append(calls, [to |-> n]) ELSE calls

(* Mutant: the id is that of the message that came last.                   *)
RespondToLast(w) ==
  /\ doing[w] # 0 /\ Serves(parsed[doing[w]])
  /\ doing' = [doing EXCEPT ![w] = 0]
  /\ heap' = heap \ {doing[w]}
  /\ calls' = Called(doing[w])
  /\ LET last == CHOOSE n \in Msgs : parsed[n] # NULL
                   /\ \A m \in Msgs : parsed[m] # NULL => m <= n
     IN responses' = Append(responses,
          [to |-> doing[w], messageId |-> ValueInt(parsed[last].messageId)])
  /\ UNCHANGED <<gatewayVars, textVars, parsed, refused, queue, failed>>

(* The handler: the application is called, if it has a callback, and the   *)
(* response is pushed.                                                     *)
Respond(w) ==
  /\ doing[w] # 0 /\ Serves(parsed[doing[w]])
  /\ doing' = [doing EXCEPT ![w] = 0]
  /\ heap' = heap \ {doing[w]}
  /\ calls' = Called(doing[w])
  /\ responses' = Append(responses,
       [to |-> doing[w], messageId |-> ValueInt(parsed[doing[w]].messageId)])
  /\ UNCHANGED <<gatewayVars, textVars, parsed, refused, queue, failed>>

(* There is no memory for the response or for the send buffer to take it,  *)
(* or before the call for what the application is to fill in.              *)
RespondFails(w) ==
  /\ doing[w] # 0 /\ Serves(parsed[doing[w]])
  /\ doing' = [doing EXCEPT ![w] = 0]
  /\ heap' = heap \ {doing[w]}
  /\ \/ calls' = Called(doing[w])
     \/ parsed[doing[w]].method # "setProperty" /\ UNCHANGED calls
  /\ failed' = failed \cup {doing[w]}
  /\ UNCHANGED <<gatewayVars, textVars, parsed, refused, queue, responses>>

WorkerStep(w) == Take(w) \/ Ignore(w) \/ Respond(w) \/ RespondFails(w)

Next == \/ Connect \/ Send \/ Close \/ Fragment \/ FinalFragment
        \/ \E w \in Workers : WorkerStep(w)

Spec == Init /\ [][Next]_vars

-----------------------------------------------------------------------------
Queued  == Range(queue)
Running == {doing[w] : w \in Workers} \ {0}
Handled == {n \in Msgs : parsed[n] # NULL} \ (heap \cup refused)

TypeOK ==
  /\ up \in BOOLEAN /\ sent \in 0..MaxMsgs
  /\ shape \in [Msgs -> Shapes \cup {NULL}] /\ size \in [Msgs -> 0..MaxFrags]
  /\ arriving \in 0..sent /\ got \in 0..MaxFrags
  /\ appendBuffer # NULL => appendBuffer \in Seq(Msgs \X (1..MaxFrags))
  /\ parsed \in [Msgs -> Shapes \cup {NULL}] /\ heap \subseteq Msgs
  /\ queue \in Seq(Msgs) /\ Len(queue) <= QueueSize
  /\ doing \in [Workers -> Msgs \cup {0}]
  /\ calls \in Seq([to : Msgs])
  /\ responses \in Seq([to : Msgs, messageId : 0..IntMax])
  /\ cut \subseteq Msgs /\ refused \subseteq Msgs /\ failed \subseteq Msgs

(* The text that is being collected belongs to the message that is         *)
(* arriving (ws_client_callback.c:22), even when the connection before was *)
(* closed in the middle of a message, and it is complete so far unless     *)
(* memory was short.                                                       *)
TextIsArriving ==
  appendBuffer # NULL =>
    /\ arriving # 0
    /\ \A i \in DOMAIN appendBuffer : appendBuffer[i][1] = arriving
    /\ arriving \notin cut => appendBuffer = [k \in 1..got |-> <<arriving, k>>]

(* A worker sees what the gateway sent (leda.c:811), unless a fragment was *)
(* left out for want of memory.                                            *)
SeenAsSent == \A n \in Msgs : parsed[n] # NULL /\ n \notin cut => parsed[n] = shape[n]

(* A parsed_msg_t is freed once and by its worker (leda.c:745): those that *)
(* are allocated are queued, being run, or were refused by the pool        *)
(* (leda.c:846), each at one place.                                        *)
MessagesAccounted ==
  /\ heap = Queued \cup Running \cup refused
  /\ Queued \cap Running = {} /\ refused \cap (Queued \cup Running) = {}
  /\ IsInjective(queue)
  /\ \A v, w \in Workers : v # w /\ doing[v] # 0 => doing[v] # doing[w]

(* A request that can be served makes the application be called once and   *)
(* gets one response, although workers overtake each other; nothing else   *)
(* does (leda.c:501).  The response has the id of its request if that is   *)
(* an int; of a response to a greater id this says nothing (leda.c:767).   *)
Targets(out) == {out[i].to : i \in DOMAIN out}

Once(out) == \A i, j \in DOMAIN out : out[i].to = out[j].to => i = j

ResponsesAreDue ==
  /\ Once(calls) /\ Once(responses)
  /\ Targets(calls) \cup Targets(responses) \subseteq {n \in Handled : Serves(parsed[n])}
  /\ \A i \in DOMAIN responses :
       LET n == responses[i].to
       IN /\ parsed[n].messageId <= IntMax =>
               responses[i].messageId = parsed[n].messageId
          /\ parsed[n].method \in Hooks => n \in Targets(calls)
  /\ \A n \in Handled \ failed : Serves(parsed[n]) => n \in Targets(responses)

(* Only the last message of the gateway can be arriving, and it is not yet *)
(* parsed; what is allocated has been parsed.                              *)
FreshInv ==
  /\ arriving # 0 => /\ arriving = sent /\ got < size[arriving]
                     /\ shape[arriving] \in Shapes /\ parsed[arriving] = NULL
  /\ \A n \in Msgs : n > sent => parsed[n] = NULL
  /\ \A n \in heap : parsed[n] # NULL

(* The text so far, also before the first fragment.                        *)
TextInv ==
  arriving # 0 /\ arriving \notin cut =>
    Text(appendBuffer) = [k \in 1..got |-> <<arriving, k>>]

(* Together: an invariant that every step preserves.                       *)
IInv == /\ TypeOK /\ FreshInv /\ TextInv /\ TextIsArriving /\ SeenAsSent
        /\ MessagesAccounted /\ ResponsesAreDue
=============================================================================
