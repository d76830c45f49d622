----------------------------- MODULE DeviceData -----------------------------
(***************************************************************************)
(* The data of the devices on its way through the SDK (sdk/leda.c).        *)
(*                                                                         *)
(* A report turns the application's data into JSON; a request turns JSON   *)
(* into data for a callback of the application and, for "get" and          *)
(* "service", what the application puts there into JSON.  The message is   *)
(* printed (JsonPrint) and given to the websocket client.  Each step may   *)
(* find no memory, and what it does then differs from step to step: some   *)
(* give up and release what they have, some go on without the field, and   *)
(* some forget what they hold.                                             *)
(*                                                                         *)
(* One exchange is modelled from its beginning to its end, beside any      *)
(* other call of the printing functions.  Texts are sequences of bytes.  A *)
(* number is its whole part and whether it has more than six decimals; the *)
(* fields of a message before its payload are one field, messageId.        *)
(***************************************************************************)
EXTENDS JsonPrint

CONSTANTS
  Reports,      \* what an application reports: sequences of data
  Requests,     \* what the gateway asks, and how the application answers
  KeyLength,    \* MAX_PARAM_NAME_LENGTH, 64
  ValueLength,  \* MAX_PARAM_VALUE_LENGTH, 2048
  OutputMax,    \* service_output_max_count
  MaxFailures   \* bound: allocations that fail

ASSUME LengthsAssumption ==
  /\ KeyLength \in Nat \ {0} /\ ValueLength \in Nat \ {0}
  /\ OutputMax \in Nat /\ MaxFailures \in Nat

(* The keys, the types and the other words of the messages: one byte each. *)
Names == {"", "code", "messageId", "payload", "data", "identifier", "type", "value",
          "int", "bool", "enum", "float", "double", "text", "date", "struct", "array",
          "invalid", "(null)", "."}

ASSUME NamesAssumption == Names \subseteq Bytes

(* The data.  A value of an item is a number, a string, a tree, or true or *)
(* false, which is 1 or 0; the text of a datum is a numeral, a text, or    *)
(* the text of a tree.                                                     *)

IntTypes  == {"int", "bool", "enum"}
RealTypes == {"float", "double"}
TextTypes == {"text", "date"}
TreeTypes == {"struct", "array"}
KnownTypes == IntTypes \cup RealTypes \cup TextTypes \cup TreeTypes

Values ==
  {v \in [is : {"number", "bool", "text", "tree", "unset"}, n : Int, fine : BOOLEAN,
          doc : Trees \cup {<<>>}, text : Seq(Bytes)] :
     /\ v.is = "tree" => v.doc # <<>>
     /\ v.is = "bool" => v.n \in {0, 1}}

IsSequence(s) == s \in Seq(Range(s))

(* What an application gives, and what is in an item of a request: the     *)
(* value of a struct or an array is whatever JSON there is.                *)
IsDatum(d) == /\ d.key \in Seq(Bytes) /\ d.value \in Values /\ d.value.is # "bool"
              /\ d.type \in TextTypes => d.value.is = "text"
IsItem(item) == /\ item.is \in {"item", "name"}
                /\ item.key \in Seq(Bytes) /\ item.value \in Values
                /\ item.is = "item" /\ item.type \in TreeTypes => item.value.is = "tree"

ASSUME ExchangesAssumption ==
  /\ \A r \in Reports : IsSequence(r) /\ \A i \in DOMAIN r : IsDatum(r[i])
  /\ \A r \in Requests :
       /\ r.kind \in {"get", "set", "service"} /\ r.hook \in BOOLEAN
       /\ IsSequence(r.items) /\ \A i \in DOMAIN r.items : IsItem(r.items[i])
       /\ IsSequence(r.gives) /\ \A i \in DOMAIN r.gives : IsDatum(r.gives[i])
       /\ r.kind = "service" => Len(IF r.echo THEN r.items ELSE r.gives) <= OutputMax

VARIABLES
  job,      \* the report or request in hand
  at,       \* where it is
  data,     \* leda_device_data_t[]: decoded, or to be encoded
  items,    \* the JSON items encoded so far
  lost,     \* the fields the message goes without
  code,     \* the code of a response: 0 or an error
  sent,     \* the bytes given to the websocket client
  heap,     \* what is allocated, by the pointer to it
  \* history
  failures  \* allocations that have failed

exchangeVars == <<job, at, data, items, lost, code, sent, heap, failures>>
dataVars == <<printVars, exchangeVars>>

NoJob == [kind |-> "none"]
Nothing == <<>>    \* no text has been sent

DataInit ==
  /\ PrintInit
  /\ job = NoJob /\ at = "idle"
  /\ data = <<>> /\ items = <<>> /\ lost = {}
  /\ code = 0 /\ sent = Nothing
  /\ heap = {} /\ failures = 0

(* So many allocations find no memory in this step.                        *)
Fail(n) == /\ failures + n <= MaxFailures
           /\ failures' = failures + n

-----------------------------------------------------------------------------
(* The values.                                                             *)

Number(n, fine) == [is |-> "number", n |-> n, fine |-> fine, doc |-> <<>>, text |-> <<>>]
Text(bytes)     == [is |-> "text", n |-> 0, fine |-> FALSE, doc |-> <<>>, text |-> bytes]
Tree(doc)       == [is |-> "tree", n |-> 0, fine |-> FALSE, doc |-> doc, text |-> <<>>]
Unset           == [is |-> "unset", n |-> 0, fine |-> FALSE, doc |-> <<>>, text |-> <<>>]

Cut(bytes, length) == SubSeq(bytes, 1, Min({Len(bytes), length - 1}))

(* An int as strtol and a cast make it, and as cJSON saturates it.         *)
WrappedInt(n) == ((n + IntMax + 1) % (2 * (IntMax + 1))) - (IntMax + 1)
Saturated(n) == IF n >= IntMax THEN IntMax
                ELSE IF n < -IntMax THEN -(IntMax + 1) ELSE n

Numeral(v) == IF v.fine THEN <<ToString(v.n), ".">> ELSE <<ToString(v.n)>>

MakeNode(kind, key, text) == [kind |-> kind, key |-> <<key>>, text |-> text]

(* The nodes of a value under a key.                                       *)
ValueDoc(v, key) ==
  CASE v.is = "number" -> <<MakeNode("number", key, Numeral(v))>>
    [] v.is = "tree"   -> [v.doc EXCEPT ![1].key = <<key>>]
    [] OTHER           -> <<MakeNode("string", key, v.text)>>

MakeItem(fields) == <<MakeNode("object", "", <<>>)>> \o FlattenSeq(fields)
                      \o <<MakeNode("end", "", <<>>)>>

-----------------------------------------------------------------------------
(* struct_data_to_json_data.                                               *)

(* atoi and atof of a text that is no numeral are 0.                       *)
Atoi(v) == Number(IF v.is = "number" THEN WrappedInt(v.n) ELSE 0, FALSE)
Atof(v) == IF v.is = "number" THEN v ELSE Number(0, FALSE)

EncodedValue(d) ==
  CASE d.type \in IntTypes  -> Atoi(d.value)
    [] d.type \in RealTypes -> Atof(d.value)
    [] d.type \in TextTypes -> d.value
    [] d.type \in TreeTypes -> d.value
    [] OTHER                -> Text(<<"invalid">>)

(* The item of a datum, without the fields there was no memory for.        *)
EncodedItem(d, gone) ==
  LET name == IF d.type \in KnownTypes THEN d.type ELSE "invalid"
      field(f, doc) == IF f \in gone THEN <<>> ELSE doc
  IN MakeItem(<<field("identifier", <<MakeNode("string", "identifier", d.key)>>),
                field("type", <<MakeNode("string", "type", <<name>>)>>),
                field("value", ValueDoc(EncodedValue(d), "value"))>>)

(* cJSON_Parse finds a tree or a number in the text.                       *)
Parses(d) == d.value.is \in {"tree", "number"}

EncodeBegins ==
  /\ at = "encode"
  /\ items' = <<>>
  /\ \/ at' = "encoding" /\ heap' = heap \cup {"array"} /\ Fail(0)
     \/ at' = "unencoded" /\ heap' = heap /\ Fail(1)
  /\ UNCHANGED <<printVars, job, data, lost, code, sent>>

Current == data[Len(items) + 1]

(* Mutant: the array is forgotten as well.                                 *)
ArrayForgotten == heap

(* What is left when struct_data_to_json_data gives up: the array is       *)
(* deleted, but the item that is not in it yet is not.                     *)
ArrayDeleted == heap \ {"array"}

EncodeItem ==
  /\ at = "encoding" /\ Len(items) < Len(data)
  /\ \/ (* cJSON_CreateObject fails.                                       *)
        /\ Fail(1)
        /\ at' = "unencoded" /\ items' = <<>> /\ heap' = ArrayDeleted
     \/ (* The text of a struct or an array is not JSON, or finds no       *)
        (* memory when it is parsed.                                       *)
        /\ Current.type \in TreeTypes
        /\ IF Parses(Current) THEN Fail(1) ELSE Fail(0)
        /\ at' = "unencoded" /\ items' = <<>>
        /\ heap' = ArrayDeleted \cup {"item"}
     \/ (* Fields are left out, as there is no memory for them.  A tree    *)
        (* that is left out is forgotten.                                  *)
        \E gone \in SUBSET {"identifier", "type", "value"} :
          /\ Current.type \in TreeTypes => Parses(Current)
          /\ Fail(Cardinality(gone))
          /\ items' = Append(items, EncodedItem(Current, gone))
          /\ heap' = IF "value" \in gone /\ Current.type \in TreeTypes
                       THEN heap \cup {"sub_item"} ELSE heap
          /\ at' = at
     \/ (* The warning about an unknown type prints the type, a number, as *)
        (* a string, which may be the end of the program.                  *)
        /\ Current.type \notin KnownTypes
        /\ at' = "crashed"
        /\ Fail(0) /\ UNCHANGED <<items, heap>>
  /\ UNCHANGED <<printVars, job, data, lost, code, sent>>

EncodeEnds ==
  /\ at = "encoding" /\ Len(items) = Len(data)
  /\ at' = "encoded"
  /\ UNCHANGED <<printVars, job, data, items, lost, code, sent, heap, failures>>

-----------------------------------------------------------------------------
(* json_data_to_struct_data.                                               *)

(* Mutant: the number of an item is taken as it is.                        *)
ValueIntUnsaturated(v) == IF v.is \in {"number", "bool"} THEN v.n ELSE 0

(* valueint is the whole part, saturated, 1 for true, and 0 where there is *)
(* no number.                                                              *)
ValueInt(v) == IF v.is \in {"number", "bool"} THEN Saturated(v.n) ELSE 0

(* The text of a tree is cut like any other, and is no tree then.          *)
PrintedTree(v) ==
  LET text == Rendered(ValueDoc(v, ""), FALSE) IN
  IF Len(text) < ValueLength THEN v ELSE Text(Cut(text, ValueLength))

DecodedValue(type, v) ==
  CASE type \in IntTypes  -> Number(ValueInt(v), FALSE)
    [] type \in RealTypes -> Number(IF v.is = "number" THEN v.n ELSE 0, FALSE)
    [] type \in TextTypes -> Text(IF v.is = "text" THEN Cut(v.text, ValueLength)
                                  ELSE <<"(null)">>)
    [] type \in TreeTypes -> PrintedTree(v)
    [] OTHER              -> Unset

Decoded(item) ==
  IF item.is = "name"
    THEN [key |-> Cut(item.key, KeyLength), type |-> "unset", value |-> Unset]
    ELSE [key |-> Cut(item.key, KeyLength), type |-> item.type,
          value |-> DecodedValue(item.type, item.value)]

Complete(item) == item.is = "name" \/ item.has = {"identifier", "type", "value"}

(* No items are no error, and nothing is allocated for them.               *)
DecodeBegins ==
  /\ at = "decode"
  /\ \/ /\ job.items = <<>>
        /\ at' = "handle" /\ heap' = heap /\ Fail(0)
     \/ /\ job.items # <<>>
        /\ at' = "decoding" /\ heap' = heap \cup {"data"} /\ Fail(0)
     \/ /\ job.items # <<>>
        /\ at' = "end" /\ heap' = heap /\ Fail(1)
  /\ UNCHANGED <<printVars, job, data, items, lost, code, sent>>

DecodeItem ==
  LET item == job.items[Len(data) + 1] IN
  /\ at = "decoding" /\ Len(data) < Len(job.items)
  /\ \/ /\ Complete(item)
        /\ data' = Append(data, Decoded(item))
        /\ at' = at /\ heap' = heap /\ Fail(0)
     \/ (* A field is missing, or a tree finds no memory to be printed.    *)
        /\ \/ ~Complete(item) /\ Fail(0)
           \/ Complete(item) /\ item.is = "item" /\ item.type \in TreeTypes /\ Fail(1)
        /\ at' = "end" /\ heap' = heap \ {"data"}
        /\ UNCHANGED data
     \/ /\ Complete(item) /\ item.is = "item" /\ item.type \notin KnownTypes
        /\ at' = "crashed"
        /\ Fail(0) /\ UNCHANGED <<data, heap>>
  /\ UNCHANGED <<printVars, job, items, lost, code, sent>>

DecodeEnds ==
  /\ at = "decoding" /\ Len(data) = Len(job.items)
  /\ at' = "handle"
  /\ UNCHANGED <<printVars, job, data, items, lost, code, sent, heap, failures>>

-----------------------------------------------------------------------------
(* leda_asyn_send_method and threadpool_recv_proc with its three handlers. *)

(* Adding what is under the pointer to its container copies the key; when  *)
(* there is no memory for that it stays where it is, and nobody has it.    *)
Add(pointer, rest) ==
  \/ /\ heap' = rest \ {pointer} /\ lost' = lost /\ Fail(0)
  \/ /\ heap' = rest \cup {pointer} /\ Fail(1)
     /\ lost' = lost \cup {pointer}

(* A report begins with the root of its message and the payload in it.     *)
BeginReport ==
  /\ at = "idle" /\ stage = "idle"
  /\ \E r \in Reports : job' = [kind |-> "report", gives |-> r] /\ data' = r
  /\ \/ /\ at' = "encode"
        /\ Add("payload", {"root"})
     \/ (* No root, or no payload: the root is deleted.                    *)
        at' = "done" /\ heap' = {} /\ lost' = lost /\ Fail(1)
  /\ UNCHANGED <<printVars, items, code, sent>>

(* A worker has a request with the items to be read.                       *)
BeginRequest ==
  /\ at = "idle" /\ stage = "idle"
  /\ \E r \in Requests : job' = r
  /\ at' = "decode"
  /\ heap' = {"parsed_msg"}
  /\ UNCHANGED <<printVars, data, items, lost, code, sent, failures>>

(* Without a callback a request is refused.                                *)
Refused == job.refuse \/ ~job.hook

(* get_properties_cb changes the data it is given.                         *)
HandleGet ==
  /\ at = "handle" /\ job.kind = "get"
  /\ \/ (* No payload: there is no response.                               *)
        /\ at' = "end" /\ Fail(1)
        /\ UNCHANGED <<data, heap, lost, code>>
     \/ /\ heap' = heap \cup {"payload"} /\ Fail(0)
        /\ IF Refused
             THEN /\ at' = "respond" /\ code' = 1 /\ lost' = {"array"}
                  /\ UNCHANGED data
             ELSE /\ at' = "encode" /\ data' = job.gives
                  /\ UNCHANGED <<code, lost>>
  /\ UNCHANGED <<printVars, job, items, sent>>

HandleSet ==
  /\ at = "handle" /\ job.kind = "set"
  /\ at' = "respond" /\ lost' = {"array"}
  /\ code' = IF Refused THEN 1 ELSE 0
  /\ UNCHANGED <<printVars, job, data, items, sent, heap, failures>>

(* What call_service_cb puts into the room for its output, which is        *)
(* cleared before: it may pass on its input.  Without a callback there is  *)
(* nothing.                                                                *)
Output == IF ~job.hook THEN <<>> ELSE IF job.echo THEN data ELSE job.gives

(* The output ends at the first key that is empty, or with the room.       *)
Counted(output, n) ==
  /\ \A i \in 1..n : output[i].key # <<>>
  /\ n < Len(output) => n = OutputMax \/ output[n + 1].key = <<>>

(* call_service_cb is called if there is one.  When it refuses, or there   *)
(* is no memory for the payload, the response has none of the output;      *)
(* without a callback it has an error and an empty output.                 *)
HandleService ==
  /\ at = "handle" /\ job.kind = "service"
  /\ \/ (* No room for the output: there is no response.                   *)
        /\ at' = "end" /\ Fail(1)
        /\ UNCHANGED <<data, heap, lost, code>>
     \/ /\ IF job.hook /\ job.refuse THEN Fail(0) ELSE Fail(1)
        /\ at' = "respond" /\ lost' = {"array"}
        /\ code' = IF Refused THEN 1 ELSE 0
        /\ UNCHANGED <<data, heap>>
     \/ /\ ~(job.hook /\ job.refuse) /\ Fail(0)
        /\ at' = "encode"
        /\ \E n \in 0..Len(Output) : /\ n <= OutputMax /\ Counted(Output, n)
                                     /\ data' = SubSeq(Output, 1, n)
        /\ code' = IF job.hook THEN 0 ELSE 1
        /\ heap' = heap \cup {"output_params", "payload"}
        /\ UNCHANGED lost
  /\ UNCHANGED <<printVars, job, items, sent>>

(* What the application gave is not needed any more; the data is added to *)
(* the payload.                                                            *)
Encoded ==
  /\ at = "encoded"
  /\ at' = IF job.kind = "report" THEN "print" ELSE "respond"
  /\ Add("array", heap \ {"output_params"})
  /\ UNCHANGED <<printVars, job, data, items, code, sent>>

(* A report without its data is given up, a response goes without.         *)
NotEncoded ==
  /\ at = "unencoded"
  /\ at' = IF job.kind = "report" THEN "done" ELSE "respond"
  /\ heap' = heap \ (IF job.kind = "report" THEN {"root"} ELSE {"output_params"})
  /\ lost' = lost \cup {"array"}
  /\ UNCHANGED <<printVars, job, data, items, code, sent, failures>>

(* leda_send_rsp.                                                          *)
Respond ==
  /\ at = "respond"
  /\ \/ (* No root, and the payload is forgotten; or no payload where there*)
        (* was none, and the root is deleted.                              *)
        at' = "end" /\ Fail(1) /\ UNCHANGED <<heap, lost>>
     \/ at' = "print" /\ Add("payload", heap \cup {"root"})
  /\ UNCHANGED <<printVars, job, data, items, code, sent>>

MessageDoc(kind, value, docs, without) ==
  LET number(key, n) == <<MakeNode("number", key, <<ToString(n)>>)>>
      field(f, doc) == IF f \in without THEN <<>> ELSE doc
  IN MakeItem(<<
       IF kind = "report" THEN <<>> ELSE field("code", number("code", value)),
       field("messageId", number("messageId", 7)),
       field("payload",
         <<MakeNode("object", "payload", <<>>)>>
           \o field("array", <<MakeNode("array", "data", <<>>)>> \o FlattenSeq(docs)
                               \o <<MakeNode("end", "", <<>>)>>)
           \o <<MakeNode("end", "", <<>>)>>)>>)

(* The fields before the payload, like the others, may find no memory.     *)
PrintMessage ==
  /\ at = "print" /\ stage = "idle"
  /\ at' = "printing"
  /\ \E gone \in SUBSET {"code", "messageId"} :
       /\ Fail(Cardinality(gone))
       /\ lost' = lost \cup gone
  /\ Begin([doc |-> MessageDoc(job.kind, code, items, lost'),
            way |-> "print", size |-> 0, format |-> FALSE])
  /\ UNCHANGED <<job, data, items, code, sent, heap>>

(* Where an exchange goes when its message is out of its hands.            *)
Afterwards == IF job.kind = "report" THEN "done" ELSE "end"

(* The root is deleted once it has been printed.                           *)
Printed ==
  /\ at = "printing" /\ stage \in {"done", "failed"}
  /\ heap' = heap \ {"root"}
  /\ at' = IF stage = "done" THEN "push" ELSE Afterwards
  /\ UNCHANGED <<printVars, job, data, items, lost, code, sent, failures>>

(* A response is given away with the zero that ends its text, a report     *)
(* without.                                                                *)
Ending == IF job.kind = "report" THEN <<>> ELSE <<Nul>>

(* wsc_add_msg copies the text, or fails, and the text is freed.           *)
Push ==
  /\ at = "push"
  /\ \/ sent' = SubSeq(mem, 1, offset) \o Ending /\ Fail(0)
     \/ sent' = sent /\ Fail(1)
  /\ at' = Afterwards
  /\ stage' = "released" /\ alive' = FALSE /\ mem' = <<>>
  /\ UNCHANGED <<call, next, open, offset, outside, job, data, items, lost, code, heap>>

(* The end of threadpool_recv_proc.                                        *)
Finish ==
  /\ at = "end"
  /\ at' = "done"
  /\ heap' = heap \ {"parsed_msg", "data"}
  /\ UNCHANGED <<printVars, job, data, items, lost, code, sent, failures>>

-----------------------------------------------------------------------------
(* A call of the printing functions by somebody else.                      *)
PrintForOthers ==
  /\ at = "idle"
  /\ \E c \in Calls : Begin(c)
  /\ UNCHANGED exchangeVars

(* Nothing follows.                                                        *)
Over == /\ \/ at \in {"done", "crashed"}
           \/ at = "idle" /\ stage \in {"done", "failed"}
        /\ UNCHANGED dataVars

DataNext ==
  \/ BeginReport \/ BeginRequest
  \/ DecodeBegins \/ DecodeItem \/ DecodeEnds
  \/ HandleGet \/ HandleSet \/ HandleService
  \/ EncodeBegins \/ EncodeItem \/ EncodeEnds
  \/ Encoded \/ NotEncoded \/ Respond \/ PrintMessage \/ Printed \/ Push \/ Finish
  \/ PrintForOthers
  \/ PrintStep /\ UNCHANGED exchangeVars
  \/ Over

DataSpec == DataInit /\ [][DataNext]_dataVars

-----------------------------------------------------------------------------
(* What is meant to arrive, whatever the code makes of it: the data an     *)
(* application gives, or those of the request that a service gives back.   *)
Echoed == job.kind = "service" /\ job.echo

Meant == IF Echoed THEN job.items ELSE job.gives

(* The numbers of a request are brought into the range of an int.          *)
MeantValue(d) ==
  IF Echoed /\ d.type \in IntTypes
    THEN Number(Max({-IntMax - 1, Min({IntMax, d.value.n})}), FALSE)
    ELSE d.value

MeantItem(d) ==
  MakeItem(<<<<MakeNode("string", "identifier", d.key)>>,
             <<MakeNode("string", "type", <<d.type>>)>>,
             ValueDoc(MeantValue(d), "value")>>)

(* There is room for the key and the value, and the value has its type.    *)
(* The key of an output is not empty: an empty one ends the output.        *)
HasType(d) ==
  CASE d.type \in IntTypes  -> /\ d.value.is \in {"number", "bool"}
                               /\ Echoed \/ Saturated(d.value.n) = d.value.n
                               /\ ~d.value.fine
    [] d.type \in RealTypes -> d.value.is = "number" /\ (Echoed => ~d.value.fine)
    [] d.type \in TextTypes -> d.value.is = "text" /\ Len(d.value.text) < ValueLength
    [] d.type \in TreeTypes -> /\ d.value.is = "tree"
                               /\ Len(Rendered(d.value.doc, FALSE)) < ValueLength
    [] OTHER -> FALSE

Fits(d) == /\ Len(d.key) < KeyLength /\ HasType(d)
           /\ job.kind = "service" => d.key # <<>>

(* The exchange has a message with data in it.                             *)
CarriesData ==
  /\ job.kind # "set"
  /\ job.kind # "report" =>
       ~Refused /\ \A i \in DOMAIN job.items : Complete(job.items[i])
  /\ Echoed => \A i \in DOMAIN job.items : job.items[i].is = "item"
  /\ \A i \in DOMAIN Meant : Fits(Meant[i])

(* What is reported, or given back by a callback, arrives: as long as each *)
(* value fits its type the message is the text of exactly these data, each *)
(* number of a request brought to the nearest int.  And no message is sent *)
(* with some of the data only: it has an item for each of them or no array *)
(* of data at all, which without a failed allocation no report goes        *)
(* without.  A response is followed by the zero that ends it (leda.c:537), *)
(* a report is not (leda.c:1058).  (struct_data_to_json_data,              *)
(* json_data_to_struct_data and the printing of the message between them)  *)
DataArrives ==
  at = "done" =>
    /\ failures = 0 /\ stage # "failed" /\ CarriesData =>
         sent = Rendered(MessageDoc(job.kind, 0, [i \in DOMAIN Meant |-> MeantItem(Meant[i])], {}),
                         FALSE) \o Ending
    /\ sent # Nothing =>
         /\ sent = Rendered(MessageDoc(job.kind, code, items, lost), FALSE) \o Ending
         /\ "array" \notin lost => Len(items) = Len(data)
         /\ job.kind = "report" /\ failures = 0 => lost = {}

(* A tree that is given to be encoded is no JSON.                          *)
Unparsable == \E i \in DOMAIN data : data[i].type \in TreeTypes /\ ~Parses(data[i])

(* When an exchange is over nothing it has allocated is left but an item   *)
(* whose value was no JSON; and if allocations fail, what is left then is  *)
(* only what was to be added to something else.                            *)
HeapReleased ==
  at = "done" =>
    /\ ~alive
    /\ heap \subseteq {"item", "sub_item", "payload", "array"}
    /\ failures = 0 => heap \subseteq (IF Unparsable THEN {"item"} ELSE {})

-----------------------------------------------------------------------------
(* Why HeapReleased holds: its inductive strengthening.                    *)

JobInv ==
  /\ at # "idle" /\ job.kind # "report" => job \in Requests
  /\ at \in {"decode", "decoding", "handle", "respond", "end"} => job.kind # "report"
  /\ IsSequence(data) /\ IsSequence(items)
  /\ failures \in Nat

(* An exchange uses the printer from PrintMessage to Push only.            *)
PrinterInv ==
  /\ stage = "idle" => ~alive
  /\ stage = "failed" /\ alive => call.way = "preallocated"
  /\ at \notin {"idle", "printing", "push", "end", "done"} => stage = "idle"
  /\ at = "printing" => call.way = "print"
  /\ at = "push" => stage = "done"
  /\ at \in {"end", "done"} => ~alive /\ stage \in {"idle", "failed", "released"}

Encoding == {"encode", "encoding", "encoded", "unencoded"}

(* What an exchange holds, and until when.                                 *)
OwnedInv ==
  at # "crashed" =>
    /\ heap \subseteq {"root", "output_params", "parsed_msg", "data",
                       "item", "sub_item", "payload", "array"}
    /\ "root" \in heap =>
         \/ at \in {"print", "printing"}
         \/ job.kind = "report" /\ at \in Encoding
    /\ "output_params" \in heap => job.kind # "report" /\ at \in Encoding
    /\ {"parsed_msg", "data"} \cap heap # {} =>
         job.kind # "report" /\ at \notin {"idle", "done"}

(* What has been made to be added to something else, and until when, as    *)
(* long as no allocation fails.                                            *)
LooseInv ==
  at # "crashed" /\ failures = 0 =>
    /\ "sub_item" \notin heap
    /\ "array" \in heap => at \in {"encoding", "encoded"}
    /\ "payload" \in heap => job.kind # "report" /\ at \in Encoding \cup {"respond"}
    /\ "item" \in heap =>
         /\ Unparsable
         /\ at \in {"unencoded", "respond", "print", "printing", "push", "end", "done"}
=============================================================================
