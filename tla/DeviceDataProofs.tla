-------------------------- MODULE DeviceDataProofs --------------------------
(***************************************************************************)
(* Theorems about DeviceData, for any reports, requests and documents, any *)
(* lengths and any number of allocations that fail: what an exchange holds *)
(* is released, what it gives to the printer is a document, so that the    *)
(* printer keeps its invariant (JsonPrintProofs), and what fits arrives.   *)
(***************************************************************************)
EXTENDS DeviceData, JsonPrintProofs

DataInv == JobInv /\ PrinterInv /\ OwnedInv /\ LooseInv

-----------------------------------------------------------------------------
(* Sequences and counts.                                                   *)

LEMMA SequenceOf ==
  ASSUME NEW S, NEW s \in Seq(S) PROVE IsSequence(s)
<1>1. /\ Len(s) \in Nat /\ DOMAIN s = 1..Len(s)
      /\ s = [i \in 1..Len(s) |-> s[i]]
  OBVIOUS
<1>2. \A i \in 1..Len(s) : s[i] \in Range(s)
  BY <1>1 DEF Range
<1>3. s \in Seq(Range(s))
  BY <1>1, <1>2
<1>4. QED
  BY <1>3 DEF IsSequence

LEMMA AppendSequence ==
  ASSUME NEW s, IsSequence(s), NEW e PROVE IsSequence(Append(s, e))
<1>1. s \in Seq(Range(s) \cup {e})
  BY DEF IsSequence
<1>2. Append(s, e) \in Seq(Range(s) \cup {e})
  BY <1>1
<1>3. QED
  BY <1>2, SequenceOf

LEMMA EmptySequence == IsSequence(<<>>)
BY SequenceOf, <<>> \in Seq({})

(* The first elements of a sequence.                                       *)
LEMMA Beginning ==
  ASSUME NEW s, IsSequence(s), NEW n \in 0..Len(s)
  PROVE  /\ IsSequence(SubSeq(s, 1, n)) /\ DOMAIN SubSeq(s, 1, n) = 1..n
         /\ \A i \in 1..n : i \in DOMAIN s /\ SubSeq(s, 1, n)[i] = s[i]
         /\ n = Len(s) => SubSeq(s, 1, n) = s
<1> DEFINE S == Range(s)
<1>1. s \in Seq(S) /\ Len(s) \in Nat /\ DOMAIN s = 1..Len(s)
  BY DEF IsSequence
<1> HIDE DEF S
<1>2. /\ SubSeq(s, 1, n) = [i \in 1..n |-> s[i]] /\ SubSeq(s, 1, n) \in Seq(S)
      /\ s = [i \in 1..Len(s) |-> s[i]]
  BY <1>1
<1>3. IsSequence(SubSeq(s, 1, n))
  BY <1>2, SequenceOf
<1>4. \A i \in 1..n : i \in DOMAIN s /\ SubSeq(s, 1, n)[i] = s[i]
  BY <1>1, <1>2
<1> QED BY <1>2, <1>3, <1>4

LEMMA FieldCount ==
  ASSUME NEW gone \in SUBSET {"identifier", "type", "value"}
  PROVE  Cardinality(gone) \in Nat /\ (gone # {} => Cardinality(gone) # 0)
<1>1. IsFiniteSet({"identifier"} \cup {"type"} \cup {"value"})
  BY FS_Singleton, FS_Union
<1>2. {"identifier"} \cup {"type"} \cup {"value"} = {"identifier", "type", "value"}
  OBVIOUS
<1>3. IsFiniteSet(gone)
  BY <1>1, <1>2, FS_Subset
<1>4. QED
  BY <1>3, FS_CardinalityType, FS_EmptySet

LEMMA NumberCount ==
  ASSUME NEW gone \in SUBSET {"code", "messageId"}
  PROVE  Cardinality(gone) \in Nat /\ (gone # {} => Cardinality(gone) # 0)
<1>1. IsFiniteSet({"code"} \cup {"messageId"})
  BY FS_Singleton, FS_Union
<1>2. {"code"} \cup {"messageId"} = {"code", "messageId"}
  OBVIOUS
<1>3. QED
  BY <1>1, <1>2, FS_Subset, FS_CardinalityType, FS_EmptySet

-----------------------------------------------------------------------------
(* What a step of the printer does to what others see of it.               *)
LEMMA PieceStage ==
  ASSUME NEW needed, NEW text, NEW advance, NEW then,
         then \notin {"idle", "failed"},
         Piece(needed, text, advance, then)
  PROVE  stage' \notin {"idle", "failed"}
BY DEF Piece

LEMMA PrinterSteps ==
  ASSUME PrintStep
  PROVE  /\ call' = call
         /\ stage \notin {"idle", "done", "failed", "released"}
         /\ stage' # "idle"
         /\ stage' = "failed" /\ alive' => call.way = "preallocated"
<1>1. CASE PrintLeaf
  <2>1. stage' \notin {"idle", "failed"}
    BY <1>1, PieceStage
    DEF PrintLeaf, PrintLiteral, PrintNumber, PrintRaw, PrintNothing, PrintString
  <2>2. QED
    BY <1>1, <2>1 DEF PrintLeaf
<1> DEFINE Quiet == {"idle", "failed"}
<1>a. \A i : BeforeElement(i) \notin Quiet /\ BeforeMember(i) \notin Quiet
  BY DEF BeforeElement, BeforeMember
<1>2. CASE OpenArray \/ OpenObject
  <2>1. stage' \notin Quiet
    BY <1>2, <1>a, PieceStage DEF OpenArray, OpenObject
  <2>2. QED
    BY <1>2, <2>1 DEF OpenArray, OpenObject
<1>3. CASE PrintIndent \/ PrintKey \/ PrintColon
  <2>1. stage' \notin {"idle", "failed"}
    BY <1>3, PieceStage DEF PrintIndent, PrintKey, PrintColon, PrintString
  <2>2. QED
    BY <1>3, <2>1 DEF PrintIndent, PrintKey, PrintColon
<1>4. CASE NextElement
  <2>1. CASE Node.kind = "end"
    BY <1>4, <2>1 DEF NextElement
  <2>2. CASE Node.kind # "end"
    <3>1. PICK text : Piece(Len(text) + 1, Append(text, Nul), Len(text), "value")
      BY <1>4, <2>2 DEF NextElement
    <3>2. stage' \notin Quiet
      BY <3>1, PieceStage
    <3>3. QED
      BY <1>4, <3>2 DEF NextElement
  <2>3. QED
    BY <2>1, <2>2
<1>7. CASE NextMember
  <2>1. PICK text : Piece(Len(text) + 1, Append(text, Nul), Len(text), BeforeMember(next))
    BY <1>7 DEF NextMember
  <2>2. stage' \notin Quiet
    BY <2>1, <1>a, PieceStage
  <2>3. QED
    BY <1>7, <2>2 DEF NextMember
<1>8. CASE Close
  <2>1. PICK n, text : Piece(n, text, 0, "printed")
    BY <1>8 DEF Close
  <2>2. stage' \notin Quiet
    BY <2>1, PieceStage
  <2>3. QED
    BY <1>8, <2>2 DEF Close
<1>5. CASE UpdateOffset \/ ReturnBuffer \/ ReturnText \/ ReturnNothing
  BY <1>5 DEF UpdateOffset, ReturnBuffer, ReturnText, ReturnNothing
<1>6. QED
  BY <1>1, <1>2, <1>3, <1>4, <1>5, <1>7, <1>8 DEF PrintStep

LEMMA BeginStage ==
  ASSUME NEW c, Begin(c)
  PROVE  /\ stage = "idle" /\ call' = c
         /\ stage' \in {"value", "failed"}
         /\ stage' = "failed" => alive' = alive
BY DEF Begin

-----------------------------------------------------------------------------
(* Every step of an exchange keeps the invariant.                          *)
LEMMA InitInv == DataInit => DataInv
BY EmptySequence
DEF DataInit, DataInv, PrintInit, JobInv, PrinterInv, OwnedInv, LooseInv

LEMMA BeginInv ==
  ASSUME DataInv, BeginReport \/ BeginRequest PROVE DataInv'
<1> USE DEF DataInv, JobInv, PrinterInv, OwnedInv, LooseInv, Encoding, printVars
<1>1. CASE BeginReport
  BY <1>1, ExchangesAssumption DEF BeginReport, Add, Fail
<1>2. CASE BeginRequest
  BY <1>2, ExchangesAssumption DEF BeginRequest
<1>3. QED
  BY <1>1, <1>2

LEMMA DecodeInv ==
  ASSUME DataInv, DecodeBegins \/ DecodeItem \/ DecodeEnds PROVE DataInv'
<1> USE DEF DataInv, JobInv, PrinterInv, OwnedInv, LooseInv, Encoding, printVars, Fail
<1>1. CASE DecodeBegins
  BY <1>1 DEF DecodeBegins, Unparsable
<1>2. CASE DecodeItem
  <2>1. CASE \E d : data' = Append(data, d)
    BY <1>2, <2>1, AppendSequence DEF DecodeItem
  <2>2. CASE data' = data
    BY <1>2, <2>2 DEF DecodeItem, Unparsable
  <2>3. QED
    BY <1>2, <2>1, <2>2 DEF DecodeItem
<1>3. CASE DecodeEnds
  BY <1>3 DEF DecodeEnds, Unparsable
<1>4. QED
  BY <1>1, <1>2, <1>3

(* What a service gives back is empty, its input or what it is given.      *)
LEMMA OutputSequence ==
  ASSUME DataInv, at = "handle" PROVE IsSequence(Output)
BY ExchangesAssumption, EmptySequence DEF Output, DataInv, JobInv

LEMMA HandleInv ==
  ASSUME DataInv, HandleGet \/ HandleSet \/ HandleService PROVE DataInv'
<1> USE DEF DataInv, JobInv, PrinterInv, OwnedInv, LooseInv, Encoding, printVars, Fail
<1>1. CASE HandleGet
  BY <1>1, ExchangesAssumption DEF HandleGet, Unparsable
<1>2. CASE HandleSet
  BY <1>2 DEF HandleSet, Unparsable
<1>3. CASE HandleService
  <2>1. at = "handle" /\ items' = items /\ job' = job
    BY <1>3 DEF HandleService
  <2>2. data' = data \/ \E n \in 0..Len(Output) : data' = SubSeq(Output, 1, n)
    BY <1>3 DEF HandleService
  <2>3. IsSequence(data')
    <3>1. CASE data' = data
      BY <3>1
    <3>2. CASE \E n \in 0..Len(Output) : data' = SubSeq(Output, 1, n)
      BY <2>1, <3>2, OutputSequence, Beginning
    <3> QED BY <2>2, <3>1, <3>2
  <2> QED BY <1>3, <2>1, <2>3 DEF HandleService, Unparsable
<1>4. QED
  BY <1>1, <1>2, <1>3

LEMMA EncodeInv ==
  ASSUME DataInv, EncodeBegins \/ EncodeItem \/ EncodeEnds PROVE DataInv'
<1> USE DEF DataInv, JobInv, PrinterInv, OwnedInv, LooseInv, Encoding, printVars, Fail
<1>1. CASE EncodeBegins
  BY <1>1, EmptySequence DEF EncodeBegins, Unparsable
<1>2. CASE EncodeItem
  <2>1. /\ at = "encoding" /\ Len(items) < Len(data)
        /\ UNCHANGED <<printVars, job, data, lost, code, sent>>
    BY <1>2 DEF EncodeItem
  <2>2. ASSUME Fail(1), at' = "unencoded", items' = <<>>, heap' = ArrayDeleted
        PROVE  DataInv'
    BY <2>1, <2>2, EmptySequence DEF ArrayDeleted, Unparsable
  <2>3. ASSUME Current.type \in TreeTypes,
               IF Parses(Current) THEN Fail(1) ELSE Fail(0),
               at' = "unencoded", items' = <<>>, heap' = ArrayDeleted \cup {"item"}
        PROVE  DataInv'
    <3>1. Len(items) + 1 \in DOMAIN data
      BY <2>1 DEF IsSequence
    <3>2. ~Parses(Current) => Unparsable
      BY <2>3, <3>1 DEF Unparsable, Current
    <3>3. Unparsable' <=> Unparsable
      BY <2>1 DEF Unparsable
    <3>4. failures' \in Nat /\ (failures' = 0 => failures = 0 /\ ~Parses(Current))
      BY <2>3
    <3>5. QED
      BY <2>1, <2>3, <3>2, <3>3, <3>4, EmptySequence DEF ArrayDeleted
  <2>4. ASSUME NEW gone \in SUBSET {"identifier", "type", "value"},
               Fail(Cardinality(gone)),
               items' = Append(items, EncodedItem(Current, gone)),
               heap' = IF "value" \in gone /\ Current.type \in TreeTypes
                         THEN heap \cup {"sub_item"} ELSE heap,
               at' = at
        PROVE  DataInv'
    <3>1. /\ failures' \in Nat
          /\ failures' = 0 => failures = 0 /\ heap' = heap
      BY <2>4, FieldCount
    <3>2. IsSequence(items')
      BY <2>4, AppendSequence
    <3>3. QED
      BY <2>1, <2>4, <3>1, <3>2 DEF Unparsable
  <2>5. ASSUME at' = "crashed", Fail(0), UNCHANGED <<items, heap>>
        PROVE  DataInv'
    BY <2>1, <2>5 DEF Unparsable
  <2>6. QED
    BY <1>2, <2>2, <2>3, <2>4, <2>5 DEF EncodeItem
<1>3. CASE EncodeEnds
  BY <1>3 DEF EncodeEnds, Unparsable
<1>4. QED
  BY <1>1, <1>2, <1>3

LEMMA MessageInv ==
  ASSUME DataInv,
         Encoded \/ NotEncoded \/ Respond \/ PrintMessage \/ Printed \/ Push \/ Finish
  PROVE  DataInv'
<1> USE DEF DataInv, JobInv, PrinterInv, OwnedInv, LooseInv, Encoding, printVars, Fail
<1>1. CASE Encoded
  BY <1>1 DEF Encoded, Add, Unparsable
<1>2. CASE NotEncoded
  BY <1>2 DEF NotEncoded, Unparsable
<1>3. CASE Respond
  BY <1>3 DEF Respond, Add, Unparsable
<1>4. CASE PrintMessage
  <2>1. PICK gone \in SUBSET {"code", "messageId"} : Fail(Cardinality(gone))
    BY <1>4 DEF PrintMessage
  <2>2. failures' \in Nat /\ (failures' = 0 => failures = 0)
    BY <2>1, NumberCount
  <2>3. PICK c : Begin(c) /\ c.way = "print"
    BY <1>4 DEF PrintMessage
  <2>4. /\ call'.way = "print" /\ stage' \in {"value", "failed"}
        /\ stage' = "failed" => ~alive'
    BY <2>3, BeginStage
  <2>5. QED
    BY <1>4, <2>2, <2>4 DEF PrintMessage, Unparsable
<1>5. CASE Printed
  BY <1>5 DEF Printed, Afterwards, Unparsable
<1>6. CASE Push
  BY <1>6 DEF Push, Afterwards, Unparsable
<1>7. CASE Finish
  BY <1>7 DEF Finish, Unparsable
<1>8. QED
  BY <1>1, <1>2, <1>3, <1>4, <1>5, <1>6, <1>7

LEMMA PrintInv ==
  ASSUME DataInv, PrintForOthers \/ (PrintStep /\ UNCHANGED exchangeVars)
  PROVE  DataInv'
<1> USE DEF DataInv, JobInv, PrinterInv, OwnedInv, LooseInv, exchangeVars
<1>1. CASE PrintForOthers
  BY <1>1, BeginStage DEF PrintForOthers, Unparsable
<1>2. CASE PrintStep /\ UNCHANGED exchangeVars
  BY <1>2, PrinterSteps DEF Unparsable
<1>3. QED
  BY <1>1, <1>2

LEMMA NextInv == DataInv /\ [DataNext]_dataVars => DataInv'
<1> SUFFICES ASSUME DataInv, [DataNext]_dataVars PROVE DataInv'
  OBVIOUS
<1>1. CASE Over \/ UNCHANGED dataVars
  BY <1>1 DEF Over, dataVars, printVars, exchangeVars, DataInv, JobInv, PrinterInv,
              OwnedInv, LooseInv, Unparsable
<1>2. QED
  BY <1>1, BeginInv, DecodeInv, HandleInv, EncodeInv, MessageInv, PrintInv DEF DataNext

THEOREM InvariantHolds == DataSpec => []DataInv
<1>1. QED
  BY InitInv, NextInv, PTL DEF DataSpec

(* Whatever a report or a request holds, and however many allocations      *)
(* fail, nothing is left allocated when it is over but what the code       *)
(* forgets: an item whose value was no JSON, or what could not be added to *)
(* something else.                                                         *)
THEOREM HeapIsReleased == DataSpec => []HeapReleased
<1>1. DataInv => HeapReleased
  BY DEF DataInv, PrinterInv, OwnedInv, LooseInv, HeapReleased, Encoding
<1>2. QED
  BY <1>1, InvariantHolds, PTL

-----------------------------------------------------------------------------
(* What the printer is given is a document.                                *)

LEMMA TreesAreDocuments == Trees \subseteq Documents
<1> SUFFICES ASSUME NEW doc \in Trees PROVE doc \in Documents
  OBVIOUS
<1>1. doc \in Seq([kind : Kinds, key : Seq(Bytes), text : Seq(Bytes)]) /\ IsTree(doc)
  BY DEF Trees
<1>2. [kind : Kinds, key : Seq(Bytes), text : Seq(Bytes)] \subseteq Nodes
  <2> SUFFICES ASSUME NEW x \in [kind : Kinds, key : Seq(Bytes), text : Seq(Bytes)]
               PROVE  x \in Nodes
    OBVIOUS
  <2>1. x.text \in Seq(Bytes) /\ x.text \in Seq(Elements)
    BY BytesAreElements
  <2>2. x \in [kind : Kinds, key : Seq(Bytes), text : Seq(Elements)]
    BY <2>1
  <2> QED BY <2>1, <2>2 DEF Nodes
<1>3. doc \in Seq(Nodes)
  <2> DEFINE S == [kind : Kinds, key : Seq(Bytes), text : Seq(Bytes)]
  <2>1. doc \in Seq(S) /\ S \subseteq Nodes
    BY <1>1, <1>2
  <2> HIDE DEF S
  <2> QED BY <2>1
<1> QED BY <1>1, <1>3 DEF Documents

LEMMA MadeNode ==
  ASSUME NEW kind \in Kinds, NEW key \in Bytes, NEW text \in Seq(Elements),
         kind \in {"string", "raw"} => text \in Seq(Bytes)
  PROVE  MakeNode(kind, key, text) \in Nodes /\ MakeNode(kind, key, text).kind = kind
<1>1. <<key>> \in Seq(Bytes)
  OBVIOUS
<1> QED BY <1>1 DEF MakeNode, Nodes

LEMMA NameBytes ==
  /\ {"", "code", "messageId", "payload", "data", "identifier", "type", "value",
      "int", "bool", "enum", "float", "double", "text", "date", "struct", "array",
      "invalid", "(null)", "."} \subseteq Bytes
  /\ KnownTypes \subseteq Bytes
BY NamesAssumption DEF Names, KnownTypes, IntTypes, RealTypes, TextTypes, TreeTypes

LEMMA KindsOf ==
  /\ {"array", "object", "end", "number", "string"} \subseteq Kinds
  /\ "array" \in Containers /\ "object" \in Containers
  /\ "end" \notin Containers
  /\ "number" \notin Containers \cup {"end"} /\ "string" \notin Containers \cup {"end"}
BY DEF Kinds, Containers

(* A number, a string, and the values in a container.                      *)
LEMMA MadeLeaf ==
  ASSUME NEW kind \in {"number", "string"}, NEW key \in Bytes, NEW text \in Seq(Elements),
         kind = "string" => text \in Seq(Bytes)
  PROVE  <<MakeNode(kind, key, text)>> \in Documents
<1>1. MakeNode(kind, key, text) \in Nodes /\ MakeNode(kind, key, text).kind = kind
  BY KindsOf, MadeNode
<1> QED BY <1>1, KindsOf, LeafIsDocument

LEMMA MadeContainer ==
  ASSUME NEW kind \in Containers, NEW key \in Bytes, NEW f \in Forests
  PROVE  <<MakeNode(kind, key, <<>>)>> \o f \o <<MakeNode("end", "", <<>>)>> \in Documents
<1>1. <<>> \in Seq(Elements) /\ <<>> \in Seq(Bytes)
  OBVIOUS
<1>2. /\ MakeNode(kind, key, <<>>) \in Nodes /\ MakeNode(kind, key, <<>>).kind = kind
      /\ MakeNode("end", "", <<>>) \in Nodes /\ MakeNode("end", "", <<>>).kind = "end"
  BY <1>1, KindsOf, NameBytes, MadeNode DEF Kinds
<1> QED BY <1>2, ContainerIsDocument

LEMMA MadeItem ==
  ASSUME NEW a \in Forests, NEW b \in Forests, NEW c \in Forests
  PROVE  MakeItem(<<a, b, c>>) \in Documents
<1>1. <<a, b, c>> \in [1..3 -> Forests]
  OBVIOUS
<1>2. FlattenSeq(<<a, b, c>>) \in Forests
  BY <1>1, FlattenForests
<1> QED BY <1>2, KindsOf, NameBytes, MadeContainer DEF MakeItem

-----------------------------------------------------------------------------
(* The values.                                                             *)

LEMMA Wrapping ==
  ASSUME NEW n \in Int
  PROVE  /\ WrappedInt(n) \in Int
         /\ -(IntMax + 1) <= n /\ n <= IntMax => WrappedInt(n) = n
<1> DEFINE m == 2 * (IntMax + 1)
           a == n + IntMax + 1
<1>1. IntMax \in Nat /\ m \in Nat \ {0} /\ a \in Int
  BY SizesAssumption
<1>2. WrappedInt(n) = (a % m) - (IntMax + 1)
  BY DEF WrappedInt
<1>3. -(IntMax + 1) <= n /\ n <= IntMax => 0 <= a /\ a < m
  BY <1>1
<1> HIDE DEF m
<1>4. a % m \in Int /\ (0 <= a /\ a < m => a % m = a)
  <2> HIDE DEF a
  <2> QED BY <1>1
<1>5. a - (IntMax + 1) = n
  BY <1>1
<1> HIDE DEF a
<1> QED BY <1>1, <1>2, <1>3, <1>4, <1>5

LEMMA NumeralType ==
  ASSUME NEW n \in Int, NEW v, v.n = n
  PROVE  Numeral(v) \in Seq(Elements)
<1>1. ToString(n) \in Elements /\ "." \in Elements
  BY NameBytes DEF Elements
<1> DEFINE e == ToString(n)
           p == "."
<1>2. e \in Elements /\ p \in Elements
  BY <1>1
<1> HIDE DEF e, p
<1>3. <<e, p>> \in Seq(Elements) /\ <<e>> \in Seq(Elements)
  BY ONLY <1>2, Pair
<1> QED BY <1>3 DEF Numeral, e, p

(* The nodes of a value are a document.                                    *)
LEMMA ValueIsDocument ==
  ASSUME NEW v \in Values, NEW key \in Bytes
  PROVE  ValueDoc(v, key) \in Documents
<1>1. /\ v.is \in {"number", "bool", "text", "tree", "unset"} /\ v.n \in Int
      /\ v.text \in Seq(Bytes) /\ (v.is = "tree" => v.doc \in Trees)
  BY DEF Values
<1>2. <<key>> \in Seq(Bytes)
  OBVIOUS
<1>3. CASE v.is = "number"
  <2>1. Numeral(v) \in Seq(Elements)
    BY <1>1, NumeralType
  <2>2. <<MakeNode("number", key, Numeral(v))>> \in Documents
    BY <2>1, MadeLeaf
  <2> QED BY <1>3, <2>2 DEF ValueDoc
<1>4. CASE v.is = "tree"
  <2>1. v.doc \in Documents
    BY <1>1, <1>4, TreesAreDocuments
  <2>2. [v.doc EXCEPT ![1].key = <<key>>] \in Documents
    BY <1>2, <2>1, Rekeyed
  <2> QED BY <1>4, <2>2 DEF ValueDoc
<1>5. CASE v.is \notin {"number", "tree"}
  <2>1. v.text \in Seq(Elements)
    BY <1>1, BytesAreElements
  <2>2. <<MakeNode("string", key, v.text)>> \in Documents
    BY <1>1, <2>1, MadeLeaf
  <2> QED BY <1>5, <2>2 DEF ValueDoc
<1> QED BY <1>3, <1>4, <1>5

(* What is kept of a datum.                                                *)
Typed(d) == /\ d.key \in Seq(Bytes)
            /\ \/ d.value \in Values
               \/ d.type \in TreeTypes /\ d.value.is = "text"

LEMMA NewValues ==
  /\ \A n \in Int, fine \in BOOLEAN : Number(n, fine) \in Values
  /\ \A t \in Seq(Bytes) : Text(t) \in Values
  /\ Unset \in Values
<1>1. <<>> \in Seq(Bytes)
  OBVIOUS
<1> QED BY <1>1 DEF Number, Text, Unset, Values

LEMMA EncodedValueType ==
  ASSUME NEW d, Typed(d), d.type \in TreeTypes => Parses(d)
  PROVE  EncodedValue(d) \in Values
<1>1. d.value \in Values
  <2>1. ~(d.type \in TreeTypes /\ d.value.is = "text")
    BY DEF Parses
  <2> QED BY <2>1 DEF Typed
<1>2. d.value.n \in Int
  BY <1>1 DEF Values
<1>3. Atoi(d.value) \in Values
  <2>1. (IF d.value.is = "number" THEN WrappedInt(d.value.n) ELSE 0) \in Int
    BY <1>2, Wrapping
  <2> QED BY <2>1, NewValues DEF Atoi
<1>4. Atof(d.value) \in Values
  <2>1. Number(0, FALSE) \in Values
    <3>1. 0 \in Int /\ FALSE \in BOOLEAN
      OBVIOUS
    <3> QED BY ONLY <3>1, NewValues
  <2> QED BY <1>1, <2>1 DEF Atof
<1>5. Text(<<"invalid">>) \in Values
  <2>1. "invalid" \in Bytes
    BY NameBytes
  <2>2. <<"invalid">> \in Seq(Bytes)
    BY ONLY <2>1, Pair
  <2> QED BY <2>2, NewValues
<1> QED BY <1>1, <1>3, <1>4, <1>5 DEF EncodedValue

LEMMA EncodedItemIsDocument ==
  ASSUME NEW d, Typed(d), d.type \in TreeTypes => Parses(d), NEW gone
  PROVE  EncodedItem(d, gone) \in Documents
<1> DEFINE name == IF d.type \in KnownTypes THEN d.type ELSE "invalid"
           field(f, doc) == IF f \in gone THEN <<>> ELSE doc
           i == <<MakeNode("string", "identifier", d.key)>>
           t == <<MakeNode("string", "type", <<name>>)>>
           v == ValueDoc(EncodedValue(d), "value")
<1>1. i \in Documents
  <2>1. d.key \in Seq(Bytes) /\ d.key \in Seq(Elements)
    BY BytesAreElements DEF Typed
  <2> QED BY <2>1, NameBytes, MadeLeaf
<1>2. t \in Documents
  <2>1. name \in Bytes
    BY NameBytes
  <2> HIDE DEF name
  <2>2. <<name>> \in Seq(Bytes)
    BY <2>1
  <2>3. <<name>> \in Seq(Elements)
    BY <2>2, BytesAreElements
  <2> QED BY <2>2, <2>3, NameBytes, MadeLeaf
<1>3. v \in Documents
  BY EncodedValueType, NameBytes, ValueIsDocument
<1> HIDE DEF i, t, v, name
<1>4. /\ field("identifier", i) \in Forests /\ field("type", t) \in Forests
      /\ field("value", v) \in Forests
  BY <1>1, <1>2, <1>3, DocumentIsForest, EmptyForest
<1> HIDE DEF field
<1>5. MakeItem(<<field("identifier", i), field("type", t), field("value", v)>>) \in Documents
  BY <1>4, MadeItem
<1> QED BY <1>5 DEF EncodedItem, field, i, t, v, name

LEMMA MessageIsDocument ==
  ASSUME NEW kind, NEW value \in Int, NEW docs, IsSequence(docs),
         \A i \in DOMAIN docs : docs[i] \in Documents, NEW without
  PROVE  MessageDoc(kind, value, docs, without) \in Documents
<1> DEFINE number(key, n) == <<MakeNode("number", key, <<ToString(n)>>)>>
           field(f, doc) == IF f \in without THEN <<>> ELSE doc
           a == <<MakeNode("array", "data", <<>>)>> \o FlattenSeq(docs) \o <<MakeNode("end", "", <<>>)>>
           p == <<MakeNode("object", "payload", <<>>)>> \o field("array", a)
                  \o <<MakeNode("end", "", <<>>)>>
           c == number("code", value)
           m == number("messageId", 7)
           x == IF kind = "report" THEN <<>> ELSE field("code", c)
           y == field("messageId", m)
           z == field("payload", p)
<1>1. ASSUME NEW key \in Bytes, NEW n \in Int PROVE number(key, n) \in Documents
  <2> DEFINE e == ToString(n)
  <2>1. e \in Elements
    BY DEF Elements
  <2> HIDE DEF e
  <2>2. <<e>> \in Seq(Elements)
    BY <2>1
  <2>3. <<MakeNode("number", key, <<e>>)>> \in Documents
    BY <2>2, MadeLeaf
  <2> QED BY <2>3 DEF e
<1>2. c \in Documents /\ m \in Documents
  <2> HIDE DEF number
  <2>1. "code" \in Bytes /\ "messageId" \in Bytes
    BY NameBytes
  <2>2. 7 \in Int
    OBVIOUS
  <2> QED BY <1>1, <2>1, <2>2
<1>3. FlattenSeq(docs) \in Forests
  <2>1. docs \in [1..Len(docs) -> Forests] /\ Len(docs) \in Nat
    <3>1. docs \in Seq(Range(docs))
      BY DEF IsSequence
    <3>2. \A i \in 1..Len(docs) : docs[i] \in Forests
      BY <3>1, DocumentIsForest
    <3> QED BY <3>1, <3>2
  <2> QED BY <2>1, FlattenForests
<1>4. a \in Documents
  BY <1>3, KindsOf, NameBytes, MadeContainer
<1> HIDE DEF a
<1>5. field("array", a) \in Forests
  BY <1>4, DocumentIsForest, EmptyForest
<1>6. p \in Documents
  <2> HIDE DEF field
  <2> QED BY <1>5, KindsOf, NameBytes, MadeContainer
<1> HIDE DEF number, c, m, p
<1>7. x \in Forests /\ y \in Forests /\ z \in Forests
  BY <1>2, <1>6, DocumentIsForest, EmptyForest
<1> HIDE DEF x, y, z, field
<1>8. MakeItem(<<x, y, z>>) \in Documents
  BY <1>7, MadeItem
<1> QED BY <1>8 DEF MessageDoc, a, p, c, m, x, y, z, number, field

LEMMA DecodedValueIs ==
  ASSUME NEW type, NEW v
  PROVE  /\ type \in IntTypes => DecodedValue(type, v) = Number(ValueInt(v), FALSE)
         /\ type \in RealTypes =>
              DecodedValue(type, v) = Number(IF v.is = "number" THEN v.n ELSE 0, FALSE)
         /\ type \in TextTypes =>
              DecodedValue(type, v) = Text(IF v.is = "text" THEN Cut(v.text, ValueLength)
                                           ELSE <<"(null)">>)
         /\ type \in TreeTypes => DecodedValue(type, v) = PrintedTree(v)
         /\ type \notin KnownTypes => DecodedValue(type, v) = Unset
<1> DEFINE a == Number(ValueInt(v), FALSE)
           b == Number(IF v.is = "number" THEN v.n ELSE 0, FALSE)
           c == Text(IF v.is = "text" THEN Cut(v.text, ValueLength) ELSE <<"(null)">>)
           d == PrintedTree(v)
           e == Unset
<1>1. DecodedValue(type, v) = CASE type \in IntTypes -> a [] type \in RealTypes -> b
                                [] type \in TextTypes -> c [] type \in TreeTypes -> d
                                [] OTHER -> e
  BY Zenon DEF DecodedValue
<1> HIDE DEF a, b, c, d, e
<1>2. DecodedValue(type, v) = IF type \in IntTypes THEN a ELSE IF type \in RealTypes THEN b
        ELSE IF type \in TextTypes THEN c ELSE IF type \in TreeTypes THEN d ELSE e
  BY <1>1 DEF IntTypes, RealTypes, TextTypes, TreeTypes
<1> QED BY <1>2 DEF a, b, c, d, e, IntTypes, RealTypes, TextTypes, TreeTypes, KnownTypes

LEMMA LesserOf ==
  ASSUME NEW a \in Int, NEW b \in Int
  PROVE  Min({a, b}) = IF a <= b THEN a ELSE b
<1> DEFINE S == {a, b}
           m == IF a <= b THEN a ELSE b
<1>1. m \in S /\ \A x \in S : (\A y \in S : x <= y) <=> x = m
  OBVIOUS
<1> HIDE DEF S, m
<1>2. Min(S) = CHOOSE x \in S : \A y \in S : x <= y
  BY DEF Min
<1>3. (CHOOSE x \in S : \A y \in S : x <= y) = (CHOOSE x \in S : x = m)
  BY <1>1
<1>4. Min(S) = m
  BY <1>1, <1>2, <1>3
<1> QED BY <1>4 DEF S, m

LEMMA CutType ==
  ASSUME NEW S, NEW s \in Seq(S), NEW length \in Nat \ {0}
  PROVE  /\ Cut(s, length) \in Seq(S)
         /\ Len(s) < length => Cut(s, length) = s
<1> DEFINE m == Min({Len(s), length - 1})
<1>1. Len(s) \in Nat /\ length - 1 \in Nat
  OBVIOUS
<1>2. m = IF Len(s) <= length - 1 THEN Len(s) ELSE length - 1
  BY <1>1, LesserOf
<1>3. m \in Nat /\ m <= Len(s) /\ (Len(s) < length => m = Len(s))
  BY <1>1, <1>2
<1> HIDE DEF m
<1>4. SubSeq(s, 1, m) = [i \in 1..m |-> s[i]]
  BY <1>1, <1>3
<1>5. SubSeq(s, 1, m) \in Seq(S)
  BY <1>1, <1>3
<1>6. m = Len(s) => SubSeq(s, 1, m) = s
  <2>1. s = [i \in 1..Len(s) |-> s[i]]
    OBVIOUS
  <2> QED BY <1>4, <2>1
<1> QED BY <1>3, <1>5, <1>6 DEF Cut, m

LEMMA AppendAt ==
  ASSUME NEW s, IsSequence(s), NEW e
  PROVE  /\ Len(s) \in Nat /\ DOMAIN s = 1..Len(s)
         /\ Len(Append(s, e)) = Len(s) + 1 /\ DOMAIN Append(s, e) = 1..Len(s) + 1
         /\ \A i \in 1..Len(s) : Append(s, e)[i] = s[i]
         /\ Append(s, e)[Len(s) + 1] = e
<1> DEFINE S == Range(s) \cup {e}
<1>1. s \in Seq(S) /\ e \in S
  BY DEF IsSequence
<1> HIDE DEF S
<1>2. Append(s, e) \in Seq(S)
  BY <1>1
<1> QED BY <1>1, <1>2, Appended

LEMMA DecodedType ==
  ASSUME NEW item, IsItem(item) PROVE Typed(Decoded(item))
<1>1. /\ item.is \in {"item", "name"} /\ item.key \in Seq(Bytes) /\ item.value \in Values
  BY DEF IsItem
<1>2. Cut(item.key, KeyLength) \in Seq(Bytes)
  BY <1>1, CutType, LengthsAssumption
<1>3. CASE item.is = "name"
  <2>1. Decoded(item).value = Unset /\ Decoded(item).key = Cut(item.key, KeyLength)
    BY <1>3 DEF Decoded
  <2> QED BY <1>2, <2>1, NewValues DEF Typed
<1>4. CASE item.is # "name"
  <2> DEFINE v == item.value
             w == DecodedValue(item.type, v)
  <2>1. /\ Decoded(item).value = w /\ Decoded(item).key = Cut(item.key, KeyLength)
        /\ Decoded(item).type = item.type
    BY <1>4 DEF Decoded
  <2>2. v.n \in Int /\ v.text \in Seq(Bytes) /\ v \in Values
    BY <1>1 DEF Values
  <2> HIDE DEF v
  <2>3. CASE item.type \in IntTypes
    <3>1. ValueInt(v) \in Int
      BY <2>2, SizesAssumption DEF ValueInt, Saturated
    <3>2. w = Number(ValueInt(v), FALSE)
      BY <2>3, DecodedValueIs
    <3>3. w \in Values
      BY <3>1, <3>2, NewValues
    <3> QED BY <1>2, <2>1, <3>3 DEF Typed
  <2>4. CASE item.type \in RealTypes
    <3> DEFINE n == IF v.is = "number" THEN v.n ELSE 0
    <3>1. n \in Int
      BY <2>2
    <3>2. w = Number(n, FALSE)
      BY <2>4, DecodedValueIs
    <3>3. w \in Values
      BY <3>1, <3>2, NewValues
    <3> QED BY <1>2, <2>1, <3>3 DEF Typed
  <2>5. CASE item.type \in TextTypes
    <3> DEFINE t == IF v.is = "text" THEN Cut(v.text, ValueLength) ELSE <<"(null)">>
    <3>1. t \in Seq(Bytes)
      <4>1. "(null)" \in Bytes
        BY NameBytes
      <4>2. <<"(null)">> \in Seq(Bytes)
        BY ONLY <4>1, Pair
      <4>3. Cut(v.text, ValueLength) \in Seq(Bytes)
        BY <2>2, CutType, LengthsAssumption
      <4> QED BY <4>2, <4>3
    <3>2. w = Text(t)
      BY <2>5, DecodedValueIs
    <3>3. w \in Values
      BY <3>1, <3>2, NewValues
    <3> QED BY <1>2, <2>1, <3>3 DEF Typed
  <2>6. CASE item.type \in TreeTypes
    <3>1. w = PrintedTree(v)
      BY <2>6, DecodedValueIs
    <3>2. w = v \/ w.is = "text"
      <4> DEFINE t == Cut(Rendered(ValueDoc(v, ""), FALSE), ValueLength)
      <4>1. PrintedTree(v) = v \/ PrintedTree(v) = Text(t)
        BY Zenon DEF PrintedTree
      <4>2. Text(t).is = "text"
        BY DEF Text
      <4> QED BY <3>1, <4>1, <4>2
    <3> QED BY <1>2, <2>1, <2>2, <2>6, <3>2 DEF Typed
  <2>7. CASE item.type \notin KnownTypes
    <3>1. w = Unset
      BY <2>7 DEF DecodedValue, KnownTypes
    <3> QED BY <1>2, <2>1, <3>1, NewValues DEF Typed
  <2> QED BY <2>3, <2>4, <2>5, <2>6, <2>7 DEF KnownTypes
<1> QED BY <1>3, <1>4

-----------------------------------------------------------------------------
(* What the data and the items of an exchange are.                         *)

TypesInv ==
  /\ \A i \in DOMAIN data : Typed(data[i])
  /\ \A i \in DOMAIN items : items[i] \in Documents
  /\ code \in {0, 1}

LEMMA DatumIsTyped == \A d : IsDatum(d) => Typed(d)
BY DEF IsDatum, Typed

LEMMA GivenIsTyped ==
  /\ \A r \in Reports : IsSequence(r) /\ \A i \in DOMAIN r : Typed(r[i])
  /\ \A r \in Requests : IsSequence(r.gives) /\ \A i \in DOMAIN r.gives : Typed(r.gives[i])
BY ExchangesAssumption, DatumIsTyped

LEMMA TypesKept ==
  ASSUME DataInv, TypesInv, [DataNext]_dataVars PROVE TypesInv'
<1> USE DEF TypesInv
<1>1. CASE UNCHANGED <<data, items, code>>
  BY <1>1
<1>2. CASE BeginReport
  <2>1. UNCHANGED <<items, code>> /\ \E r \in Reports : data' = r
    BY <1>2 DEF BeginReport
  <2> QED BY <2>1, GivenIsTyped
<1>3. CASE HandleGet \/ HandleSet \/ HandleService
  <2>1. job \in Requests
    BY <1>3 DEF HandleGet, HandleSet, HandleService, DataInv, JobInv
  <2>2. /\ items' = items /\ code' \in {code, 0, 1} /\ at = "handle"
        /\ \/ data' = data \/ data' = job.gives
           \/ \E n \in 0..Len(Output) : data' = SubSeq(Output, 1, n)
    BY <1>3 DEF HandleGet, HandleSet, HandleService
  <2>3. \A i \in DOMAIN Output : Typed(Output[i])
    BY <2>1, GivenIsTyped DEF Output
  <2>4. \A i \in DOMAIN data' : Typed(data'[i])
    <3>1. CASE data' = data \/ data' = job.gives
      BY <2>1, <3>1, GivenIsTyped
    <3>2. CASE \E n \in 0..Len(Output) : data' = SubSeq(Output, 1, n)
      <4>1. PICK n \in 0..Len(Output) : data' = SubSeq(Output, 1, n)
        BY <3>2
      <4>2. DOMAIN data' = 1..n /\ \A i \in 1..n : i \in DOMAIN Output /\ data'[i] = Output[i]
        BY <2>2, <4>1, OutputSequence, Beginning
      <4> QED BY <2>3, <4>2
    <3> QED BY <2>2, <3>1, <3>2
  <2> QED BY <2>2, <2>4
<1>4. CASE DecodeItem
  <2> DEFINE item == job.items[Len(data) + 1]
  <2>1. UNCHANGED <<items, code>> /\ (data' = data \/ data' = Append(data, Decoded(item)))
    BY <1>4 DEF DecodeItem
  <2>2. job \in Requests /\ at = "decoding" /\ Len(data) < Len(job.items) /\ IsSequence(data)
    BY <1>4 DEF DecodeItem, DataInv, JobInv
  <2>3. IsItem(item)
    <3>1. IsSequence(job.items) /\ \A i \in DOMAIN job.items : IsItem(job.items[i])
      BY <2>2, ExchangesAssumption
    <3>2. Len(data) + 1 \in DOMAIN job.items
      <4>1. Len(data) \in Nat /\ Len(job.items) \in Nat /\ DOMAIN job.items = 1..Len(job.items)
        BY <2>2, <3>1 DEF IsSequence
      <4> QED BY <2>2, <4>1
    <3> QED BY <3>1, <3>2
  <2> HIDE DEF item
  <2>4. CASE data' = Append(data, Decoded(item))
    <3>1. Typed(Decoded(item))
      BY <2>3, DecodedType
    <3>2. \A i \in DOMAIN data' : \/ i \in DOMAIN data /\ data'[i] = data[i]
                                \/ data'[i] = Decoded(item)
      <4>1. /\ Len(data) \in Nat /\ DOMAIN data = 1..Len(data)
            /\ DOMAIN data' = 1..Len(data) + 1
            /\ \A i \in 1..Len(data) : data'[i] = data[i]
            /\ data'[Len(data) + 1] = Decoded(item)
        BY <2>2, <2>4, AppendAt
      <4> QED BY <4>1
    <3> QED BY <2>1, <3>1, <3>2
  <2> QED BY <2>1, <2>4
<1>5. CASE EncodeBegins
  BY <1>5 DEF EncodeBegins
<1>6. CASE EncodeItem
  <2>1. UNCHANGED <<data, code>>
    BY <1>6 DEF EncodeItem
  <2>2. CASE items' = items \/ items' = <<>>
    BY <2>1, <2>2
  <2>3. CASE \E gone : /\ Current.type \in TreeTypes => Parses(Current)
                       /\ items' = Append(items, EncodedItem(Current, gone))
    <3>1. PICK gone : /\ Current.type \in TreeTypes => Parses(Current)
                      /\ items' = Append(items, EncodedItem(Current, gone))
      BY <2>3
    <3>2. IsSequence(items) /\ IsSequence(data) /\ Len(items) < Len(data)
      BY <1>6 DEF EncodeItem, DataInv, JobInv
    <3>3. Typed(Current)
      <4>1. Len(items) + 1 \in DOMAIN data
        <5>1. Len(data) \in Nat /\ Len(items) \in Nat /\ DOMAIN data = 1..Len(data)
          BY <3>2 DEF IsSequence
        <5> QED BY <3>2, <5>1
      <4> QED BY <4>1 DEF Current
    <3>4. EncodedItem(Current, gone) \in Documents
      BY <3>1, <3>3, EncodedItemIsDocument
    <3>5. \A i \in DOMAIN items' : \/ i \in DOMAIN items /\ items'[i] = items[i]
                                 \/ items'[i] = EncodedItem(Current, gone)
      <4> DEFINE e == EncodedItem(Current, gone)
      <4> HIDE DEF e
      <4>1. items' = Append(items, e)
        BY <3>1 DEF e
      <4>2. /\ Len(items) \in Nat /\ DOMAIN items = 1..Len(items)
            /\ DOMAIN items' = 1..Len(items) + 1
            /\ \A i \in 1..Len(items) : items'[i] = items[i]
            /\ items'[Len(items) + 1] = e
        BY <3>2, <4>1, AppendAt
      <4>3. \A i \in DOMAIN items' :
              (i \in DOMAIN items /\ items'[i] = items[i]) \/ items'[i] = e
        BY <4>2
      <4> QED BY <4>3 DEF e
    <3> QED BY <2>1, <3>4, <3>5
  <2> QED BY <1>6, <2>2, <2>3 DEF EncodeItem
<1> QED
  BY <1>1, <1>2, <1>3, <1>4, <1>5, <1>6
  DEF DataNext, BeginRequest, DecodeBegins, DecodeEnds, EncodeEnds, Encoded, NotEncoded,
      Respond, PrintMessage, Printed, Push, Finish, PrintForOthers, Over, exchangeVars, dataVars

(* The printer is given documents only.                                    *)
LEMMA PrintingKept ==
  ASSUME DataInv, TypesInv, PrintingInv, [DataNext]_dataVars PROVE PrintingInv'
<1>1. CASE UNCHANGED printVars
  BY <1>1, PrintRestKeeps
<1>2. CASE PrintStep
  BY <1>2, PrintStepKeeps
<1>3. CASE PrintForOthers
  <2>1. PICK c \in Calls : Begin(c)
    BY <1>3 DEF PrintForOthers
  <2>2. c.doc \in Documents /\ c.way \in Ways /\ c.size \in 0..IntMax /\ c.format \in BOOLEAN
    BY CallsAssumption, TreesAreDocuments
  <2> QED BY <2>1, <2>2, BeginKeeps
<1>4. CASE PrintMessage
  <2> DEFINE doc == MessageDoc(job.kind, code, items, lost')
             c == [doc |-> doc, way |-> "print", size |-> 0, format |-> FALSE]
  <2>1. Begin(c)
    BY <1>4 DEF PrintMessage
  <2>2. doc \in Documents
    <3>1. IsSequence(items) /\ code \in Int /\ \A i \in DOMAIN items : items[i] \in Documents
      BY DEF DataInv, JobInv, TypesInv
    <3> QED BY <3>1, MessageIsDocument
  <2> HIDE DEF doc
  <2>3. /\ c.doc \in Documents /\ c.way \in Ways /\ c.size \in 0..IntMax
        /\ c.format \in BOOLEAN
    BY <2>2, SizesAssumption DEF Ways
  <2> HIDE DEF c
  <2> QED BY <2>1, <2>3, BeginKeeps
<1>5. CASE Push
  <2>1. /\ stage' = "released" /\ mem' = <<>> /\ stage = "done"
        /\ UNCHANGED <<call, next, open, offset, outside>>
    BY <1>5 DEF Push, DataInv, PrinterInv
  <2>2. <<>> \in Seq(Cells)
    OBVIOUS
  <2>3. CallInv' /\ FailureInv' /\ TextInv'
    BY <2>1 DEF PrintingInv, CallInv, FailureInv, TextInv, Active
  <2>4. BufferInv'
    BY <2>1, <2>2 DEF PrintingInv, BufferInv
  <2> QED BY <2>3, <2>4 DEF PrintingInv
<1> QED
  BY <1>1, <1>2, <1>3, <1>4, <1>5
  DEF DataNext, BeginReport, BeginRequest, DecodeBegins, DecodeItem, DecodeEnds,
      HandleGet, HandleSet, HandleService, EncodeBegins, EncodeItem, EncodeEnds,
      Encoded, NotEncoded, Respond, Printed, Finish, Over, dataVars

LEMMA PrintingInits == DataInit => PrintingInv /\ TypesInv
BY PrintInitHolds DEF DataInit, TypesInv

(* Whatever is printed, by an exchange or by somebody else, the printer    *)
(* keeps its invariant.                                                    *)
THEOREM PrinterIsSound == DataSpec => [](PrintingInv /\ TypesInv)
<1>1. DataInit => PrintingInv /\ TypesInv
  BY PrintingInits
<1>2. DataInv /\ (PrintingInv /\ TypesInv) /\ [DataNext]_dataVars => (PrintingInv /\ TypesInv)'
  BY TypesKept, PrintingKept
<1> QED BY <1>1, <1>2, InvariantHolds, PTL DEF DataSpec

(* No printing function writes or reads a byte outside its buffer,         *)
(* whatever the document, the size and the way to print it.                *)
THEOREM PrintingStaysInside == DataSpec => []PrintsInside
BY PrinterIsSound, NothingOutside, PTL

(* A text that is returned is the text of the whole document.              *)
THEOREM PrintedTextIsRendered == DataSpec => []TextIsRendered
BY PrinterIsSound, DoneIsRendered, PTL

(* cJSON_PrintPreallocated does not fail for want of room if it is given   *)
(* five bytes more than the text and its zero need.                        *)
THEOREM FiveMoreAreEnough == DataSpec => []FiveMoreSuffice
BY PrinterIsSound, EnoughIsGiven, PTL

-----------------------------------------------------------------------------
(* A datum that fits becomes the item it is meant to be.                   *)

LEMMA GreaterOf ==
  ASSUME NEW a \in Int, NEW b \in Int
  PROVE  Max({a, b}) = IF a >= b THEN a ELSE b
<1> DEFINE S == {a, b}
           m == IF a >= b THEN a ELSE b
<1>1. m \in S /\ \A x \in S : (\A y \in S : x >= y) <=> x = m
  OBVIOUS
<1> HIDE DEF S, m
<1>2. Max(S) = CHOOSE x \in S : \A y \in S : x >= y
  BY DEF Max
<1>3. (CHOOSE x \in S : \A y \in S : x >= y) = (CHOOSE x \in S : x = m)
  BY <1>1
<1>4. Max(S) = m
  BY <1>1, <1>2, <1>3
<1> QED BY <1>4 DEF S, m

(* cJSON saturates a number to the int that is nearest, and atoi keeps it. *)
LEMMA NearestInt ==
  ASSUME NEW n \in Int
  PROVE  /\ Saturated(n) = Max({-IntMax - 1, Min({IntMax, n})})
         /\ WrappedInt(Saturated(n)) = Saturated(n)
<1>1. IntMax \in Nat
  BY SizesAssumption
<1> DEFINE lo == -IntMax - 1
           m == Min({IntMax, n})
<1>2. m = (IF IntMax <= n THEN IntMax ELSE n) /\ m \in Int /\ lo \in Int
  BY <1>1, LesserOf
<1> HIDE DEF m
<1>3. Max({lo, m}) = IF lo >= m THEN lo ELSE m
  BY <1>2, GreaterOf
<1>4. Saturated(n) = IF lo >= m THEN lo ELSE m
  BY <1>1, <1>2 DEF Saturated
<1>5. Saturated(n) \in Int /\ -(IntMax + 1) <= Saturated(n) /\ Saturated(n) <= IntMax
  BY <1>1, <1>2, <1>4
<1>6. WrappedInt(Saturated(n)) = Saturated(n)
  BY <1>5, Wrapping
<1> QED BY <1>3, <1>4, <1>6 DEF m

LEMMA ValueDocIs ==
  ASSUME NEW v, NEW key
  PROVE  /\ v.is = "number" => ValueDoc(v, key) = <<MakeNode("number", key, Numeral(v))>>
         /\ v.is = "tree" => ValueDoc(v, key) = [v.doc EXCEPT ![1].key = <<key>>]
         /\ v.is \notin {"number", "tree"} =>
              ValueDoc(v, key) = <<MakeNode("string", key, v.text)>>
<1> DEFINE a == <<MakeNode("number", key, Numeral(v))>>
           b == [v.doc EXCEPT ![1].key = <<key>>]
           c == <<MakeNode("string", key, v.text)>>
<1>1. ValueDoc(v, key) = CASE v.is = "number" -> a [] v.is = "tree" -> b [] OTHER -> c
  BY Zenon DEF ValueDoc
<1> HIDE DEF a, b, c
<1>2. ValueDoc(v, key) = IF v.is = "number" THEN a ELSE IF v.is = "tree" THEN b ELSE c
  BY <1>1
<1> QED BY <1>2 DEF a, b, c

(* The nodes of a number depend on its numeral only, those of a text on    *)
(* its bytes only.                                                         *)
LEMMA SameNumeral ==
  ASSUME NEW n, NEW v, v.is = "number", v.n = n, ~v.fine, NEW key
  PROVE  ValueDoc(Number(n, FALSE), key) = ValueDoc(v, key)
<1> DEFINE w == Number(n, FALSE)
<1>1. w.is = "number" /\ w.n = n /\ ~w.fine
  BY DEF Number
<1> HIDE DEF w
<1>2. Numeral(w) = Numeral(v)
  BY <1>1 DEF Numeral
<1>3. ValueDoc(w, key) = ValueDoc(v, key)
  BY <1>1, <1>2, ValueDocIs
<1> QED BY <1>3 DEF w

LEMMA SameText ==
  ASSUME NEW t, NEW v, v.is = "text", v.text = t, NEW key
  PROVE  ValueDoc(Text(t), key) = ValueDoc(v, key)
<1> DEFINE w == Text(t)
<1>1. w.is = "text" /\ w.text = t
  BY DEF Text
<1> HIDE DEF w
<1>2. ValueDoc(w, key) = ValueDoc(v, key)
  BY <1>1, ValueDocIs
<1> QED BY <1>2 DEF w

LEMMA EncodedValueIs ==
  ASSUME NEW d
  PROVE  /\ d.type \in IntTypes => EncodedValue(d) = Atoi(d.value)
         /\ d.type \in RealTypes => EncodedValue(d) = Atof(d.value)
         /\ d.type \in TextTypes \cup TreeTypes => EncodedValue(d) = d.value
<1> DEFINE a == Atoi(d.value)
           b == Atof(d.value)
           c == d.value
           e == Text(<<"invalid">>)
<1>1. EncodedValue(d) = CASE d.type \in IntTypes -> a [] d.type \in RealTypes -> b
        [] d.type \in TextTypes -> c [] d.type \in TreeTypes -> c [] OTHER -> e
  BY Zenon DEF EncodedValue
<1> HIDE DEF a, b, c, e
<1>2. EncodedValue(d) = IF d.type \in IntTypes THEN a ELSE IF d.type \in RealTypes THEN b
        ELSE IF d.type \in TextTypes THEN c ELSE IF d.type \in TreeTypes THEN c ELSE e
  BY <1>1 DEF IntTypes, RealTypes, TextTypes, TreeTypes
<1> QED BY <1>2 DEF a, b, c, e, IntTypes, RealTypes, TextTypes, TreeTypes

LEMMA HasTypeIs ==
  ASSUME NEW d, HasType(d)
  PROVE  /\ d.type \in KnownTypes
         /\ d.type \in IntTypes => /\ d.value.is \in {"number", "bool"} /\ ~d.value.fine
                                   /\ Echoed \/ Saturated(d.value.n) = d.value.n
         /\ d.type \in RealTypes => d.value.is = "number" /\ (Echoed => ~d.value.fine)
         /\ d.type \in TextTypes => d.value.is = "text" /\ Len(d.value.text) < ValueLength
         /\ d.type \in TreeTypes => /\ d.value.is = "tree"
                                    /\ Len(Rendered(d.value.doc, FALSE)) < ValueLength
<1> DEFINE a == d.value.is \in {"number", "bool"} /\ (Echoed \/ Saturated(d.value.n) = d.value.n)
                /\ ~d.value.fine
           b == d.value.is = "number" /\ (Echoed => ~d.value.fine)
           c == d.value.is = "text" /\ Len(d.value.text) < ValueLength
           e == d.value.is = "tree" /\ Len(Rendered(d.value.doc, FALSE)) < ValueLength
<1>1. (CASE d.type \in IntTypes -> a [] d.type \in RealTypes -> b
        [] d.type \in TextTypes -> c [] d.type \in TreeTypes -> e [] OTHER -> FALSE)
  BY Zenon DEF HasType
<1> HIDE DEF a, b, c, e
<1>2. IF d.type \in IntTypes THEN a ELSE IF d.type \in RealTypes THEN b
        ELSE IF d.type \in TextTypes THEN c ELSE IF d.type \in TreeTypes THEN e ELSE FALSE
  BY <1>1 DEF IntTypes, RealTypes, TextTypes, TreeTypes
<1> QED BY <1>2 DEF a, b, c, e, KnownTypes, IntTypes, RealTypes, TextTypes, TreeTypes

(* With all its fields an item is what its datum says.                     *)
LEMMA WholeItem ==
  ASSUME NEW d, d.type \in KnownTypes
  PROVE  EncodedItem(d, {}) =
           MakeItem(<<<<MakeNode("string", "identifier", d.key)>>,
                      <<MakeNode("string", "type", <<d.type>>)>>,
                      ValueDoc(EncodedValue(d), "value")>>)
BY Zenon DEF EncodedItem

LEMMA GivenArrives ==
  ASSUME NEW d, IsDatum(d), ~Echoed, Fits(d)
  PROVE  EncodedItem(d, {}) = MeantItem(d)
<1>1. /\ d.value \in Values /\ d.value.n \in Int /\ d.value.is # "bool"
      /\ HasType(d)
  BY DEF IsDatum, Values, Fits
<1>2. ValueDoc(EncodedValue(d), "value") = ValueDoc(d.value, "value")
  <2> DEFINE v == d.value
             key == "value"
  <2> HIDE DEF key
  <2>1. CASE d.type \in IntTypes
    <3>1. v.is = "number" /\ ~v.fine /\ Saturated(v.n) = v.n
      <4>1. v.is \in {"number", "bool"} /\ ~v.fine /\ Saturated(v.n) = v.n
        BY <1>1, <2>1, HasTypeIs
      <4> QED BY <1>1, <4>1
    <3>2. Atoi(v) = Number(v.n, FALSE)
      BY <1>1, <3>1, NearestInt DEF Atoi
    <3>3. ValueDoc(Atoi(v), key) = ValueDoc(v, key)
      BY <3>1, <3>2, SameNumeral
    <3> QED BY <2>1, <3>3, EncodedValueIs DEF key
  <2>2. CASE d.type \in RealTypes
    <3>1. EncodedValue(d) = v
      BY <1>1, <2>2, HasTypeIs, EncodedValueIs DEF Atof
    <3> QED BY <3>1
  <2>3. CASE d.type \in TextTypes \cup TreeTypes
    BY <2>3, EncodedValueIs
  <2> QED BY <1>1, <2>1, <2>2, <2>3, HasTypeIs DEF KnownTypes
<1>3. MeantValue(d) = d.value
  BY DEF MeantValue
<1>4. d.type \in KnownTypes
  BY <1>1, HasTypeIs
<1> QED BY <1>2, <1>3, <1>4, WholeItem DEF MeantItem

LEMMA EchoArrives ==
  ASSUME NEW item, IsItem(item), item.is = "item", Echoed, Fits(item)
  PROVE  /\ EncodedItem(Decoded(item), {}) = MeantItem(item)
         /\ Decoded(item).type \in TreeTypes => Parses(Decoded(item))
<1> DEFINE v == item.value
           d == Decoded(item)
           w == DecodedValue(item.type, v)
           key == "value"
<1>1. v \in Values /\ v.n \in Int /\ v.text \in Seq(Bytes) /\ HasType(item)
  BY DEF IsItem, Values, Fits
<1>2. d.key = item.key /\ d.type = item.type /\ d.value = w
  <2>1. Cut(item.key, KeyLength) = item.key
    BY CutType, LengthsAssumption DEF IsItem, Fits
  <2> QED BY <2>1, Zenon DEF Decoded
<1> HIDE DEF key, d, w, v
<1>3. /\ ValueDoc(EncodedValue(d), key) = ValueDoc(MeantValue(item), key)
      /\ item.type \in TreeTypes => w = v
  <2>1. CASE item.type \in IntTypes
    <3>1. v.is \in {"number", "bool"}
      BY <1>1, <2>1, HasTypeIs DEF v
    <3> DEFINE n == Saturated(v.n)
               x == Number(n, FALSE)
    <3>2. w = x
      BY <2>1, <3>1, DecodedValueIs DEF w, ValueInt
    <3>3. x.is = "number" /\ x.n = n
      BY DEF Number
    <3>4. WrappedInt(n) = n /\ n = Max({-IntMax - 1, Min({IntMax, v.n})})
      BY <1>1, NearestInt
    <3> HIDE DEF n
    <3>5. Atoi(x) = Number(n, FALSE)
      <4> HIDE DEF x
      <4>1. Atoi(x) = Number(WrappedInt(x.n), FALSE)
        BY <3>3 DEF Atoi
      <4> QED BY <3>3, <3>4, <4>1
    <3>6. MeantValue(item) = Number(n, FALSE)
      <4>1. MeantValue(item) = Number(Max({-IntMax - 1, Min({IntMax, v.n})}), FALSE)
        BY <2>1, Zenon DEF MeantValue, v
      <4> QED BY <3>4, <4>1
    <3>7. EncodedValue(d) = Atoi(x)
      BY <1>2, <2>1, <3>2, EncodedValueIs
    <3>8. item.type \notin TreeTypes
      BY <2>1 DEF IntTypes, TreeTypes
    <3> QED BY <3>5, <3>6, <3>7, <3>8
  <2>2. MeantValue(item) = v \/ item.type \in IntTypes
    BY DEF MeantValue, v
  <2>3. CASE item.type \in RealTypes
    <3>1. v.is = "number" /\ ~v.fine
      BY <1>1, <2>3, HasTypeIs DEF v
    <3> DEFINE n == v.n
               x == Number(n, FALSE)
    <3>2. w = x
      BY <2>3, <3>1, DecodedValueIs DEF w
    <3>3. Atof(x) = x
      BY DEF Atof, Number
    <3>4. EncodedValue(d) = x
      BY <1>2, <2>3, <3>2, <3>3, EncodedValueIs
    <3>5. ValueDoc(x, key) = ValueDoc(v, key)
      BY <3>1, SameNumeral
    <3>6. item.type \notin TreeTypes \cup IntTypes
      BY <2>3 DEF RealTypes, TreeTypes, IntTypes
    <3> QED BY <2>2, <3>4, <3>5, <3>6
  <2>4. CASE item.type \in TextTypes
    <3>1. v.is = "text" /\ Len(v.text) < ValueLength
      BY <1>1, <2>4, HasTypeIs DEF v
    <3>2. Cut(v.text, ValueLength) = v.text
      BY <1>1, <3>1, CutType, LengthsAssumption
    <3> DEFINE t == v.text
               x == Text(t)
    <3>3. w = x
      BY <2>4, <3>1, <3>2, DecodedValueIs DEF w
    <3>4. EncodedValue(d) = x
      BY <1>2, <2>4, <3>3, EncodedValueIs
    <3>5. ValueDoc(x, key) = ValueDoc(v, key)
      BY <3>1, SameText
    <3>6. item.type \notin TreeTypes \cup IntTypes
      BY <2>4 DEF TextTypes, TreeTypes, IntTypes
    <3> QED BY <2>2, <3>4, <3>5, <3>6
  <2>5. CASE item.type \in TreeTypes
    <3>1. v.is = "tree" /\ Len(Rendered(v.doc, FALSE)) < ValueLength
      BY <1>1, <2>5, HasTypeIs DEF v
    <3> DEFINE none == ""
    <3>2. <<none>> \in Seq(Bytes)
      <4>1. none \in Bytes
        BY NameBytes
      <4> HIDE DEF none
      <4> QED BY <4>1
    <3>3. v.doc \in Documents
      BY <1>1, <3>1, TreesAreDocuments DEF Values
    <3>4. Rendered(ValueDoc(v, none), FALSE) = Rendered(v.doc, FALSE)
      <4> HIDE DEF none
      <4>1. ValueDoc(v, none) = [v.doc EXCEPT ![1].key = <<none>>]
        BY <3>1, ValueDocIs
      <4>2. FALSE \in BOOLEAN
        OBVIOUS
      <4> QED BY <3>2, <3>3, <4>1, <4>2, Rekeyed
    <3>5. PrintedTree(v) = v
      <4> DEFINE text == Rendered(ValueDoc(v, none), FALSE)
                 other == Text(Cut(text, ValueLength))
      <4>1. PrintedTree(v) = IF Len(text) < ValueLength THEN v ELSE other
        BY Zenon DEF PrintedTree
      <4>2. Len(text) < ValueLength
        BY <3>1, <3>4
      <4> HIDE DEF text, other
      <4> QED BY <4>1, <4>2
    <3>6. w = v
      BY <2>5, <3>5, DecodedValueIs DEF w
    <3>7. EncodedValue(d) = v
      BY <1>2, <2>5, <3>6, EncodedValueIs
    <3>8. item.type \notin IntTypes
      BY <2>5 DEF TreeTypes, IntTypes
    <3> QED BY <2>2, <3>6, <3>7, <3>8
  <2> QED BY <1>1, <2>1, <2>3, <2>4, <2>5, HasTypeIs DEF KnownTypes
<1>4. item.type \in KnownTypes
  BY <1>1, HasTypeIs
<1>5. EncodedItem(d, {}) = MeantItem(item)
  <2>1. EncodedItem(d, {}) =
           MakeItem(<<<<MakeNode("string", "identifier", item.key)>>,
                      <<MakeNode("string", "type", <<item.type>>)>>,
                      ValueDoc(EncodedValue(d), key)>>)
    BY <1>2, <1>4, WholeItem DEF key
  <2> QED BY <1>3, <2>1 DEF MeantItem, key
<1>6. item.type \in TreeTypes => Parses(d)
  BY <1>1, <1>2, <1>3, HasTypeIs DEF Parses, v
<1> QED BY <1>2, <1>5, <1>6 DEF d

-----------------------------------------------------------------------------
(* What reaches the encoder, and the items that are to come of it.         *)
Delivered == [i \in DOMAIN Meant |-> IF Echoed THEN Decoded(Meant[i]) ELSE Meant[i]]
Wanted    == [i \in DOMAIN Meant |-> MeantItem(Meant[i])]

LEMMA JobKept ==
  ASSUME job' = job
  PROVE  /\ Delivered' = Delivered /\ Wanted' = Wanted
         /\ CarriesData' <=> CarriesData
<1>1. Echoed' <=> Echoed
  BY DEF Echoed
<1>2. Meant' = Meant
  BY <1>1 DEF Meant
<1>3. ASSUME NEW d PROVE MeantItem(d)' = MeantItem(d)
  <2>1. MeantValue(d)' = MeantValue(d)
    BY <1>1 DEF MeantValue
  <2> QED BY <2>1 DEF MeantItem
<1>4. Wanted' = Wanted
  BY <1>2, <1>3 DEF Wanted
<1>5. Delivered' = Delivered
  BY <1>1, <1>2 DEF Delivered
<1>6. ASSUME NEW d PROVE Fits(d)' <=> Fits(d)
  <2>1. HasType(d)' <=> HasType(d)
    BY <1>1 DEF HasType
  <2> QED BY <2>1 DEF Fits
<1>7. CarriesData' <=> CarriesData
  BY <1>1, <1>2, <1>6 DEF CarriesData, Refused
<1> QED BY <1>4, <1>5, <1>7

-----------------------------------------------------------------------------
(* Why DataArrives holds.  Until the callback is called the data are those *)
(* of the items.                                                           *)
Reading == {"decode", "decoding", "handle"}

DecodedInv ==
  /\ at # "idle" /\ job.kind = "report" => job.gives \in Reports
  /\ at = "idle" => data = <<>>
  /\ at \in {"idle"} \cup Reading => code = 0 /\ lost = {}
  /\ at \in Reading =>
       /\ Len(data) <= Len(job.items)
       /\ \A i \in DOMAIN data : data[i] = Decoded(job.items[i])
  /\ at = "decode" => data = <<>>
  /\ at = "handle" => Len(data) = Len(job.items)

(* There are as many items as data, unless the message goes without.       *)
Answering == {"respond", "print", "printing", "push"}

EncodedInv ==
  /\ at = "encoding" => Len(items) <= Len(data)
  /\ at \in {"encoded"} \cup Answering /\ "array" \notin lost => Len(items) = Len(data)
  /\ at \in {"encode", "encoding", "encoded"} \cup Answering =>
       (job.kind = "report" /\ failures = 0 => lost = {})

(* What is printed is the message, and what is sent is its text.           *)
Message == MessageDoc(job.kind, code, items, lost)
Given   == Rendered(Message, FALSE) \o Ending

SentInv ==
  /\ at \in {"printing", "push"} =>
       call.doc = Message /\ call.way = "print" /\ call.format = FALSE
  /\ at \notin {"end", "done"} => sent = Nothing
  /\ sent # Nothing =>
       /\ sent = Given
       /\ "array" \notin lost => Len(items) = Len(data)
       /\ job.kind = "report" /\ failures = 0 => lost = {}

(* Without a failure every datum that fits arrives at the encoder and its  *)
(* item in the message.                                                    *)
Flawless == at # "idle" /\ failures = 0 /\ CarriesData

FlawlessInv ==
  Flawless =>
    /\ at # "unencoded"
    /\ at \in {"encode", "encoding", "encoded", "end", "done"} \cup Answering =>
         code = 0 /\ lost = {} /\ data = Delivered
    /\ at = "encoding" => \A i \in DOMAIN items : items[i] = Wanted[i]
    /\ at \in {"encoded", "end", "done"} \cup Answering => items = Wanted
    /\ at \in {"end", "done"} /\ stage # "failed" => sent = Given

ArrivalInv == DecodedInv /\ EncodedInv /\ SentInv /\ FlawlessInv

-----------------------------------------------------------------------------
(* Each step keeps it.                                                     *)

LEMMA FailCount ==
  ASSUME DataInv, NEW n \in Nat, Fail(n)
  PROVE  failures' \in Nat /\ (failures' = 0 => failures = 0 /\ n = 0)
BY DEF Fail, DataInv, JobInv

(* What is meant to arrive is data of the application, or items of the     *)
(* request that is answered.                                               *)
LEMMA MeantType ==
  ASSUME DataInv, DecodedInv, at # "idle"
  PROVE  /\ job.kind = "report" => IsSequence(Meant) /\ ~Echoed
         /\ IsSequence(Meant)
         /\ Echoed => job \in Requests /\ \A i \in DOMAIN Meant : IsItem(Meant[i])
         /\ ~Echoed => \A i \in DOMAIN Meant : IsDatum(Meant[i])
<1>1. CASE job.kind = "report"
  <2>1. job.gives \in Reports /\ ~Echoed /\ Meant = job.gives
    BY <1>1 DEF DecodedInv, Echoed, Meant
  <2> QED BY <2>1, ExchangesAssumption
<1>2. CASE job.kind # "report"
  <2>1. job \in Requests
    BY <1>2 DEF DataInv, JobInv
  <2> QED BY <1>2, <2>1, ExchangesAssumption DEF Meant
<1> QED BY <1>1, <1>2

(* What is delivered is encoded as it is wanted.                           *)
LEMMA WantedItems ==
  ASSUME DataInv, DecodedInv, at # "idle", CarriesData
  PROVE  /\ DOMAIN Delivered = DOMAIN Meant /\ DOMAIN Wanted = DOMAIN Meant
         /\ \A i \in DOMAIN Meant : /\ EncodedItem(Delivered[i], {}) = Wanted[i]
                                    /\ Delivered[i].type \in TreeTypes => Parses(Delivered[i])
<1> SUFFICES ASSUME NEW i \in DOMAIN Meant
             PROVE  /\ EncodedItem(Delivered[i], {}) = Wanted[i]
                    /\ Delivered[i].type \in TreeTypes => Parses(Delivered[i])
  BY DEF Delivered, Wanted
<1>1. Fits(Meant[i]) /\ Wanted[i] = MeantItem(Meant[i])
  BY DEF CarriesData, Wanted
<1>2. CASE Echoed
  <2>1. Delivered[i] = Decoded(Meant[i]) /\ IsItem(Meant[i]) /\ Meant[i].is = "item"
    BY <1>2, MeantType DEF Delivered, CarriesData, Meant
  <2> QED BY <1>1, <1>2, <2>1, EchoArrives
<1>3. CASE ~Echoed
  <2>1. Delivered[i] = Meant[i] /\ IsDatum(Meant[i])
    BY <1>3, MeantType DEF Delivered
  <2>2. Meant[i].type \in TreeTypes => Parses(Meant[i])
    BY <1>1, HasTypeIs DEF Fits, Parses
  <2> QED BY <1>1, <1>3, <2>1, <2>2, GivenArrives
<1> QED BY <1>2, <1>3

(* A sequence as a function.                                               *)
LEMMA AsFunction ==
  ASSUME NEW s, IsSequence(s)
  PROVE  /\ Len(s) \in Nat /\ DOMAIN s = 1..Len(s) /\ s = [i \in 1..Len(s) |-> s[i]]
         /\ s = [i \in DOMAIN s |-> s[i]]
BY DEF IsSequence

(* The text that is given to the websocket client.                         *)
LEMMA PushedText ==
  ASSUME PrintingInv, stage = "done", call.way = "print"
  PROVE  SubSeq(mem, 1, offset) = Rendered(call.doc, call.format)
<1> DEFINE text == Rendered(call.doc, call.format)
<1>1. /\ call.doc \in Documents /\ call.format \in BOOLEAN /\ next = Len(call.doc) + 1
      /\ call.doc \in Seq(Nodes) /\ \A i \in 1..next - 1 : HasText(call.doc[i])
      /\ Len(call.doc) \in Nat /\ next \in 1..Len(call.doc) + 1
      /\ Possible(call.doc, call.format, "done", next)
  <2>1. stage \in Active
    BY DEF Active
  <2> QED BY <2>1, Doing DEF Possible
<1>2. Shown(call.doc, call.format, stage, next) = text
  BY <1>1, ShownWhole
<1>3. offset = Len(text)
  <2>1. Holds(text)
    BY <1>2 DEF PrintingInv, TextInv, Active
  <2> QED BY <2>1 DEF Holds, Pending
<1>4. SubSeq(mem, 1, Len(text)) = text
  BY DoneIsRendered DEF TextIsRendered
<1> QED BY <1>3, <1>4

LEMMA BeginArrives ==
  ASSUME DataInv, ArrivalInv, BeginReport \/ BeginRequest PROVE ArrivalInv'
<1> USE DEF ArrivalInv, DecodedInv, EncodedInv, SentInv, FlawlessInv, Answering, Reading
<1>1. CASE BeginReport
  <2>1. PICK r \in Reports : job' = [kind |-> "report", gives |-> r] /\ data' = r
    BY <1>1 DEF BeginReport
  <2>2. /\ at = "idle" /\ UNCHANGED <<items, code, sent>> /\ at' \in {"encode", "done"}
        /\ failures' = 0 => at' = "encode" /\ lost' = lost
    BY <1>1 DEF BeginReport, Add, Fail, DataInv, JobInv
  <2>3. Delivered' = data'
    <3>1. ~Echoed' /\ Meant' = r
      BY <2>1 DEF Echoed, Meant
    <3>2. Delivered' = [i \in DOMAIN r |-> r[i]]
      BY <3>1 DEF Delivered
    <3> QED BY <2>1, <3>2, ExchangesAssumption, AsFunction
  <2> QED BY <2>1, <2>2, <2>3 DEF Flawless
<1>2. CASE BeginRequest
  <2>1. PICK r \in Requests : job' = r
    BY <1>2 DEF BeginRequest
  <2>2. /\ at = "idle" /\ at' = "decode" /\ UNCHANGED <<data, items, lost, code, sent>>
    BY <1>2 DEF BeginRequest
  <2>3. IsSequence(r.items) /\ r.kind # "report" /\ Len(r.items) >= 0
    <3>1. IsSequence(r.items) /\ r.kind # "report"
      BY ExchangesAssumption
    <3> QED BY <3>1, AsFunction
  <2> QED BY <2>1, <2>2, <2>3 DEF Flawless
<1> QED BY <1>1, <1>2

LEMMA DecodeArrives ==
  ASSUME DataInv, ArrivalInv, DecodeBegins \/ DecodeItem \/ DecodeEnds PROVE ArrivalInv'
<1> USE DEF ArrivalInv, DecodedInv, EncodedInv, SentInv, FlawlessInv, Answering, Reading
<1>1. UNCHANGED <<job, items, lost, code, sent, stage>> /\ job.kind # "report" /\ job \in Requests
  BY DEF DecodeBegins, DecodeItem, DecodeEnds, DataInv, JobInv, printVars
<1>2. CarriesData' <=> CarriesData
  BY <1>1, JobKept
<1>3. IsSequence(job.items) /\ Len(job.items) \in Nat /\ DOMAIN job.items = 1..Len(job.items)
  BY <1>1, ExchangesAssumption, AsFunction
<1>4. CASE DecodeBegins
  <2>1. CASE job.items = <<>>
    <3>1. /\ at = "decode" /\ UNCHANGED data /\ at' \in {"handle"}
      BY <1>4, <2>1 DEF DecodeBegins
    <3> QED BY <1>1, <2>1, <3>1 DEF Flawless
  <2>2. CASE job.items # <<>>
    <3>1. /\ at = "decode" /\ UNCHANGED data /\ at' \in {"decoding", "end"}
          /\ failures' = 0 => at' = "decoding"
      BY <1>4, <2>2 DEF DecodeBegins, Fail, DataInv, JobInv
    <3> QED BY <1>1, <3>1 DEF Flawless
  <2> QED BY <2>1, <2>2
<1>5. CASE DecodeItem
  <2> DEFINE n == Len(data) + 1
             item == job.items[n]
  <2>1. at = "decoding" /\ Len(data) < Len(job.items) /\ IsSequence(data)
    BY <1>5 DEF DecodeItem, DataInv, JobInv
  <2>2. n \in DOMAIN job.items
    BY <1>3, <2>1, AsFunction
  <2>3. CASE data' = Append(data, Decoded(item)) /\ at' = at
    <3> DEFINE e == Decoded(item)
    <3> HIDE DEF e
    <3>1. /\ Len(data) \in Nat /\ DOMAIN data = 1..Len(data)
          /\ Len(data') = n /\ DOMAIN data' = 1..n
          /\ \A i \in 1..Len(data) : data'[i] = data[i]
          /\ data'[n] = e
      BY <2>1, <2>3, AppendAt DEF e
    <3>2. \A i \in DOMAIN data' : data'[i] = Decoded(job.items[i])
      <4> SUFFICES ASSUME NEW i \in DOMAIN data' PROVE data'[i] = Decoded(job.items[i])
        OBVIOUS
      <4>1. CASE i = n
        BY <3>1, <4>1 DEF e
      <4>2. CASE i # n
        BY <2>1, <3>1, <4>2
      <4> QED BY <4>1, <4>2
    <3>3. Len(data') <= Len(job.items)
      BY <1>3, <2>1, <3>1
    <3> HIDE DEF item
    <3> QED BY <1>1, <2>1, <2>3, <3>2, <3>3 DEF Flawless
  <2>4. CASE data' = data /\ at' = "crashed"
    BY <1>1, <2>1, <2>4 DEF Flawless
  <2>5. CASE data' = data /\ at' = "end"
    <3>1. ~Complete(item) \/ failures' # 0
      BY <1>5, <2>1, <2>5 DEF DecodeItem, Fail, DataInv, JobInv
    <3>2. ~Flawless'
      BY <1>1, <1>2, <2>2, <3>1 DEF Flawless, CarriesData
    <3> QED BY <1>1, <2>1, <2>5, <3>2
  <2> QED BY <1>5, <2>3, <2>4, <2>5 DEF DecodeItem
<1>6. CASE DecodeEnds
  <2>1. at = "decoding" /\ at' = "handle" /\ Len(data) = Len(job.items) /\ UNCHANGED data
    BY <1>6 DEF DecodeEnds
  <2> QED BY <1>1, <1>3, <2>1 DEF Flawless
<1> QED BY <1>4, <1>5, <1>6

(* With room for all of it, and no key that is empty, all the output of a  *)
(* service is counted.                                                     *)
LEMMA WholeOutput ==
  ASSUME DataInv, DecodedInv, at = "handle", job \in Requests, job.kind = "service", job.hook,
         CarriesData, NEW n \in 0..Len(Output), n <= OutputMax, Counted(Output, n)
  PROVE  n = Len(Output)
<1>1. /\ IsSequence(Output) /\ Len(Output) \in Nat /\ DOMAIN Output = 1..Len(Output)
      /\ OutputMax \in Nat
  BY OutputSequence, AsFunction, LengthsAssumption
<1>2. Len(Output) <= OutputMax /\ \A i \in DOMAIN Output : Output[i].key # <<>>
  <2>1. CASE job.echo
    <3>1. Output = data /\ Echoed /\ Meant = job.items
      BY <2>1 DEF Output, Echoed, Meant
    <3>2. /\ IsSequence(job.items) /\ Len(job.items) <= OutputMax
          /\ \A i \in DOMAIN job.items : IsItem(job.items[i])
      BY <2>1, ExchangesAssumption
    <3>3. Len(data) = Len(job.items) /\ \A i \in DOMAIN data : data[i] = Decoded(job.items[i])
      BY DEF DecodedInv, Reading
    <3>4. \A i \in DOMAIN data : data[i].key # <<>>
      <4> SUFFICES ASSUME NEW i \in DOMAIN data PROVE data[i].key # <<>>
        OBVIOUS
      <4> DEFINE item == job.items[i]
      <4>1. i \in DOMAIN job.items
        BY <1>1, <3>1, <3>2, <3>3, AsFunction
      <4>2. IsItem(item) /\ Fits(item)
        BY <3>1, <3>2, <4>1 DEF CarriesData
      <4>3. Decoded(item).key = Cut(item.key, KeyLength)
        BY DEF Decoded
      <4>4. Cut(item.key, KeyLength) = item.key
        BY <4>2, CutType, LengthsAssumption DEF IsItem, Fits
      <4> HIDE DEF item
      <4>5. item.key # <<>>
        BY <4>2 DEF Fits
      <4> QED BY <3>3, <4>3, <4>4, <4>5 DEF item
    <3> QED BY <3>1, <3>2, <3>3, <3>4
  <2>2. CASE ~job.echo
    <3>1. Output = job.gives /\ Meant = job.gives
      BY <2>2 DEF Output, Echoed, Meant
    <3>2. Len(job.gives) <= OutputMax
      BY <2>2, ExchangesAssumption
    <3> QED BY <3>1, <3>2 DEF CarriesData, Fits
  <2> QED BY <2>1, <2>2
<1> DEFINE m == Len(Output)
<1>3. m \in Nat /\ n \in Nat /\ n <= m /\ m <= OutputMax
  BY <1>1, <1>2
<1>4. ~(n < m)
  <2> SUFFICES ASSUME n < m PROVE FALSE
    OBVIOUS
  <2>1. n = OutputMax \/ Output[n + 1].key = <<>>
    BY DEF Counted
  <2>2. n + 1 \in DOMAIN Output
    BY <1>1, <1>3
  <2>3. n = OutputMax
    BY <1>2, <2>1, <2>2
  <2> HIDE DEF m
  <2> QED BY <1>1, <1>3, <2>3
<1> HIDE DEF m
<1>5. n = m
  BY <1>3, <1>4
<1> QED BY <1>5 DEF m

(* Without a failure there has been none before.                           *)
LEMMA FailureLeft ==
  ASSUME DataInv, failures' = 0, HandleGet \/ HandleSet \/ HandleService
  PROVE  failures = 0
BY DEF HandleGet, HandleSet, HandleService, Fail, DataInv, JobInv

LEMMA HandleArrives ==
  ASSUME DataInv, ArrivalInv, HandleGet \/ HandleSet \/ HandleService PROVE ArrivalInv'
<1> USE DEF ArrivalInv, DecodedInv, EncodedInv, SentInv, FlawlessInv, Answering, Reading
<1>1. /\ at = "handle" /\ at' \in {"end", "respond", "encode"}
      /\ UNCHANGED <<job, items, sent, stage>> /\ job.kind # "report" /\ job \in Requests
  BY DEF HandleGet, HandleSet, HandleService, DataInv, JobInv, printVars
<1>2. /\ at' = "respond" => "array" \in lost'
      /\ at' = "encode" => lost' = lost /\ code' \in {0, 1} /\ (job.hook => code' = 0)
  BY <1>1 DEF HandleGet, HandleSet, HandleService
<1>3. CASE ~Flawless'
  BY <1>1, <1>2, <1>3
<1>4. CASE Flawless'
  <2>1. CarriesData /\ Delivered' = Delivered /\ failures' = 0
    BY <1>1, <1>4, JobKept DEF Flawless
  <2>2. job.kind # "set" /\ ~job.refuse /\ job.hook /\ failures = 0
    BY <1>1, <1>4, <2>1, FailureLeft DEF CarriesData, Refused, HandleGet, HandleSet, HandleService
  <2>3. at' = "encode" /\ data' = IF Echoed THEN data ELSE job.gives
    <3>1. CASE HandleGet
      BY <2>1, <2>2, <3>1 DEF HandleGet, Refused, Fail, Echoed
    <3>2. CASE HandleService
      <4>1. at' = "encode" /\ job.kind = "service"
        BY <2>1, <2>2, <3>2 DEF HandleService, Fail
      <4>2. PICK n \in 0..Len(Output) :
              n <= OutputMax /\ Counted(Output, n) /\ data' = SubSeq(Output, 1, n)
        BY <2>2, <3>2, <4>1 DEF HandleService
      <4>3. Output = IF Echoed THEN data ELSE job.gives
        BY <2>2, <4>1 DEF Output, Echoed
      <4>4. n = Len(Output)
        BY <1>1, <2>1, <2>2, <4>1, <4>2, WholeOutput
      <4>5. IsSequence(Output)
        BY <1>1, OutputSequence
      <4> QED BY <4>1, <4>2, <4>3, <4>4, <4>5, Beginning
    <3> QED BY <2>2, <3>1, <3>2 DEF HandleSet
  <2>4. data' = Delivered
    <3>1. CASE Echoed
      <4>1. /\ Delivered = [i \in DOMAIN job.items |-> Decoded(job.items[i])]
            /\ IsSequence(job.items) /\ IsSequence(data)
        BY <1>1, <3>1, ExchangesAssumption DEF Delivered, Meant, DataInv, JobInv
      <4>2. DOMAIN data = DOMAIN job.items
        BY <1>1, <4>1, AsFunction
      <4>3. data = [i \in DOMAIN data |-> data[i]] /\ \A i \in DOMAIN data : data[i] = Decoded(job.items[i])
        BY <1>1, <4>1, AsFunction
      <4> QED BY <2>3, <3>1, <4>1, <4>2, <4>3
    <3>2. CASE ~Echoed
      <4>1. Delivered = [i \in DOMAIN job.gives |-> job.gives[i]]
        BY <3>2 DEF Delivered, Meant
      <4>2. IsSequence(job.gives)
        BY <1>1, ExchangesAssumption
      <4> QED BY <2>3, <3>2, <4>1, <4>2, AsFunction
    <3> QED BY <3>1, <3>2
  <2>5. code' = 0 /\ lost' = {}
    BY <1>1, <1>2, <2>2, <2>3
  <2> QED BY <1>1, <2>1, <2>3, <2>4, <2>5
<1> QED BY <1>3, <1>4

LEMMA EncodeArrives ==
  ASSUME DataInv, ArrivalInv, EncodeBegins \/ EncodeItem \/ EncodeEnds PROVE ArrivalInv'
<1> USE DEF ArrivalInv, DecodedInv, EncodedInv, SentInv, FlawlessInv, Answering, Reading
<1>1. /\ UNCHANGED <<job, data, lost, code, sent, stage>> /\ at \in {"encode", "encoding"}
      /\ IsSequence(data) /\ IsSequence(items)
  BY DEF EncodeBegins, EncodeItem, EncodeEnds, DataInv, JobInv, printVars
<1>2. /\ CarriesData' <=> CarriesData
      /\ Delivered' = Delivered /\ Wanted' = Wanted
  BY <1>1, JobKept
<1>a. Len(data) \in Nat /\ Len(items) \in Nat
  BY <1>1, AsFunction
<1>3. CASE EncodeBegins
  <2>1. /\ at = "encode" /\ at' \in {"encoding", "unencoded"} /\ items' = <<>>
        /\ failures' = 0 => failures = 0 /\ at' = "encoding"
    BY <1>3 DEF EncodeBegins, Fail, DataInv, JobInv
  <2>2. Len(items') = 0 /\ DOMAIN items' = {}
    BY <2>1
  <2>3. Flawless' => Flawless /\ at' = "encoding"
    BY <1>2, <2>1 DEF Flawless
  <2>4. DecodedInv' /\ EncodedInv' /\ SentInv'
    BY <1>1, <1>a, <2>1, <2>2
  <2>5. FlawlessInv'
    BY <1>1, <1>2, <2>1, <2>2, <2>3
  <2> QED BY <2>4, <2>5
<1>4. CASE EncodeItem
  <2> DEFINE n == Len(items) + 1
  <2>1. at = "encoding" /\ Len(items) < Len(data)
    BY <1>4 DEF EncodeItem
  <2>2. n \in DOMAIN data
    BY <1>1, <2>1, AsFunction
  <2>3. CASE at' = "crashed"
    BY <1>1, <2>1, <2>3 DEF Flawless
  <2>4. CASE at' = "unencoded"
    <3>1. failures' # 0 \/ (failures = 0 /\ Current.type \in TreeTypes /\ ~Parses(Current))
      BY <1>4, <2>1, <2>4 DEF EncodeItem, Fail, DataInv, JobInv
    <3>2. ~Flawless'
      <4> SUFFICES ASSUME Flawless' PROVE FALSE
        OBVIOUS
      <4>1. Flawless /\ Current.type \in TreeTypes /\ ~Parses(Current)
        BY <1>2, <2>1, <3>1 DEF Flawless
      <4>2. data = Delivered /\ Current = Delivered[n] /\ DOMAIN data = DOMAIN Meant
        BY <2>1, <4>1, WantedItems DEF Flawless, Current
      <4> QED BY <2>1, <2>2, <4>1, <4>2, WantedItems DEF Flawless
    <3> QED BY <1>1, <2>1, <2>4, <3>2 DEF Flawless
  <2>5. CASE at' = at
    <3>1. PICK gone \in SUBSET {"identifier", "type", "value"} :
            Fail(Cardinality(gone)) /\ items' = Append(items, EncodedItem(Current, gone))
      BY <1>4, <2>1, <2>5 DEF EncodeItem
    <3> DEFINE e == EncodedItem(Current, gone)
    <3>2. failures' = 0 => failures = 0 /\ gone = {}
      BY <3>1, FieldCount, FailCount
    <3>3. /\ DOMAIN items = 1..Len(items)
          /\ Len(items') = n /\ DOMAIN items' = 1..n
          /\ \A i \in 1..Len(items) : items'[i] = items[i]
          /\ items'[n] = e
      <4> HIDE DEF e
      <4>1. items' = Append(items, e)
        BY <3>1 DEF e
      <4> QED BY <1>1, <4>1, AppendAt
    <3>4. Len(items') <= Len(data)
      BY <1>a, <2>1, <3>3
    <3>5. Flawless' => Flawless /\ \A i \in DOMAIN items' : items'[i] = Wanted[i]
      <4> SUFFICES ASSUME Flawless' PROVE Flawless /\ \A i \in DOMAIN items' : items'[i] = Wanted[i]
        OBVIOUS
      <4>1. Flawless /\ gone = {}
        BY <1>2, <2>1, <3>2 DEF Flawless
      <4>2. data = Delivered /\ Current = Delivered[n] /\ DOMAIN data = DOMAIN Meant
        BY <2>1, <4>1, WantedItems DEF Flawless, Current
      <4>3. e = Wanted[n]
        BY <2>1, <2>2, <4>1, <4>2, WantedItems DEF Flawless
      <4> HIDE DEF e
      <4> SUFFICES ASSUME NEW i \in DOMAIN items' PROVE items'[i] = Wanted[i]
        BY <4>1
      <4>4. CASE i = n
        BY <3>3, <4>3, <4>4
      <4>5. CASE i # n
        <5>1. i \in 1..Len(items)
          BY <1>a, <3>3, <4>5
        <5> QED BY <2>1, <3>3, <4>1, <5>1
      <4> QED BY <4>4, <4>5
    <3> HIDE DEF e, n
    <3>6. failures' = 0 => failures = 0
      BY <3>2
    <3>7. DecodedInv' /\ EncodedInv' /\ SentInv'
      BY <1>1, <2>1, <2>5, <3>4, <3>6
    <3>8. FlawlessInv'
      BY <1>1, <1>2, <2>1, <2>5, <3>5
    <3> QED BY <3>7, <3>8
  <2> QED BY <1>4, <2>1, <2>3, <2>4, <2>5 DEF EncodeItem
<1>5. CASE EncodeEnds
  <2>1. /\ at = "encoding" /\ at' = "encoded" /\ Len(items) = Len(data)
        /\ UNCHANGED <<items, failures>>
    BY <1>5 DEF EncodeEnds
  <2>2. Flawless => items = Wanted
    <3> SUFFICES ASSUME Flawless PROVE items = Wanted
      OBVIOUS
    <3>1. data = Delivered /\ \A i \in DOMAIN items : items[i] = Wanted[i]
      BY <2>1
    <3>2. DOMAIN data = DOMAIN Wanted /\ Wanted = [i \in DOMAIN Meant |-> Wanted[i]]
          /\ DOMAIN Wanted = DOMAIN Meant
      BY <3>1, WantedItems DEF Flawless, Wanted
    <3>3. DOMAIN items = DOMAIN data
      BY <1>1, <2>1, AsFunction
    <3>4. items = [i \in DOMAIN items |-> items[i]]
      BY <1>1, AsFunction
    <3> QED BY <3>1, <3>2, <3>3, <3>4
  <2> QED BY <1>1, <1>2, <2>1, <2>2 DEF Flawless
<1> QED BY <1>3, <1>4, <1>5

LEMMA MessageKept ==
  ASSUME UNCHANGED <<job, code, items, lost>> PROVE Message' = Message /\ Given' = Given
BY DEF Message, Given, Ending

LEMMA MessageArrives ==
  ASSUME DataInv, PrintingInv, ArrivalInv,
         Encoded \/ NotEncoded \/ Respond \/ PrintMessage \/ Printed \/ Push \/ Finish
  PROVE  ArrivalInv'
<1> USE DEF ArrivalInv, DecodedInv, EncodedInv, SentInv, FlawlessInv, Answering, Reading
<1>1. /\ UNCHANGED <<job, data, items, code>> /\ at # "idle" /\ at' # "idle"
  BY DEF Encoded, NotEncoded, Respond, PrintMessage, Printed, Push, Finish, Afterwards
<1>2. /\ CarriesData' <=> CarriesData
      /\ Delivered' = Delivered /\ Wanted' = Wanted
  BY <1>1, JobKept
<1>a. failures \in Nat
  BY DEF DataInv, JobInv
<1>3. CASE Encoded
  <2>1. /\ at = "encoded" /\ at' \in {"print", "respond"} /\ UNCHANGED sent
        /\ lost \subseteq lost' /\ (failures' = 0 => failures = 0 /\ lost' = lost)
    BY <1>3, <1>a DEF Encoded, Add, Fail
  <2> QED BY <1>1, <1>2, <2>1 DEF Flawless
<1>4. CASE NotEncoded
  <2>1. /\ at = "unencoded" /\ UNCHANGED <<sent, failures>> /\ "array" \in lost'
        /\ at' = IF job.kind = "report" THEN "done" ELSE "respond"
    BY <1>4 DEF NotEncoded
  <2> QED BY <1>1, <1>2, <2>1 DEF Flawless
<1>5. CASE Respond
  <2>1. /\ at = "respond" /\ at' \in {"end", "print"} /\ UNCHANGED sent
        /\ lost \subseteq lost'
        /\ failures' = 0 => failures = 0 /\ lost' = lost /\ at' = "print"
    BY <1>5, <1>a DEF Respond, Add, Fail
  <2> QED BY <1>1, <1>2, <2>1 DEF Flawless
<1>6. CASE PrintMessage
  <2>1. PICK gone \in SUBSET {"code", "messageId"} :
          Fail(Cardinality(gone)) /\ lost' = lost \cup gone
    BY <1>6 DEF PrintMessage
  <2>2. failures' = 0 => failures = 0 /\ lost' = lost
    BY <2>1, NumberCount, FailCount
  <2>3. at = "print" /\ at' = "printing" /\ UNCHANGED sent
    BY <1>6 DEF PrintMessage
  <2> DEFINE c == [doc |-> MessageDoc(job.kind, code, items, lost'),
                   way |-> "print", size |-> 0, format |-> FALSE]
  <2>4. call' = c
    BY <1>6, BeginStage DEF PrintMessage
  <2>5. /\ call'.doc = MessageDoc(job.kind, code, items, lost')
        /\ call'.way = "print" /\ call'.format = FALSE
    BY <2>4
  <2>6. Message' = MessageDoc(job.kind, code, items, lost')
    BY <1>1 DEF Message
  <2>7. "array" \notin lost' => "array" \notin lost
    BY <2>1
  <2> QED BY <1>1, <1>2, <2>2, <2>3, <2>5, <2>6, <2>7 DEF Flawless
<1>7. CASE Printed
  <2>1. /\ at = "printing" /\ UNCHANGED <<lost, sent, failures, stage, call>>
        /\ stage \in {"done", "failed"}
        /\ at' = IF stage = "done" THEN "push" ELSE Afterwards
    BY <1>7 DEF Printed, printVars
  <2>2. Afterwards \in {"end", "done"}
    BY DEF Afterwards
  <2>3. Message' = Message /\ Given' = Given
    BY <1>1, <2>1, MessageKept
  <2> QED BY <1>1, <1>2, <2>1, <2>2, <2>3 DEF Flawless
<1>8. CASE Push
  <2>1. /\ at = "push" /\ at' \in {"end", "done"} /\ UNCHANGED lost
        /\ failures' \in Nat
        /\ \/ sent' = SubSeq(mem, 1, offset) \o Ending /\ failures' = failures
           \/ sent' = sent /\ failures' # 0
    <3>1. at = "push" /\ UNCHANGED lost /\ at' = Afterwards
      BY <1>8 DEF Push
    <3>2. \/ sent' = SubSeq(mem, 1, offset) \o Ending /\ Fail(0)
          \/ sent' = sent /\ Fail(1)
      BY <1>8 DEF Push
    <3> DEFINE text == SubSeq(mem, 1, offset) \o Ending
    <3> HIDE DEF text
    <3>3. (sent' = text /\ Fail(0)) \/ (sent' = sent /\ Fail(1))
      BY <3>2 DEF text
    <3>4. (Fail(0) => failures' = failures) /\ (Fail(1) => failures' = failures + 1)
      BY <1>a DEF Fail
    <3>5. at' \in {"end", "done"}
      BY <3>1 DEF Afterwards
    <3>6. (sent' = text /\ failures' = failures) \/ (sent' = sent /\ failures' # 0)
      BY <1>a, <3>3, <3>4
    <3>7. failures' \in Nat
      BY <1>a, <3>3, <3>4
    <3> QED BY <3>1, <3>5, <3>6, <3>7 DEF text
  <2>2. SubSeq(mem, 1, offset) \o Ending = Given
    <3>1. stage = "done" /\ call.doc = Message /\ call.way = "print" /\ call.format = FALSE
      BY <2>1 DEF DataInv, PrinterInv
    <3> QED BY <3>1, PushedText DEF Given
  <2>3. Message' = Message /\ Given' = Given
    BY <1>1, <2>1, MessageKept
  <2> QED BY <1>1, <1>2, <2>1, <2>2, <2>3 DEF Flawless
<1>9. CASE Finish
  <2>1. at = "end" /\ at' = "done" /\ UNCHANGED <<lost, sent, failures, stage>>
    BY <1>9 DEF Finish, printVars
  <2>2. Message' = Message /\ Given' = Given
    BY <1>1, <2>1, MessageKept
  <2> QED BY <1>1, <1>2, <2>1, <2>2 DEF Flawless
<1> QED BY <1>3, <1>4, <1>5, <1>6, <1>7, <1>8, <1>9

LEMMA PrintArrives ==
  ASSUME DataInv, ArrivalInv,
         PrintForOthers \/ (PrintStep /\ UNCHANGED exchangeVars) \/ UNCHANGED dataVars
  PROVE  ArrivalInv'
<1> USE DEF ArrivalInv, DecodedInv, EncodedInv, SentInv, FlawlessInv, Answering, Reading
<1>1. UNCHANGED <<job, at, data, items, lost, code, sent, failures>>
  BY DEF PrintForOthers, exchangeVars, dataVars
<1>2. /\ CarriesData' <=> CarriesData
      /\ Delivered' = Delivered /\ Wanted' = Wanted /\ Message' = Message
      /\ Given' = Given
  BY <1>1, JobKept, MessageKept
<1>3. at \in {"printing", "push"} => call' = call
  BY PrinterSteps DEF PrintForOthers, dataVars, printVars
<1>4. at \in {"end", "done"} => stage' = stage
  BY PrinterSteps DEF PrintForOthers, dataVars, printVars, DataInv, PrinterInv
<1>5. DecodedInv' /\ EncodedInv'
  BY <1>1
<1>6. SentInv'
  BY <1>1, <1>2, <1>3
<1>7. FlawlessInv'
  BY <1>1, <1>2, <1>4 DEF Flawless
<1> QED BY <1>5, <1>6, <1>7

LEMMA ArrivalKept ==
  ASSUME DataInv, PrintingInv, ArrivalInv, [DataNext]_dataVars PROVE ArrivalInv'
BY BeginArrives, DecodeArrives, HandleArrives, EncodeArrives, MessageArrives, PrintArrives
DEF DataNext, Over

LEMMA ArrivalInits == DataInit => ArrivalInv
BY DEF DataInit, ArrivalInv, DecodedInv, EncodedInv, SentInv, FlawlessInv, Flawless,
       Answering, Reading

(* Every state of an exchange has the data, the items and the text that    *)
(* have come of what it began with.                                        *)
THEOREM ArrivalHolds == DataSpec => []ArrivalInv
<1>1. DataInv /\ (PrintingInv /\ TypesInv) /\ ArrivalInv /\ [DataNext]_dataVars => ArrivalInv'
  BY ArrivalKept
<1> QED BY <1>1, ArrivalInits, InvariantHolds, PrinterIsSound, PTL DEF DataSpec

(* Whatever is reported or given back, when an exchange is over without a  *)
(* failed allocation each value that fits its type is in the message that  *)
(* was sent; and no message that is sent has some of the data only         *)
(* (struct_data_to_json_data, json_data_to_struct_data, cJSON_Print and    *)
(* leda_send_rsp between them).                                            *)
THEOREM DataDoArrive == DataSpec => []DataArrives
<1>1. DataInv /\ ArrivalInv => DataArrives
  <2> SUFFICES ASSUME DataInv, ArrivalInv, at = "done" PROVE DataArrives
    BY DEF DataArrives
  <2>1. ASSUME failures = 0, stage # "failed", CarriesData
        PROVE  sent = Rendered(MessageDoc(job.kind, 0, Wanted, {}), FALSE) \o Ending
    BY <2>1 DEF ArrivalInv, FlawlessInv, Flawless, Message, Given
  <2>2. ASSUME sent # Nothing
        PROVE  /\ sent = Rendered(MessageDoc(job.kind, code, items, lost), FALSE) \o Ending
               /\ "array" \notin lost => Len(items) = Len(data)
               /\ job.kind = "report" /\ failures = 0 => lost = {}
    BY <2>2 DEF ArrivalInv, SentInv, Message, Given
  <2> QED BY <2>1, <2>2 DEF DataArrives, Wanted
<1> QED BY <1>1, InvariantHolds, ArrivalHolds, PTL
=============================================================================
