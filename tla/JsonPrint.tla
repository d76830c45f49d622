----------------------------- MODULE JsonPrint -----------------------------
(***************************************************************************)
(* Printing a JSON document into a buffer that grows: the printing half of *)
(* sdk/utility/json/cJSON.c.                                               *)
(*                                                                         *)
(* Every piece of the text is printed in the same manner: ensure makes     *)
(* room for it behind offset, or fails and may have freed the buffer; the  *)
(* bytes are stored; and offset is advanced, at once or, for most pieces,  *)
(* by a later update_offset that looks for the terminating zero.  A caller *)
(* passes a failure on at once, and the outermost one releases the buffer. *)
(*                                                                         *)
(* A document is the sequence of its nodes in the order they are printed,  *)
(* with an "end" behind the children of each container.  A byte is a       *)
(* string, and so is a numeral, which counts as one byte.  The module that *)
(* has the calls (DeviceData) has the specification.                       *)
(***************************************************************************)
EXTENDS Integers, SequencesExt

CONSTANTS
  DefaultSize,   \* default_buffer_size, 256
  IntMax,        \* INT_MAX
  NumberBuffer,  \* bytes of number_buffer, 26
  Bytes,         \* the bytes of a C string: all but its zero
  Calls          \* calls of the printing functions

Containers == {"array", "object"}
Kinds == Containers \cup
  {"end", "null", "true", "false", "number", "string", "raw", "invalid"}
Ways == {"print", "buffered", "preallocated"}

Nul   == "NUL"
Junk  == "junk"   \* a byte that has not been written
Quote == "\""

(* The bytes the printer has of its own.                                   *)
Syntax == {Quote, "\\", "\n", "\t", " ", "[", "]", "{", "}", ",", ":",
           "n", "t", "u", "0", "7", "l", "r", "e", "f", "a", "s"}

ASSUME BytesAssumption == Nul \notin Bytes /\ Syntax \subseteq Bytes

Opens(doc, i) == Cardinality({j \in 1..i : doc[j].kind \in Containers})
Ends(doc, i)  == Cardinality({j \in 1..i : doc[j].kind = "end"})

(* The number of containers around node i.                                 *)
Around(doc, i) == Opens(doc, i - 1) - Ends(doc, i - 1)

(* The nodes of one value: every node but the first is within it.          *)
IsTree(doc) ==
  /\ Len(doc) > 0 /\ Around(doc, Len(doc) + 1) = 0
  /\ \A i \in 2..Len(doc) : Around(doc, i) > 0

Trees == {doc \in Seq([kind : Kinds, key : Seq(Bytes), text : Seq(Bytes)]) : IsTree(doc)}

ASSUME SizesAssumption ==
  /\ DefaultSize \in Nat \ {0} /\ NumberBuffer \in Nat
  /\ IntMax \in Nat /\ DefaultSize <= IntMax
ASSUME CallsAssumption ==
  \A c \in Calls :
    /\ c.doc \in Trees
    /\ c.way \in Ways /\ c.size \in 0..IntMax /\ c.format \in BOOLEAN

VARIABLES
  call,    \* the document, the function, the size given to it, and whether to format
  stage,   \* what is to be done next
  next,    \* the node to be printed next
  open,    \* the containers that are open, the innermost last
  mem,     \* the bytes of the buffer; its length is their number
  offset,
  alive,   \* the buffer is allocated
  \* history
  outside  \* a byte outside the buffer has been written or read

printVars == <<call, stage, next, open, mem, offset, alive, outside>>

Idle == [doc |-> <<>>, way |-> "print", size |-> 0, format |-> FALSE]

PrintInit ==
  /\ call = Idle /\ stage = "idle"
  /\ next = 1 /\ open = <<>>
  /\ mem = <<>> /\ offset = 0 /\ alive = FALSE
  /\ outside = FALSE

-----------------------------------------------------------------------------
(* The buffer.                                                             *)

Unwritten(size) == [i \in 1..size |-> Junk]

(* Mutant: what has been printed is counted twice.                         *)
ReservedTwice(needed) == needed + offset + offset + 1

(* What ensure has to find: the bytes asked for, what is there and one     *)
(* more.                                                                   *)
Reserved(needed) == needed + offset + 1

(* The checks at the beginning of ensure.                                  *)
Sane(needed) == /\ alive
                /\ Len(mem) > 0 => offset < Len(mem)
                /\ needed <= IntMax

HasRoom(needed) == Sane(needed) /\ Reserved(needed) <= Len(mem)

MayGrow(needed) == /\ Sane(needed)
                   /\ Len(mem) < Reserved(needed) /\ Reserved(needed) <= IntMax
                   /\ call.way # "preallocated"

GrownTo(needed) ==
  IF Reserved(needed) > IntMax \div 2 THEN IntMax ELSE Reserved(needed) * 2

(* The buffer with that many bytes and the text stored behind offset.      *)
Store(size, text) ==
  /\ mem' = [i \in 1..size |->
               IF i \in offset + 1..offset + Len(text) THEN text[i - offset]
               ELSE IF i <= Len(mem) THEN mem[i] ELSE Junk]
  /\ outside' = (outside \/ offset + Len(text) > size)

(* A piece of text for which ensure is asked for so many bytes, after      *)
(* which offset is advanced by so many; then the printing goes on.         *)
Piece(needed, text, advance, then) ==
  \/ /\ \/ HasRoom(needed) /\ Store(Len(mem), text)
        \/ MayGrow(needed) /\ Store(GrownTo(needed), text)
     /\ offset' = offset + advance
     /\ stage' = then
     /\ UNCHANGED alive
  \/ (* realloc fails and ensure frees the buffer                          *)
     /\ MayGrow(needed)
     /\ mem' = <<>> /\ alive' = FALSE
     /\ stage' = "failing"
     /\ UNCHANGED <<offset, outside>>
  \/ (* ensure fails without freeing it                                    *)
     /\ ~HasRoom(needed) /\ ~MayGrow(needed)
     /\ stage' = "failing"
     /\ UNCHANGED <<mem, offset, alive, outside>>

-----------------------------------------------------------------------------
(* The pieces.                                                             *)

Node  == call.doc[next]
Depth == Len(open)           \* output_buffer->depth
Tabs(n) == [i \in 1..n |-> "\t"]

(* What follows when a container has been opened, or a member ended.       *)
BeforeElement(i) == IF call.doc[i].kind = "end" THEN "close" ELSE "value"
BeforeMember(i)  == IF call.doc[i].kind = "end" THEN "close"
                    ELSE IF call.format THEN "indent" ELSE "key"

ShortEscapes == {Quote, "\\", "\n", "\t"}
Controls     == {"BEL"}      \* the other bytes below 32

(* Mutant: a control character is counted as a short escape.               *)
ExtraBytesShort(s) ==
  Cardinality({i \in DOMAIN s : s[i] \in ShortEscapes \cup Controls})

(* The first pass of print_string_ptr counts ...                           *)
ExtraBytes(s) == Cardinality({i \in DOMAIN s : s[i] \in ShortEscapes}) +
                 5 * Cardinality({i \in DOMAIN s : s[i] \in Controls})

(* ... and the second one writes.                                          *)
Escaped(byte) ==
  CASE byte = "\n"            -> <<"\\", "n">>
    [] byte = "\t"            -> <<"\\", "t">>
    [] byte \in {Quote, "\\"} -> <<"\\", byte>>
    [] byte \in Controls      -> <<"\\", "u", "0", "0", "0", "7">>
    [] OTHER                  -> <<byte>>

EscapedText(s) == FlattenSeq([i \in DOMAIN s |-> Escaped(s[i])])

(* The closing quote and the zero go where the count says they belong.     *)
QuotedText(s) ==
  LET body == <<Quote>> \o EscapedText(s)
      n    == Len(s) + ExtraBytes(s)
  IN [i \in 1..Max({Len(body), n + 3}) |->
        IF i = n + 2 THEN Quote ELSE IF i = n + 3 THEN Nul
        ELSE IF i <= Len(body) THEN body[i] ELSE Junk]

PrintString(s, then) ==
  Piece(Len(s) + ExtraBytes(s) + 3, QuotedText(s), 0, then)

(* print_value, the cases of a single node.                                *)
Literal == [kind \in {"null", "true", "false"} |->
              CASE kind = "null" -> <<"n", "u", "l", "l">>
                [] kind = "true" -> <<"t", "r", "u", "e">>
                [] OTHER         -> <<"f", "a", "l", "s", "e">>]

PrintLiteral ==
  /\ Node.kind \in DOMAIN Literal
  /\ LET text == Literal[Node.kind]
     IN Piece(Len(text) + 1, Append(text, Nul), 0, "printed")

(* print_number advances offset itself.                                    *)
PrintNumber ==
  /\ Node.kind = "number" /\ Len(Node.text) < NumberBuffer
  /\ Piece(Len(Node.text) + 1, Append(Node.text, Nul), Len(Node.text), "printed")

PrintRaw ==
  /\ Node.kind = "raw"
  /\ Piece(Len(Node.text) + 1, Append(Node.text, Nul), 0, "printed")

(* No such type, or a number too long for number_buffer.                   *)
PrintNothing ==
  /\ \/ Node.kind = "invalid"
     \/ Node.kind = "number" /\ Len(Node.text) >= NumberBuffer
  /\ stage' = "failing"
  /\ UNCHANGED <<mem, offset, alive, outside>>

PrintLeaf ==
  /\ stage = "value"
  /\ \/ PrintLiteral \/ PrintNumber \/ PrintRaw \/ PrintNothing
     \/ Node.kind = "string" /\ PrintString(Node.text, "printed")
  /\ next' = next + 1
  /\ UNCHANGED <<call, open>>

OpenArray ==
  /\ stage = "value" /\ Node.kind = "array"
  /\ Piece(1, <<"[">>, 1, BeforeElement(next + 1))
  /\ next' = next + 1 /\ open' = Append(open, "array")
  /\ UNCHANGED call

OpenObject ==
  /\ stage = "value" /\ Node.kind = "object"
  /\ LET text == IF call.format THEN <<"{", "\n">> ELSE <<"{">>
     IN Piece(Len(text) + 1, text, Len(text), BeforeMember(next + 1))
  /\ next' = next + 1 /\ open' = Append(open, "object")
  /\ UNCHANGED call

PrintIndent ==
  /\ stage = "indent"
  /\ Piece(Depth, Tabs(Depth), Depth, "key")
  /\ UNCHANGED <<call, next, open>>

PrintKey ==
  /\ stage = "key"
  /\ PrintString(Node.key, "keyed")
  /\ UNCHANGED <<call, next, open>>

PrintColon ==
  /\ stage = "colon"
  /\ LET text == IF call.format THEN <<":", "\t">> ELSE <<":">>
     IN Piece(Len(text), text, Len(text), "value")
  /\ UNCHANGED <<call, next, open>>

-----------------------------------------------------------------------------
(* Between the pieces.                                                     *)

(* The terminating zeros that strlen, which begins at offset, may meet.    *)
Zeros == {i \in offset + 1..Len(mem) : mem[i] = Nul}

(* Mutant: offset stays where it was.                                      *)
OffsetKept == UNCHANGED <<offset, outside>>

OffsetUpdated ==
  /\ offset' = IF Zeros = {} THEN Len(mem) ELSE Min(Zeros) - 1
  /\ outside' = (outside \/ Zeros = {})

(* What a caller does when a value or a key has been printed.  Only print  *)
(* itself calls update_offset for the outermost value.                     *)
UpdateOffset ==
  /\ \/ stage = "keyed" /\ stage' = "colon"
     \/ stage = "printed" /\ open # <<>> /\ stage' = "separator"
     \/ stage = "printed" /\ open = <<>> /\ call.way = "print" /\ stage' = "finish"
  /\ OffsetUpdated
  /\ UNCHANGED <<call, next, open, mem, alive>>

NextElement ==
  /\ stage = "separator" /\ Last(open) = "array"
  /\ IF Node.kind = "end"
       THEN stage' = "close" /\ UNCHANGED <<mem, offset, alive, outside>>
       ELSE LET text == IF call.format THEN <<",", " ">> ELSE <<",">>
            IN Piece(Len(text) + 1, Append(text, Nul), Len(text), "value")
  /\ UNCHANGED <<call, next, open>>

NextMember ==
  /\ stage = "separator" /\ Last(open) = "object"
  /\ LET text == (IF Node.kind = "end" THEN <<>> ELSE <<",">>) \o
                 (IF call.format THEN <<"\n">> ELSE <<>>)
     IN Piece(Len(text) + 1, Append(text, Nul), Len(text), BeforeMember(next))
  /\ UNCHANGED <<call, next, open>>

Close ==
  /\ stage = "close"
  /\ IF Last(open) = "array"
       THEN Piece(2, <<"]", Nul>>, 0, "printed")
       ELSE LET tabs == IF call.format THEN Tabs(Depth - 1) ELSE <<>>
            IN Piece(Len(tabs) + 2, tabs \o <<"}", Nul>>, 0, "printed")
  /\ next' = next + 1 /\ open' = Front(open)
  /\ UNCHANGED call

-----------------------------------------------------------------------------
(* The functions a program calls.                                          *)

(* The buffer is allocated, or there is no memory for it; the one of       *)
(* cJSON_PrintPreallocated belongs to the caller.                          *)
Begin(c) ==
  /\ stage = "idle"
  /\ call' = c
  /\ \/ /\ stage' = "value" /\ alive' = TRUE
        /\ mem' = Unwritten(IF c.way = "print" THEN DefaultSize ELSE c.size)
     \/ /\ c.way # "preallocated"
        /\ stage' = "failed"
        /\ UNCHANGED <<mem, alive>>
  /\ UNCHANGED <<next, open, offset, outside>>

(* cJSON_PrintBuffered and cJSON_PrintPreallocated return the buffer as it *)
(* is.                                                                     *)
ReturnBuffer ==
  /\ stage = "printed" /\ open = <<>> /\ call.way # "print"
  /\ stage' = "done"
  /\ UNCHANGED <<call, next, open, mem, offset, alive, outside>>

(* print reduces the buffer to the text, which may fail as well.           *)
ReturnText ==
  /\ stage = "finish"
  /\ \/ /\ mem' = [i \in 1..(offset + 1) |-> IF i <= Len(mem) THEN mem[i] ELSE Junk]
        /\ stage' = "done"
     \/ /\ stage' = "failing"
        /\ UNCHANGED mem
  /\ UNCHANGED <<call, next, open, offset, alive, outside>>

(* The text cannot be printed: the buffer is freed if ensure has not freed *)
(* it, unless it is the caller's.                                          *)
ReturnNothing ==
  /\ stage = "failing"
  /\ stage' = "failed"
  /\ alive' = (alive /\ call.way = "preallocated")
  /\ UNCHANGED <<call, next, open, mem, offset, outside>>

PrintStep ==
  \/ PrintLeaf \/ OpenArray \/ OpenObject \/ PrintIndent \/ PrintKey \/ PrintColon
  \/ UpdateOffset \/ NextElement \/ NextMember \/ Close
  \/ ReturnBuffer \/ ReturnText \/ ReturnNothing

-----------------------------------------------------------------------------
(* What should be printed, node by node and without a buffer.              *)

(* The kind of the innermost container around node i.                      *)
Parent(doc, i) ==
  IF Around(doc, i) = 0 THEN "none"
  ELSE doc[Max({j \in 1..i - 1 : /\ doc[j].kind \in Containers
                                 /\ Around(doc, j) = Around(doc, i) - 1})].kind

NodeText(doc, i) ==
  LET node == doc[i] IN
  CASE node.kind \in DOMAIN Literal     -> Literal[node.kind]
    [] node.kind \in {"number", "raw"}  -> node.text
    [] node.kind = "string"   -> <<Quote>> \o EscapedText(node.text) \o <<Quote>>
    [] node.kind = "array"    -> <<"[">>
    [] node.kind = "object"   -> <<"{">>
    [] OTHER -> IF Parent(doc, i) = "array" THEN <<"]">> ELSE <<"}">>

(* The key in front of a member, and what separates a node from the next.  *)
KeyText(doc, i, format) ==
  IF Parent(doc, i) # "object" \/ doc[i].kind = "end" THEN <<>>
  ELSE <<Quote>> \o EscapedText(doc[i].key) \o <<Quote, ":">>
         \o (IF format THEN <<"\t">> ELSE <<>>)

LineStart(doc, i, format) ==
  IF ~format \/ Parent(doc, i) # "object" THEN <<>>
  ELSE <<"\n">> \o Tabs(Around(doc, i) - (IF doc[i].kind = "end" THEN 1 ELSE 0))

Separator(doc, i, format) ==
  IF i = 1 \/ doc[i].kind = "end" \/ doc[i - 1].kind \in Containers THEN <<>>
  ELSE IF format /\ Parent(doc, i) = "array" THEN <<",", " ">> ELSE <<",">>

Rendered(doc, format) ==
  FlattenSeq([i \in DOMAIN doc |->
    Separator(doc, i, format) \o LineStart(doc, i, format)
      \o KeyText(doc, i, format) \o NodeText(doc, i)])

(* The document has text.                                                  *)
Printable(doc) ==
  \A i \in DOMAIN doc :
    /\ doc[i].kind # "invalid"
    /\ doc[i].kind = "number" => Len(doc[i].text) < NumberBuffer

-----------------------------------------------------------------------------
(* No byte outside the buffer is ever written or read, however the buffer  *)
(* had to grow: neither does a text exceed what ensure was asked for, nor  *)
(* does update_offset search for a zero that is not there.                 *)
PrintsInside == ~outside

(* What is returned is the text of the whole document, with nothing lost   *)
(* where the buffer grew and nothing overwritten, and a text that is       *)
(* returned is the only one that is still allocated.                       *)
TextIsRendered ==
  /\ stage = "done" =>
       LET text == Rendered(call.doc, call.format) IN
         /\ Len(mem) > Len(text) /\ SubSeq(mem, 1, Len(text)) = text
         /\ mem[Len(text) + 1] = Nul /\ Printable(call.doc) /\ alive
  /\ stage = "failed" => alive = (call.way = "preallocated")

(* cJSON.h: it is enough to give cJSON_PrintPreallocated five bytes more   *)
(* than the text and its zero need.                                        *)
FiveMoreSuffice ==
  stage = "failed" /\ call.way = "preallocated" /\ Printable(call.doc) =>
    call.size < Len(Rendered(call.doc, call.format)) + 1 + 5
=============================================================================
