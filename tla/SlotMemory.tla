----------------------------- MODULE SlotMemory -----------------------------
(***************************************************************************)
(* The memory behind the slots of SendBuffer (wsc_buffer_mgmt.c).          *)
(*                                                                         *)
(* client_buf_mgmt_init gives every slot single_buf_size bytes, the first  *)
(* LWS_PRE of them for libwebsockets.  A push of a longer message          *)
(* reallocates the slot to what that message needs, which may be less than *)
(* the slot had; then it clears as many bytes as the slot's old message    *)
(* was long, and copies the new one behind the first LWS_PRE bytes.        *)
(*                                                                         *)
(* The steps of the ring are those of SendBuffer; this module adds the     *)
(* lengths and the sizes.                                                  *)
(***************************************************************************)
EXTENDS SendBuffer

CONSTANTS
  SingleBufSize,  \* single_buf_size, 2048 in wsc_init
  LWS_PRE,        \* bytes libwebsockets keeps in front of a message
  Traffic         \* the lengths the messages may have, in the order pushed

ASSUME MemoryAssumption ==
  /\ SingleBufSize \in Nat /\ LWS_PRE \in Nat /\ LWS_PRE < SingleBufSize
  /\ Traffic \subseteq [1..MaxPush -> Nat \ {0}]

VARIABLES
  length,  \* the length of each message, with its terminating zero
  size,    \* bytes allocated to each slot
  buf_len  \* the length of the message in each slot, 0 when it is empty

memVars == <<length, size, buf_len>>
slotVars == <<vars, memVars>>

MemInit ==
  /\ Init
  /\ length \in Traffic
  /\ size = [i \in Slots |-> SingleBufSize]
  /\ buf_len = [i \in Slots |-> 0]

-----------------------------------------------------------------------------
(* Message n does not fit into the memory a slot begins with.              *)
NeedsMore(n) == length[n] > SingleBufSize - LWS_PRE

(* The size of slot i once message n has been pushed into it.              *)
SizeFor(i, n) == IF NeedsMore(n) THEN length[n] + LWS_PRE ELSE size[i]

MemPush ==
  LET i == Wrapped(wr_index) IN
    /\ Push
    /\ size' = [size EXCEPT ![i] = SizeFor(i, pushed')]
    /\ buf_len' = [buf_len EXCEPT ![i] = length[pushed']]
    /\ UNCHANGED length

(* realloc has no memory for the message, which is not pushed.             *)
MemPushFails ==
  /\ \E n \in 1..MaxPush : NeedsMore(n)
  /\ PushFails
  /\ UNCHANGED memVars

(* Mutant: a message that leaves the ring leaves its length behind.        *)
SlotsKept == UNCHANGED buf_len

(* A slot that is popped or cleared has buf_len 0.                         *)
SlotsEmptied ==
  buf_len' = [i \in Slots |-> IF slot'[i] = Empty THEN 0 ELSE buf_len[i]]

MemPop   == Pop /\ SlotsEmptied /\ UNCHANGED <<length, size>>
MemClear == ClearMsg /\ SlotsEmptied /\ UNCHANGED <<length, size>>

MemNext ==
  \/ MemPush \/ MemPushFails
  \/ MemPop \/ MemClear
  \/ /\ Notify \/ Connect \/ Established \/ ConnectionError \/ Closed
     /\ UNCHANGED memVars

MemSpec == MemInit /\ [][MemNext]_slotVars

(* The fairness of SendBuffer.                                             *)
MemFairSpec ==
  /\ MemSpec
  /\ WF_slotVars(Notify /\ UNCHANGED memVars)
  /\ WF_slotVars(MemPop) /\ WF_slotVars(MemClear)

-----------------------------------------------------------------------------
MemTypeOK ==
  /\ length \in Traffic
  /\ size \in [Slots -> Nat]
  /\ buf_len \in [Slots -> Nat]

(* The message lws_write is given lies within the memory of its slot, and  *)
(* a slot never has less than client_buf_mgmt_init gave it, though a push  *)
(* may shrink it.                                                          *)
MessagesFit ==
  \A i \in Slots :
    /\ size[i] >= SingleBufSize
    /\ slot[i] # Empty => /\ buf_len[i] = length[slot[i]]
                          /\ LWS_PRE + buf_len[i] <= size[i]

(* The next message does not make client_buf_mgmt_push clear or write      *)
(* beyond the memory of its slot, unless it overwrites a message that is   *)
(* still queued.  (Over a longer one it may clear more than it has just    *)
(* allocated.)                                                             *)
PushesStayInside ==
  LET i == Wrapped(wr_index)
      n == pushed + 1
  IN n <= MaxPush /\ slot[i] = Empty =>
       buf_len[i] <= SizeFor(i, n) /\ LWS_PRE + length[n] <= SizeFor(i, n)
=============================================================================
