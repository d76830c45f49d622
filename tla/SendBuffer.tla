----------------------------- MODULE SendBuffer -----------------------------
(***************************************************************************)
(* The send buffer of the websocket client and the network thread that     *)
(* empties it (sdk/utility/ali_ws).                                        *)
(*                                                                         *)
(* client_buf_mgmt_push stores a message in the next slot of a ring, with  *)
(* no check that the slot is empty, and then, after the unlock, asks the   *)
(* network thread for a "writable" callback (notify_network).  The         *)
(* callback pops at most one message and asks for the next callback.       *)
(* Closing the connection resets both indices and empties the first        *)
(* MAX_MSG_BUF_COUNT slots only.                                           *)
(*                                                                         *)
(* Messages are numbered in the order they are pushed; the number stands   *)
(* for the message, its length and its buffer.  libwebsockets is modelled  *)
(* by what its callbacks do to this code.                                  *)
(***************************************************************************)
EXTENDS Integers

CONSTANTS
  N,         \* slots in the ring: max_buf_cnt, 1024 in wsc_init
  ClearCnt,  \* slots a clear empties: MAX_MSG_BUF_COUNT, 8
  MaxPush,   \* bound: messages pushed
  MaxConns   \* bound: connection attempts

ASSUME RingAssumption   == N \in Nat \ {0} /\ ClearCnt \in 0..N
ASSUME BoundsAssumption == MaxPush \in Nat /\ MaxConns \in Nat

Slots == 0..(N - 1)
Empty == 0                  \* buf_len = 0

VARIABLES
  wr_index, rd_index,  \* wrapped when they are next used, so N is a value
  slot,       \* the number of the message in each slot, or Empty
  notifying,  \* pushes that have unlocked but not called notify_network yet
  conn,       \* the connection: down (g_wsi = NULL), connecting, up
  closing,    \* the CLOSED callback has set g_wsi but not cleared the buffer
  want,       \* a writable callback has been asked for
  conn_no,    \* number of the current or last connection
  \* history
  pushed,     \* number of the last message pushed
  pushedOn,   \* the connection that was up when a message was pushed, or 0
  sentOn,     \* the connection a message was written to, or 0
  lastSent,   \* number of the last message written
  broken,     \* a message was overwritten, or survived a clear
  stalled     \* a message is queued, and only another push will get it sent

ringVars == <<wr_index, rd_index, slot>>
connVars == <<conn, closing, conn_no>>
vars == <<ringVars, notifying, connVars, want, pushed, pushedOn, sentOn,
          lastSent, broken, stalled>>

Init ==
  /\ wr_index = 0 /\ rd_index = 0
  /\ slot = [i \in Slots |-> Empty]
  /\ notifying = 0
  /\ conn = "down" /\ closing = FALSE /\ conn_no = 0
  /\ want = FALSE
  /\ pushed = 0
  /\ pushedOn = [n \in 1..MaxPush |-> 0]
  /\ sentOn = [n \in 1..MaxPush |-> 0]
  /\ lastSent = 0
  /\ broken = FALSE
  /\ stalled = FALSE

-----------------------------------------------------------------------------
(* client_buf_mgmt_push.                                                   *)

Wrapped(index) == IF index >= N THEN 0 ELSE index

(* The lock section: the slot is written whether or not it is empty.       *)
Push ==
  /\ pushed < MaxPush
  /\ pushed' = pushed + 1
  /\ LET windex == Wrapped(wr_index) IN
       /\ slot' = [slot EXCEPT ![windex] = pushed']
       /\ wr_index' = windex + 1
       /\ broken' = (broken \/ slot[windex] # Empty)
  /\ pushedOn' = [pushedOn EXCEPT ![pushed'] = IF conn = "up" THEN conn_no ELSE 0]
  /\ notifying' = notifying + 1
  /\ UNCHANGED <<rd_index, connVars, want, sentOn, lastSent, stalled>>

(* Mutant: the index is advanced although nothing has been stored.         *)
PushFailsAdvancing ==
  /\ wr_index' = Wrapped(wr_index) + 1
  /\ UNCHANGED <<rd_index, slot, notifying, connVars, want, pushed, pushedOn,
                 sentOn, lastSent, broken, stalled>>

(* A long message needs a longer buffer, and realloc fails.                *)
PushFails ==
  /\ wr_index' = Wrapped(wr_index)
  /\ UNCHANGED <<rd_index, slot, notifying, connVars, want, pushed, pushedOn,
                 sentOn, lastSent, broken, stalled>>

(* Mutant: no writable callback is asked for.                              *)
NotifyNobody ==
  /\ notifying > 0
  /\ notifying' = notifying - 1
  /\ UNCHANGED <<ringVars, connVars, want, stalled, pushed, pushedOn, sentOn,
                 lastSent, broken>>

(* notify_network, after the unlock: without a connection it does nothing. *)
Notify ==
  /\ notifying > 0
  /\ notifying' = notifying - 1
  /\ want' = (want \/ conn # "down")
  /\ stalled' = (stalled /\ conn = "down")
  /\ UNCHANGED <<ringVars, connVars, pushed, pushedOn, sentOn, lastSent, broken>>

-----------------------------------------------------------------------------
(* LWS_CALLBACK_CLIENT_WRITEABLE: client_buf_mgmt_pop with cb_pop_msg.     *)

Writeable == conn = "up" /\ want

Rindex == Wrapped(rd_index)

(* Nothing to read.                                                        *)
PopEmpty ==
  /\ Writeable /\ slot[Rindex] = Empty
  /\ want' = FALSE
  /\ rd_index' = Rindex
  /\ UNCHANGED <<wr_index, slot, notifying, connVars, pushed, pushedOn, sentOn,
                 lastSent, broken, stalled>>

(* Mutants: the slot is not emptied; no further callback is asked for.     *)
ConsumeKeeping == rd_index' = Rindex + 1 /\ want' = TRUE /\ stalled' = FALSE
                  /\ UNCHANGED slot

ConsumeQuietly ==
  /\ slot' = [slot EXCEPT ![Rindex] = Empty]
  /\ rd_index' = Rindex + 1
  /\ want' = FALSE
  /\ stalled' = FALSE

(* The message leaves the ring and the next callback is asked for.         *)
Consume ==
  /\ slot' = [slot EXCEPT ![Rindex] = Empty]
  /\ rd_index' = Rindex + 1
  /\ want' = TRUE
  /\ stalled' = FALSE

(* lws_write writes the whole message.                                     *)
PopWritten ==
  /\ Writeable /\ slot[Rindex] # Empty
  /\ sentOn' = [sentOn EXCEPT ![slot[Rindex]] = conn_no]
  /\ lastSent' = slot[Rindex]
  /\ Consume
  /\ UNCHANGED <<wr_index, notifying, connVars, pushed, pushedOn, broken>>

(* lws_write fails and returns -1, which compared with the unsigned        *)
(* buf_len is not smaller: the message is taken as written.                *)
PopError ==
  /\ Writeable /\ slot[Rindex] # Empty
  /\ Consume
  /\ UNCHANGED <<wr_index, notifying, connVars, pushed, pushedOn, sentOn,
                 lastSent, broken>>

(* lws_write writes less: the message stays, no callback is asked for.     *)
PopShort ==
  /\ Writeable /\ slot[Rindex] # Empty
  /\ rd_index' = Rindex
  /\ want' = FALSE
  /\ stalled' = TRUE
  /\ UNCHANGED <<wr_index, slot, notifying, connVars, pushed, pushedOn, sentOn,
                 lastSent, broken>>

-----------------------------------------------------------------------------
(* The connection (thread_wsc_network, callback_dumb_increment).           *)

(* The loop finds g_wsi NULL and connects; libwebsockets sets g_wsi.       *)
Connect ==
  /\ conn = "down" /\ ~closing /\ conn_no < MaxConns
  /\ conn' = "connecting"
  /\ conn_no' = conn_no + 1
  /\ UNCHANGED <<ringVars, notifying, closing, want, pushed, pushedOn, sentOn,
                 lastSent, broken, stalled>>

(* LWS_CALLBACK_CLIENT_ESTABLISHED does not call notify_network.  What     *)
(* became of a callback asked for during the handshake is up to            *)
(* libwebsockets.                                                          *)
Established ==
  /\ conn = "connecting"
  /\ conn' = "up"
  /\ want' \in {want, FALSE}
  /\ stalled' = (~want' /\ \E i \in Slots : slot[i] # Empty)
  /\ UNCHANGED <<ringVars, notifying, closing, conn_no, pushed, pushedOn, sentOn,
                 lastSent, broken>>

(* LWS_CALLBACK_CLIENT_CONNECTION_ERROR clears nothing.                    *)
ConnectionError ==
  /\ conn = "connecting"
  /\ conn' = "down"
  /\ want' = FALSE
  /\ UNCHANGED <<ringVars, notifying, closing, conn_no, pushed, pushedOn, sentOn,
                 lastSent, broken, stalled>>

(* LWS_CALLBACK_CLIENT_CLOSED: first g_wsi = NULL ...                      *)
Closed ==
  /\ conn = "up"
  /\ conn' = "down" /\ closing' = TRUE
  /\ want' = FALSE
  /\ UNCHANGED <<ringVars, notifying, conn_no, pushed, pushedOn, sentOn,
                 lastSent, broken, stalled>>

(* Mutant: rd_index is not reset.                                          *)
ClearMsgKeepingRead ==
  /\ closing
  /\ closing' = FALSE
  /\ wr_index' = 0
  /\ slot' = [i \in Slots |-> IF i < ClearCnt THEN Empty ELSE slot[i]]
  /\ broken' = (\E i \in Slots : slot'[i] # Empty)
  /\ UNCHANGED <<rd_index, notifying, conn, conn_no, want, pushed, pushedOn,
                 sentOn, lastSent, stalled>>

(* ... then buf_mgmt_client_clear_msg.                                     *)
ClearMsg ==
  /\ closing
  /\ closing' = FALSE
  /\ wr_index' = 0 /\ rd_index' = 0
  /\ slot' = [i \in Slots |-> IF i < ClearCnt THEN Empty ELSE slot[i]]
  /\ broken' = (\E i \in Slots : slot'[i] # Empty)
  /\ UNCHANGED <<notifying, conn, conn_no, want, pushed, pushedOn, sentOn,
                 lastSent, stalled>>

-----------------------------------------------------------------------------
Pop == PopEmpty \/ PopWritten \/ PopError \/ PopShort

Next ==
  \/ Push \/ PushFails \/ Notify
  \/ Pop
  \/ Connect \/ Established \/ ConnectionError \/ Closed \/ ClearMsg

Spec == Init /\ [][Next]_vars

(* A thread that has pushed goes on to notify, the network thread finishes *)
(* its callbacks, and libwebsockets delivers a callback it was asked for   *)
(* while the connection lasts.                                             *)
FairSpec == Spec /\ WF_vars(Notify) /\ WF_vars(Pop) /\ WF_vars(ClearMsg)

-----------------------------------------------------------------------------
TypeOK ==
  /\ wr_index \in 0..N /\ rd_index \in 0..N
  /\ slot \in [Slots -> 0..MaxPush]
  /\ notifying \in Nat
  /\ conn \in {"down", "connecting", "up"}
  /\ closing \in BOOLEAN
  /\ want \in BOOLEAN
  /\ conn_no \in 0..MaxConns
  /\ pushed \in 0..MaxPush
  /\ pushedOn \in [1..MaxPush -> 0..MaxConns]
  /\ sentOn \in [1..MaxPush -> 0..MaxConns]
  /\ lastSent \in 0..MaxPush
  /\ broken \in BOOLEAN
  /\ stalled \in BOOLEAN

(* How far slot i is ahead of the next slot to be read.                    *)
Ahead(i) == IF i >= Rindex THEN i - Rindex ELSE i - Rindex + N

(* The number of messages queued, read off the oldest of them.             *)
Pending == IF slot[Rindex] = Empty THEN 0 ELSE pushed - slot[Rindex] + 1

(* The slots from rd_index up to wr_index hold the messages pushed last,   *)
(* in order, and the other slots are empty.                                *)
Layout ==
  /\ Pending \in 0..N
  /\ \A i \in Slots :
       slot[i] = IF Ahead(i) < Pending THEN pushed - Pending + 1 + Ahead(i)
                                       ELSE Empty
  /\ Ahead(Wrapped(wr_index)) = IF Pending = N THEN 0 ELSE Pending

(* As long as nothing has been overwritten and nothing survived a clear,   *)
(* client_buf_mgmt_push and client_buf_mgmt_pop agree on the ring.         *)
RingLayout == ~broken => Layout

(* A queued message always has a writable callback coming, unless it       *)
(* stalled: queued before the connection was established, or written in    *)
(* part.  The notification is sent after the unlock, and is not lost.      *)
NoLostWakeup ==
  conn = "up" /\ ~broken /\ Pending > 0 => want \/ notifying > 0 \/ stalled

(* Messages are written in the order they were pushed.                     *)
WrittenInOrder ==
  [][lastSent' # lastSent => broken \/ lastSent' > lastSent]_vars

(* The buffer implements a queue of N messages.                            *)
Fifo == INSTANCE SendFifo WITH
          Capacity <- N, accepted <- pushed, taken <- pushed - Pending,
          sent <- lastSent, intact <- ~broken

ImplementsFifo == Fifo!FifoSpec

(* Over a connection that lasts, everything queued is sent.                *)
QueueDrains ==
  (conn = "up" /\ Pending > 0) ~>
    (Pending = 0 \/ conn # "up" \/ broken \/ stalled)

-----------------------------------------------------------------------------
(* What the documentation promises and the code does not keep.             *)

(* ws_client.h says that wsc_add_msg adds the message to the current       *)
(* connection: it is not written to a later one.                           *)
SentOnItsConnection ==
  \A n \in 1..MaxPush :
    pushedOn[n] # 0 /\ sentOn[n] # 0 => sentOn[n] = pushedOn[n]
=============================================================================
