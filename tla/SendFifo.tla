------------------------------ MODULE SendFifo ------------------------------
(***************************************************************************)
(* What the send buffer of the websocket client promises: the messages it  *)
(* accepts, numbered 1, 2, ... in the order they are accepted, leave it in *)
(* that order.  The numbers in taken + 1 .. accepted are queued.  The      *)
(* promise ends when a message is accepted into a full buffer or a cleared *)
(* buffer is not empty, and is made again once it has been emptied.        *)
(***************************************************************************)
EXTENDS Integers

CONSTANT Capacity

VARIABLES
  accepted,  \* number of the last message accepted
  taken,     \* number of the last message that left the queue
  sent,      \* number of the last message written to a connection
  intact     \* the promise holds

fifoVars == <<accepted, taken, sent, intact>>

FifoInit == accepted = 0 /\ taken = 0 /\ sent = 0 /\ intact = TRUE

Accept == /\ intact /\ accepted - taken < Capacity
          /\ accepted' = accepted + 1
          /\ UNCHANGED <<taken, sent, intact>>

Send == /\ intact /\ taken < accepted
        /\ taken' = taken + 1
        /\ sent' = taken'
        /\ UNCHANGED <<accepted, intact>>

(* The connection fails under the write of a message.                      *)
Lose == /\ intact /\ taken < accepted
        /\ taken' = taken + 1
        /\ UNCHANGED <<accepted, sent, intact>>

(* The connection is closed: its messages are forgotten.                   *)
Clear == /\ intact
         /\ taken' = accepted
         /\ UNCHANGED <<accepted, sent, intact>>

Overfill == /\ intact /\ accepted - taken = Capacity
            /\ accepted' = accepted + 1
            /\ ~intact'
            /\ UNCHANGED sent

ClearPartly == /\ intact /\ taken < accepted
               /\ ~intact'
               /\ UNCHANGED <<accepted, sent>>

StaySpoiled == ~intact /\ ~intact'

Recover == /\ ~intact /\ intact'
           /\ taken' = accepted'
           /\ UNCHANGED <<accepted, sent>>

FifoNext == \/ Accept \/ Send \/ Lose \/ Clear
            \/ Overfill \/ ClearPartly \/ StaySpoiled \/ Recover

FifoSpec == FifoInit /\ [][FifoNext]_fifoVars
=============================================================================
