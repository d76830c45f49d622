----------------------------- MODULE TaskQueue -----------------------------
(***************************************************************************)
(* What a thread pool promises to those who submit tasks: the tasks it     *)
(* accepts, numbered 1, 2, ... in the order they are accepted, are begun   *)
(* in that order and once each; none is accepted after the pool has been   *)
(* told to shut down; a pool that shuts down gracefully is gone only after *)
(* every task it accepted has ended, and one that nobody shuts down only   *)
(* before it has accepted any.                                             *)
(***************************************************************************)
EXTENDS Integers

CONSTANT Capacity

VARIABLES
  accepted,  \* number of the last task accepted
  begun,     \* number of the last task begun
  ended,     \* the tasks that have ended
  mode,      \* none, graceful or immediate
  gone       \* the pool has been freed

queueVars == <<accepted, begun, ended, mode, gone>>

QueueInit ==
  accepted = 0 /\ begun = 0 /\ ended = {} /\ mode = "none" /\ gone = FALSE

Submit == /\ mode = "none" /\ ~gone
          /\ accepted - begun < Capacity
          /\ accepted' = accepted + 1
          /\ UNCHANGED <<begun, ended, mode, gone>>

Begin == /\ begun < accepted /\ mode # "immediate" /\ ~gone
         /\ begun' = begun + 1
         /\ UNCHANGED <<accepted, ended, mode, gone>>

End == /\ ~gone
       /\ \E n \in 1..begun : n \notin ended /\ ended' = ended \cup {n}
       /\ UNCHANGED <<accepted, begun, mode, gone>>

ShutDown == /\ mode = "none" /\ ~gone
            /\ mode' \in {"graceful", "immediate"}
            /\ UNCHANGED <<accepted, begun, ended, gone>>

Vanish == /\ ~gone
          /\ mode = "none" => accepted = 0
          /\ mode = "graceful" => begun = accepted
          /\ ended = 1..begun
          /\ gone' = TRUE
          /\ UNCHANGED <<accepted, begun, ended, mode>>

QueueNext == Submit \/ Begin \/ End \/ ShutDown \/ Vanish

QueueSpec == QueueInit /\ [][QueueNext]_queueVars
=============================================================================
