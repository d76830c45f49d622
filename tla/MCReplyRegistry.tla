-------------------------- MODULE MCReplyRegistry --------------------------
(* Instances of ReplyRegistry for TLC.                                     *)
EXTENDS ReplyRegistry, TLC

CallSymmetry == Permutations(SyncCalls) \cup Permutations(ReportCalls)
Symmetry == CallSymmetry \cup Permutations(Workers) \cup Permutations(Addrs)
=============================================================================
