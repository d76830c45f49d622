------------------------------- MODULE MCLeda -------------------------------
(* Instances of Leda for TLC: with one worker, a blocking call made inside *)
(* a callback leaves no worker.  The liveness properties rule symmetry out.*)
EXTENDS Leda
=============================================================================
