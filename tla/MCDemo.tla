------------------------------- MODULE MCDemo -------------------------------
(* Instances of Demo for TLC.                                              *)
EXTENDS Demo
=============================================================================
