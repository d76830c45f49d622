---------------------------- MODULE MCSendBuffer ----------------------------
(* Instances of SendBuffer and SlotMemory for TLC: messages that grow and  *)
(* messages that shrink around what a slot of four bytes takes.            *)
EXTENDS SlotMemory

MCTraffic == {<<2, 4, 6, 3, 4>>, <<6, 4, 2, 6, 5>>}
=============================================================================
