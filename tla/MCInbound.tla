----------------------------- MODULE MCInbound -----------------------------
(* Instances of Inbound for TLC.                                           *)
EXTENDS Inbound, TLC

MCIntMax == 2
MCHooks  == {"getProperty", "setProperty"}

Request == [messageId |-> 1, code |-> "absent", method |-> "getProperty",
            payload |-> {"productKey", "deviceName", "properties"},
            convertible |-> TRUE]

SetRequest == [Request EXCEPT !.method = "setProperty"]

(* A call of a service, for which there is no callback; its id is beyond   *)
(* the ints.                                                               *)
Service == [Request EXCEPT !.messageId = 3, !.method = "callService",
              !.payload = {"productKey", "deviceName", "inputData", "identifier"}]

Answer == [Request EXCEPT !.code = "number", !.payload = {}]

MCShapes == {Request, SetRequest, Service, Answer}

(* Sound: no run that uses it checks liveness, and nothing distinguishes   *)
(* the workers.                                                            *)
Symmetry == Permutations(Workers)
=============================================================================
