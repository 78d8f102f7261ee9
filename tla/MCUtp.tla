------------------------------- MODULE MCUtp --------------------------------
(* A connection whose sequence numbers wrap during the transfer.           *)
EXTENDS Utp

CONSTANTS SendsA, SendsB

IsnNearWrap == [e \in Ends |-> IF e = "initiator" THEN Mod - 2 ELSE Mod - 1]
Loads == [e \in Ends |-> IF e = "initiator" THEN SendsA ELSE SendsB]
Polite == [e \in Ends |-> {"shutdown"}]
Leaving == [e \in Ends |-> IF e = "initiator" THEN {"shutdown", "abort"} ELSE {"drop"}]
=============================================================================
