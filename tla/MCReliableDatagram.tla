------------------------- MODULE MCReliableDatagram -------------------------
(* Instances of ReliableDatagram for TLC.  With a window of two slots and   *)
(* six messages every slot is reused three times.                           *)
EXTENDS ReliableDatagram

OneWay   == [p \in Endpoint |-> IF p = "A" THEN MaxMsgs ELSE 0]
MostlyA  == [p \in Endpoint |-> IF p = "A" THEN MaxMsgs ELSE 1]
=============================================================================
