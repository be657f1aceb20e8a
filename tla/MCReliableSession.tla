-------------------------- MODULE MCReliableSession -------------------------
(* Instances of ReliableSession for TLC. *)
EXTENDS ReliableSession

Two == [s \in Side |-> IF s = "connector" THEN 2 ELSE 0]
FreshOrReused == [s \in Side |-> IF s = "connector" THEN {NotStale} ELSE {NotStale, 1}]
=============================================================================
