-------------------------- MODULE MCClientSessions --------------------------
(* Instances of ClientSessions for TLC. *)
EXTENDS ClientSessions, TLC

CONSTANTS c1, c2
=============================================================================
