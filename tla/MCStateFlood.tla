---------------------------- MODULE MCStateFlood ----------------------------
(* Instances of StateFlood: two daemons with the edges between them; three   *)
(* daemons in a row with a group of the first or of the one in the middle.   *)
EXTENDS StateFlood

CONSTANTS a, b, c, g

Pair == {<<a, b>>, <<b, a>>}
Row == Pair \cup {<<b, c>>, <<c, b>>}
GroupA == {<<a, g>>}
GroupB == {<<b, g>>}
=============================================================================
