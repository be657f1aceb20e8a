------------------------ MODULE MCIntrusionTolerance ------------------------
(***************************************************************************)
(* The parts of the intrusion-tolerant messaging, each on an instance of   *)
(* its own, checked side by side: `unit' names the part that a behaviour   *)
(* exercises, and the others stay in an initial state.                     *)
(***************************************************************************)
EXTENDS IntrusionTolLink, IntrusionTolKeys, ReliableFlood, LinkStatus, TLC

CONSTANTS endA, endB, d1, d2, d3        \* the two ends of a link; three daemons

VARIABLE unit

itvars == <<unit, end, net, conf, party, flight, node, link, fresh, world, st>>

TwoThenOne == <<2, 1, 1>>
LinkConf(ordered, reintroduce, crypto) ==
  [ordered |-> ordered, reintroduce |-> reintroduce, crypto |-> crypto]
ThreeLinks == {LinkConf(TRUE, FALSE, FALSE), LinkConf(FALSE, TRUE, FALSE), LinkConf(TRUE, TRUE, TRUE)}
SomeFail == {{}, {2}, 1 .. 3}
GivenToOne == (endA :> 2) @@ (endB :> 0)

Direct == {{d1, d3}}
Line == {{d1, d2}, {d2, d3}}
Triangle == Direct \cup Line

Row == {{1, 2}, {2, 3}}

\* the flow on two daemons; on three, with the same source and destination
OnlyDirect == <<Direct>>
RTriangle == INSTANCE ReliableFlood
       WITH Daemon <- {d1, d2, d3}, Wire <- Triangle, Routings <- <<Direct, Triangle>>, Failing <- {d2},
            MaxMessages <- 1, MaxClock <- 1
RLine == INSTANCE ReliableFlood
       WITH Daemon <- {d1, d2, d3}, Wire <- Line, Routings <- <<Line>>, Failing <- {},
            MaxMessages <- 1, MaxClock <- 2

linkOff == conf = LinkConf(TRUE, FALSE, FALSE) /\ end = [n \in End |-> Fresh(1)] /\ net = {}

UnitsInit ==
  /\ KeysInit /\ StatusInit
  /\ \/ unit = "link"     /\ Init    /\ FlowInit
     \/ unit = "keys"     /\ linkOff /\ FlowInit
     \/ unit = "direct"   /\ linkOff /\ FlowInit
     \/ unit = "triangle" /\ linkOff /\ RTriangle!Settled
     \/ unit = "line"     /\ linkOff /\ RLine!Settled
     \/ unit = "status"   /\ linkOff /\ FlowInit

restOfLink == <<unit, party, flight, node, link, fresh, world, st>>
restOfKeys == <<unit, end, net, conf, node, link, fresh, world, st>>
restOfFlow == <<unit, end, net, conf, party, flight, st>>
restOfStatus == <<unit, end, net, conf, party, flight, node, link, fresh, world>>

UnitsNext ==
  \/ unit = "link"     /\ Next               /\ UNCHANGED restOfLink
  \/ unit = "keys"     /\ KeysNext           /\ UNCHANGED restOfKeys
  \/ unit = "direct"   /\ FlowNext           /\ UNCHANGED restOfFlow
  \/ unit = "triangle" /\ RTriangle!FlowNext /\ UNCHANGED restOfFlow
  \/ unit = "line"     /\ RLine!FlowNext     /\ UNCHANGED restOfFlow
  \/ unit = "status"   /\ StatusNext         /\ UNCHANGED restOfStatus

UnitsSpec == UnitsInit /\ [][UnitsNext]_itvars

-----------------------------------------------------------------------------
(* See ReliableFlood: when the overlay is at rest the flow's two ends      *)
(* agree on their epochs, all is delivered and acknowledged, and no daemon *)
(* ran into one of its exits.  (KeptUntilDelivered is the same formula for *)
(* all three overlays.)                                                    *)
FlowsDoNotStall ==
  /\ unit = "direct" => NothingStalls
  /\ unit = "triangle" => RTriangle!NothingStalls
  /\ unit = "line" => RLine!NothingStalls
=============================================================================
