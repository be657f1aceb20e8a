------------------------------- MODULE LegCost ------------------------------
(***************************************************************************)
(* The cost of a leg, and so of the edge it is of (daemon/network.c, and   *)
(* the end of Process_hello_packet of daemon/hello.c): from the round trip *)
(* time and the loss that hellos report, by one of five weights.  The      *)
(* smoothed round trip time is any of Rtts, in milliseconds, the loss any  *)
(* of Losses, in percent; floats are integers scaled so that none rounds.  *)
(* Time passes in units of Problem_Route_Stable_Time, 30 seconds, which is *)
(* also the least time between two updates by the other weights.           *)
(***************************************************************************)
EXTENDS Integers, FiniteSetsExt

CONSTANTS Rtts, Losses,
          LossCost,          \* LossCost[l]: 1 - 10000 log(1 - l), rounded
          Base,              \* base costs of the edge, -1 for none
          CONNECT_LINK_CNT

VARIABLE lc

UNKNOWN == -1
MAX_LATENCY == 600
NET_UPDATE_THRESHOLD_ABS == 3
Weight == {"DISTANCE_ROUTE", "LATENCY_ROUTE", "LOSSRATE_ROUTE", "AVERAGE_ROUTE", "PROBLEM_ROUTE"}

(* Create_Network_Leg.  since and age are the units since reported_ts and    *)
(* since the state of the edge was last sent; fresh, that the last step was  *)
(* a hello that may change the cost; announced, that one did.                *)
Init ==
  \E w \in Weight, b \in Base :
    /\ w # "PROBLEM_ROUTE" => b = -1
    /\ lc = [weight |-> w, base |-> b, status |-> "DISCONNECTED_LEG", connect_cnter |-> 0,
             cost |-> -1, rtt |-> 1000, loss |-> UNKNOWN, rep_rtt |-> UNKNOWN, rep_loss |-> UNKNOWN,
             since |-> 1, age |-> 2, fresh |-> FALSE, announced |-> FALSE]

Network_Leg_Initial_Cost(w) ==
  CASE w \in {"DISTANCE_ROUTE", "LOSSRATE_ROUTE"} -> 1
    [] w = "PROBLEM_ROUTE" -> -MAX_LATENCY
    [] OTHER -> MAX_LATENCY

(* Network_Leg_Set_Cost; the state of the edge is sent if it changed. *)
Network_Leg_Set_Cost(l, cost) ==
  IF cost = l.cost THEN l ELSE [l EXCEPT !.cost = cost, !.age = 0]

-----------------------------------------------------------------------------
(* Expected_Latency, with p = loss / 100 and d = rtt / 2:                    *)
(*   (1 - p) d + (p - 2 p^2 + p^3) (3 d + 10) + (2 p^2 - p^3) MAX_LATENCY    *)
(* kept between 2 and MAX_LATENCY, times Scale.                              *)
Scale == 2000000
Between(x, low, high) == Max({low, Min({x, high})})
Expected_Latency(rtt, l) ==
  Between(rtt * (100 - l) * 10000 + (3 * rtt + 20) * (10000 * l - 200 * l * l + l * l * l)
            + (200 * l * l - l * l * l) * 2 * MAX_LATENCY,
          2 * Scale, MAX_LATENCY * Scale)
Rounded(x) == (x + Scale \div 2) \div Scale
Expected(l) == Rounded(Expected_Latency(l.rtt, l.loss))

(* LATENCY_ROUTE: the one way delay and 4 ms, at most 300, times two. *)
TwiceLatency(l) == Min({600, Max({2, l.rtt}) + 8})

(* PROBLEM_ROUTE: the thresholds, which a link crosses upwards to have a     *)
(* problem and downwards to have none; latency counts if a base cost is      *)
(* known.                                                                    *)
Above(l, percent, abs) == l.base # -1 /\ 100 * l.rtt > l.base * 100 + Max({l.base * percent, abs * 100})
Below(l, percent, abs) == l.base = -1 \/ 100 * l.rtt < l.base * 100 + Max({l.base * percent, abs * 100})
Problem(l) == l.loss > 2 \/ Above(l, 25, 5)
NoProblem(l) == ~Problem(l) /\ l.loss = 0 /\ Below(l, 15, 3)

AbsOf(x) == IF x < 0 THEN -x ELSE x

(* The change of problem state to report: a new problem, one resolved, none. *)
ProblemFlag(l) == IF Problem(l) /\ l.cost >= 0 THEN -1
                  ELSE IF NoProblem(l) /\ l.cost < 0 THEN 1 ELSE 0

Insignificant(l) ==
  LET diff == AbsOf(AbsOf(l.cost) - Expected(l))
  IN  diff < NET_UPDATE_THRESHOLD_ABS \/ 10 * diff < AbsOf(l.cost)

(* The cost that PROBLEM_ROUTE wants set, or 0 for none.  An improvement is  *)
(* not reported soon after another report.                                   *)
ProblemCost(l) ==
  LET flag == ProblemFlag(l)
      exp == Expected(l)
  IN  IF \/ flag = 0 /\ Insignificant(l)
         \/ (flag = 1 \/ exp < AbsOf(l.cost)) /\ l.since < 1
      THEN 0
      ELSE IF flag = -1 \/ (flag = 0 /\ l.cost < 0) THEN -exp ELSE exp

(* Network_Leg_Update_Cost: the cost to set, or 0 if it returns -1. *)
NewCost(l) ==
  CASE l.weight = "DISTANCE_ROUTE" -> 0
    [] l.weight = "LATENCY_ROUTE" ->
         IF AbsOf(2 * l.cost - TwiceLatency(l)) \div 2 < l.cost \div 10
         THEN 0 ELSE (TwiceLatency(l) + 1) \div 2
    [] l.weight = "LOSSRATE_ROUTE" -> LossCost[l.loss]
    [] l.weight = "AVERAGE_ROUTE" ->
         IF AbsOf(l.cost * Scale - Expected_Latency(l.rtt, l.loss)) < l.cost * (Scale \div 10)
         THEN 0 ELSE Expected(l)
    [] l.weight = "PROBLEM_ROUTE" -> ProblemCost(l)

Reported(l) == [l EXCEPT !.rep_rtt = l.rtt, !.rep_loss = l.loss, !.since = 0]
Network_Leg_Update_Cost(l) ==
  IF NewCost(l) = 0 THEN l
  ELSE Reported([Network_Leg_Set_Cost(l, NewCost(l)) EXCEPT !.announced = TRUE])

(* Process_hello_packet: whether an update is tried.  At age 1 that depends  *)
(* on a random time.                                                         *)
RttMoved(l) ==
  LET diff == AbsOf(l.rep_rtt - l.rtt)
  IN  l.rep_rtt = UNKNOWN \/ (10 * diff > l.rep_rtt /\ diff >= 2)
LossMoved(l) == 10 * AbsOf(l.rep_loss - l.loss) > l.rep_loss
Tries(l) ==
  IF l.weight = "PROBLEM_ROUTE" THEN {TRUE}
  ELSE IF \/ l.weight \in {"LATENCY_ROUTE", "AVERAGE_ROUTE"} /\ RttMoved(l)
          \/ l.weight \in {"LOSSRATE_ROUTE", "AVERAGE_ROUTE"} /\ LossMoved(l)
  THEN CASE l.age = 0 -> {FALSE} [] l.age = 1 -> BOOLEAN [] OTHER -> {TRUE}
  ELSE {FALSE}

Connect(l) ==
  Reported(Network_Leg_Set_Cost([l EXCEPT !.status = "CONNECTED_LEG"],
                                Network_Leg_Initial_Cost(l.weight)))

(* Process_hello_packet: a hello brings the loss, and a round trip time    *)
(* unless it answers too old a hello or none.                                *)
Process_hello_packet ==
  \E rtt \in Rtts \cup {lc.rtt}, loss \in Losses :
    LET l == [lc EXCEPT !.rtt = rtt, !.loss = loss, !.fresh = lc.status = "CONNECTED_LEG"]
    IN  \/ /\ lc.status = "CONNECTED_LEG"
           /\ \E try \in Tries(l) : lc' = IF try THEN Network_Leg_Update_Cost(l) ELSE l
        \/ /\ lc.status = "NOT_YET_CONNECTED_LEG"
           /\ lc' = IF l.connect_cnter + 1 >= CONNECT_LINK_CNT THEN Connect(l)
                    ELSE [l EXCEPT !.connect_cnter = @ + 1]

(* Process_hello_ping creates the control link, with new measurements. *)
Process_hello_ping ==
  /\ lc.status = "DISCONNECTED_LEG"
  /\ lc' = [lc EXCEPT !.status = "NOT_YET_CONNECTED_LEG", !.connect_cnter = 0, !.rtt = 1000,
                      !.loss = UNKNOWN, !.rep_rtt = UNKNOWN, !.rep_loss = UNKNOWN, !.since = 1,
                      !.announced = FALSE]

Disconnect_Network_Leg ==
  /\ lc.status # "DISCONNECTED_LEG"
  /\ lc' = Network_Leg_Set_Cost([lc EXCEPT !.status = "DISCONNECTED_LEG", !.fresh = FALSE], -1)

(* The edge is sent again without a change. *)
Resend_States == lc.age = 2 /\ lc' = [lc EXCEPT !.age = 0, !.fresh = FALSE]

Tick == lc' = [lc EXCEPT !.since = 1, !.age = Min({@ + 1, 2}), !.fresh = FALSE]

Next == Process_hello_packet \/ Process_hello_ping \/ Disconnect_Network_Leg \/ Resend_States \/ Tick

-----------------------------------------------------------------------------
(* The edge has a cost when and only when its leg is connected, and after a  *)
(* hello the cost is the true one, but for what Network_Leg_Update_Cost      *)
(* keeps back.  PROBLEM_ROUTE: a problem makes it negative and the end of    *)
(* one positive, the latter not within the stable time.  The code also keeps *)
(* back a new problem that comes with a lower expected latency, although its *)
(* comments only speak of improvements; that is excepted here.  The value is *)
(* within 10 % or 3 of the expected latency, unless that improved or a       *)
(* problem ended within the stable time.  The other weights: once an update  *)
(* may be tried it is within 20 %.                                           *)
CostTrue ==
  /\ lc.status = "CONNECTED_LEG" <=> lc.cost # -1
  /\ lc.fresh /\ lc.weight = "PROBLEM_ROUTE" =>
       /\ Problem(lc) => lc.cost < 0 \/ (lc.since < 1 /\ Expected(lc) < lc.cost)
       /\ NoProblem(lc) => lc.cost > 0 \/ lc.since < 1
       /\ \/ Insignificant(lc)
          \/ lc.since < 1 /\ (Expected(lc) < AbsOf(lc.cost) \/ NoProblem(lc))
  /\ lc.fresh /\ lc.age = 2 /\ lc.announced =>
       /\ lc.weight = "LATENCY_ROUTE" => 5 * AbsOf(2 * lc.cost - TwiceLatency(lc)) <= 2 * lc.cost
       /\ lc.weight = "LOSSRATE_ROUTE" => lc.cost = LossCost[lc.loss]
       /\ lc.weight = "AVERAGE_ROUTE" => 5 * AbsOf(lc.cost - Expected(lc)) <= lc.cost
=============================================================================
