---------------------------- MODULE HelloSettle ----------------------------
(***************************************************************************)
(* The legs of HelloLeg, first among any faults, then in calm conditions:  *)
(* no crash, and a network that loses, copies and reorders nothing and     *)
(* takes Delay ticks for every packet, whichever way the hellos of the two *)
(* ends cross.  It tells whether the hello protocol recovers by itself.    *)
(*                                                                         *)
(* In the calm there is time.  A hello is due hello_timeout, Interval      *)
(* ticks, after the last one; cnt_timeout is the same and so begins and    *)
(* ends with it; Dead_Leg follows the hello that queued it half an         *)
(* interval later.  ad_timeout of the pings, in the code ten intervals, is *)
(* one here.  The data of the links, which at most makes an end ask for a  *)
(* hello, is left out.                                                     *)
(***************************************************************************)
EXTENDS HelloLeg, Sequences
LOCAL INSTANCE SequencesExt

CONSTANTS Interval,     \* hello_timeout, in ticks
          Delay,        \* ticks that a packet takes
          MaxFaulty     \* bound: packets in the network during the faults

ASSUME TimeAssumption ==
  /\ Interval \in Nat /\ Delay \in 1 .. Interval - 1
  /\ MaxFaulty \in 0 .. MaxNet

VARIABLES calm,     \* the faults are over
          wait,     \* wait[p]: ticks until the next hello, or ping, of p is due
          pipe      \* pipe[p]: the packets to p in the order sent, with the ticks under way

settleVars == <<leg, up, foreign, net, crashes, calm, wait, pipe>>

SettleInit ==
  /\ Init
  /\ calm = FALSE
  /\ wait = [p \in Daemon |-> 0]
  /\ pipe = [p \in Daemon |-> << >>]

(* Timers at any time, packets lost, copied and late. *)
Faulty ==
  /\ ~calm
  /\ \E p \in Daemon :
       Timer(p) \/ StableDelayOver(p) \/ \E m \in net : Deliver(p, m)
  /\ Cardinality(net') <= MaxFaulty
  /\ UNCHANGED <<calm, wait, pipe>>

(* The calm begins with both daemons up, no leg held back by the stable      *)
(* delay and none about to be declared dead, wherever the timers are.        *)
CalmDown ==
  /\ ~calm
  /\ \A p \in Daemon : up[p] /\ ~leg[p].stable_delay /\ leg[p].hellos_out <= 1
  /\ calm' = TRUE
  /\ wait' \in [Daemon -> 0 .. Interval]
  /\ \E s \in SetToSeqs({[pkt |-> m, age |-> 0] : m \in net}) :
       pipe' = [p \in Daemon |-> SelectSeq(s, LAMBDA c : c.pkt.to = p)]
  /\ UNCHANGED <<leg, up, foreign, net, crashes>>

(* What a step sent is the last in its pipe.  (A hello that follows an equal *)
(* one which is still under way is taken for the same.)                      *)
Queued(rest) ==
  LET new == net' \ net
  IN  pipe' = [p \in Daemon |->
                 rest[p] \o SetToSeq({[pkt |-> m, age |-> 0] : m \in {x \in new : x.to = p}})]

Sent(p, type) == Hello(p, type, leg'[p].ctrl_link_id) \in net'

Restarted(p) == HasLink(leg[p]) /\ leg'[p].ctrl_link_id # leg[p].ctrl_link_id

(* When the next hello of p is due after packet m.  Process_hello_packet     *)
(* sends one when it restarts the session, and queues one at once to answer  *)
(* a request and to tell that the leg is connected; Create_Link queues the   *)
(* first one at a random offset.                                             *)
NextHello(p, m) ==
  LET was == leg[p].status
      is  == leg'[p].status
      connects == was # is /\ is = "CONNECTED_LEG"
  IN  IF Restarted(p) THEN {Interval}
      ELSE IF connects \/ (m.type = "HELLO_REQ" /\ HasLink(leg'[p])) THEN {0}
      ELSE IF was # is THEN 0 .. Interval ELSE {wait[p]}

CalmDeliver(p) ==
  /\ calm
  /\ pipe[p] # << >> /\ Head(pipe[p]).age = Delay
  /\ LET m == Head(pipe[p]).pkt
     IN  /\ Process_hello_ping(p, m) \/ Process_hello_packet(p, m, FALSE)
         /\ m \notin net'
         /\ \E w \in NextHello(p, m) : wait' = [wait EXCEPT ![p] = w]
  /\ Restarted(p) => Sent(p, "HELLO")
  /\ Queued([pipe EXCEPT ![p] = Tail(@)])
  /\ UNCHANGED calm

(* The hello timer or, without a link, the ping timer. *)
CalmPeriodic(p) ==
  /\ calm /\ wait[p] = 0
  /\ \/ Send_Hello(p) /\ Sent(p, "HELLO")
     \/ Send_Hello_Ping(p) /\ Sent(p, "HELLO_PING")
  /\ wait' = [wait EXCEPT ![p] = Interval]
  /\ Queued(pipe)
  /\ UNCHANGED calm

(* The counted requests go out together with the hellos, once each. *)
RequestDue(p) ==
  /\ "Send_Hello_Request_Cnt" \in leg[p].events /\ wait[p] = Interval
  /\ Hello(p, "HELLO_REQ", leg[p].ctrl_link_id) \notin net

CalmRequest(p) ==
  /\ calm /\ RequestDue(p)
  /\ Send_Hello_Request_Cnt(p) /\ Sent(p, "HELLO_REQ")
  /\ Queued(pipe)
  /\ UNCHANGED <<calm, wait>>

(* No end misses enough hellos in the calm to be taken for dead, so the      *)
(* stable delay does not come into it: Dead_Leg is one left over.            *)
DeadDue(p) == "Dead_Leg" \in leg[p].events /\ 2 * wait[p] <= Interval

CalmDead(p) ==
  /\ calm /\ DeadDue(p)
  /\ Dead_Leg(p)
  /\ UNCHANGED <<calm, wait, pipe>>

(* Time passes when nothing is due. *)
Tick ==
  /\ calm
  /\ \A p \in Daemon :
       /\ wait[p] > 0 /\ ~RequestDue(p) /\ ~DeadDue(p)
       /\ pipe[p] # << >> => Head(pipe[p]).age < Delay
  /\ wait' = [p \in Daemon |-> wait[p] - 1]
  /\ pipe' = [p \in Daemon |-> [i \in DOMAIN pipe[p] |-> [pipe[p][i] EXCEPT !.age = @ + 1]]]
  /\ UNCHANGED <<leg, up, foreign, net, crashes, calm>>

(* In the calm, time goes on and what is due happens. *)
InTime ==
  Tick \/ \E p \in Daemon : CalmDeliver(p) \/ CalmPeriodic(p) \/ CalmRequest(p) \/ CalmDead(p)

SettleNext == Faulty \/ CalmDown \/ InTime

SettleSpec == SettleInit /\ [][SettleNext]_settleVars /\ WF_settleVars(InTime)

(* Once the faults are over both ends connect the leg, with sessions that    *)
(* agree, and stay so: the two ends do not restart each other for ever.  On  *)
(* the instances that were tried this holds when a round trip is shorter     *)
(* than the hello interval (2 * Delay < Interval) and fails otherwise.       *)
Settles ==
  <>calm => <>[](Agreed /\ \A p \in Daemon : leg[p].status = "CONNECTED_LEG")
=============================================================================
