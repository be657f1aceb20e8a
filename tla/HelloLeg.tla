------------------------------ MODULE HelloLeg ------------------------------
(***************************************************************************)
(* The hello protocol of a leg (daemon/hello.c) with the parts of link.c   *)
(* and network.c that it calls: how two daemons open, keep, lose and       *)
(* reopen the session between them.  A session is named by the control     *)
(* link id that each end draws at random when it creates its control link. *)
(*                                                                         *)
(* The data that the links of the leg carry is one DATA packet kind here:  *)
(* what matters is which session it was sent in and which it is taken for. *)
(* Costs are reduced to connected or not.  The events that connecting a    *)
(* leg queues for other components (Try_to_Send, Net_Send_State_All) are   *)
(* in the modules of those components.                                     *)
(***************************************************************************)
EXTENDS Integers, FiniteSets

CONSTANTS Daemon,              \* the two daemons at the ends of the leg
          CtrlIds,             \* the nonzero values rand() returns
          DEAD_LINK_CNT,       \* hellos without an answer before a leg is dead
          CONNECT_LINK_CNT,    \* hellos received before a leg is connected
          hello_cnt_start,     \* hellos without an answer before requests start
          MaxNet,              \* bound: packets in the network
          MaxNetLate,          \* bound: the same, once a daemon has crashed
          MaxCrash             \* bound: crashes

ASSUME DaemonAssumption == IsFiniteSet(Daemon) /\ Cardinality(Daemon) = 2
ASSUME IdAssumption == 0 \notin CtrlIds
ASSUME CountAssumption ==
  /\ DEAD_LINK_CNT \in Nat \ {0}
  /\ CONNECT_LINK_CNT \in Nat \ {0}
  /\ hello_cnt_start \in 1 .. DEAD_LINK_CNT
ASSUME HelloBoundAssumption == {MaxNet, MaxNetLate, MaxCrash} \subseteq Nat

VARIABLES leg,       \* leg[p]: the Network_Leg of daemon p to the other one
          up,        \* up[p]: daemon p is running
          foreign,   \* history: p took data meant for another session of p
          net,       \* packets in the network
          crashes    \* crashes so far

vars == <<leg, up, foreign, net, crashes>>

Peer(p) == CHOOSE q \in Daemon : q # p

Event == {"Send_Hello", "Send_Hello_Request", "Send_Hello_Request_Cnt", "Dead_Leg"}

(* hellos_out is compared with the constants only: beyond DEAD_LINK_CNT one  *)
(* value stands for all.                                                     *)
Leg == [status : {"DISCONNECTED_LEG", "NOT_YET_CONNECTED_LEG", "CONNECTED_LEG"},
        cost : {-1, 1},                            \* -1 is no cost
        ctrl_link_id : CtrlIds \cup {0},
        other_side_ctrl_link_id : CtrlIds \cup {0},
        hellos_out : 0 .. DEAD_LINK_CNT + 1,
        connect_cnter : 0 .. CONNECT_LINK_CNT,
        neighbor : BOOLEAN,                        \* it has a slot in Neighbor_Nodes
        stable_delay : BOOLEAN,                    \* last_connected is too recent
        events : SUBSET Event,                     \* queued for the control link
        exited : BOOLEAN]                          \* the daemon stopped in Alarm(EXIT)

(* The packet_header; forId is the session of the receiver that the sender   *)
(* meant, which no packet tells: it is there for the properties.             *)
Packet == [to : Daemon, type : {"HELLO", "HELLO_REQ", "HELLO_PING", "DATA"},
           ctrl_link_id : CtrlIds \cup {0}, forId : CtrlIds \cup {0}]

(* Create_Network_Leg *)
NewLeg ==
  [status |-> "DISCONNECTED_LEG", cost |-> -1, ctrl_link_id |-> 0,
   other_side_ctrl_link_id |-> 0, hellos_out |-> 0, connect_cnter |-> 0,
   neighbor |-> FALSE, stable_delay |-> FALSE, events |-> {}, exited |-> FALSE]

Init ==
  /\ leg = [p \in Daemon |-> NewLeg]
  /\ up = [p \in Daemon |-> TRUE]
  /\ foreign = [p \in Daemon |-> FALSE]
  /\ net = {}
  /\ crashes = 0

-----------------------------------------------------------------------------
(* What the functions of link.c, network.c and hello.c make of a leg.  *)

HasLink(l) == l.status # "DISCONNECTED_LEG"

(* Create_Link(leg, CONTROL_LINK) *)
Create_Link(l, id) ==
  [l EXCEPT !.status = "NOT_YET_CONNECTED_LEG",
            !.ctrl_link_id = id,
            !.other_side_ctrl_link_id = 0,
            !.hellos_out = 0,
            !.connect_cnter = 0,
            !.neighbor = TRUE,
            !.events = @ \cup {"Send_Hello"},
            !.exited = @ \/ HasLink(l) \/ l.cost # -1]

(* Network_Leg_Set_Cost: a cost and a status that do not fit are fatal, as   *)
(* is giving up a neighbor slot that was never taken.                        *)
Network_Leg_Set_Cost(l, c) ==
  [l EXCEPT !.cost = c,
            !.neighbor = IF c = -1 /\ l.cost # -1 THEN FALSE ELSE @,
            !.exited = \/ @
                       \/ c # -1 /\ l.status # "CONNECTED_LEG"
                       \/ c = -1 /\ l.status = "CONNECTED_LEG"
                       \/ c = -1 /\ l.cost # -1 /\ ~l.neighbor]

(* Destroy_Link on the links of the leg; Dead_Leg is not dequeued. *)
Destroy_Links(l) ==
  [l EXCEPT !.events = @ \ {"Send_Hello", "Send_Hello_Request", "Send_Hello_Request_Cnt"}]

Disconnect_Network_Leg(l) ==
  Network_Leg_Set_Cost(
    Destroy_Links([l EXCEPT !.status = "DISCONNECTED_LEG",
                            !.ctrl_link_id = 0,
                            !.other_side_ctrl_link_id = 0,
                            !.stable_delay = TRUE,
                            !.exited = @ \/ ~HasLink(l)]), -1)

(* Mutant: the next hello is queued only while the other side answers. *)
AfterHelloNoRequeue(l) ==
  [l EXCEPT !.hellos_out = IF @ > DEAD_LINK_CNT THEN @ ELSE @ + 1,
            !.events = @ \cup (IF l.hellos_out = hello_cnt_start
                               THEN {"Send_Hello_Request_Cnt"} ELSE {"Send_Hello"})
                         \cup (IF l.hellos_out = DEAD_LINK_CNT
                               THEN {"Dead_Leg"} ELSE {})]

(* The leg after Send_Hello. *)
AfterHello(l) ==
  [l EXCEPT !.hellos_out = IF @ > DEAD_LINK_CNT THEN @ ELSE @ + 1,
            !.events = @ \cup {"Send_Hello"}
                         \cup (IF l.hellos_out = hello_cnt_start
                               THEN {"Send_Hello_Request_Cnt"} ELSE {})
                         \cup (IF l.hellos_out = DEAD_LINK_CNT
                               THEN {"Dead_Leg"} ELSE {})]

(* A hello of the other side's current session has been received: the leg is *)
(* alive, a request is answered at once, and enough hellos connect the leg.  *)
AfterHelloReceived(l, isReq) ==
  LET alive == [l EXCEPT !.hellos_out = 0,
                         !.events = (@ \ {"Send_Hello_Request_Cnt"})
                                      \cup (IF isReq THEN {"Send_Hello"} ELSE {})]
      counted == [alive EXCEPT !.connect_cnter = @ + 1]
  IN CASE l.status = "CONNECTED_LEG" -> alive
       [] l.status = "NOT_YET_CONNECTED_LEG" /\ l.connect_cnter + 1 < CONNECT_LINK_CNT -> counted
       [] l.status = "NOT_YET_CONNECTED_LEG" /\ l.connect_cnter + 1 >= CONNECT_LINK_CNT ->
            Network_Leg_Set_Cost([counted EXCEPT !.status = "CONNECTED_LEG",
                                                 !.events = @ \cup {"Send_Hello"}], 1)
       [] OTHER -> [l EXCEPT !.exited = TRUE]

-----------------------------------------------------------------------------
(* The network: packets are lost, duplicated and reordered. *)

Hello(p, type, id) ==
  [to |-> Peer(p), type |-> type, ctrl_link_id |-> id, forId |-> 0]

(* UDP loses the packet or not. *)
DL_send(base, m) ==
  /\ net' \in {base, base \cup {m}}
  /\ net' = base \/ Cardinality(net') <= (IF crashes = 0 THEN MaxNet ELSE MaxNetLate)

Receives(p, m) == up[p] /\ ~leg[p].exited /\ m.to = p

(* The packet arrives, and may arrive again. *)
AfterReceipt(m) == {net, net \ {m}}

(* rand() is taken to avoid the ids that p drew before and that are still    *)
(* around.  Ids are only compared for equality, and never with those of the  *)
(* other daemon, so that which of the others it returns is all one.          *)
UsedIds(p) ==
  {leg[p].ctrl_link_id, leg[Peer(p)].other_side_ctrl_link_id}
    \cup {m.ctrl_link_id : m \in {n \in net : n.to = Peer(p)}}
    \cup {m.forId : m \in {n \in net : n.to = p}}
FreshId(p) == CHOOSE id \in CtrlIds : id \notin UsedIds(p)
IdLeft(p) == CtrlIds \ UsedIds(p) # {}

-----------------------------------------------------------------------------
(* Timers. *)

Fires(p, f) == up[p] /\ ~leg[p].exited /\ f \in leg[p].events

WithoutEvent(l, f) == [l EXCEPT !.events = @ \ {f}]

Fail(p) == leg' = [leg EXCEPT ![p].exited = TRUE] /\ UNCHANGED net

Send_Hello(p) ==
  /\ Fires(p, "Send_Hello")
  /\ IF HasLink(leg[p])
     THEN /\ leg' = [leg EXCEPT ![p] = AfterHello(WithoutEvent(@, "Send_Hello"))]
          /\ DL_send(net, Hello(p, "HELLO", leg[p].ctrl_link_id))
     ELSE Fail(p)
  /\ UNCHANGED <<up, foreign, crashes>>

Send_Hello_Request(p) ==
  /\ Fires(p, "Send_Hello_Request")
  /\ IF HasLink(leg[p])
     THEN /\ leg' = [leg EXCEPT ![p] = WithoutEvent(@, "Send_Hello_Request")]
          /\ DL_send(net, Hello(p, "HELLO_REQ", leg[p].ctrl_link_id))
     ELSE Fail(p)
  /\ UNCHANGED <<up, foreign, crashes>>

(* Queues itself again until a hello is received. *)
Send_Hello_Request_Cnt(p) ==
  /\ Fires(p, "Send_Hello_Request_Cnt")
  /\ IF HasLink(leg[p])
     THEN UNCHANGED leg /\ DL_send(net, Hello(p, "HELLO_REQ", leg[p].ctrl_link_id))
     ELSE Fail(p)
  /\ UNCHANGED <<up, foreign, crashes>>

(* Mutant: the leg must have missed two hellos more. *)
SilentTooLong(l) == l.hellos_out >= DEAD_LINK_CNT + 2

Silent(l) == l.hellos_out >= DEAD_LINK_CNT

(* Dead_Leg may be left over from an earlier control link of the leg. *)
Dead_Leg(p) ==
  /\ Fires(p, "Dead_Leg")
  /\ LET l == WithoutEvent(leg[p], "Dead_Leg") IN
       leg' = [leg EXCEPT ![p] = IF HasLink(l) /\ Silent(l)
                                 THEN Disconnect_Network_Leg(l) ELSE l]
  /\ UNCHANGED <<up, foreign, net, crashes>>

(* The ping timer is always queued. *)
Send_Hello_Ping(p) ==
  /\ up[p] /\ ~leg[p].exited
  /\ ~HasLink(leg[p])
  /\ DL_send(net, Hello(p, "HELLO_PING", 0))
  /\ UNCHANGED <<leg, up, foreign, crashes>>

(* stable_timeout has passed since the leg was disconnected. *)
StableDelayOver(p) ==
  /\ leg[p].stable_delay
  /\ leg' = [leg EXCEPT ![p].stable_delay = FALSE]
  /\ UNCHANGED <<up, foreign, net, crashes>>

-----------------------------------------------------------------------------
(* Packets. *)

(* Process_hello_ping: the control link is created on demand. *)
Process_hello_ping(p, m) ==
  /\ Receives(p, m)
  /\ m.type = "HELLO_PING"
  /\ net' \in AfterReceipt(m)
  /\ IF HasLink(leg[p]) \/ leg[p].stable_delay
     THEN UNCHANGED <<leg, foreign>>
     ELSE /\ IdLeft(p)
          /\ leg' = [leg EXCEPT ![p] = Create_Link(@, FreshId(p))]
          /\ foreign' = [foreign EXCEPT ![p] = FALSE]
  /\ UNCHANGED <<up, crashes>>

(* Mutants: a hello of another session is taken over, or just dropped. *)
OtherSessionNever(l, m) == FALSE

(* The hello is of another session than the one known of the other side. *)
OtherSession(l, m) ==
  l.other_side_ctrl_link_id \notin {0, m.ctrl_link_id}

(* Mutants: the old links are not destroyed first; or the hello is dropped   *)
(* and the session goes on.                                                  *)
RestartSessionNoDisconnect(p, m) ==
  /\ IdLeft(p)
  /\ leg' = [leg EXCEPT ![p] = AfterHello(Create_Link(@, FreshId(p)))]
  /\ foreign' = [foreign EXCEPT ![p] = FALSE]
  /\ \E rest \in AfterReceipt(m) : DL_send(rest, Hello(p, "HELLO", FreshId(p)))
RestartSessionDrop(p, m) ==
  /\ net' \in AfterReceipt(m)
  /\ UNCHANGED <<leg, foreign>>

(* The other side has restarted its session: so does this side, and says so. *)
RestartSession(p, m) ==
  /\ IdLeft(p)
  /\ leg' = [leg EXCEPT ![p] = AfterHello(Create_Link(Disconnect_Network_Leg(@), FreshId(p)))]
  /\ foreign' = [foreign EXCEPT ![p] = FALSE]
  /\ \E rest \in AfterReceipt(m) : DL_send(rest, Hello(p, "HELLO", FreshId(p)))

(* A hello is too old if more than three later ones have been handled: which *)
(* ones, is left open.  The first one of a session never is.                 *)
TakeHello(l, m, old) ==
  LET known == [l EXCEPT !.other_side_ctrl_link_id = m.ctrl_link_id] IN
  IF old /\ l.other_side_ctrl_link_id = m.ctrl_link_id
  THEN known
  ELSE AfterHelloReceived(known, m.type = "HELLO_REQ")

Process_hello_packet(p, m, old) ==
  /\ Receives(p, m)
  /\ m.type \in {"HELLO", "HELLO_REQ"}
  /\ \/ /\ ~HasLink(leg[p]) /\ leg[p].stable_delay
        /\ net' \in AfterReceipt(m)
        /\ UNCHANGED <<leg, foreign>>
     \/ /\ ~HasLink(leg[p]) /\ ~leg[p].stable_delay
        /\ IdLeft(p)
        /\ leg' = [leg EXCEPT ![p] = TakeHello(Create_Link(@, FreshId(p)), m, old)]
        /\ foreign' = [foreign EXCEPT ![p] = FALSE]
        /\ net' \in AfterReceipt(m)
     \/ /\ HasLink(leg[p]) /\ OtherSession(leg[p], m)
        /\ RestartSession(p, m)
     \/ /\ HasLink(leg[p]) /\ ~OtherSession(leg[p], m)
        /\ leg' = [leg EXCEPT ![p] = TakeHello(@, m, old)]
        /\ net' \in AfterReceipt(m)
        /\ UNCHANGED foreign
  /\ UNCHANGED <<up, crashes>>

(* The links of a connected leg send; the header names the sender's session. *)
Send_Data(p) ==
  /\ up[p] /\ ~leg[p].exited
  /\ leg[p].status = "CONNECTED_LEG"
  /\ DL_send(net, [to |-> Peer(p), type |-> "DATA", ctrl_link_id |-> leg[p].ctrl_link_id,
                   forId |-> leg[p].other_side_ctrl_link_id])
  /\ UNCHANGED <<leg, up, foreign, crashes>>

(* Prot_process_scat: without a link, or from another session, data is       *)
(* dropped.  On a control link that is not connected yet Process_state_packet *)
(* drops it too, and asks for the hello that is missing.                     *)
Prot_process_scat(p, m) ==
  /\ Receives(p, m)
  /\ m.type = "DATA"
  /\ net' \in AfterReceipt(m)
  /\ LET ours == HasLink(leg[p]) /\ m.ctrl_link_id = leg[p].other_side_ctrl_link_id
         connected == leg[p].status = "CONNECTED_LEG"
     IN /\ leg' = [leg EXCEPT ![p].events =
                      @ \cup (IF ours /\ ~connected THEN {"Send_Hello_Request"} ELSE {})]
        /\ foreign' = [foreign EXCEPT ![p] =
                          @ \/ (ours /\ connected /\ m.forId # leg[p].ctrl_link_id)]
  /\ UNCHANGED <<up, crashes>>

-----------------------------------------------------------------------------
(* Crashes: nothing is kept on disk. *)

Crash(p) ==
  /\ up[p]
  /\ crashes < MaxCrash
  /\ crashes' = crashes + 1
  /\ up' = [up EXCEPT ![p] = FALSE]
  /\ leg' = [leg EXCEPT ![p] = NewLeg]
  /\ foreign' = [foreign EXCEPT ![p] = FALSE]
  /\ UNCHANGED net

Restart(p) ==
  /\ ~up[p]
  /\ up' = [up EXCEPT ![p] = TRUE]
  /\ UNCHANGED <<leg, foreign, net, crashes>>

(* A packet for a daemon that is down is lost. *)
Lost(p, m) ==
  /\ ~up[p]
  /\ m.to = p
  /\ net' = net \ {m}
  /\ UNCHANGED <<leg, up, foreign, crashes>>

-----------------------------------------------------------------------------
Timer(p) ==
  \/ Send_Hello(p) \/ Send_Hello_Request(p) \/ Send_Hello_Request_Cnt(p)
  \/ Dead_Leg(p) \/ Send_Hello_Ping(p)

Deliver(p, m) ==
  \/ Process_hello_ping(p, m)
  \/ \E old \in BOOLEAN : Process_hello_packet(p, m, old)
  \/ Prot_process_scat(p, m)

Next ==
  \E p \in Daemon :
    \/ Timer(p)
    \/ StableDelayOver(p)
    \/ Send_Data(p)
    \/ \E m \in net : Deliver(p, m) \/ Lost(p, m)
    \/ Crash(p)
    \/ Restart(p)

Spec == Init /\ [][Next]_vars

(* The event loop runs the timers that are due, and the network does not     *)
(* deliver copies of the packets it holds for ever.                          *)
Drain(p) == \E m \in net : Deliver(p, m) /\ m \notin net'

Fairness ==
  \A p \in Daemon : WF_vars(Send_Hello(p)) /\ WF_vars(Dead_Leg(p)) /\ SF_vars(Drain(p))

FairSpec == Spec /\ Fairness

-----------------------------------------------------------------------------
(* Properties. *)

(* The legs and the packets stay in their ranges. *)
TypeOK ==
  /\ leg \in [Daemon -> Leg]
  /\ up \in [Daemon -> BOOLEAN]
  /\ foreign \in [Daemon -> BOOLEAN]
  /\ net \subseteq Packet
  /\ crashes \in 0 .. MaxCrash

(* None of the Alarm(EXIT) calls and assertions on legs and control links is *)
(* reached: no leg is disconnected twice, no second control link is created, *)
(* no cost is set that the status does not allow, no hello timer runs        *)
(* without a control link; ids, counters and flags keep their ranges.        *)
NoAlarmExit == TypeOK /\ \A p \in Daemon : ~leg[p].exited

(* Both ends know the other one's session. *)
Agreed ==
  \A p \in Daemon :
    /\ HasLink(leg[p])
    /\ leg[p].other_side_ctrl_link_id = leg[Peer(p)].ctrl_link_id

(* When the two ends agree on their sessions, all the data that either one   *)
(* has taken since it created its link was meant for this very link: none is *)
(* left over from an earlier session, although a packet names only the       *)
(* session of its sender and that session may outlive several of the         *)
(* receiver's.  The reliable protocol relies on it.                          *)
AgreedSessionsAreClean ==
  Agreed => \A p \in Daemon : ~foreign[p]

(* A control link always has its hello timer, and a disconnected leg has no  *)
(* timer but perhaps a Dead_Leg, which finds nothing to do; a leg that is    *)
(* not disconnected is among the neighbors.                                  *)
HellosRun ==
  \A p \in Daemon :
    IF HasLink(leg[p])
    THEN "Send_Hello" \in leg[p].events /\ leg[p].neighbor
    ELSE leg[p].events \subseteq {"Dead_Leg"}

(* A daemon that crashes and stays down is noticed: its neighbor disconnects *)
(* the leg, whatever old packets are still under way.                        *)
DeadPeerNoticed ==
  \A p \in Daemon :
    ~up[Peer(p)] ~> (up[Peer(p)] \/ ~up[p] \/ ~HasLink(leg[p]))
=============================================================================
