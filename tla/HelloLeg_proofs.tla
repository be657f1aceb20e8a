--------------------------- MODULE HelloLeg_proofs ---------------------------
(***************************************************************************)
(* Proofs of the safety properties of HelloLeg, for any set of control     *)
(* link ids, any counts, any number of packets in the network and any      *)
(* number of crashes.                                                      *)
(***************************************************************************)
EXTENDS HelloLeg, FiniteSetTheorems, TLAPS

-----------------------------------------------------------------------------
(* The two daemons. *)

LEMMA Peers ==
  ASSUME NEW p \in Daemon
  PROVE  /\ Peer(p) \in Daemon
         /\ Peer(p) # p
         /\ Peer(Peer(p)) = p
         /\ \A q \in Daemon : q = p \/ q = Peer(p)
<1> DEFINE Others == Daemon \ {p}
<1>1. IsFiniteSet(Others) /\ Cardinality(Others) = 1
  BY DaemonAssumption, FS_RemoveElement
<1>2. PICK q : Others = {q}
  BY <1>1, FS_Singleton
<1>3. Daemon = {p, q} /\ p # q
  BY <1>2
<1>4. Peer(p) = q
  BY <1>3 DEF Peer
<1>5. Peer(q) = p
  BY <1>3 DEF Peer
<1> QED
  BY <1>3, <1>4, <1>5

-----------------------------------------------------------------------------
(* The inductive invariant: what is true of one leg, of the packets, and of  *)
(* the two ends together.                                                    *)

(* A leg as link.c, network.c and hello.c leave it. *)
LegOK(l) ==
  /\ l \in Leg
  /\ ~l.exited
  /\ (l.status = "CONNECTED_LEG") <=> (l.cost = 1)
  /\ HasLink(l) => /\ l.ctrl_link_id \in CtrlIds
                   /\ "Send_Hello" \in l.events
                   /\ l.neighbor
  /\ ~HasLink(l) => /\ l.ctrl_link_id = 0
                    /\ l.other_side_ctrl_link_id = 0
                    /\ l.events \subseteq {"Dead_Leg"}
  /\ l.status = "CONNECTED_LEG" => l.other_side_ctrl_link_id # 0
  /\ l.status = "NOT_YET_CONNECTED_LEG" => l.connect_cnter < CONNECT_LINK_CNT

(* Every packet but a ping names the session of its sender, and data the     *)
(* session of the receiver that was known when it was sent.                  *)
PacketOK(m) ==
  /\ m \in Packet
  /\ m.type # "HELLO_PING" => m.ctrl_link_id \in CtrlIds
  /\ m.type = "DATA" => m.forId # 0

(* The end that sent m is still in the session of m: it has not learnt of    *)
(* another session of the receiver since.                                    *)
DataOfSession(q, m) ==
  m.to = Peer(q) /\ m.type = "DATA" /\ m.ctrl_link_id = leg[q].ctrl_link_id =>
    leg[q].other_side_ctrl_link_id = m.forId

(* An end that has taken foreign data knows a session of the other end that  *)
(* belongs to another session of its own.                                    *)
ForeignSession(p) ==
  foreign[p] /\ HasLink(leg[p]) =>
    /\ leg[p].other_side_ctrl_link_id # 0
    /\ leg[Peer(p)].ctrl_link_id = leg[p].other_side_ctrl_link_id =>
         leg[Peer(p)].other_side_ctrl_link_id \notin {0, leg[p].ctrl_link_id}

IInv ==
  /\ leg \in [Daemon -> Leg] /\ \A p \in Daemon : LegOK(leg[p])
  /\ up \in [Daemon -> BOOLEAN]
  /\ foreign \in [Daemon -> BOOLEAN]
  /\ crashes \in 0 .. MaxCrash
  /\ \A m \in net : PacketOK(m)
  /\ \A q \in Daemon : \A m \in net : DataOfSession(q, m)
  /\ \A p \in Daemon : ForeignSession(p)

-----------------------------------------------------------------------------
(* What the functions make of a leg. *)


(* Sending a hello leaves the session alone. *)
LEMMA AfterHelloOK ==
  ASSUME NEW l \in Leg
  PROVE  /\ AfterHello(l) \in Leg
         /\ AfterHello(l).status = l.status
         /\ AfterHello(l).cost = l.cost
         /\ AfterHello(l).ctrl_link_id = l.ctrl_link_id
         /\ AfterHello(l).other_side_ctrl_link_id = l.other_side_ctrl_link_id
         /\ AfterHello(l).connect_cnter = l.connect_cnter
         /\ AfterHello(l).neighbor = l.neighbor
         /\ AfterHello(l).exited = l.exited
         /\ "Send_Hello" \in AfterHello(l).events
<1> DEFINE h == IF l.hellos_out > DEAD_LINK_CNT THEN l.hellos_out ELSE l.hellos_out + 1
           e == l.events \cup {"Send_Hello"}
                  \cup (IF l.hellos_out = hello_cnt_start
                        THEN {"Send_Hello_Request_Cnt"} ELSE {})
                  \cup (IF l.hellos_out = DEAD_LINK_CNT THEN {"Dead_Leg"} ELSE {})
<1>1. l.hellos_out \in 0 .. DEAD_LINK_CNT + 1 /\ l.events \in SUBSET Event
  BY DEF Leg
<1>2. h \in 0 .. DEAD_LINK_CNT + 1
  BY <1>1, CountAssumption
<1>3. e \in SUBSET Event /\ "Send_Hello" \in e
  BY <1>1 DEF Event
<1>4. AfterHello(l) = [l EXCEPT !.hellos_out = h, !.events = e]
  BY DEF AfterHello
<1> HIDE DEF h, e
<1> QED
  BY <1>2, <1>3, <1>4 DEF Leg

(* Disconnect_Network_Leg finds the cost and the status that it expects. *)
LEMMA DisconnectOK ==
  ASSUME NEW l, LegOK(l), HasLink(l)
  PROVE  /\ LegOK(Disconnect_Network_Leg(l))
         /\ ~HasLink(Disconnect_Network_Leg(l))
<1> DEFINE e == l.events \ {"Send_Hello", "Send_Hello_Request", "Send_Hello_Request_Cnt"}
           n == IF l.cost # -1 THEN FALSE ELSE l.neighbor
           x == l.exited \/ ~HasLink(l) \/ (l.cost # -1 /\ ~l.neighbor)
           k == [l EXCEPT !.status = "DISCONNECTED_LEG", !.ctrl_link_id = 0,
                          !.other_side_ctrl_link_id = 0, !.stable_delay = TRUE,
                          !.events = e, !.cost = -1, !.neighbor = n, !.exited = x]
<1>1. l \in Leg /\ ~x /\ x \in BOOLEAN /\ n \in BOOLEAN
  BY DEF LegOK, Leg
<1>2. e \in SUBSET Event /\ e \subseteq {"Dead_Leg"}
  BY DEF LegOK, Leg, Event
<1>3. Disconnect_Network_Leg(l) = k
  BY <1>1, ZenonT(60) DEF Disconnect_Network_Leg, Network_Leg_Set_Cost, Destroy_Links, Leg
<1> HIDE DEF e, n, x
<1>4. k \in Leg
  BY <1>1, <1>2 DEF Leg
<1>5. LegOK(k) /\ ~HasLink(k)
  BY <1>1, <1>2, <1>4 DEF LegOK, HasLink, Leg
<1> HIDE DEF k
<1> QED
  BY <1>3, <1>5

(* Create_Link finds a leg without a link. *)
LEMMA CreateOK ==
  ASSUME NEW l, LegOK(l), ~HasLink(l), NEW id \in CtrlIds
  PROVE  /\ LegOK(Create_Link(l, id))
         /\ HasLink(Create_Link(l, id))
         /\ Create_Link(l, id).ctrl_link_id = id
         /\ Create_Link(l, id).other_side_ctrl_link_id = 0
<1> DEFINE e == l.events \cup {"Send_Hello"}
           x == l.exited \/ HasLink(l) \/ l.cost # -1
           k == [l EXCEPT !.status = "NOT_YET_CONNECTED_LEG", !.ctrl_link_id = id,
                          !.other_side_ctrl_link_id = 0, !.hellos_out = 0,
                          !.connect_cnter = 0, !.neighbor = TRUE, !.events = e, !.exited = x]
<1>1. l \in Leg /\ ~x /\ x \in BOOLEAN /\ l.cost = -1
  BY DEF LegOK, Leg, HasLink
<1>2. e \in SUBSET Event /\ "Send_Hello" \in e
  BY <1>1 DEF Leg, Event
<1>3. Create_Link(l, id) = k
  BY DEF Create_Link
<1> HIDE DEF e, x
<1>4. 0 \in 0 .. DEAD_LINK_CNT + 1 /\ 0 \in 0 .. CONNECT_LINK_CNT
  BY CountAssumption
<1>5. k \in Leg
  BY <1>1, <1>2, <1>4 DEF Leg
<1>6. LegOK(k) /\ HasLink(k) /\ k.ctrl_link_id = id /\ k.other_side_ctrl_link_id = 0
  BY <1>1, <1>2, <1>5, CountAssumption DEF LegOK, HasLink, Leg
<1> HIDE DEF k
<1> QED
  BY <1>3, <1>6

(* A hello of the known session, or of the first one that is heard of. *)
LEMMA TakeHelloOK ==
  ASSUME NEW l, LegOK(l), HasLink(l), NEW m, m.ctrl_link_id \in CtrlIds,
         NEW old \in BOOLEAN
  PROVE  /\ LegOK(TakeHello(l, m, old))
         /\ HasLink(TakeHello(l, m, old))
         /\ TakeHello(l, m, old).ctrl_link_id = l.ctrl_link_id
         /\ TakeHello(l, m, old).other_side_ctrl_link_id = m.ctrl_link_id
<1> DEFINE known == [l EXCEPT !.other_side_ctrl_link_id = m.ctrl_link_id]
           e == (l.events \ {"Send_Hello_Request_Cnt"})
                  \cup (IF m.type = "HELLO_REQ" THEN {"Send_Hello"} ELSE {})
           alive == [known EXCEPT !.hellos_out = 0, !.events = e]
           counted == [alive EXCEPT !.connect_cnter = @ + 1]
           linked == [counted EXCEPT !.status = "CONNECTED_LEG", !.events = @ \cup {"Send_Hello"}]
<1>1. l \in Leg /\ ~l.exited /\ m.ctrl_link_id # 0
  BY IdAssumption DEF LegOK
<1>2. e \in SUBSET Event /\ "Send_Hello" \in e
  BY <1>1 DEF LegOK, HasLink, Leg, Event
<1>3. /\ LegOK(known) /\ HasLink(known) /\ known.ctrl_link_id = l.ctrl_link_id
      /\ known.other_side_ctrl_link_id = m.ctrl_link_id
      /\ known.status = l.status /\ known.connect_cnter = l.connect_cnter
      /\ known.events = l.events
  BY <1>1 DEF LegOK, HasLink, Leg
<1> HIDE DEF known, e
<1> 0 \in 0 .. DEAD_LINK_CNT + 1
  BY CountAssumption
<1>4. /\ alive \in Leg /\ alive.status = known.status /\ alive.cost = known.cost
      /\ alive.ctrl_link_id = l.ctrl_link_id /\ alive.events = e
      /\ alive.other_side_ctrl_link_id = m.ctrl_link_id
      /\ alive.neighbor = known.neighbor /\ alive.exited = known.exited
      /\ alive.connect_cnter = known.connect_cnter
  BY <1>2, <1>3 DEF LegOK, Leg
<1>5. LegOK(alive) /\ HasLink(alive)
  BY <1>2, <1>3, <1>4 DEF LegOK, HasLink
<1> HIDE DEF alive
<1>9. l.connect_cnter \in Nat /\ CONNECT_LINK_CNT \in Nat
  BY <1>1, CountAssumption DEF Leg
<1>6. CASE l.status = "CONNECTED_LEG"
  <2>1. TakeHello(l, m, old) \in {known, alive}
    BY <1>3, <1>6 DEF TakeHello, AfterHelloReceived, known, alive, e
  <2> QED
    BY <1>3, <1>4, <1>5, <2>1
<1>7. CASE l.status = "NOT_YET_CONNECTED_LEG" /\ l.connect_cnter + 1 < CONNECT_LINK_CNT
  <2>0. AfterHelloReceived(known, m.type = "HELLO_REQ") = counted
    <3>1. /\ known.status # "CONNECTED_LEG" /\ known.status = "NOT_YET_CONNECTED_LEG"
          /\ known.connect_cnter + 1 < CONNECT_LINK_CNT
          /\ ~(known.connect_cnter + 1 >= CONNECT_LINK_CNT)
      BY <1>3, <1>7, <1>9
    <3> QED
      BY <1>3, <3>1 DEF AfterHelloReceived, alive, e
  <2>1. TakeHello(l, m, old) \in {known, counted}
    BY <2>0 DEF TakeHello, known
  <2>2. counted \in Leg
    BY <1>3, <1>4, <1>7, CountAssumption DEF Leg
  <2>3. LegOK(counted) /\ HasLink(counted) /\ counted.ctrl_link_id = l.ctrl_link_id
        /\ counted.other_side_ctrl_link_id = m.ctrl_link_id
    BY <1>3, <1>4, <1>5, <1>7, <2>2 DEF LegOK, HasLink, Leg
  <2> QED
    BY <1>3, <2>1, <2>3
<1>8. CASE l.status = "NOT_YET_CONNECTED_LEG" /\ l.connect_cnter + 1 >= CONNECT_LINK_CNT
  <2>1. TakeHello(l, m, old) \in {known, Network_Leg_Set_Cost(linked, 1)}
    BY <1>3, <1>8 DEF TakeHello, AfterHelloReceived, known, alive, e
  <2>2. l.connect_cnter + 1 \in 0 .. CONNECT_LINK_CNT
    BY <1>1, <1>8, CountAssumption DEF LegOK, Leg
  <2>3. /\ linked \in Leg /\ linked.status = "CONNECTED_LEG" /\ linked.exited = FALSE
        /\ linked.events = e \cup {"Send_Hello"} /\ linked.neighbor = TRUE
        /\ linked.ctrl_link_id = l.ctrl_link_id
        /\ linked.other_side_ctrl_link_id = m.ctrl_link_id
    BY <1>2, <1>3, <1>4, <1>5, <2>2 DEF LegOK, HasLink, Leg, Event
  <2> HIDE DEF linked
  <2> DEFINE x == \/ linked.exited
                  \/ 1 # -1 /\ linked.status # "CONNECTED_LEG"
                  \/ 1 = -1 /\ linked.status = "CONNECTED_LEG"
                  \/ 1 = -1 /\ linked.cost # -1 /\ ~linked.neighbor
             n == IF 1 = -1 /\ linked.cost # -1 THEN FALSE ELSE linked.neighbor
             k == [linked EXCEPT !.cost = 1, !.neighbor = n, !.exited = x]
  <2>4. Network_Leg_Set_Cost(linked, 1) = k
    BY DEF Network_Leg_Set_Cost
  <2>7. ~x /\ x \in BOOLEAN /\ n = TRUE
    BY <2>3
  <2> HIDE DEF x, n
  <2>5. k \in Leg
    BY <2>3, <2>7 DEF Leg
  <2>6. LegOK(k) /\ HasLink(k) /\ k.ctrl_link_id = l.ctrl_link_id
        /\ k.other_side_ctrl_link_id = m.ctrl_link_id
    BY <1>1, <1>3, <2>3, <2>5, <2>7 DEF LegOK, HasLink, Leg
  <2> HIDE DEF k
  <2> QED
    BY <1>3, <2>1, <2>4, <2>6
<1> QED
  BY <1>1, <1>6, <1>7, <1>8, <1>9 DEF Leg, HasLink

-----------------------------------------------------------------------------
(* What a step may do to the session of one end.  It keeps the session, and  *)
(* may learn of the other end's; it leaves it; or it opens another one under *)
(* an id that nothing else carries.                                          *)

Keeps(p, k) ==
  /\ HasLink(k) <=> HasLink(leg[p])
  /\ k.ctrl_link_id = leg[p].ctrl_link_id
  /\ leg[p].other_side_ctrl_link_id \in {0, k.other_side_ctrl_link_id}
  /\ foreign' = foreign

Leaves(p, k) ==
  /\ ~HasLink(k)
  /\ foreign' \in {foreign, [foreign EXCEPT ![p] = FALSE]}

Opens(p, k) ==
  /\ k.ctrl_link_id \in CtrlIds \ UsedIds(p)
  /\ foreign' = [foreign EXCEPT ![p] = FALSE]

(* The packets that are sent are no data. *)
NoNewData == \A m \in net' : m \in net \/ (PacketOK(m) /\ m.type # "DATA")

LEMMA SessionStep ==
  ASSUME IInv, NEW p \in Daemon, NEW k, LegOK(k), leg' = [leg EXCEPT ![p] = k],
         Keeps(p, k) \/ Leaves(p, k) \/ Opens(p, k),
         NoNewData,
         up' \in [Daemon -> BOOLEAN], crashes' \in 0 .. MaxCrash
  PROVE  IInv'
<1> DEFINE q == Peer(p)
<1>1. /\ q \in Daemon /\ q # p /\ Peer(q) = p
      /\ \A r \in Daemon : r = p \/ r = q
  BY Peers
<1> HIDE DEF q
<1>2. /\ leg \in [Daemon -> Leg] /\ \A r \in Daemon : LegOK(leg[r])
      /\ foreign \in [Daemon -> BOOLEAN]
      /\ \A m \in net : PacketOK(m)
      /\ \A r \in Daemon : \A m \in net : DataOfSession(r, m)
      /\ \A r \in Daemon : ForeignSession(r)
  BY DEF IInv
<1>3. /\ leg' \in [Daemon -> Leg] /\ leg'[p] = k /\ leg'[q] = leg[q]
      /\ \A r \in Daemon : LegOK(leg'[r])
  BY <1>1, <1>2 DEF LegOK
<1>4. foreign' \in [Daemon -> BOOLEAN] /\ foreign'[q] = foreign[q]
  BY <1>1, <1>2 DEF Keeps, Leaves, Opens
<1>5. \A m \in net' : PacketOK(m)
  BY <1>2 DEF NoNewData
<1>6. ASSUME NEW m \in net', m.type = "DATA"
      PROVE  m \in net /\ m.forId # 0 /\ m.ctrl_link_id # 0
  BY <1>5, <1>6, IdAssumption DEF NoNewData, PacketOK
<1>7. ~HasLink(k) => k.ctrl_link_id = 0
  BY DEF LegOK
<1>8. ASSUME NEW m \in net' PROVE DataOfSession(p, m)'
  <2>1. SUFFICES ASSUME m.to = q, m.type = "DATA", m.ctrl_link_id = k.ctrl_link_id
                 PROVE  k.other_side_ctrl_link_id = m.forId
    BY <1>3 DEF DataOfSession, q
  <2>2. m \in net /\ m.forId # 0 /\ m.ctrl_link_id # 0
    BY <1>6, <2>1
  <2>3. CASE Keeps(p, k)
    <3>1. leg[p].other_side_ctrl_link_id = m.forId
      BY <1>2, <2>1, <2>2, <2>3 DEF DataOfSession, Keeps, q
    <3> QED
      BY <2>2, <2>3, <3>1 DEF Keeps
  <2>4. CASE Leaves(p, k)
    BY <1>7, <2>1, <2>2, <2>4 DEF Leaves
  <2>5. CASE Opens(p, k)
    BY <2>1, <2>2, <2>5 DEF Opens, UsedIds, q
  <2> QED
    BY <2>3, <2>4, <2>5
<1>9. ASSUME NEW m \in net' PROVE DataOfSession(q, m)'
  BY <1>1, <1>2, <1>3, <1>6 DEF DataOfSession
<1>10. ForeignSession(p)'
  <2>1. CASE Keeps(p, k)
    BY <1>2, <1>3, <2>1 DEF ForeignSession, Keeps, q
  <2>2. CASE Leaves(p, k)
    BY <1>3, <2>2 DEF ForeignSession, Leaves
  <2>3. CASE Opens(p, k)
    BY <1>2, <2>3 DEF ForeignSession, Opens
  <2> QED
    BY <2>1, <2>2, <2>3
<1>11. ForeignSession(q)'
  <2>1. SUFFICES ASSUME foreign[q], HasLink(leg[q])
                 PROVE  /\ leg[q].other_side_ctrl_link_id # 0
                        /\ k.ctrl_link_id = leg[q].other_side_ctrl_link_id =>
                             k.other_side_ctrl_link_id \notin {0, leg[q].ctrl_link_id}
    BY <1>1, <1>3, <1>4 DEF ForeignSession
  <2>2. /\ leg[q].other_side_ctrl_link_id # 0
        /\ leg[p].ctrl_link_id = leg[q].other_side_ctrl_link_id =>
             leg[p].other_side_ctrl_link_id \notin {0, leg[q].ctrl_link_id}
    BY <1>1, <1>2, <2>1 DEF ForeignSession
  <2>3. CASE Keeps(p, k)
    BY <2>2, <2>3 DEF Keeps
  <2>4. CASE Leaves(p, k)
    BY <1>7, <2>2, <2>4 DEF Leaves
  <2>5. CASE Opens(p, k)
    BY <2>2, <2>5 DEF Opens, UsedIds, q
  <2> QED
    BY <2>2, <2>3, <2>4, <2>5
<1> QED
  BY <1>1, <1>3, <1>4, <1>5, <1>8, <1>9, <1>10, <1>11 DEF IInv

(* What is sent, and what is left when a packet has arrived. *)
LEMMA HelloIsPacket ==
  ASSUME NEW p \in Daemon, NEW id,
         NEW type \in {"HELLO", "HELLO_REQ", "HELLO_PING"},
         id \in CtrlIds \/ (id = 0 /\ type = "HELLO_PING")
  PROVE  PacketOK(Hello(p, type, id)) /\ Hello(p, type, id).type # "DATA"
  BY Peers DEF PacketOK, Packet, Hello

(* The id that rand() gives. *)
LEMMA FreshIsUnused ==
  ASSUME NEW p \in Daemon, IdLeft(p)
  PROVE  FreshId(p) \in CtrlIds \ UsedIds(p)
  BY DEF IdLeft, FreshId

-----------------------------------------------------------------------------
(* The invariant holds initially and is kept by every action. *)

LEMMA InitOK == Init => IInv
<1> SUFFICES ASSUME Init PROVE IInv
  OBVIOUS
<1>1. NewLeg \in Leg
  BY CountAssumption DEF NewLeg, Leg, Event
<1>2. LegOK(NewLeg) /\ ~HasLink(NewLeg)
  BY <1>1 DEF LegOK, NewLeg, HasLink
<1>3. leg \in [Daemon -> Leg] /\ \A p \in Daemon : leg[p] = NewLeg
  BY <1>1 DEF Init
<1> QED
  BY <1>2, <1>3, HelloBoundAssumption DEF Init, IInv, ForeignSession

(* A leg is left as it is, or loses a timer that is not needed. *)
LEMMA WithoutEventOK ==
  ASSUME NEW l, LegOK(l), NEW f \in Event
  PROVE  /\ WithoutEvent(l, f) \in Leg
         /\ WithoutEvent(l, f).status = l.status
         /\ WithoutEvent(l, f).cost = l.cost
         /\ WithoutEvent(l, f).ctrl_link_id = l.ctrl_link_id
         /\ WithoutEvent(l, f).other_side_ctrl_link_id = l.other_side_ctrl_link_id
         /\ WithoutEvent(l, f).connect_cnter = l.connect_cnter
         /\ WithoutEvent(l, f).neighbor = l.neighbor
         /\ WithoutEvent(l, f).exited = l.exited
         /\ WithoutEvent(l, f).hellos_out = l.hellos_out
         /\ WithoutEvent(l, f).events = l.events \ {f}
         /\ f # "Send_Hello" => LegOK(WithoutEvent(l, f))
<1>1. l \in Leg /\ l.events \ {f} \in SUBSET Event
  BY DEF LegOK, Leg
<1>2. /\ WithoutEvent(l, f) \in Leg
      /\ WithoutEvent(l, f).status = l.status
      /\ WithoutEvent(l, f).cost = l.cost
      /\ WithoutEvent(l, f).ctrl_link_id = l.ctrl_link_id
      /\ WithoutEvent(l, f).other_side_ctrl_link_id = l.other_side_ctrl_link_id
      /\ WithoutEvent(l, f).connect_cnter = l.connect_cnter
      /\ WithoutEvent(l, f).neighbor = l.neighbor
      /\ WithoutEvent(l, f).exited = l.exited
      /\ WithoutEvent(l, f).hellos_out = l.hellos_out
      /\ WithoutEvent(l, f).events = l.events \ {f}
  BY <1>1 DEF WithoutEvent, Leg
<1>3. ASSUME f # "Send_Hello" PROVE LegOK(WithoutEvent(l, f))
  BY <1>2, <1>3 DEF LegOK, HasLink
<1> QED
  BY <1>2, <1>3

LEMMA Send_HelloOK ==
  ASSUME IInv, NEW p \in Daemon, Send_Hello(p)
  PROVE  IInv'
<1> DEFINE l == WithoutEvent(leg[p], "Send_Hello")
           k == AfterHello(l)
<1>1. LegOK(leg[p]) /\ "Send_Hello" \in leg[p].events /\ "Send_Hello" \in Event
  BY DEF IInv, Send_Hello, Fires, Event
<1>2. HasLink(leg[p]) /\ leg[p].ctrl_link_id \in CtrlIds
  BY <1>1 DEF LegOK
<1>3. LegOK(k) /\ HasLink(k)
  BY <1>1, <1>2, WithoutEventOK, AfterHelloOK DEF LegOK, HasLink
<1>4. Keeps(p, k)
  BY <1>1, <1>2, <1>3, WithoutEventOK, AfterHelloOK DEF Keeps, Send_Hello
<1>5. NoNewData
  BY <1>2, HelloIsPacket DEF NoNewData, Send_Hello, DL_send
<1>6. leg' = [leg EXCEPT ![p] = k] /\ UNCHANGED <<up, crashes>>
  BY <1>2 DEF Send_Hello
<1> QED
  BY <1>3, <1>4, <1>5, <1>6, SessionStep DEF IInv

LEMMA Send_Hello_RequestOK ==
  ASSUME IInv, NEW p \in Daemon, Send_Hello_Request(p)
  PROVE  IInv'
<1> DEFINE k == WithoutEvent(leg[p], "Send_Hello_Request")
<1>1. LegOK(leg[p]) /\ "Send_Hello_Request" \in leg[p].events /\ "Send_Hello_Request" \in Event
  BY DEF IInv, Send_Hello_Request, Fires, Event
<1>2. HasLink(leg[p]) /\ leg[p].ctrl_link_id \in CtrlIds
  BY <1>1 DEF LegOK
<1>3. LegOK(k) /\ HasLink(k)
  BY <1>1, <1>2, WithoutEventOK DEF HasLink
<1>4. Keeps(p, k)
  BY <1>1, <1>2, <1>3, WithoutEventOK DEF Keeps, Send_Hello_Request
<1>5. NoNewData
  BY <1>2, HelloIsPacket DEF NoNewData, Send_Hello_Request, DL_send
<1>6. leg' = [leg EXCEPT ![p] = k] /\ UNCHANGED <<up, crashes>>
  BY <1>2 DEF Send_Hello_Request
<1> QED
  BY <1>3, <1>4, <1>5, <1>6, SessionStep DEF IInv

(* The steps that leave the leg and what it has taken as they are. *)
LEMMA SameLegOK ==
  ASSUME IInv, NEW p \in Daemon, UNCHANGED <<leg, foreign>>, NoNewData,
         up' \in [Daemon -> BOOLEAN], crashes' \in 0 .. MaxCrash
  PROVE  IInv'
<1>1. LegOK(leg[p]) /\ leg' = [leg EXCEPT ![p] = leg[p]]
  BY DEF IInv
<1>2. Keeps(p, leg[p])
  BY DEF Keeps
<1> QED
  BY <1>1, <1>2, SessionStep

LEMMA Send_Hello_Request_CntOK ==
  ASSUME IInv, NEW p \in Daemon, Send_Hello_Request_Cnt(p)
  PROVE  IInv'
<1>1. LegOK(leg[p]) /\ "Send_Hello_Request_Cnt" \in leg[p].events
  BY DEF IInv, Send_Hello_Request_Cnt, Fires
<1>2. HasLink(leg[p]) /\ leg[p].ctrl_link_id \in CtrlIds
  BY <1>1 DEF LegOK
<1>3. NoNewData
  BY <1>2, HelloIsPacket DEF NoNewData, Send_Hello_Request_Cnt, DL_send
<1>4. UNCHANGED <<leg, foreign, up, crashes>>
  BY <1>2 DEF Send_Hello_Request_Cnt
<1> QED
  BY <1>3, <1>4, SameLegOK DEF IInv

LEMMA Dead_LegOK ==
  ASSUME IInv, NEW p \in Daemon, Dead_Leg(p)
  PROVE  IInv'
<1> DEFINE l == WithoutEvent(leg[p], "Dead_Leg")
           k == IF HasLink(l) /\ Silent(l) THEN Disconnect_Network_Leg(l) ELSE l
<1>1. LegOK(leg[p]) /\ "Dead_Leg" \in Event
  BY DEF IInv, Event
<1>2. LegOK(l) /\ Keeps(p, l)
  BY <1>1, WithoutEventOK DEF Keeps, HasLink, Dead_Leg
<1>3. LegOK(k) /\ (Keeps(p, k) \/ Leaves(p, k))
  BY <1>2, DisconnectOK DEF Leaves, Dead_Leg
<1>4. NoNewData
  BY DEF NoNewData, Dead_Leg
<1>5. leg' = [leg EXCEPT ![p] = k] /\ UNCHANGED <<up, crashes>>
  BY DEF Dead_Leg
<1> HIDE DEF k
<1> QED
  BY <1>3, <1>4, <1>5, SessionStep DEF IInv

LEMMA Send_Hello_PingOK ==
  ASSUME IInv, NEW p \in Daemon, Send_Hello_Ping(p)
  PROVE  IInv'
<1>1. NoNewData
  BY HelloIsPacket DEF NoNewData, Send_Hello_Ping, DL_send
<1> QED
  BY <1>1, SameLegOK DEF IInv, Send_Hello_Ping

LEMMA StableDelayOverOK ==
  ASSUME IInv, NEW p \in Daemon, StableDelayOver(p)
  PROVE  IInv'
<1> DEFINE k == [leg[p] EXCEPT !.stable_delay = FALSE]
<1>1. LegOK(leg[p]) /\ leg[p] \in Leg
  BY DEF IInv, LegOK
<1>2. k \in Leg
  BY <1>1 DEF Leg
<1>3. LegOK(k) /\ Keeps(p, k)
  BY <1>1, <1>2 DEF LegOK, Leg, HasLink, Keeps, StableDelayOver
<1>4. NoNewData
  BY DEF NoNewData, StableDelayOver
<1>5. leg' = [leg EXCEPT ![p] = k] /\ UNCHANGED <<up, crashes>>
  BY DEF StableDelayOver
<1> HIDE DEF k
<1> QED
  BY <1>3, <1>4, <1>5, SessionStep DEF IInv

LEMMA Process_hello_pingOK ==
  ASSUME IInv, NEW p \in Daemon, NEW m \in net, Process_hello_ping(p, m)
  PROVE  IInv'
<1>1. NoNewData /\ UNCHANGED <<up, crashes>>
  BY DEF NoNewData, Process_hello_ping, AfterReceipt
<1>2. CASE HasLink(leg[p]) \/ leg[p].stable_delay
  BY <1>1, <1>2, SameLegOK DEF IInv, Process_hello_ping
<1>3. CASE ~(HasLink(leg[p]) \/ leg[p].stable_delay)
  <2> DEFINE k == Create_Link(leg[p], FreshId(p))
  <2>1. FreshId(p) \in CtrlIds \ UsedIds(p)
    BY <1>3, FreshIsUnused DEF Process_hello_ping
  <2>2. LegOK(leg[p]) /\ ~HasLink(leg[p])
    BY <1>3 DEF IInv
  <2>3. LegOK(k) /\ k.ctrl_link_id = FreshId(p)
    BY <2>1, <2>2, CreateOK
  <2>4. leg' = [leg EXCEPT ![p] = k] /\ foreign' = [foreign EXCEPT ![p] = FALSE]
    BY <1>3 DEF Process_hello_ping
  <2>5. Opens(p, k)
    BY <2>1, <2>3, <2>4 DEF Opens
  <2> QED
    BY <1>1, <2>3, <2>4, <2>5, SessionStep DEF IInv
<1> QED
  BY <1>2, <1>3

LEMMA RestartSessionOK ==
  ASSUME IInv, NEW p \in Daemon, NEW m \in net, HasLink(leg[p]), RestartSession(p, m),
         UNCHANGED <<up, crashes>>
  PROVE  IInv'
<1> DEFINE off == Disconnect_Network_Leg(leg[p])
           on == Create_Link(off, FreshId(p))
           k == AfterHello(on)
<1>1. FreshId(p) \in CtrlIds \ UsedIds(p)
  BY FreshIsUnused DEF RestartSession
<1>2. LegOK(off) /\ ~HasLink(off)
  BY DisconnectOK DEF IInv
<1>3. LegOK(on) /\ HasLink(on) /\ on.ctrl_link_id = FreshId(p)
  BY <1>1, <1>2, CreateOK
<1> HIDE DEF off, on
<1>4. LegOK(k) /\ k.ctrl_link_id = FreshId(p)
  BY <1>3, AfterHelloOK DEF LegOK, HasLink
<1>5. leg' = [leg EXCEPT ![p] = k] /\ foreign' = [foreign EXCEPT ![p] = FALSE]
  BY DEF RestartSession, off, on
<1> HIDE DEF k
<1>6. Opens(p, k)
  BY <1>1, <1>4, <1>5 DEF Opens
<1>7. NoNewData
  <2>1. net' \subseteq net \cup {Hello(p, "HELLO", FreshId(p))}
    BY DEF RestartSession, AfterReceipt, DL_send
  <2> QED
    BY <1>1, <2>1, HelloIsPacket DEF NoNewData
<1> QED
  BY <1>4, <1>5, <1>6, <1>7, SessionStep DEF IInv

LEMMA Process_hello_packetOK ==
  ASSUME IInv, NEW p \in Daemon, NEW m \in net, NEW old \in BOOLEAN,
         Process_hello_packet(p, m, old)
  PROVE  IInv'
<1>1. m.ctrl_link_id \in CtrlIds
  BY DEF IInv, PacketOK, Process_hello_packet
<1>2. UNCHANGED <<up, crashes>> /\ LegOK(leg[p])
  BY DEF Process_hello_packet, IInv
<1>3. CASE ~HasLink(leg[p]) /\ leg[p].stable_delay
  <2>1. NoNewData
    BY <1>3 DEF NoNewData, Process_hello_packet, AfterReceipt
  <2> QED
    BY <1>2, <1>3, <2>1, SameLegOK DEF IInv, Process_hello_packet
<1>4. CASE ~HasLink(leg[p]) /\ ~leg[p].stable_delay
  <2> DEFINE on == Create_Link(leg[p], FreshId(p))
             k == TakeHello(on, m, old)
  <2>1. FreshId(p) \in CtrlIds \ UsedIds(p)
    BY <1>4, FreshIsUnused DEF Process_hello_packet
  <2>2. LegOK(on) /\ HasLink(on) /\ on.ctrl_link_id = FreshId(p)
    BY <1>2, <1>4, <2>1, CreateOK
  <2>3. leg' = [leg EXCEPT ![p] = k] /\ foreign' = [foreign EXCEPT ![p] = FALSE]
    BY <1>4 DEF Process_hello_packet
  <2> HIDE DEF on
  <2>4. LegOK(k) /\ k.ctrl_link_id = FreshId(p)
    BY <1>1, <2>2, TakeHelloOK
  <2> HIDE DEF k
  <2>5. Opens(p, k)
    BY <2>1, <2>3, <2>4 DEF Opens
  <2>6. NoNewData
    BY <1>4 DEF NoNewData, Process_hello_packet, AfterReceipt
  <2> QED
    BY <1>2, <2>3, <2>4, <2>5, <2>6, SessionStep DEF IInv
<1>5. CASE HasLink(leg[p]) /\ OtherSession(leg[p], m)
  BY <1>2, <1>5, RestartSessionOK DEF Process_hello_packet
<1>6. CASE HasLink(leg[p]) /\ ~OtherSession(leg[p], m)
  <2> DEFINE k == TakeHello(leg[p], m, old)
  <2>1. LegOK(k) /\ HasLink(k) /\ k.ctrl_link_id = leg[p].ctrl_link_id
        /\ k.other_side_ctrl_link_id = m.ctrl_link_id
    BY <1>1, <1>2, <1>6, TakeHelloOK
  <2>2. leg' = [leg EXCEPT ![p] = k] /\ UNCHANGED foreign
    BY <1>6 DEF Process_hello_packet
  <2> HIDE DEF k
  <2>3. Keeps(p, k)
    BY <1>6, <2>1, <2>2 DEF Keeps, OtherSession
  <2>4. NoNewData
    BY <1>6 DEF NoNewData, Process_hello_packet, AfterReceipt
  <2> QED
    BY <1>2, <2>1, <2>2, <2>3, <2>4, SessionStep DEF IInv
<1> QED
  BY <1>3, <1>4, <1>5, <1>6 DEF Process_hello_packet

(* A new data packet is of the sender's session. *)
LEMMA Send_DataOK ==
  ASSUME IInv, NEW p \in Daemon, Send_Data(p)
  PROVE  IInv'
<1> DEFINE d == [to |-> Peer(p), type |-> "DATA", ctrl_link_id |-> leg[p].ctrl_link_id,
                 forId |-> leg[p].other_side_ctrl_link_id]
<1>1. LegOK(leg[p]) /\ HasLink(leg[p]) /\ Peer(p) \in Daemon /\ Peer(p) # p
  BY Peers DEF IInv, Send_Data, HasLink
<1>2. PacketOK(d)
  BY <1>1 DEF PacketOK, Packet, LegOK, Leg, Send_Data
<1>3. net' \subseteq net \cup {d} /\ UNCHANGED <<leg, up, foreign, crashes>>
  BY DEF Send_Data, DL_send
<1>4. ASSUME NEW q \in Daemon PROVE DataOfSession(q, d)
  BY <1>1, Peers DEF DataOfSession
<1>5. ASSUME NEW q \in Daemon, NEW m \in net' PROVE DataOfSession(q, m)'
  <2>1. DataOfSession(q, m)
    BY <1>3, <1>4 DEF IInv
  <2> QED
    BY <1>3, <2>1 DEF DataOfSession
<1>6. \A m \in net' : PacketOK(m)
  BY <1>2, <1>3 DEF IInv
<1>7. ASSUME NEW q \in Daemon PROVE ForeignSession(q)'
  BY <1>3 DEF IInv, ForeignSession
<1> QED
  BY <1>3, <1>5, <1>6, <1>7 DEF IInv

(* Data that was meant for another session of p tells that the sender, if it *)
(* is still in the session it was sent in, belongs to that other session.    *)
LEMMA Prot_process_scatOK ==
  ASSUME IInv, NEW p \in Daemon, NEW m \in net, Prot_process_scat(p, m)
  PROVE  IInv'
<1> DEFINE q == Peer(p)
           ours == HasLink(leg[p]) /\ m.ctrl_link_id = leg[p].other_side_ctrl_link_id
           connected == leg[p].status = "CONNECTED_LEG"
           e == leg[p].events \cup (IF ours /\ ~connected THEN {"Send_Hello_Request"} ELSE {})
           k == [leg[p] EXCEPT !.events = e]
           taken == ours /\ connected /\ m.forId # leg[p].ctrl_link_id
<1>1. /\ leg' = [leg EXCEPT ![p] = k] /\ UNCHANGED <<up, crashes>>
      /\ foreign' = [foreign EXCEPT ![p] = @ \/ taken]
      /\ m.type = "DATA" /\ m.to = p /\ net' \in {net, net \ {m}}
  BY DEF Prot_process_scat, Receives, AfterReceipt
<1>2. LegOK(leg[p]) /\ leg[p] \in Leg /\ PacketOK(m) /\ net' \subseteq net
  BY <1>1 DEF IInv, LegOK
<1>3. q \in Daemon /\ q # p /\ Peer(q) = p /\ \A r \in Daemon : r = p \/ r = q
  BY Peers
<1>4. e \in SUBSET Event /\ leg[p].events \subseteq e /\ (~HasLink(leg[p]) => e = leg[p].events)
  BY <1>2 DEF Leg, Event
<1> HIDE DEF e, q
<1>5. k \in Leg
  BY <1>2, <1>4 DEF Leg
<1>6. /\ LegOK(k) /\ k.status = leg[p].status
      /\ k.ctrl_link_id = leg[p].ctrl_link_id
      /\ k.other_side_ctrl_link_id = leg[p].other_side_ctrl_link_id
  BY <1>2, <1>4, <1>5 DEF LegOK, Leg, HasLink
<1> HIDE DEF k
<1>7. /\ leg' \in [Daemon -> Leg]
      /\ \A r \in Daemon : /\ LegOK(leg'[r]) /\ leg'[r].status = leg[r].status
                           /\ leg'[r].ctrl_link_id = leg[r].ctrl_link_id
                           /\ leg'[r].other_side_ctrl_link_id = leg[r].other_side_ctrl_link_id
  BY <1>1, <1>3, <1>5, <1>6 DEF IInv
<1>8. foreign' \in [Daemon -> BOOLEAN] /\ foreign'[q] = foreign[q]
      /\ foreign'[p] = (foreign[p] \/ taken)
  BY <1>1, <1>3 DEF IInv
<1>9. ASSUME NEW r \in Daemon, NEW n \in net' PROVE DataOfSession(r, n)'
  BY <1>2, <1>7 DEF IInv, DataOfSession
<1>10. ForeignSession(q)'
  BY <1>3, <1>7, <1>8 DEF IInv, ForeignSession, HasLink
<1>11. ForeignSession(p)'
  <2>1. CASE foreign[p]
    BY <1>3, <1>7, <2>1 DEF IInv, ForeignSession, HasLink, q
  <2>2. CASE taken
    <3>1. leg[p].other_side_ctrl_link_id # 0 /\ m.forId # 0
      BY <1>1, <1>2, <2>2 DEF LegOK, PacketOK
    <3>2. DataOfSession(q, m)
      BY <1>3 DEF IInv
    <3>3. leg[q].ctrl_link_id = leg[p].other_side_ctrl_link_id =>
            leg[q].other_side_ctrl_link_id \notin {0, leg[p].ctrl_link_id}
      BY <1>1, <1>3, <2>2, <3>1, <3>2 DEF DataOfSession
    <3> QED
      BY <1>3, <1>7, <3>1, <3>3 DEF ForeignSession, q
  <2>3. CASE ~foreign'[p]
    BY <2>3 DEF ForeignSession
  <2> QED
    BY <1>8, <2>1, <2>2, <2>3
<1> QED
  BY <1>1, <1>2, <1>3, <1>7, <1>8, <1>9, <1>10, <1>11 DEF IInv

LEMMA CrashOK ==
  ASSUME IInv, NEW p \in Daemon, Crash(p)
  PROVE  IInv'
<1>1. NewLeg \in Leg
  BY CountAssumption DEF NewLeg, Leg, Event
<1>2. LegOK(NewLeg) /\ ~HasLink(NewLeg)
  BY <1>1 DEF LegOK, NewLeg, HasLink
<1>3. Leaves(p, NewLeg)
  BY <1>2 DEF Leaves, Crash
<1>4. NoNewData
  BY DEF NoNewData, Crash
<1>5. up' \in [Daemon -> BOOLEAN] /\ crashes' \in 0 .. MaxCrash
  BY HelloBoundAssumption DEF IInv, Crash
<1>6. leg' = [leg EXCEPT ![p] = NewLeg]
  BY DEF Crash
<1> QED
  BY <1>2, <1>3, <1>4, <1>5, <1>6, SessionStep

LEMMA RestartOK ==
  ASSUME IInv, NEW p \in Daemon, Restart(p)
  PROVE  IInv'
<1>1. NoNewData /\ up' \in [Daemon -> BOOLEAN]
  BY DEF NoNewData, Restart, IInv
<1> QED
  BY <1>1, SameLegOK DEF IInv, Restart

LEMMA LostOK ==
  ASSUME IInv, NEW p \in Daemon, NEW m \in net, Lost(p, m)
  PROVE  IInv'
<1>1. NoNewData
  BY DEF NoNewData, Lost
<1> QED
  BY <1>1, SameLegOK DEF IInv, Lost

LEMMA NextOK == IInv /\ [Next]_vars => IInv'
<1> SUFFICES ASSUME IInv, [Next]_vars PROVE IInv'
  OBVIOUS
<1>1. ASSUME NEW p \in Daemon, Timer(p) PROVE IInv'
  BY <1>1, Send_HelloOK, Send_Hello_RequestOK, Send_Hello_Request_CntOK, Dead_LegOK,
     Send_Hello_PingOK DEF Timer
<1>2. ASSUME NEW p \in Daemon, NEW m \in net, Deliver(p, m) PROVE IInv'
  BY <1>2, Process_hello_pingOK, Process_hello_packetOK, Prot_process_scatOK DEF Deliver
<1>3. CASE UNCHANGED vars
  BY <1>3 DEF IInv, vars, DataOfSession, ForeignSession
<1> QED
  BY <1>1, <1>2, <1>3, StableDelayOverOK, Send_DataOK, LostOK, CrashOK, RestartOK DEF Next

LEMMA Invariance == Spec => []IInv
  BY InitOK, NextOK, PTL DEF Spec

-----------------------------------------------------------------------------
(* The theorems. *)

(* The legs and the packets stay in their ranges, and no Alarm(EXIT) or      *)
(* assertion of link.c, network.c and hello.c on the state of a leg is ever  *)
(* reached, whatever packets are lost, duplicated or late and whoever        *)
(* crashes.                                                                  *)
THEOREM LegsNeverExit == Spec => []NoAlarmExit
<1>1. IInv => NoAlarmExit
  BY DEF IInv, NoAlarmExit, TypeOK, LegOK, PacketOK
<1> QED
  BY <1>1, Invariance, PTL

(* A control link always has its hello timer queued, a disconnected leg has  *)
(* none, and a leg with a link is among the neighbors.                       *)
THEOREM HelloTimersRun == Spec => []HellosRun
<1>1. IInv => HellosRun
  BY DEF IInv, HellosRun, LegOK
<1> QED
  BY <1>1, Invariance, PTL

(* Two ends that agree on their sessions have taken no data of an earlier    *)
(* one, for any number of sessions, crashes and packets on their way.        *)
THEOREM SessionsStayApart == Spec => []AgreedSessionsAreClean
<1>1. IInv => AgreedSessionsAreClean
  <2> SUFFICES ASSUME IInv, Agreed, NEW p \in Daemon, foreign[p] PROVE FALSE
    BY DEF AgreedSessionsAreClean
  <2>1. Peer(p) \in Daemon /\ Peer(Peer(p)) = p
    BY Peers
  <2>2. ForeignSession(p)
    BY DEF IInv
  <2> QED
    BY <2>1, <2>2 DEF Agreed, ForeignSession
<1> QED
  BY <1>1, Invariance, PTL
=============================================================================
