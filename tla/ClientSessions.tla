-------------------------- MODULE ClientSessions ---------------------------
(***************************************************************************)
(* Client sockets and the sessions that serve them: the calls of the       *)
(* library (libspines/spines_lib.c) and the handlers of the daemon         *)
(* (daemon/session.c, the local membership of daemon/multicast.c, the      *)
(* blocking calls of daemon/reliable_flood.c).                             *)
(*                                                                         *)
(* A Client is one call of spines_socket by an application; the sockets of *)
(* all of them share the library's table all_clients.  What a library call *)
(* sends waits in inbox[c], in order, until the daemon reads it: a step of *)
(* the daemon is one run of Session_Read, of an event or of a protocol     *)
(* that blocks or resumes sessions.  The daemon's state is one record, and *)
(* its functions are operators from such a record to the next one.         *)
(***************************************************************************)
EXTENDS Integers, Sequences, FiniteSets

CONSTANTS Client,                \* the sockets that applications open
          Stream,                \* those of type SOCK_STREAM
          UdpConnect,            \* those opened with UDP_CONNECT
          Group,                 \* multicast groups
          FirstPort, LastPort,   \* the daemon assigns ports FirstPort .. LastPort - 1
          BindPorts,             \* ports that applications bind
          MAX_CTRL_SK_REQUESTS,  \* control connections waiting for their session
          MAX_APP_CLIENTS,       \* slots of all_clients
          LeaveLimit,            \* groups left before a close is continued later
          MaxRequests,           \* bound: requests in flight on one socket
          MaxCalls,              \* bound: calls on open sockets other than spines_close
          MaxPackets             \* bound: packets of a spines_flood_send

Nobody == "nobody"               \* a port without a session

ASSUME CSAssumption ==
  /\ IsFiniteSet(Client) /\ Nobody \notin Client /\ IsFiniteSet(Group)
  /\ Stream \subseteq Client /\ UdpConnect \subseteq Client \ Stream
  /\ FirstPort \in Nat \ {0} /\ LastPort \in Nat /\ FirstPort < LastPort
  /\ BindPorts \subseteq Nat
  /\ MAX_CTRL_SK_REQUESTS \in Nat /\ MAX_APP_CLIENTS \in Nat /\ LeaveLimit \in Nat
  /\ MaxRequests \in Nat /\ MaxCalls \in Nat /\ MaxPackets \in Nat

VARIABLES lib,          \* lib[c]: where the application is with its socket
          all_clients,  \* the library's table: descriptor and port per slot
          Max_Client,   \* the slots that spines_get_client looks at
          inbox,        \* inbox[c]: requests on the session's socket
          daemon,       \* sessions, port table, groups, control connections
          calls         \* calls made on open sockets

libvars == <<lib, all_clients, Max_Client, calls>>
vars == <<lib, all_clients, Max_Client, inbox, daemon, calls>>

Port   == BindPorts \cup FirstPort .. LastPort - 1
Slots  == 0 .. MAX_APP_CLIENTS - 1
Free   == [udp_sk |-> -1, vport |-> 0]

Request(type, arg) == [type |-> type, arg |-> arg]

NoSession ==
  [live |-> FALSE, closing |-> FALSE, state |-> "CTRL_SK", type |-> "UDP", client |-> "ON",
   port |-> 0, groups |-> {}, read |-> FALSE, rel_blocked |-> FALSE, blocked |-> FALSE,
   scat |-> FALSE, close_reason |-> "none", flood |-> 0, answers |-> 0]

Init ==
  /\ lib = [c \in Client |-> [pc |-> "none", fd |-> -1, slot |-> -1, told |-> 0]]
  /\ all_clients = [i \in Slots |-> Free]
  /\ Max_Client = 0
  /\ inbox = [c \in Client |-> << >>]
  /\ calls = 0
  /\ daemon = [ses |-> [c \in Client |-> NoSession],
               Sessions_Port |-> [p \in Port |-> Nobody],
               last_sess_port |-> FirstPort,
               ctrl_sk_requests |-> {},
               joined |-> [g \in Group |-> {}],
               link_blocked |-> FALSE,
               exited |-> FALSE]

Live(d) == {c \in Client : d.ses[c].live}

-----------------------------------------------------------------------------
(* Groups of the local sessions (daemon/multicast.c). *)

(* Join_Group refuses a session that is not a datagram one. *)
Join_Group(d, c, g) ==
  [d EXCEPT !.ses[c].groups = @ \cup {g}, !.joined[g] = @ \cup {c}]

Leave_Group(d, c, g) ==
  [d EXCEPT !.ses[c].groups = @ \ {g}, !.joined[g] = @ \ {c}]

(* The groups that one run of Session_Close leaves: all of them, or one more *)
(* than LeaveLimit.                                                          *)
LeftAtOnce(groups) ==
  IF Cardinality(groups) <= LeaveLimit THEN groups
  ELSE CHOOSE s \in SUBSET groups : Cardinality(s) = LeaveLimit + 1

-----------------------------------------------------------------------------
(* Closing a session. *)

(* The end of Session_Close: out of Sessions_ID, and out of Sessions_Port    *)
(* except when the session is closed for asking for a port in use.           *)
Dispose(d, c) ==
  LET s == d.ses[c]
  IN  [d EXCEPT !.ses[c] = [NoSession EXCEPT !.closing = TRUE, !.port = s.port, !.client = "OFF",
                                             !.close_reason = s.close_reason,
                                             !.answers = s.answers],
                !.Sessions_Port = IF s.close_reason # "PORT_IN_USE" /\ s.port # 0
                                  THEN [@ EXCEPT ![s.port] = Nobody] ELSE @]

(* Mutant: the session leaves no group. *)
DisposeKeepingGroups(d, c, reason) ==
  Dispose([d EXCEPT !.ses[c].close_reason = reason], c)

(* Session_Close.  A session in more groups than it may leave at once stays  *)
(* in Sessions_ID and Sessions_Port, without its client, and Try_Close_      *)
(* Session is queued.                                                        *)
Session_Close(d, c, reason) ==
  LET s    == d.ses[c]
      gone == LeftAtOnce(s.groups)
      left == [d EXCEPT !.ses[c] = [s EXCEPT !.close_reason = reason, !.scat = FALSE,
                                             !.client = IF s.client = "ON" THEN "OFF" ELSE s.client,
                                             !.read = FALSE, !.closing = TRUE,
                                             !.groups = s.groups \ gone],
                        !.joined = [g \in Group |-> IF g \in gone THEN @[g] \ {c} ELSE @[g]]]
  IN  IF Cardinality(gone) > LeaveLimit THEN left ELSE Dispose(left, c)

(* Disconnect_Reliable_Session, as far as the session tables go: the client  *)
(* is detached, the session stays until its protocol ends it.                *)
Disconnect_Reliable_Session(d, c) ==
  [d EXCEPT !.ses[c].client = "ORPHAN"]

(* A session whose client is gone: an ordinary one is closed, a reliable one *)
(* is first disconnected.                                                    *)
SocketError(d, c) ==
  IF d.ses[c].type # "RELIABLE" THEN Session_Close(d, c, "SOCK_ERR")
  ELSE Disconnect_Reliable_Session(d, c)

-----------------------------------------------------------------------------
(* Accepting a session. *)

(* The first port free after the last one assigned, and after LastPort the   *)
(* first one from FirstPort.                                                 *)
FreePorts(d, low, high) == {p \in low .. high : d.Sessions_Port[p] = Nobody}
Lowest(S) == CHOOSE p \in S : \A q \in S : p <= q

(* Mutant: the next port is assigned without looking whether it is free. *)
NextPortUnchecked(d) ==
  IF d.last_sess_port + 1 < LastPort THEN d.last_sess_port + 1 ELSE FirstPort

AssignedPort(d) ==
  LET above == FreePorts(d, d.last_sess_port + 1, LastPort - 1)
      below == FreePorts(d, FirstPort, d.last_sess_port - 1)
  IN  IF above # {} THEN Lowest(above) ELSE IF below # {} THEN Lowest(below) ELSE 0

(* Session_Accept on the control socket: the connection waits for a session  *)
(* that claims it; when there is no room the daemon exits.                   *)
Session_Accept_Ctrl(d, c) ==
  IF Cardinality(d.ctrl_sk_requests) = MAX_CTRL_SK_REQUESTS THEN [d EXCEPT !.exited = TRUE]
  ELSE [d EXCEPT !.ctrl_sk_requests = @ \cup {c}]

(* Session_Accept on the data socket: a session of datagram type with a port *)
(* of its own.  Without a port the daemon exits.                             *)
Session_Accept(d, c) ==
  LET p == AssignedPort(d)
  IN  IF p = 0 THEN [d EXCEPT !.exited = TRUE]
      ELSE [d EXCEPT !.ses[c] = [NoSession EXCEPT !.live = TRUE, !.read = TRUE, !.port = p],
                     !.Sessions_Port[p] = c, !.last_sess_port = p]

-----------------------------------------------------------------------------
(* Blocking and resuming. *)
Block_Session(d, c)  == [d EXCEPT !.ses[c].read = FALSE]
Resume_Session(d, c) == [d EXCEPT !.ses[c].read = TRUE]

(* A reliable link or an intrusion-tolerant one has a full window.           *)
Block_All_Sessions(d) ==
  [d EXCEPT !.link_blocked = TRUE,
            !.ses = [c \in Client |-> IF @[c].live /\ ~@[c].rel_blocked
                                      THEN [@[c] EXCEPT !.read = FALSE] ELSE @[c]]]

(* Mutant: no session is read again. *)
Resume_All_SessionsNone(d) ==
  [d EXCEPT !.link_blocked = FALSE]

Resume_All_Sessions(d) ==
  [d EXCEPT !.link_blocked = FALSE,
            !.ses = [c \in Client |-> IF @[c].live /\ ~@[c].rel_blocked
                                      THEN [@[c] EXCEPT !.read = TRUE] ELSE @[c]]]

(* Reliable_Ses_Send and Ses_Send_Much: a reliable session's backlog passes  *)
(* its limit, or drains.                                                     *)
Rel_Block(d, c) ==
  LET r == [d EXCEPT !.ses[c].rel_blocked = TRUE]
  IN  IF d.link_blocked THEN r ELSE Block_Session(r, c)
Rel_Resume(d, c) ==
  LET r == [d EXCEPT !.ses[c].rel_blocked = FALSE]
  IN  IF d.link_blocked THEN r ELSE Resume_Session(r, c)

(* Session_Send_Message for a reliable flow.  Without room in the flow the   *)
(* message stays in ses->scat and the session is blocked until the flow      *)
(* drains; "lost" records a message that Process_Session_Packet overwrote.   *)
Session_Send_Message(d, c, room) ==
  IF room /\ ~d.ses[c].blocked THEN [d EXCEPT !.ses[c].scat = FALSE]
  ELSE IF d.ses[c].blocked THEN d
  ELSE Block_Session([d EXCEPT !.ses[c].blocked = TRUE], c)

(* Reliable_Flood_Resume_Sessions: the flow has room, what waits is sent.    *)
Reliable_Flood_Resume_Sessions(d, c) ==
  Resume_Session(Session_Send_Message([d EXCEPT !.ses[c].blocked = FALSE], c, TRUE), c)

-----------------------------------------------------------------------------
(* Process_Session_Packet: one operator per request. *)

(* BIND of a port that is zero, of a listening or a reliable session, or of  *)
(* a port in use closes the session.                                         *)
BindRequest(d, c, p) ==
  LET s == d.ses[c]
      n == IF c \in UdpConnect THEN 1 ELSE 0
  IN  IF p = 0 THEN Session_Close(d, c, "PORT_IN_USE")
      ELSE IF s.type # "UDP" THEN Session_Close(d, c, "SES_DISCONNECT")
      ELSE IF d.Sessions_Port[p] # Nobody THEN Session_Close(d, c, "PORT_IN_USE")
      ELSE [d EXCEPT !.Sessions_Port = [@ EXCEPT ![s.port] = Nobody, ![p] = c],
                     !.ses[c] = [s EXCEPT !.port = p, !.answers = s.answers + n]]

(* CONNECT to a multicast address is an error that is only logged. *)
ConnectRequest(d, c, multicast) ==
  IF d.ses[c].type # "UDP" THEN Session_Close(d, c, "SES_DISCONNECT")
  ELSE IF multicast THEN d
  ELSE [d EXCEPT !.ses[c].type = "RELIABLE"]

ListenRequest(d, c) ==
  IF d.ses[c].type # "UDP" THEN Session_Close(d, c, "SES_DISCONNECT")
  ELSE [d EXCEPT !.ses[c].type = "LISTEN"]

(* ACCEPT looks only at r_data: a listening session may accept. *)
AcceptRequest(d, c) ==
  IF d.ses[c].type = "RELIABLE" THEN Session_Close(d, c, "SES_DISCONNECT")
  ELSE [d EXCEPT !.ses[c].type = "RELIABLE"]

(* LINKS: combinations of routing and links that need a configuration file,  *)
(* or intrusion-tolerant links, are refused; else Ses_Send_ID answers.       *)
LinksRequest(d, c, supported) ==
  IF ~supported THEN Session_Close(d, c, "SES_DISCONNECT")
  ELSE [d EXCEPT !.ses[c].answers = @ + 1]

JoinRequest(d, c, g) ==
  IF d.ses[c].type # "UDP" THEN Session_Close(d, c, "SES_DISCONNECT")
  ELSE Join_Group(d, c, g)

LeaveRequest(d, c, g) ==
  IF d.ses[c].type # "UDP" THEN Session_Close(d, c, "SES_DISCONNECT")
  ELSE Leave_Group(d, c, g)

(* FLOOD_RECV: a file that cannot be opened closes the session. *)
FloodRecvRequest(d, c, opens) ==
  IF opens THEN d ELSE Session_Close(d, c, "SES_BUFF_FULL")

(* A message: of a reliable session it goes to its protocol; of a datagram   *)
(* one into ses->scat, whatever is in it, and out.  A flow that is full      *)
(* drops the message of a session without backpressure, which leaves the     *)
(* session as a message that is sent does.                                   *)
DataRequest(d, c, room) ==
  IF d.ses[c].type = "RELIABLE" THEN IF room THEN d ELSE Rel_Block(d, c)
  ELSE Session_Send_Message([d EXCEPT !.ses[c].scat = TRUE], c, room)

(* One of n packets that the daemon sends for FLOOD_SEND, as data of the     *)
(* session; after the last one follow ten end marks and the session is       *)
(* closed.  room says whether all of them found room.                        *)
FloodPacket(d, c, n, room) ==
  LET e == DataRequest(d, c, room)
  IN  IF n = 1 THEN Session_Close(e, c, "SES_BUFF_FULL") ELSE [e EXCEPT !.ses[c].flood = n - 1]

(* FLOOD_SEND: the first packet is sent at once, and may be the last. *)
FloodRequest(d, c, n, room) == FloodPacket(d, c, n, room)

(* The control connection that the client was told of moves to the session. *)
CtrlRequest(d, c) ==
  IF c \notin d.ctrl_sk_requests THEN Session_Close(d, c, "SOCK_ERR")
  ELSE [d EXCEPT !.ctrl_sk_requests = @ \ {c}, !.ses[c].state = "LEN"]

(* LOOP, DELIVERY_FLAG, PRIORITY, EXPIRATION, DIS_PATHS, SETLINK, SETDISSEM  *)
(* set parameters that no control decision here reads.                       *)
OptionRequest(d, c) == d

Process_Session_Packet(d, c, r, room) ==
  CASE r.type = "CTRL_SK"    -> CtrlRequest(d, c)
    [] r.type = "LINKS"      -> LinksRequest(d, c, r.arg)
    [] r.type = "BIND"       -> BindRequest(d, c, r.arg)
    [] r.type = "CONNECT"    -> ConnectRequest(d, c, r.arg)
    [] r.type = "LISTEN"     -> ListenRequest(d, c)
    [] r.type = "ACCEPT"     -> AcceptRequest(d, c)
    [] r.type = "JOIN"       -> JoinRequest(d, c, r.arg)
    [] r.type = "LEAVE"      -> LeaveRequest(d, c, r.arg)
    [] r.type = "FLOOD_SEND" -> FloodRequest(d, c, r.arg, room)
    [] r.type = "FLOOD_RECV" -> FloodRecvRequest(d, c, room)
    [] r.type = "OPTION"     -> OptionRequest(d, c)
    [] r.type = "DATA"       -> DataRequest(d, c, room)
    [] r.type = "EOF"        -> SocketError(d, c)

-----------------------------------------------------------------------------
(* The daemon's steps. *)

(* Session_Read: the next request; what a session leaves unread when it is   *)
(* closed is lost.                                                           *)
Session_Read(c) ==
  /\ daemon.ses[c].live /\ daemon.ses[c].client = "ON" /\ daemon.ses[c].read
  /\ inbox[c] # << >> /\ ~daemon.exited
  /\ \E room \in BOOLEAN :
        daemon' = Process_Session_Packet(daemon, c, Head(inbox[c]), room)
  /\ inbox' = [inbox EXCEPT ![c] = IF daemon'.ses[c].client = "ON" THEN Tail(@) ELSE << >>]
  /\ UNCHANGED libvars

(* Try_Close_Session continues a close that left groups behind. *)
Try_Close_Session(c) ==
  /\ daemon.ses[c].live /\ daemon.ses[c].closing /\ ~daemon.exited
  /\ daemon' = Session_Close(daemon, c, daemon.ses[c].close_reason)
  /\ UNCHANGED <<libvars, inbox>>

(* Session_Flooder_Send: one more packet, whether or not the session is      *)
(* read, blocked or half closed.                                             *)
Session_Flooder_Send(c) ==
  /\ daemon.ses[c].live /\ daemon.ses[c].flood > 0 /\ ~daemon.exited
  /\ \E room \in BOOLEAN : daemon' = FloodPacket(daemon, c, daemon.ses[c].flood, room)
  /\ inbox' = [inbox EXCEPT ![c] = IF daemon'.ses[c].client = "ON" THEN @ ELSE << >>]
  /\ UNCHANGED libvars

(* Links and flows fill and drain (reliable_datagram.c, intrusion_tol_udp.c, *)
(* reliable_session.c, reliable_flood.c call these).                         *)
LinkBlocks ==
  /\ ~daemon.link_blocked /\ ~daemon.exited
  /\ daemon' = Block_All_Sessions(daemon)
  /\ UNCHANGED <<libvars, inbox>>
LinkResumes ==
  /\ daemon.link_blocked /\ ~daemon.exited
  /\ daemon' = Resume_All_Sessions(daemon)
  /\ UNCHANGED <<libvars, inbox>>
RelSessionDrains(c) ==
  /\ daemon.ses[c].live /\ daemon.ses[c].rel_blocked /\ ~daemon.exited
  /\ daemon' = Rel_Resume(daemon, c)
  /\ UNCHANGED <<libvars, inbox>>
FlowDrains(c) ==
  /\ daemon.ses[c].live /\ daemon.ses[c].blocked /\ ~daemon.exited
  /\ daemon' = Reliable_Flood_Resume_Sessions(daemon, c)
  /\ UNCHANGED <<libvars, inbox>>

(* The peer of a reliable session, or its own hellos, disconnect or end it.  *)
ReliableSessionEnds(c) ==
  /\ daemon.ses[c].live /\ daemon.ses[c].type = "RELIABLE" /\ ~daemon.exited
  /\ \/ daemon' = Session_Close(daemon, c, "SES_DISCONNECT")
     \/ daemon.ses[c].client = "ON" /\ daemon' = Disconnect_Reliable_Session(daemon, c)
  /\ inbox' = [inbox EXCEPT ![c] = << >>]
  /\ UNCHANGED libvars

-----------------------------------------------------------------------------
(* The library's calls. *)

InUse == {lib[c].fd : c \in {x \in Client : lib[x].pc \in {"ctrl", "id", "open", "bind"}}}
NewFd == Lowest({n \in 0 .. Cardinality(Client) : n \notin InUse})

(* The first slot, below Max_Client, of a descriptor. *)
SlotsOf(fd) == {i \in Slots : i < Max_Client /\ all_clients[i].udp_sk = fd}
spines_get_client(fd) == IF SlotsOf(fd) = {} THEN -1 ELSE Lowest(SlotsOf(fd))

Send(c, r) == inbox' = [inbox EXCEPT ![c] = Append(@, r)]
Connected(c) == daemon.ses[c].live /\ daemon.ses[c].client = "ON"

(* The slot found leads to the session's connection.  A slot that a failed   *)
(* spines_socket left behind names the descriptor itself, which is not the   *)
(* connection of a socket that uses UDP_CONNECT.                             *)
Reaches(c) == c \notin UdpConnect \/ spines_get_client(lib[c].fd) = lib[c].slot

(* A call on an open socket: it needs a slot, and room on the connection.    *)
Calls(c) ==
  /\ lib[c].pc = "open" /\ spines_get_client(lib[c].fd) # -1 /\ Reaches(c)
  /\ Connected(c) /\ Len(inbox[c]) < MaxRequests /\ calls < MaxCalls /\ ~daemon.exited

(* spines_socket connects to the control port first and is told the          *)
(* daemon's descriptor of that connection.                                   *)
spines_socket_ctrl(c) ==
  /\ lib[c].pc = "none" /\ ~daemon.exited
  /\ daemon' = Session_Accept_Ctrl(daemon, c)
  /\ lib' = [lib EXCEPT ![c].pc = "ctrl", ![c].fd = NewFd]
  /\ UNCHANGED <<all_clients, Max_Client, inbox, calls>>

(* It then connects to the data port, sends its endianess, the control       *)
(* descriptor and the links it wants, and takes a slot of all_clients.  The  *)
(* daemon's port numbers and the table are the two things it may run out of. *)
spines_socket_data(c) ==
  LET free == {i \in Slots : all_clients[i].udp_sk = -1}
      slot == Lowest(free)
  IN  /\ lib[c].pc = "ctrl" /\ ~daemon.exited
      /\ daemon' = Session_Accept(daemon, c)
      /\ UNCHANGED calls
      /\ IF free # {}
         THEN /\ \E supported \in BOOLEAN :
                    inbox' = [inbox EXCEPT ![c] = <<Request("CTRL_SK", 0),
                                                    Request("LINKS", supported)>>]
              /\ lib' = [lib EXCEPT ![c].pc = "id", ![c].slot = slot]
              /\ all_clients' = [all_clients EXCEPT ![slot] = [udp_sk |-> lib[c].fd, vport |-> 0]]
              /\ Max_Client' = IF slot = Max_Client THEN Max_Client + 1 ELSE Max_Client
         ELSE /\ inbox' = [inbox EXCEPT ![c] = <<Request("CTRL_SK", 0), Request("EOF", 0)>>]
              /\ lib' = [lib EXCEPT ![c].pc = "failed"]
              /\ UNCHANGED <<all_clients, Max_Client>>

(* A client that cannot connect to the data port returns -1, its control     *)
(* connection stays with the daemon.                                         *)
spines_socket_fails(c) ==
  /\ lib[c].pc = "ctrl"
  /\ lib' = [lib EXCEPT ![c].pc = "failed"]
  /\ UNCHANGED <<all_clients, Max_Client, inbox, daemon, calls>>

(* The session's id, port and address arrive, or the connection ends: then   *)
(* the socket is closed and its slot stays as it is.                         *)
spines_socket_id(c) ==
  /\ lib[c].pc = "id" /\ ~daemon.exited
  /\ \/ /\ daemon.ses[c].answers > 0
        /\ daemon' = [daemon EXCEPT !.ses[c].answers = @ - 1]
        /\ all_clients' = [all_clients EXCEPT ![lib[c].slot].vport = daemon.ses[c].port]
        /\ lib' = [lib EXCEPT ![c].pc = "open", ![c].told = daemon.ses[c].port]
     \/ /\ daemon.ses[c].answers = 0 /\ daemon.ses[c].closing
        /\ lib' = [lib EXCEPT ![c].pc = "failed"]
        /\ UNCHANGED <<all_clients, daemon>>
  /\ UNCHANGED <<Max_Client, inbox, calls>>

(* spines_bind: port 0 is answered at once; else the request is sent and,    *)
(* unless the socket uses UDP_CONNECT, success is returned at once.          *)
spines_bind(c) ==
  \E p \in BindPorts :
     /\ Calls(c)
     /\ Send(c, Request("BIND", p))
     /\ IF c \in UdpConnect
        THEN /\ lib' = [lib EXCEPT ![c].pc = "bind", ![c].told = p]
             /\ UNCHANGED all_clients
        ELSE /\ lib' = [lib EXCEPT ![c].told = p]
             /\ all_clients' = [all_clients EXCEPT ![spines_get_client(lib[c].fd)].vport = p]
     /\ calls' = calls + 1
     /\ UNCHANGED <<Max_Client, daemon>>

(* The rest of spines_bind with UDP_CONNECT. *)
spines_bind_answer(c) ==
  /\ lib[c].pc = "bind" /\ ~daemon.exited
  /\ \/ /\ daemon.ses[c].answers > 0
        /\ daemon' = [daemon EXCEPT !.ses[c].answers = @ - 1]
        /\ lib' = [lib EXCEPT ![c].pc = "open"]
        /\ all_clients' = [all_clients EXCEPT ![lib[c].slot].vport = lib[c].told]
     \/ /\ daemon.ses[c].answers = 0 /\ ~Connected(c)
        /\ lib' = [lib EXCEPT ![c].pc = "open", ![c].told = all_clients[lib[c].slot].vport]
        /\ UNCHANGED <<all_clients, daemon>>
  /\ UNCHANGED <<Max_Client, inbox, calls>>

(* Calls that send one request and return.  The two flood calls send it on   *)
(* the descriptor itself, without UDP_CONNECT the session's connection.      *)
spines_listen(c)  == c \in Stream /\ Calls(c) /\ Send(c, Request("LISTEN", 0))
spines_connect(c) ==
  c \in Stream /\ Calls(c) /\ \E multicast \in BOOLEAN : Send(c, Request("CONNECT", multicast))
spines_accept(c)  == c \in Stream /\ Calls(c) /\ Send(c, Request("ACCEPT", 0))
spines_sendto(c)  == Calls(c) /\ Send(c, Request("DATA", 0))
spines_flood_send(c) ==
  c \notin UdpConnect /\ Calls(c) /\ \E n \in 1 .. MaxPackets : Send(c, Request("FLOOD_SEND", n))
spines_flood_recv(c) == c \notin UdpConnect /\ Calls(c) /\ Send(c, Request("FLOOD_RECV", 0))
spines_setsockopt(c) ==
  /\ c \notin Stream /\ Calls(c)
  /\ \/ \E g \in Group : \/ Send(c, Request("JOIN", g))
                         \/ Send(c, Request("LEAVE", g))
     \/ Send(c, Request("OPTION", 0))

SendingCall(c) ==
  /\ \/ spines_listen(c) \/ spines_connect(c) \/ spines_accept(c) \/ spines_sendto(c)
     \/ spines_flood_send(c) \/ spines_flood_recv(c) \/ spines_setsockopt(c)
  /\ calls' = calls + 1
  /\ UNCHANGED <<lib, all_clients, Max_Client, daemon>>

(* Mutant: every close shortens the table. *)
CloseShrinkingTable(c) ==
  LET client == spines_get_client(lib[c].fd)
  IN  /\ lib[c].pc = "open" /\ client # -1
      /\ all_clients' = [all_clients EXCEPT ![client].udp_sk = -1]
      /\ Max_Client' = Max_Client - 1
      /\ lib' = [lib EXCEPT ![c].pc = "closed"]
      /\ IF Connected(c) /\ Reaches(c) THEN Send(c, Request("EOF", 0)) ELSE UNCHANGED inbox
      /\ UNCHANGED <<daemon, calls>>

(* spines_close frees the slot found, shortens the table if it was the last  *)
(* one, and closes the connection that the slot names.                       *)
spines_close(c) ==
  LET client == spines_get_client(lib[c].fd)
  IN  /\ lib[c].pc = "open" /\ client # -1
      /\ all_clients' = [all_clients EXCEPT ![client].udp_sk = -1]
      /\ Max_Client' = IF client = Max_Client - 1 THEN Max_Client - 1 ELSE Max_Client
      /\ lib' = [lib EXCEPT ![c].pc = "closed"]
      /\ IF Connected(c) /\ Reaches(c) THEN Send(c, Request("EOF", 0)) ELSE UNCHANGED inbox
      /\ UNCHANGED <<daemon, calls>>

Next ==
  \/ LinkBlocks
  \/ LinkResumes
  \/ \E c \in Client :
        \/ Session_Read(c) \/ Try_Close_Session(c) \/ Session_Flooder_Send(c)
        \/ RelSessionDrains(c) \/ FlowDrains(c) \/ ReliableSessionEnds(c)
        \/ spines_socket_ctrl(c) \/ spines_socket_data(c) \/ spines_socket_fails(c)
        \/ spines_socket_id(c) \/ spines_bind(c) \/ spines_bind_answer(c)
        \/ SendingCall(c) \/ spines_close(c)

Spec == Init /\ [][Next]_vars

-----------------------------------------------------------------------------
(* Properties. *)

(* Types of the variables: session records of session.h, slots of all_clients. *)
TypeOK ==
  /\ \A c \in Client :
        /\ lib[c].pc \in {"none", "ctrl", "id", "open", "bind", "failed", "closed"}
        /\ lib[c].slot \in Slots \cup {-1}
        /\ daemon.ses[c].type \in {"UDP", "LISTEN", "RELIABLE"}
        /\ daemon.ses[c].client \in {"ON", "OFF", "ORPHAN"}
        /\ daemon.ses[c].groups \subseteq Group
        /\ daemon.ses[c].port \in Port \cup {0}
        /\ daemon.ses[c].answers \in 0 .. MaxRequests + 1
  /\ Max_Client \in 0 .. MAX_APP_CLIENTS
  /\ \A p \in Port : daemon.Sessions_Port[p] \in Client \cup {Nobody}

(* Deliver_UDP_Data finds a session by its port: every session, from         *)
(* Session_Accept to the end of Session_Close, is the one that the table     *)
(* holds for its port, however ports were assigned, bound and freed, and no  *)
(* port number is out of the table.                                          *)
PortsFindSessions ==
  /\ TypeOK
  /\ \A c \in Live(daemon) : daemon.ses[c].port # 0 /\ daemon.Sessions_Port[daemon.ses[c].port] = c

(* Multicast delivery walks joined_sessions of the group, Session_Close the  *)
(* joined_groups of the session: the two agree, and no group holds a session *)
(* that was disposed of.                                                     *)
GroupsAgree ==
  \A g \in Group : daemon.joined[g] = {c \in Live(daemon) : g \in daemon.ses[c].groups}

(* A session with a client that is not read has a reason that will end: its  *)
(* own backlog, its flow, or a blocked link.  Whoever blocks while somebody  *)
(* else has blocked, nobody's resume is forgotten.                           *)
NobodyLeftBlocked ==
  \A c \in Live(daemon) :
     daemon.ses[c].client = "ON" /\ ~daemon.ses[c].read
        => daemon.ses[c].rel_blocked \/ daemon.ses[c].blocked \/ daemon.link_blocked

(* A call on a socket finds it by its descriptor.  From the moment it takes  *)
(* its slot every socket is found, never at the slot of another one, however *)
(* sockets were opened, closed and failed and Max_Client was lowered; and it *)
(* is found at its own slot, with one exception: spines_socket that fails to *)
(* receive the session's id closes its descriptor and leaves it in the       *)
(* table, where the next socket with that descriptor is found instead.       *)
HasSlot(c) == lib[c].pc \in {"id", "open", "bind"}
LeftSlot(fd) == \E e \in Client : lib[e].pc = "failed" /\ lib[e].slot # -1 /\ lib[e].fd = fd
SlotsVisible ==
  \A c \in Client : HasSlot(c) =>
     LET client == spines_get_client(lib[c].fd)
     IN  /\ client # -1
         /\ \A e \in Client \ {c} : HasSlot(e) => client # lib[e].slot
         /\ client = lib[c].slot \/ LeftSlot(lib[c].fd)

=============================================================================
