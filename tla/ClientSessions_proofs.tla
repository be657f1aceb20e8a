----------------------- MODULE ClientSessions_proofs -----------------------
(***************************************************************************)
(* Proofs about ClientSessions, for any number of sockets, ports, groups   *)
(* and slots.                                                              *)
(*                                                                         *)
(* The daemon's functions take a record to the next one, so the argument   *)
(* is first about records: DaemonOK holds of the record that every handler *)
(* returns, and Handled says what a handler may do to its session and that *)
(* it leaves the others alone.  The steps of the system then combine this  *)
(* with the inbox (what waits there, and that a session without a client   *)
(* has nothing waiting) and with the library's table.                      *)
(***************************************************************************)
EXTENDS ClientSessions, FiniteSetTheorems, FunctionTheorems, WellFoundedInduction, TLAPS

-----------------------------------------------------------------------------
(* Least elements and sets of a given size. *)

LEMMA LeastExists ==
  ASSUME NEW T, T \subseteq Nat, T # {}
  PROVE  \E x \in T : \A y \in T : x <= y
<1> DEFINE R == {ss \in Nat \X Nat : ss[1] < ss[2]}
<1>1. IsWellFoundedOn(R, Nat)
  BY NatLessThanWellFounded, Zenon DEF OpToRel
<1> HIDE DEF R
<1>2. PICK x \in T : \A y \in T : ~ (<<y, x>> \in R)
  BY <1>1, WFMin
<1>3. ASSUME NEW y \in T PROVE x <= y
  <2>1. y < x => <<y, x>> \in R
    BY DEF R
  <2> QED
    BY <1>2, <2>1
<1> QED
  BY <1>3

(* Lowest returns the least element. *)
LEMMA LowestIsLeast ==
  ASSUME NEW T, T \subseteq Nat, T # {}
  PROVE  Lowest(T) \in T /\ \A y \in T : Lowest(T) <= y
  BY LeastExists, Zenon DEF Lowest

LEMMA SubsetOfSize ==
  ASSUME NEW S, IsFiniteSet(S), NEW n \in Nat, n <= Cardinality(S)
  PROVE  \E T \in SUBSET S : Cardinality(T) = n
<1>1. Cardinality(S) \in Nat /\ ExistsBijection(1 .. Cardinality(S), S)
  BY FS_CardinalityType
<1>2. PICK f \in Bijection(1 .. Cardinality(S), S) : TRUE
  BY <1>1 DEF ExistsBijection
<1>3. /\ f \in [1 .. Cardinality(S) -> S]
      /\ \A a, b \in 1 .. Cardinality(S) : f[a] = f[b] => a = b
  BY <1>2, Fun_BijectionProperties
<1> DEFINE T == {f[x] : x \in 1 .. n}
           g == [x \in 1 .. n |-> f[x]]
<1>4. \A x \in 1 .. n : x \in 1 .. Cardinality(S)
  BY <1>1
<1>5. T \in SUBSET S /\ g \in [1 .. n -> T]
  BY <1>3, <1>4
<1>6. \A a, b \in 1 .. n : g[a] = g[b] => a = b
  BY <1>3, <1>4
<1>7. \A t \in T : \E x \in 1 .. n : g[x] = t
  OBVIOUS
<1> HIDE DEF T, g
<1>8. g \in Bijection(1 .. n, T)
  BY <1>5, <1>6, <1>7, Fun_IsBij
<1>9. ExistsBijection(1 .. n, T)
  BY <1>8 DEF ExistsBijection
<1>10. IsFiniteSet(1 .. n) /\ Cardinality(1 .. n) = n
  BY FS_Interval
<1> QED
  BY <1>5, <1>9, <1>10, FS_Bijection

(* LeftAtOnce is everything, or more than LeaveLimit groups. *)
LEMMA LeftAtOnceFacts ==
  ASSUME NEW G, G \subseteq Group
  PROVE  /\ LeftAtOnce(G) \subseteq G
         /\ Cardinality(LeftAtOnce(G)) > LeaveLimit \/ LeftAtOnce(G) = G
<1>1. IsFiniteSet(G) /\ Cardinality(G) \in Nat /\ LeaveLimit \in Nat
  BY FS_Subset, FS_CardinalityType, CSAssumption
<1>2. CASE Cardinality(G) <= LeaveLimit
  BY <1>2 DEF LeftAtOnce
<1>3. CASE ~ (Cardinality(G) <= LeaveLimit)
  <2>1. \E T \in SUBSET G : Cardinality(T) = LeaveLimit + 1
    BY <1>1, <1>3, SubsetOfSize
  <2>2. LeftAtOnce(G) \in SUBSET G /\ Cardinality(LeftAtOnce(G)) = LeaveLimit + 1
    BY <1>3, <2>1 DEF LeftAtOnce
  <2> QED
    BY <1>1, <2>2
<1> QED
  BY <1>2, <1>3

-----------------------------------------------------------------------------
(* The invariant of the daemon's record. *)

Reasons == {"none", "PORT_IN_USE", "SES_DISCONNECT", "SES_BUFF_FULL", "SOCK_ERR"}

SessionType ==
  [live : BOOLEAN, closing : BOOLEAN, state : {"CTRL_SK", "LEN"},
   type : {"UDP", "LISTEN", "RELIABLE"}, client : {"ON", "OFF", "ORPHAN"},
   port : Port \cup {0}, groups : SUBSET Group, read : BOOLEAN, rel_blocked : BOOLEAN,
   blocked : BOOLEAN, scat : BOOLEAN, close_reason : Reasons, flood : Int, answers : Nat]

DaemonType ==
  [ses : [Client -> SessionType], Sessions_Port : [Port -> Client \cup {Nobody}],
   last_sess_port : FirstPort .. LastPort - 1, ctrl_sk_requests : SUBSET Client,
   joined : [Group -> SUBSET Client], link_blocked : BOOLEAN, exited : BOOLEAN]

(* A live session is found by its port. *)
PortsOK(d) ==
  \A c \in Client : d.ses[c].live => /\ d.ses[c].port # 0
                                     /\ d.Sessions_Port[d.ses[c].port] = c

(* A session is in the groups that list it, and in none when it is gone. *)
GroupsOK(d) ==
  \A c \in Client : /\ \A g \in Group : c \in d.joined[g] <=> g \in d.ses[c].groups
                    /\ ~d.ses[c].live => d.ses[c].groups = {}

(* A session that is not read has a reason, unless its client is gone. *)
ReadOK(s, link) ==
  s.live /\ s.client = "ON" /\ ~s.read => s.rel_blocked \/ s.blocked \/ link

(* A session that is being closed has no client. *)
ClosingOK(s) == s.closing => s.client # "ON"

DaemonOK(d) ==
  /\ d \in DaemonType
  /\ PortsOK(d)
  /\ GroupsOK(d)
  /\ \A c \in Client : ReadOK(d.ses[c], d.link_blocked) /\ ClosingOK(d.ses[c])

(* What a handler of session c makes of the record: n is the number of       *)
(* answers that it sends to the client.                                      *)
Handled(d, e, c, n) ==
  /\ DaemonOK(e)
  /\ \A x \in Client : x # c => e.ses[x] = d.ses[x]
  /\ e.ses[c].live \/ e.ses[c].client # "ON"
  /\ e.ses[c].answers = d.ses[c].answers + n

-----------------------------------------------------------------------------
(* Handlers that change the session's record only. *)

SetSession(d, c, s) == [d EXCEPT !.ses = [@ EXCEPT ![c] = s]]

LEMMA NoSessionTyped == NoSession \in SessionType
  BY DEF NoSession, SessionType, Reasons

LEMMA SetSessionFields ==
  ASSUME NEW d \in DaemonType, NEW c \in Client, NEW s \in SessionType
  PROVE  /\ SetSession(d, c, s) \in DaemonType
         /\ SetSession(d, c, s).ses[c] = s
         /\ \A x \in Client : x # c => SetSession(d, c, s).ses[x] = d.ses[x]
         /\ SetSession(d, c, s).Sessions_Port = d.Sessions_Port
         /\ SetSession(d, c, s).joined = d.joined
         /\ SetSession(d, c, s).link_blocked = d.link_blocked
         /\ SetSession(d, c, s).exited = d.exited
  BY DEF SetSession, DaemonType

LEMMA SetTwice ==
  ASSUME NEW d \in DaemonType, NEW c \in Client, NEW s, NEW t
  PROVE  SetSession(SetSession(d, c, s), c, t) = SetSession(d, c, t)
  BY DEF SetSession, DaemonType

(* Nothing is lost as long as the session keeps its port and its groups. *)
LEMMA SetSessionOK ==
  ASSUME NEW d, DaemonOK(d), NEW c \in Client, d.ses[c].live,
         NEW s \in SessionType, s.live, s.port = d.ses[c].port, s.groups = d.ses[c].groups,
         ReadOK(s, d.link_blocked), ClosingOK(s),
         NEW n \in Nat, s.answers = d.ses[c].answers + n
  PROVE  Handled(d, SetSession(d, c, s), c, n)
<1> DEFINE e == SetSession(d, c, s)
<1>1. /\ d \in DaemonType /\ e \in DaemonType
      /\ e.ses[c] = s
      /\ \A x \in Client : x # c => e.ses[x] = d.ses[x]
      /\ e.Sessions_Port = d.Sessions_Port
      /\ e.joined = d.joined
      /\ e.link_blocked = d.link_blocked
  BY SetSessionFields DEF DaemonOK
<1> HIDE DEF e
<1>2. PortsOK(e)
  BY <1>1 DEF PortsOK, DaemonOK
<1>3. GroupsOK(e)
  BY <1>1 DEF GroupsOK, DaemonOK
<1>4. \A x \in Client : ReadOK(e.ses[x], e.link_blocked) /\ ClosingOK(e.ses[x])
  BY <1>1 DEF DaemonOK
<1> QED
  BY <1>1, <1>2, <1>3, <1>4 DEF Handled, DaemonOK, e

LEMMA SessionTyped ==
  ASSUME NEW d, DaemonOK(d), NEW c \in Client
  PROVE  d \in DaemonType /\ d.ses[c] \in SessionType /\ d.link_blocked \in BOOLEAN
  BY DEF DaemonOK, DaemonType

LEMMA HandledNothing ==
  ASSUME NEW d, DaemonOK(d), NEW c \in Client, d.ses[c].live
  PROVE  Handled(d, d, c, 0)
  BY SessionTyped DEF Handled, SessionType

LEMMA BlockedOK ==
  ASSUME NEW d, DaemonOK(d), NEW c \in Client, d.ses[c].live
  PROVE  /\ Handled(d, Rel_Block(d, c), c, 0)
         /\ Handled(d, Rel_Resume(d, c), c, 0)
         /\ Handled(d, Disconnect_Reliable_Session(d, c), c, 0)
         /\ Handled(d, Reliable_Flood_Resume_Sessions(d, c), c, 0)
<1> DEFINE s == d.ses[c]
<1>1. d \in DaemonType /\ s \in SessionType /\ d.link_blocked \in BOOLEAN /\ ReadOK(s, d.link_blocked) /\ ClosingOK(s)
  BY SessionTyped DEF DaemonOK
<1>2. Handled(d, Rel_Block(d, c), c, 0)
  <2> DEFINE t == [s EXCEPT !.rel_blocked = TRUE, !.read = IF d.link_blocked THEN @ ELSE FALSE]
  <2>1. Rel_Block(d, c) = SetSession(d, c, t)
    BY <1>1, ZenonT(60) DEF Rel_Block, Block_Session, SetSession, DaemonType, SessionType
  <2>2. t \in SessionType
    BY <1>1 DEF SessionType
  <2>3. /\ t.live /\ t.port = s.port /\ t.groups = s.groups /\ t.answers = s.answers + 0
        /\ ReadOK(t, d.link_blocked) /\ ClosingOK(t)
    BY <1>1 DEF SessionType, ReadOK, ClosingOK
  <2> HIDE DEF t
  <2> QED
    BY <2>1, <2>2, <2>3, SetSessionOK
<1>3. Handled(d, Rel_Resume(d, c), c, 0)
  <2> DEFINE t == [s EXCEPT !.rel_blocked = FALSE, !.read = IF d.link_blocked THEN @ ELSE TRUE]
  <2>1. Rel_Resume(d, c) = SetSession(d, c, t)
    BY <1>1, ZenonT(60) DEF Rel_Resume, Resume_Session, SetSession, DaemonType, SessionType
  <2>2. t \in SessionType
    BY <1>1 DEF SessionType
  <2>3. /\ t.live /\ t.port = s.port /\ t.groups = s.groups /\ t.answers = s.answers + 0
        /\ ReadOK(t, d.link_blocked) /\ ClosingOK(t)
    BY <1>1 DEF SessionType, ReadOK, ClosingOK
  <2> HIDE DEF t
  <2> QED
    BY <2>1, <2>2, <2>3, SetSessionOK
<1>4. Handled(d, Disconnect_Reliable_Session(d, c), c, 0)
  <2> DEFINE t == [s EXCEPT !.client = "ORPHAN"]
  <2>1. Disconnect_Reliable_Session(d, c) = SetSession(d, c, t)
    BY DEF Disconnect_Reliable_Session, SetSession
  <2>2. t \in SessionType
    BY <1>1 DEF SessionType
  <2>3. /\ t.live /\ t.port = s.port /\ t.groups = s.groups /\ t.answers = s.answers + 0
        /\ ReadOK(t, d.link_blocked) /\ ClosingOK(t)
    BY <1>1 DEF SessionType, ReadOK, ClosingOK
  <2> HIDE DEF t
  <2> QED
    BY <2>1, <2>2, <2>3, SetSessionOK
<1>5. Handled(d, Reliable_Flood_Resume_Sessions(d, c), c, 0)
  <2> DEFINE t == [s EXCEPT !.blocked = FALSE, !.scat = FALSE, !.read = TRUE]
  <2>1. Reliable_Flood_Resume_Sessions(d, c) = SetSession(d, c, t)
    BY <1>1, ZenonT(60) DEF Reliable_Flood_Resume_Sessions, Session_Send_Message, Resume_Session, SetSession,
                DaemonType, SessionType
  <2>2. t \in SessionType
    BY <1>1 DEF SessionType
  <2>3. /\ t.live /\ t.port = s.port /\ t.groups = s.groups /\ t.answers = s.answers + 0
        /\ ReadOK(t, d.link_blocked) /\ ClosingOK(t)
    BY <1>1 DEF SessionType, ReadOK, ClosingOK
  <2> HIDE DEF t
  <2> QED
    BY <2>1, <2>2, <2>3, SetSessionOK
<1> QED
  BY <1>2, <1>3, <1>4, <1>5

-----------------------------------------------------------------------------
(* Closing a session. *)

(* Dispose, of a session that has left its groups. *)
LEMMA DisposeOK ==
  ASSUME NEW d, DaemonOK(d), NEW c \in Client, d.ses[c].live, d.ses[c].groups = {}
  PROVE  Handled(d, Dispose(d, c), c, 0) /\ Dispose(d, c).ses[c].client # "ON"
<1> DEFINE s == d.ses[c]
           t == [NoSession EXCEPT !.closing = TRUE, !.port = s.port, !.client = "OFF",
                                  !.close_reason = s.close_reason, !.answers = s.answers]
           P == IF s.close_reason # "PORT_IN_USE" /\ s.port # 0
                THEN [d.Sessions_Port EXCEPT ![s.port] = Nobody] ELSE d.Sessions_Port
           e == [d EXCEPT !.ses = [@ EXCEPT ![c] = t], !.Sessions_Port = P]
<1>1. d \in DaemonType /\ s \in SessionType
  BY SessionTyped
<1>2. t \in SessionType
  BY <1>1, NoSessionTyped DEF SessionType
<1>3. /\ ~t.live /\ t.client = "OFF" /\ t.groups = {} /\ t.answers = s.answers + 0
  BY <1>1 DEF SessionType, NoSession
<1>4. Dispose(d, c) = e
  BY DEF Dispose
<1>5. P \in [Port -> Client \cup {Nobody}]
  BY <1>1 DEF DaemonType
<1>6. \A x \in Client : x # c /\ d.ses[x].live => P[d.ses[x].port] = d.Sessions_Port[d.ses[x].port]
  <2> SUFFICES ASSUME NEW x \in Client, x # c, d.ses[x].live
               PROVE  P[d.ses[x].port] = d.Sessions_Port[d.ses[x].port]
    OBVIOUS
  <2>1. d.Sessions_Port[s.port] = c /\ d.Sessions_Port[d.ses[x].port] = x
    BY DEF DaemonOK, PortsOK
  <2>2. s.port # d.ses[x].port
    BY <2>1
  <2>3. d.Sessions_Port \in [Port -> Client \cup {Nobody}] /\ d.ses[x].port \in Port \cup {0} /\ d.ses[x].port # 0
    BY <1>1 DEF DaemonType, SessionType, DaemonOK, PortsOK
  <2> QED
    BY <2>2, <2>3
<1> HIDE DEF t, P
<1>7. /\ e \in DaemonType
      /\ e.ses[c] = t
      /\ \A x \in Client : x # c => e.ses[x] = d.ses[x]
      /\ e.Sessions_Port = P
      /\ e.joined = d.joined
      /\ e.link_blocked = d.link_blocked
  BY <1>1, <1>2, <1>5 DEF DaemonType
<1> HIDE DEF e
<1>8. PortsOK(e)
  BY <1>3, <1>6, <1>7 DEF PortsOK, DaemonOK
<1>9. GroupsOK(e)
  BY <1>3, <1>7 DEF GroupsOK, DaemonOK
<1>10. \A x \in Client : ReadOK(e.ses[x], e.link_blocked) /\ ClosingOK(e.ses[x])
  BY <1>3, <1>7 DEF DaemonOK, ReadOK, ClosingOK
<1> QED
  BY <1>3, <1>4, <1>7, <1>8, <1>9, <1>10 DEF Handled, DaemonOK

(* Session_Close: at once, or after some of the groups. *)
LEMMA CloseOK ==
  ASSUME NEW d, DaemonOK(d), NEW c \in Client, d.ses[c].live, NEW reason \in Reasons
  PROVE  /\ Handled(d, Session_Close(d, c, reason), c, 0)
         /\ Session_Close(d, c, reason).ses[c].client # "ON"
<1> DEFINE s == d.ses[c]
           gone == LeftAtOnce(s.groups)
           t == [s EXCEPT !.close_reason = reason, !.scat = FALSE,
                          !.client = IF @ = "ON" THEN "OFF" ELSE @,
                          !.read = FALSE, !.closing = TRUE, !.groups = @ \ gone]
           J == [g \in Group |-> IF g \in gone THEN d.joined[g] \ {c} ELSE d.joined[g]]
           e == [d EXCEPT !.ses = [@ EXCEPT ![c] = t], !.joined = J]
<1>1. d \in DaemonType /\ s \in SessionType /\ s.groups \subseteq Group
  BY SessionTyped DEF SessionType
<1>2. gone \subseteq s.groups /\ (Cardinality(gone) > LeaveLimit \/ gone = s.groups)
  BY <1>1, LeftAtOnceFacts
<1>3. Session_Close(d, c, reason) = IF Cardinality(gone) > LeaveLimit THEN e ELSE Dispose(e, c)
  BY DEF Session_Close
<1> HIDE DEF gone
<1>4. t \in SessionType
  BY <1>1, ZenonT(60) DEF SessionType
<1>5. /\ t.live /\ t.client # "ON" /\ t.groups = s.groups \ gone
      /\ t.port = s.port /\ t.answers = s.answers + 0
  BY <1>1 DEF SessionType
<1>6. J \in [Group -> SUBSET Client] /\ \A g \in Group : J[g] = IF g \in gone THEN d.joined[g] \ {c} ELSE d.joined[g]
  BY <1>1 DEF DaemonType
<1> HIDE DEF t, J
<1>7. /\ e \in DaemonType
      /\ e.ses[c] = t
      /\ \A x \in Client : x # c => e.ses[x] = d.ses[x]
      /\ e.Sessions_Port = d.Sessions_Port
      /\ e.joined = J
      /\ e.link_blocked = d.link_blocked
  BY <1>1, <1>4, <1>6 DEF DaemonType
<1> HIDE DEF e
<1>8. PortsOK(e)
  BY <1>5, <1>7 DEF PortsOK, DaemonOK
<1>9. GroupsOK(e)
  <2>1. \A x \in Client, g \in Group : x \in d.joined[g] <=> g \in d.ses[x].groups
    BY DEF GroupsOK, DaemonOK
  <2>2. \A g \in Group : c \in J[g] <=> g \in t.groups
    BY <1>5, <1>6, <2>1
  <2>3. \A x \in Client, g \in Group : x # c => (x \in J[g] <=> g \in d.ses[x].groups)
    BY <1>6, <2>1
  <2> QED
    BY <1>5, <1>7, <2>2, <2>3 DEF GroupsOK, DaemonOK
<1>10. \A x \in Client : ReadOK(e.ses[x], e.link_blocked) /\ ClosingOK(e.ses[x])
  BY <1>5, <1>7 DEF DaemonOK, ReadOK, ClosingOK
<1>11. Handled(d, e, c, 0) /\ e.ses[c].client # "ON"
  BY <1>5, <1>7, <1>8, <1>9, <1>10 DEF Handled, DaemonOK
<1>12. CASE Cardinality(gone) > LeaveLimit
  BY <1>3, <1>11, <1>12
<1>13. CASE ~ (Cardinality(gone) > LeaveLimit)
  <2>1. e.ses[c].groups = {} /\ e.ses[c].live
    BY <1>2, <1>5, <1>7, <1>13
  <2>2. Handled(e, Dispose(e, c), c, 0) /\ Dispose(e, c).ses[c].client # "ON"
    BY <1>11, <2>1, DisposeOK DEF Handled
  <2>3. Handled(d, Dispose(e, c), c, 0)
    BY <1>1, <1>11, <2>2 DEF Handled, SessionType
  <2> QED
    BY <1>3, <1>13, <2>2, <2>3
<1> QED
  BY <1>12, <1>13

-----------------------------------------------------------------------------
(* Process_Session_Packet. *)

RequestTypes ==
  {"CTRL_SK", "LINKS", "BIND", "CONNECT", "LISTEN", "ACCEPT", "JOIN", "LEAVE", "FLOOD_SEND",
   "FLOOD_RECV", "OPTION", "DATA", "EOF"}

RequestOK(r) ==
  /\ r.type \in RequestTypes
  /\ r.type = "BIND" => r.arg \in BindPorts
  /\ r.type \in {"JOIN", "LEAVE"} => r.arg \in Group
  /\ r.type = "FLOOD_SEND" => r.arg \in Int
  /\ r.type = "CONNECT" => r.arg \in BOOLEAN

(* The requests that the client waits for an answer to. *)
Awaited(c, r) == r.type = "LINKS" \/ (r.type = "BIND" /\ c \in UdpConnect)

(* Connect, listen and accept set the type of the session. *)
LEMMA TypeSetOK ==
  ASSUME NEW d, DaemonOK(d), NEW c \in Client, d.ses[c].live,
         NEW type \in {"UDP", "LISTEN", "RELIABLE"}
  PROVE  Handled(d, [d EXCEPT !.ses[c].type = type], c, 0)
<1> DEFINE s == d.ses[c]
           t == [s EXCEPT !.type = type]
<1>1. d \in DaemonType /\ s \in SessionType /\ ReadOK(s, d.link_blocked) /\ ClosingOK(s)
  BY SessionTyped DEF DaemonOK
<1>2. [d EXCEPT !.ses[c].type = type] = SetSession(d, c, t)
  BY DEF SetSession
<1>3. t \in SessionType
  BY <1>1 DEF SessionType
<1>4. /\ t.live /\ t.port = s.port /\ t.groups = s.groups /\ t.answers = s.answers + 0
      /\ ReadOK(t, d.link_blocked) /\ ClosingOK(t)
  BY <1>1 DEF SessionType, ReadOK, ClosingOK
<1> HIDE DEF t
<1> QED
  BY <1>2, <1>3, <1>4, SetSessionOK

LEMMA StreamRequestsOK ==
  ASSUME NEW d, DaemonOK(d), NEW c \in Client, d.ses[c].live
  PROVE  /\ \A multicast \in BOOLEAN : Handled(d, ConnectRequest(d, c, multicast), c, 0)
         /\ Handled(d, ListenRequest(d, c), c, 0)
         /\ Handled(d, AcceptRequest(d, c), c, 0)
         /\ Handled(d, SocketError(d, c), c, 0)
  BY CloseOK, TypeSetOK, BlockedOK, HandledNothing
  DEF ConnectRequest, ListenRequest, AcceptRequest, SocketError, Reasons

LEMMA LinksRequestOK ==
  ASSUME NEW d, DaemonOK(d), NEW c \in Client, d.ses[c].live, NEW supported
  PROVE  Handled(d, LinksRequest(d, c, supported), c, 0)
           \/ Handled(d, LinksRequest(d, c, supported), c, 1)
<1> DEFINE s == d.ses[c]
           t == [s EXCEPT !.answers = s.answers + 1]
<1>1. d \in DaemonType /\ s \in SessionType /\ ReadOK(s, d.link_blocked) /\ ClosingOK(s)
  BY SessionTyped DEF DaemonOK
<1>2. CASE ~supported
  BY <1>2, CloseOK DEF LinksRequest, Reasons
<1>3. CASE supported
  <2>1. LinksRequest(d, c, supported) = SetSession(d, c, t)
    BY <1>3 DEF LinksRequest, SetSession
  <2>2. t \in SessionType
    BY <1>1 DEF SessionType
  <2>3. /\ t.live /\ t.port = s.port /\ t.groups = s.groups /\ t.answers = s.answers + 1
        /\ ReadOK(t, d.link_blocked) /\ ClosingOK(t)
    BY <1>1 DEF SessionType, ReadOK, ClosingOK
  <2> HIDE DEF t
  <2> QED
    BY <2>1, <2>2, <2>3, SetSessionOK
<1> QED
  BY <1>2, <1>3

(* The flooder, and the control connection of a session. *)
LEMMA FloodSetOK ==
  ASSUME NEW d, DaemonOK(d), NEW c \in Client, d.ses[c].live, NEW n \in Int
  PROVE  Handled(d, [d EXCEPT !.ses[c].flood = n], c, 0)
<1> DEFINE s == d.ses[c]
           t == [s EXCEPT !.flood = n]
<1>1. d \in DaemonType /\ s \in SessionType /\ ReadOK(s, d.link_blocked) /\ ClosingOK(s)
  BY SessionTyped DEF DaemonOK
<1>2. [d EXCEPT !.ses[c].flood = n] = SetSession(d, c, t)
  BY DEF SetSession
<1>3. t \in SessionType
  BY <1>1 DEF SessionType
<1>4. /\ t.live /\ t.port = s.port /\ t.groups = s.groups /\ t.answers = s.answers + 0
      /\ ReadOK(t, d.link_blocked) /\ ClosingOK(t)
  BY <1>1 DEF SessionType, ReadOK, ClosingOK
<1> HIDE DEF t
<1> QED
  BY <1>2, <1>3, <1>4, SetSessionOK

LEMMA CtrlRequestOK ==
  ASSUME NEW d, DaemonOK(d), NEW c \in Client, d.ses[c].live
  PROVE  Handled(d, CtrlRequest(d, c), c, 0)
<1> DEFINE s == d.ses[c]
           t == [s EXCEPT !.state = "LEN"]
           f == [d EXCEPT !.ctrl_sk_requests = @ \ {c}]
<1>1. d \in DaemonType /\ s \in SessionType /\ ReadOK(s, d.link_blocked) /\ ClosingOK(s)
  BY SessionTyped DEF DaemonOK
<1>2. CASE c \notin d.ctrl_sk_requests
  BY <1>2, CloseOK DEF CtrlRequest, Reasons
<1>3. CASE c \in d.ctrl_sk_requests
  <2>1. CtrlRequest(d, c) = SetSession(f, c, t)
    BY <1>1, <1>3 DEF CtrlRequest, SetSession, DaemonType
  <2>2. /\ f \in DaemonType /\ f.ses = d.ses /\ f.link_blocked = d.link_blocked
        /\ f.Sessions_Port = d.Sessions_Port /\ f.joined = d.joined
    BY <1>1 DEF DaemonType
  <2> HIDE DEF f
  <2>3. DaemonOK(f)
    BY <2>2 DEF DaemonOK, PortsOK, GroupsOK
  <2>4. t \in SessionType
    BY <1>1 DEF SessionType
  <2>5. /\ t.live /\ t.port = s.port /\ t.groups = s.groups /\ t.answers = s.answers + 0
        /\ ReadOK(t, d.link_blocked) /\ ClosingOK(t)
    BY <1>1 DEF SessionType, ReadOK, ClosingOK
  <2> HIDE DEF t
  <2>6. Handled(f, SetSession(f, c, t), c, 0)
    BY <2>2, <2>3, <2>4, <2>5, SetSessionOK
  <2> QED
    BY <2>1, <2>2, <2>6 DEF Handled
<1> QED
  BY <1>2, <1>3

(* A message of a session that is read. *)
LEMMA DataRequestOK ==
  ASSUME NEW d, DaemonOK(d), NEW c \in Client, d.ses[c].live, NEW room \in BOOLEAN
  PROVE  Handled(d, DataRequest(d, c, room), c, 0) /\ DataRequest(d, c, room).ses[c].live
<1> DEFINE s == d.ses[c]
           t == IF room /\ ~s.blocked THEN [s EXCEPT !.scat = FALSE]
                ELSE IF s.blocked THEN [s EXCEPT !.scat = TRUE]
                ELSE [s EXCEPT !.scat = TRUE, !.blocked = TRUE, !.read = FALSE]
<1>1. d \in DaemonType /\ s \in SessionType /\ ReadOK(s, d.link_blocked) /\ ClosingOK(s)
  BY SessionTyped DEF DaemonOK
<1>2. CASE s.type = "RELIABLE"
  <2>1. Rel_Block(d, c).ses[c].live = s.live
    BY <1>1, ZenonT(60) DEF Rel_Block, Block_Session, DaemonType, SessionType
  <2> QED
    BY <1>2, <2>1, BlockedOK, HandledNothing DEF DataRequest
<1>3. CASE s.type # "RELIABLE"
  <2>1. DataRequest(d, c, room) = SetSession(d, c, t)
    <3>1. [d EXCEPT !.ses[c].scat = TRUE].ses[c].blocked = s.blocked
      BY <1>1 DEF DaemonType, SessionType
    <3>2. CASE room /\ ~s.blocked
      <4> DEFINE s1 == [s EXCEPT !.scat = TRUE]
                 f  == SetSession(d, c, s1)
      <4>1. s1 \in SessionType /\ [s1 EXCEPT !.scat = FALSE] = t
        BY <1>1, <3>2 DEF SessionType
      <4>2. DataRequest(d, c, room) = [f EXCEPT !.ses[c].scat = FALSE]
        BY <1>3, <3>1, <3>2 DEF DataRequest, Session_Send_Message, SetSession
      <4> HIDE DEF s1
      <4>3. f.ses[c] = s1
        BY <1>1, <4>1, SetSessionFields
      <4>4. DataRequest(d, c, room) = SetSession(f, c, [s1 EXCEPT !.scat = FALSE])
        <5> HIDE DEF f
        <5> QED
          BY <4>2, <4>3 DEF SetSession
      <4> QED
        BY <1>1, <4>1, <4>4, SetTwice
    <3>3. CASE s.blocked
      BY <1>1, <1>3, <3>1, <3>3 DEF DataRequest, Session_Send_Message, SetSession
    <3>4. CASE ~room /\ ~s.blocked
      BY <1>1, <1>3, <3>1, <3>4, ZenonT(60) DEF DataRequest, Session_Send_Message, Block_Session, SetSession,
                                   DaemonType, SessionType
    <3> QED
      BY <3>2, <3>3, <3>4
  <2>2. t \in SessionType
    BY <1>1 DEF SessionType
  <2>3. /\ t.live /\ t.port = s.port /\ t.groups = s.groups /\ t.answers = s.answers + 0
        /\ ReadOK(t, d.link_blocked) /\ ClosingOK(t)
    BY <1>1 DEF SessionType, ReadOK, ClosingOK
  <2> HIDE DEF t
  <2>4. SetSession(d, c, t).ses[c] = t
    BY <1>1, <2>2, SetSessionFields
  <2> QED
    BY <2>1, <2>2, <2>3, <2>4, SetSessionOK
<1> QED
  BY <1>2, <1>3

(* A packet of the flooder: a message, and perhaps a close. *)
LEMMA FloodPacketOK ==
  ASSUME NEW d, DaemonOK(d), NEW c \in Client, d.ses[c].live, NEW n \in Int, NEW room \in BOOLEAN
  PROVE  Handled(d, FloodPacket(d, c, n, room), c, 0)
<1> DEFINE e == DataRequest(d, c, room)
           f == FloodPacket(d, c, n, room)
<1>1. Handled(d, e, c, 0) /\ e.ses[c].live
  BY DataRequestOK
<1>2. f = IF n = 1 THEN Session_Close(e, c, "SES_BUFF_FULL") ELSE [e EXCEPT !.ses[c].flood = n - 1]
  BY DEF FloodPacket
<1> HIDE DEF e, f
<1>3. DaemonOK(e) /\ n - 1 \in Int /\ "SES_BUFF_FULL" \in Reasons
  BY <1>1 DEF Handled, Reasons
<1>4. Handled(e, f, c, 0)
  <2>1. CASE n = 1
    BY <1>1, <1>2, <1>3, <2>1, CloseOK
  <2>2. CASE n # 1
    BY <1>1, <1>2, <1>3, <2>2, FloodSetOK
  <2> QED
    BY <2>1, <2>2
<1>5. e.ses[c].answers \in Nat /\ d.ses[c].answers \in Nat
  BY <1>3, SessionTyped DEF SessionType
<1> QED
  BY <1>1, <1>4, <1>5 DEF Handled, f


(* JOIN and LEAVE change the session's list and the group's. *)
LEMMA GroupRequestsOK ==
  ASSUME NEW d, DaemonOK(d), NEW c \in Client, d.ses[c].live, NEW g \in Group
  PROVE  /\ Handled(d, JoinRequest(d, c, g), c, 0)
         /\ Handled(d, LeaveRequest(d, c, g), c, 0)
<1> DEFINE s == d.ses[c]
<1>1. /\ d \in DaemonType /\ s \in SessionType /\ ReadOK(s, d.link_blocked) /\ ClosingOK(s)
      /\ s.groups \subseteq Group /\ d.joined \in [Group -> SUBSET Client]
  BY SessionTyped DEF DaemonOK, SessionType, DaemonType
<1>2. ASSUME NEW G \in SUBSET Group, NEW K \in SUBSET Client,
             c \in K <=> g \in G,
             \A h \in Group : h # g => (h \in G <=> h \in s.groups),
             \A x \in Client : x # c => (x \in K <=> x \in d.joined[g])
      PROVE  Handled(d, [d EXCEPT !.ses[c].groups = G, !.joined[g] = K], c, 0)
  <2> DEFINE t == [s EXCEPT !.groups = G]
             J == [d.joined EXCEPT ![g] = K]
             e == [d EXCEPT !.ses = [@ EXCEPT ![c] = t], !.joined = J]
  <2>1. [d EXCEPT !.ses[c].groups = G, !.joined[g] = K] = e
    BY <1>1 DEF DaemonType
  <2>2. t \in SessionType
    BY <1>1 DEF SessionType
  <2>3. /\ t.live /\ t.port = s.port /\ t.groups = G /\ t.answers = s.answers + 0
        /\ ReadOK(t, d.link_blocked) /\ ClosingOK(t)
    BY <1>1 DEF SessionType, ReadOK, ClosingOK
  <2>4. /\ J \in [Group -> SUBSET Client] /\ J[g] = K
        /\ \A h \in Group : h # g => J[h] = d.joined[h]
    BY <1>1
  <2> HIDE DEF t, J
  <2>5. /\ e \in DaemonType
        /\ e.ses[c] = t
        /\ \A x \in Client : x # c => e.ses[x] = d.ses[x]
        /\ e.Sessions_Port = d.Sessions_Port
        /\ e.joined = J
        /\ e.link_blocked = d.link_blocked
    BY <1>1, <2>2, <2>4 DEF DaemonType
  <2> HIDE DEF e
  <2>6. PortsOK(e)
    BY <2>3, <2>5 DEF PortsOK, DaemonOK
  <2>7. GroupsOK(e)
    <3>1. \A x \in Client, h \in Group : x \in d.joined[h] <=> h \in d.ses[x].groups
      BY DEF GroupsOK, DaemonOK
    <3>2. \A x \in Client, h \in Group : x \in J[h] <=> h \in e.ses[x].groups
      BY <1>2, <2>3, <2>4, <2>5, <3>1
    <3> QED
      BY <2>3, <2>5, <3>2 DEF GroupsOK, DaemonOK
  <2>8. \A x \in Client : ReadOK(e.ses[x], e.link_blocked) /\ ClosingOK(e.ses[x])
    BY <2>3, <2>5 DEF DaemonOK
  <2> QED
    BY <2>1, <2>3, <2>5, <2>6, <2>7, <2>8 DEF Handled, DaemonOK
<1>3. Handled(d, Join_Group(d, c, g), c, 0)
  <2>1. Join_Group(d, c, g) = [d EXCEPT !.ses[c].groups = s.groups \cup {g},
                                        !.joined[g] = d.joined[g] \cup {c}]
    BY <1>1 DEF Join_Group, DaemonType
  <2>2. /\ s.groups \cup {g} \in SUBSET Group /\ d.joined[g] \cup {c} \in SUBSET Client
        /\ c \in d.joined[g] \cup {c} <=> g \in s.groups \cup {g}
        /\ \A h \in Group : h # g => (h \in s.groups \cup {g} <=> h \in s.groups)
        /\ \A x \in Client : x # c => (x \in d.joined[g] \cup {c} <=> x \in d.joined[g])
    BY <1>1
  <2> QED
    BY <1>2, <2>1, <2>2
<1>4. Handled(d, Leave_Group(d, c, g), c, 0)
  <2>1. Leave_Group(d, c, g) = [d EXCEPT !.ses[c].groups = s.groups \ {g},
                                         !.joined[g] = d.joined[g] \ {c}]
    BY <1>1 DEF Leave_Group, DaemonType
  <2>2. /\ s.groups \ {g} \in SUBSET Group /\ d.joined[g] \ {c} \in SUBSET Client
        /\ c \in d.joined[g] \ {c} <=> g \in s.groups \ {g}
        /\ \A h \in Group : h # g => (h \in s.groups \ {g} <=> h \in s.groups)
        /\ \A x \in Client : x # c => (x \in d.joined[g] \ {c} <=> x \in d.joined[g])
    BY <1>1
  <2> QED
    BY <1>2, <2>1, <2>2
<1> QED
  BY <1>3, <1>4, CloseOK DEF JoinRequest, LeaveRequest, Reasons

(* BIND gives the session another port and frees the one it had. *)
LEMMA BindRequestOK ==
  ASSUME NEW d, DaemonOK(d), NEW c \in Client, d.ses[c].live, NEW p \in BindPorts
  PROVE  \/ Handled(d, BindRequest(d, c, p), c, 0)
         \/ c \in UdpConnect /\ Handled(d, BindRequest(d, c, p), c, 1)
<1> DEFINE s == d.ses[c]
           n == IF c \in UdpConnect THEN 1 ELSE 0
           a == s.answers + n
           t == [s EXCEPT !.port = p, !.answers = a]
           P == [d.Sessions_Port EXCEPT ![s.port] = Nobody, ![p] = c]
           e == [d EXCEPT !.Sessions_Port = P, !.ses = [@ EXCEPT ![c] = t]]
<1>1. /\ d \in DaemonType /\ s \in SessionType /\ ReadOK(s, d.link_blocked) /\ ClosingOK(s)
      /\ s.port \in Port /\ d.Sessions_Port \in [Port -> Client \cup {Nobody}] /\ p \in Port
  BY SessionTyped DEF DaemonOK, SessionType, DaemonType, PortsOK, Port
<1>2. CASE p = 0 \/ s.type # "UDP" \/ d.Sessions_Port[p] # Nobody
  BY <1>2, CloseOK DEF BindRequest, Reasons
<1>3. CASE p # 0 /\ s.type = "UDP" /\ d.Sessions_Port[p] = Nobody
  <2>1. BindRequest(d, c, p) = e
    BY <1>3 DEF BindRequest
  <2>2. n \in Nat /\ a \in Nat
    BY <1>1 DEF SessionType
  <2> HIDE DEF n, a
  <2>3. t \in SessionType
    BY <1>1, <2>2 DEF SessionType
  <2>4. /\ t.live /\ t.port = p /\ t.groups = s.groups /\ t.answers = s.answers + n
        /\ ReadOK(t, d.link_blocked) /\ ClosingOK(t)
    BY <1>1 DEF a, SessionType, ReadOK, ClosingOK
  <2>5. P \in [Port -> Client \cup {Nobody}] /\ P[p] = c
        /\ \A q \in Port : q # p /\ q # s.port => P[q] = d.Sessions_Port[q]
    BY <1>1
  <2> HIDE DEF t, P
  <2>6. /\ e \in DaemonType
        /\ e.ses[c] = t
        /\ \A x \in Client : x # c => e.ses[x] = d.ses[x]
        /\ e.Sessions_Port = P
        /\ e.joined = d.joined
        /\ e.link_blocked = d.link_blocked
    BY <1>1, <2>3, <2>5 DEF DaemonType
  <2> HIDE DEF e
  <2>7. PortsOK(e)
    <3>1. ASSUME NEW x \in Client, x # c, d.ses[x].live
          PROVE  d.ses[x].port # 0 /\ P[d.ses[x].port] = x
      <4>1. d.Sessions_Port[s.port] = c /\ d.Sessions_Port[d.ses[x].port] = x /\ d.ses[x].port # 0
        BY <3>1 DEF DaemonOK, PortsOK
      <4>2. d.ses[x].port \in Port /\ d.ses[x].port # s.port
        BY <1>1, <3>1, <4>1 DEF DaemonType, SessionType
      <4>3. d.ses[x].port # p
        BY <1>3, <4>1, CSAssumption
      <4> QED
        BY <2>5, <4>1, <4>2, <4>3
    <3> QED
      BY <1>3, <2>4, <2>5, <2>6, <3>1 DEF PortsOK
  <2>8. GroupsOK(e)
    BY <2>4, <2>6 DEF GroupsOK, DaemonOK
  <2>9. \A x \in Client : ReadOK(e.ses[x], e.link_blocked) /\ ClosingOK(e.ses[x])
    BY <2>4, <2>6 DEF DaemonOK
  <2>10. Handled(d, e, c, n)
    BY <2>4, <2>6, <2>7, <2>8, <2>9 DEF Handled, DaemonOK
  <2> QED
    BY <2>1, <2>10 DEF n
<1> QED
  BY <1>2, <1>3

(* Every request leaves the daemon's record in order, and sends at most one  *)
(* answer.                                                                   *)
LEMMA ProcessOK ==
  ASSUME NEW d, DaemonOK(d), NEW c \in Client, d.ses[c].live, NEW r, RequestOK(r),
         NEW room \in BOOLEAN
  PROVE  \/ Handled(d, Process_Session_Packet(d, c, r, room), c, 0)
         \/ Awaited(c, r) /\ Handled(d, Process_Session_Packet(d, c, r, room), c, 1)
<1> DEFINE e == Process_Session_Packet(d, c, r, room)
<1>1. CASE r.type = "CTRL_SK"
  BY <1>1, CtrlRequestOK DEF Process_Session_Packet
<1>2. CASE r.type = "LINKS"
  BY <1>2, LinksRequestOK DEF Process_Session_Packet, Awaited
<1>3. CASE r.type = "BIND"
  BY <1>3, BindRequestOK DEF Process_Session_Packet, Awaited, RequestOK
<1>4. CASE r.type \in {"CONNECT", "LISTEN", "ACCEPT", "EOF"}
  BY <1>4, StreamRequestsOK DEF Process_Session_Packet, RequestOK
<1>5. CASE r.type \in {"JOIN", "LEAVE"}
  BY <1>5, GroupRequestsOK DEF Process_Session_Packet, RequestOK
<1>6. CASE r.type = "FLOOD_SEND"
  <2>1. r.arg \in Int
    BY <1>6 DEF RequestOK
  <2> QED
    BY <1>6, <2>1, FloodPacketOK DEF Process_Session_Packet, FloodRequest
<1>7. CASE r.type = "FLOOD_RECV"
  BY <1>7, CloseOK, HandledNothing DEF Process_Session_Packet, FloodRecvRequest, Reasons
<1>8. CASE r.type = "OPTION"
  BY <1>8, HandledNothing DEF Process_Session_Packet, OptionRequest
<1>9. CASE r.type = "DATA"
  BY <1>9, DataRequestOK DEF Process_Session_Packet
<1> QED
  BY <1>1, <1>2, <1>3, <1>4, <1>5, <1>6, <1>7, <1>8, <1>9 DEF RequestOK, RequestTypes

-----------------------------------------------------------------------------
(* Accepting a session, and links that block all of them. *)

(* AssignedPort is 0 or a free port of the range. *)
LEMMA AssignedPortFree ==
  ASSUME NEW d \in DaemonType, AssignedPort(d) # 0
  PROVE  /\ AssignedPort(d) \in FirstPort .. LastPort - 1
         /\ d.Sessions_Port[AssignedPort(d)] = Nobody
<1> DEFINE l == d.last_sess_port
           above == FreePorts(d, l + 1, LastPort - 1)
           below == FreePorts(d, FirstPort, l - 1)
<1>1. l \in FirstPort .. LastPort - 1 /\ FirstPort \in Nat /\ LastPort \in Nat
  BY CSAssumption DEF DaemonType
<1>2. /\ above \subseteq Nat /\ above \subseteq FirstPort .. LastPort - 1
      /\ \A p \in above : d.Sessions_Port[p] = Nobody
  BY <1>1 DEF FreePorts
<1>3. /\ below \subseteq Nat /\ below \subseteq FirstPort .. LastPort - 1
      /\ \A p \in below : d.Sessions_Port[p] = Nobody
  BY <1>1 DEF FreePorts
<1>4. AssignedPort(d) = IF above # {} THEN Lowest(above)
                        ELSE IF below # {} THEN Lowest(below) ELSE 0
  BY DEF AssignedPort
<1> HIDE DEF above, below
<1>5. above # {} => Lowest(above) \in above
  BY <1>2, LowestIsLeast
<1>6. below # {} => Lowest(below) \in below
  BY <1>3, LowestIsLeast
<1> QED
  BY <1>2, <1>3, <1>4, <1>5, <1>6

(* Session_Accept of a socket that has no session: it gets one with a port   *)
(* of its own, or the daemon exits.                                          *)
LEMMA SessionAcceptOK ==
  ASSUME NEW d, DaemonOK(d), NEW c \in Client, ~d.ses[c].live,
         NEW e, e = Session_Accept(d, c)
  PROVE  /\ DaemonOK(e)
         /\ \A x \in Client : x # c => e.ses[x] = d.ses[x]
         /\ \/ e.exited /\ e.ses[c] = d.ses[c]
            \/ e.ses[c].live /\ e.ses[c].client = "ON" /\ e.ses[c].answers = 0
<1> DEFINE p == AssignedPort(d)
           t == [NoSession EXCEPT !.live = TRUE, !.read = TRUE, !.port = p]
           P == [d.Sessions_Port EXCEPT ![p] = c]
<1>1. d \in DaemonType /\ d.ses[c] \in SessionType
      /\ d.Sessions_Port \in [Port -> Client \cup {Nobody}]
  BY SessionTyped DEF DaemonType
<1>2. CASE p = 0
  <2>1. /\ e \in DaemonType /\ e.ses = d.ses /\ e.link_blocked = d.link_blocked
        /\ e.Sessions_Port = d.Sessions_Port /\ e.joined = d.joined /\ e.exited
    BY <1>1, <1>2 DEF DaemonType, Session_Accept
  <2> QED
    BY <2>1 DEF DaemonOK, PortsOK, GroupsOK
<1>3. CASE p # 0
  <2>1. /\ p \in Port /\ d.Sessions_Port[p] = Nobody /\ p \in FirstPort .. LastPort - 1
    BY <1>1, <1>3, AssignedPortFree DEF Port
  <2>2. e = [d EXCEPT !.ses = [@ EXCEPT ![c] = t], !.Sessions_Port = P, !.last_sess_port = p]
    BY <1>3 DEF Session_Accept
  <2> HIDE DEF p
  <2>3. t \in SessionType
    BY <2>1, NoSessionTyped DEF SessionType
  <2>4. /\ t.live /\ t.read /\ t.client = "ON" /\ ~t.closing /\ t.groups = {} /\ t.port = p
        /\ t.answers = 0
    BY DEF NoSession
  <2>5. /\ P \in [Port -> Client \cup {Nobody}] /\ P[p] = c
        /\ \A q \in Port : q # p => P[q] = d.Sessions_Port[q]
    BY <1>1, <2>1
  <2> HIDE DEF t, P
  <2>6. /\ e \in DaemonType
        /\ e.ses[c] = t
        /\ \A x \in Client : x # c => e.ses[x] = d.ses[x]
        /\ e.Sessions_Port = P
        /\ e.joined = d.joined
        /\ e.link_blocked = d.link_blocked
    <3> DEFINE S == [d.ses EXCEPT ![c] = t]
               R == FirstPort .. LastPort - 1
    <3>1. S \in [Client -> SessionType] /\ S[c] = t /\ \A x \in Client : x # c => S[x] = d.ses[x]
      BY <1>1, <2>3 DEF DaemonType
    <3>2. e = [d EXCEPT !.ses = S, !.Sessions_Port = P, !.last_sess_port = p] /\ p \in R
      BY <2>1, <2>2
    <3>3. DaemonType = [ses : [Client -> SessionType], Sessions_Port : [Port -> Client \cup {Nobody}],
                        last_sess_port : R, ctrl_sk_requests : SUBSET Client,
                        joined : [Group -> SUBSET Client], link_blocked : BOOLEAN,
                        exited : BOOLEAN]
      BY DEF DaemonType
    <3> HIDE DEF S, R
    <3> QED
      BY <1>1, <2>5, <3>1, <3>2, <3>3
  <2>7. PortsOK(e)
    <3>1. ASSUME NEW x \in Client, x # c, d.ses[x].live
          PROVE  d.ses[x].port # 0 /\ P[d.ses[x].port] = x
      <4>1. d.Sessions_Port[d.ses[x].port] = x /\ d.ses[x].port # 0
        BY <3>1 DEF DaemonOK, PortsOK
      <4>2. d.ses[x].port \in Port
        BY <1>1, <4>1 DEF DaemonType, SessionType
      <4>3. d.ses[x].port # p
        BY <2>1, <4>1, CSAssumption
      <4> QED
        BY <2>5, <4>1, <4>2, <4>3
    <3> QED
      BY <1>3, <2>4, <2>5, <2>6, <3>1 DEF PortsOK, p
  <2>8. GroupsOK(e)
    <3>1. d.ses[c].groups = {} /\ \A g \in Group : c \notin d.joined[g]
      BY DEF GroupsOK, DaemonOK
    <3> QED
      BY <2>4, <2>6, <3>1 DEF GroupsOK, DaemonOK
  <2>9. \A x \in Client : ReadOK(e.ses[x], e.link_blocked) /\ ClosingOK(e.ses[x])
    BY <2>4, <2>6 DEF DaemonOK, ReadOK, ClosingOK
  <2> QED
    BY <2>4, <2>6, <2>7, <2>8, <2>9 DEF DaemonOK
<1> QED
  BY <1>2, <1>3

(* Steps that change nothing of a session but whether it is read. *)
SameButRead(d, e) ==
  \A c \in Client : /\ e.ses[c].live = d.ses[c].live
                    /\ e.ses[c].client = d.ses[c].client
                    /\ e.ses[c].answers = d.ses[c].answers

LEMMA AcceptCtrlOK ==
  ASSUME NEW d, DaemonOK(d), NEW c \in Client,
         NEW e, e = Session_Accept_Ctrl(d, c)
  PROVE  DaemonOK(e) /\ SameButRead(d, e) /\ (d.exited => e.exited)
<1>1. /\ e \in DaemonType /\ e.ses = d.ses /\ e.link_blocked = d.link_blocked
      /\ e.Sessions_Port = d.Sessions_Port /\ e.joined = d.joined /\ (d.exited => e.exited)
  BY DEF DaemonOK, DaemonType, Session_Accept_Ctrl
<1> QED
  BY <1>1 DEF DaemonOK, PortsOK, GroupsOK, SameButRead

(* The two calls differ in what read and link_blocked become. *)
LEMMA AllSessionsOK ==
  ASSUME NEW d, DaemonOK(d), NEW b \in BOOLEAN, NEW r \in BOOLEAN, r = ~b,
         NEW e, e = [d EXCEPT !.link_blocked = b,
                              !.ses = [c \in Client |-> IF @[c].live /\ ~@[c].rel_blocked
                                                        THEN [@[c] EXCEPT !.read = r] ELSE @[c]]]
  PROVE  DaemonOK(e) /\ SameButRead(d, e) /\ e.exited = d.exited
<1> DEFINE S == [c \in Client |-> IF d.ses[c].live /\ ~d.ses[c].rel_blocked
                                  THEN [d.ses[c] EXCEPT !.read = r] ELSE d.ses[c]]
<1>1. d \in DaemonType /\ \A c \in Client : d.ses[c] \in SessionType
  BY SessionTyped DEF DaemonOK
<1>2. e = [d EXCEPT !.link_blocked = b, !.ses = S]
  BY <1>1 DEF DaemonType
<1>3. ASSUME NEW c \in Client
      PROVE  /\ S[c] \in SessionType
             /\ S[c].live = d.ses[c].live /\ S[c].client = d.ses[c].client
             /\ S[c].answers = d.ses[c].answers /\ S[c].port = d.ses[c].port
             /\ S[c].groups = d.ses[c].groups /\ S[c].closing = d.ses[c].closing
             /\ S[c].rel_blocked = d.ses[c].rel_blocked
             /\ S[c].live /\ ~S[c].rel_blocked => S[c].read = r
  BY <1>1 DEF SessionType
<1>4. S \in [Client -> SessionType]
  BY <1>3
<1> HIDE DEF S
<1>5. /\ e \in DaemonType /\ e.ses = S /\ e.link_blocked = b /\ e.joined = d.joined
      /\ e.Sessions_Port = d.Sessions_Port /\ e.exited = d.exited
  BY <1>1, <1>2, <1>4 DEF DaemonType
<1>6. PortsOK(e) /\ GroupsOK(e)
  BY <1>3, <1>5 DEF PortsOK, GroupsOK, DaemonOK
<1>7. \A x \in Client : ReadOK(e.ses[x], e.link_blocked) /\ ClosingOK(e.ses[x])
  BY <1>3, <1>5, ZenonT(60) DEF DaemonOK, ReadOK, ClosingOK
<1> QED
  BY <1>3, <1>5, <1>6, <1>7 DEF DaemonOK, SameButRead

-----------------------------------------------------------------------------
(* The invariant of the system. *)

Requests == [type : RequestTypes, arg : Int \cup BOOLEAN \cup Group]

LibType ==
  [pc : {"none", "ctrl", "id", "open", "bind", "failed", "closed"}, fd : Nat \cup {-1},
   slot : Slots \cup {-1}, told : Port \cup {0}]

Types ==
  /\ lib \in [Client -> LibType]
  /\ all_clients \in [Slots -> [udp_sk : Nat \cup {-1}, vport : Port \cup {0}]]
  /\ Max_Client \in 0 .. MAX_APP_CLIENTS
  /\ inbox \in [Client -> Seq(Requests)]

(* The requests q of a socket, where its application is and the answers that *)
(* it has not read: requests are well formed, and the client waits for one   *)
(* answer at a time.                                                         *)
OneAnswer(c, q, pc, answers) ==
  /\ \A i \in 1 .. Len(q) : RequestOK(q[i])
  /\ answers <= 1
  /\ answers = 1 => pc \in {"id", "bind"}
  /\ \A i \in 1 .. Len(q) : Awaited(c, q[i]) =>
        /\ pc \in {"id", "bind"}
        /\ answers = 0
        /\ \A j \in 1 .. Len(q) : Awaited(c, q[j]) => i = j

(* Nothing waits for a session without a client. *)
InboxOK(c) ==
  /\ OneAnswer(c, inbox[c], lib[c].pc, daemon.ses[c].answers)
  /\ daemon.exited \/ Connected(c) \/ inbox[c] = << >>
  /\ lib[c].pc \in {"none", "ctrl"} => ~daemon.ses[c].live

(* Descriptors in use are different, and the slot of an open socket holds    *)
(* its descriptor.  A socket that failed may leave a slot behind.            *)
HasFd(c)   == lib[c].pc \in {"ctrl", "id", "open", "bind"}

TableOK ==
  /\ \A i \in Slots : all_clients[i].udp_sk # -1 => i < Max_Client
  /\ \A c \in Client : HasFd(c) => lib[c].fd \in Nat
  /\ \A c \in Client : HasSlot(c) => /\ lib[c].slot \in Slots
                                     /\ all_clients[lib[c].slot].udp_sk = lib[c].fd
  /\ \A c, e \in Client : c # e /\ HasFd(c) /\ HasFd(e) => lib[c].fd # lib[e].fd

IInv ==
  /\ Types
  /\ DaemonOK(daemon)
  /\ \A c \in Client : InboxOK(c)
  /\ TableOK

LEMMA InitOK == Init => IInv
<1> SUFFICES ASSUME Init PROVE IInv
  OBVIOUS
<1>1. Types
  BY CSAssumption DEF Init, Types, LibType, Free, Slots
<1>2. DaemonOK(daemon)
  <2>1. daemon \in DaemonType
    <3> DEFINE S == [c \in Client |-> NoSession]
               P == [p \in Port |-> Nobody]
               J == [g \in Group |-> {}]
    <3>1. S \in [Client -> SessionType] /\ P \in [Port -> Client \cup {Nobody}]
          /\ J \in [Group -> SUBSET Client] /\ FirstPort \in FirstPort .. LastPort - 1
      BY NoSessionTyped, CSAssumption
    <3>2. daemon = [ses |-> S, Sessions_Port |-> P, last_sess_port |-> FirstPort,
                    ctrl_sk_requests |-> {}, joined |-> J, link_blocked |-> FALSE,
                    exited |-> FALSE]
      BY DEF Init
    <3> HIDE DEF S, P, J
    <3> QED
      BY <3>1, <3>2 DEF DaemonType
  <2>2. \A c \in Client : ~daemon.ses[c].live /\ ~daemon.ses[c].closing /\ daemon.ses[c].groups = {}
    BY DEF Init, NoSession
  <2>3. \A g \in Group : daemon.joined[g] = {}
    BY DEF Init
  <2> QED
    BY <2>1, <2>2, <2>3 DEF DaemonOK, PortsOK, GroupsOK, ReadOK, ClosingOK
<1>3. \A c \in Client : InboxOK(c)
  <2> SUFFICES ASSUME NEW c \in Client PROVE InboxOK(c)
    OBVIOUS
  <2>1. inbox[c] = << >> /\ ~daemon.ses[c].live /\ daemon.ses[c].answers = 0
    BY DEF Init, NoSession
  <2> QED
    BY <2>1 DEF InboxOK, OneAnswer
<1>4. TableOK
  BY DEF Init, TableOK, HasFd, HasSlot, Free
<1> QED
  BY <1>1, <1>2, <1>3, <1>4 DEF IInv

-----------------------------------------------------------------------------
(* The daemon's steps. *)

(* A handler of session c and what is left of its inbox: the same requests,  *)
(* all but the first, or none.                                               *)
LEMMA DaemonStep ==
  ASSUME IInv, NEW c \in Client, daemon.ses[c].live,
         NEW n \in {0, 1}, NEW k \in {0, 1}, Handled(daemon, daemon', c, n),
         n = 1 => k = 1 /\ 1 \in 1 .. Len(inbox[c]) /\ Awaited(c, inbox[c][1]),
         NEW q \in Seq(Requests), inbox' = [inbox EXCEPT ![c] = q],
         \A i \in 1 .. Len(q) : i + k \in 1 .. Len(inbox[c]) /\ q[i] = inbox[c][i + k],
         daemon'.ses[c].client = "ON" \/ q = << >>,
         ~daemon.exited, UNCHANGED libvars
  PROVE  IInv'
<1>1. Types'
  BY DEF IInv, Types, libvars
<1>2. DaemonOK(daemon')
  BY DEF Handled
<1>3. TableOK'
  BY DEF IInv, TableOK, HasFd, HasSlot, libvars
<1>4. inbox'[c] = q /\ \A x \in Client : x # c => inbox'[x] = inbox[x]
  BY DEF IInv, Types
<1>5. lib' = lib /\ daemon \in DaemonType /\ Len(inbox[c]) \in Nat /\ Len(q) \in Nat
      /\ daemon.ses[c].answers \in Nat
  BY SessionTyped DEF libvars, IInv, Types, SessionType
<1>6. ASSUME NEW x \in Client, x # c PROVE InboxOK(x)'
  <2>1. InboxOK(x) /\ daemon'.ses[x] = daemon.ses[x] /\ inbox'[x] = inbox[x]
    BY <1>4, <1>6 DEF IInv, Handled
  <2> QED
    BY <1>5, <2>1 DEF InboxOK, Connected
<1>7. InboxOK(c)'
  <2> DEFINE a == daemon.ses[c].answers
             pc == lib[c].pc
  <2>1. OneAnswer(c, inbox[c], pc, a) /\ pc \notin {"none", "ctrl"}
    BY DEF IInv, InboxOK
  <2>2. Connected(c)' \/ inbox'[c] = << >>
    BY <1>4 DEF Handled, Connected
  <2>3. daemon'.ses[c].answers = a + n /\ a \in Nat
    BY <1>5 DEF Handled
  <2> HIDE DEF a, pc
  <2>4. OneAnswer(c, q, pc, a + n)
    <3>1. \A i \in 1 .. Len(q) : RequestOK(q[i])
      BY <2>1 DEF OneAnswer
    <3>2. CASE n = 0
      <4>1. ASSUME NEW i \in 1 .. Len(q), Awaited(c, q[i])
            PROVE  /\ pc \in {"id", "bind"} /\ a = 0
                   /\ \A j \in 1 .. Len(q) : Awaited(c, q[j]) => i = j
        <5>1. i + k \in 1 .. Len(inbox[c]) /\ Awaited(c, inbox[c][i + k])
          BY <4>1
        <5>2. ASSUME NEW j \in 1 .. Len(q), Awaited(c, q[j]) PROVE i + k = j + k
          <6>1. j + k \in 1 .. Len(inbox[c]) /\ Awaited(c, inbox[c][j + k])
            BY <5>2
          <6> QED
            BY <2>1, <5>1, <6>1 DEF OneAnswer
        <5> QED
          BY <1>5, <2>1, <5>1, <5>2 DEF OneAnswer
      <4> QED
        BY <2>1, <2>3, <3>1, <3>2, <4>1 DEF OneAnswer
    <3>3. CASE n = 1
      <4>1. /\ a = 0 /\ pc \in {"id", "bind"} /\ k = 1
            /\ \A j \in 1 .. Len(inbox[c]) : Awaited(c, inbox[c][j]) => 1 = j
        BY <2>1, <3>3 DEF OneAnswer
      <4>2. \A i \in 1 .. Len(q) : ~Awaited(c, q[i])
        BY <1>5, <4>1
      <4> QED
        BY <3>1, <3>3, <4>1, <4>2, SMTT(60) DEF OneAnswer
    <3> QED
      BY <3>2, <3>3
  <2> QED
    BY <1>4, <1>5, <2>1, <2>2, <2>3, <2>4 DEF InboxOK, pc
<1> QED
  BY <1>1, <1>2, <1>3, <1>6, <1>7 DEF IInv

LEMMA DaemonFacts ==
  ASSUME IInv, NEW c \in Client
  PROVE  /\ DaemonOK(daemon) /\ daemon.ses[c] \in SessionType
         /\ inbox \in [Client -> Seq(Requests)] /\ inbox[c] \in Seq(Requests)
         /\ InboxOK(c) /\ << >> \in Seq(Requests) /\ Len(<< >>) = 0
         /\ inbox = [inbox EXCEPT ![c] = inbox[c]]
  BY SessionTyped DEF IInv, Types

(* A handler that leaves the inbox, of a session that keeps its client or    *)
(* has nothing waiting.                                                      *)
LEMMA DaemonStepSame ==
  ASSUME IInv, NEW c \in Client, daemon.ses[c].live, Handled(daemon, daemon', c, 0),
         daemon'.ses[c].client = daemon.ses[c].client \/ ~Connected(c),
         ~daemon.exited, UNCHANGED <<libvars, inbox>>
  PROVE  IInv'
<1>1. inbox[c] \in Seq(Requests) /\ inbox' = [inbox EXCEPT ![c] = inbox[c]] /\ Len(inbox[c]) \in Nat
  BY DaemonFacts
<1>2. daemon'.ses[c].client = "ON" \/ inbox[c] = << >>
  BY DaemonFacts DEF InboxOK, Connected
<1>3. \A i \in 1 .. Len(inbox[c]) : i + 0 \in 1 .. Len(inbox[c]) /\ inbox[c][i] = inbox[c][i + 0]
  BY <1>1
<1>4. 0 \in {0, 1} /\ ~ (0 = 1)
  OBVIOUS
<1> QED
  BY <1>1, <1>2, <1>3, <1>4, DaemonStep, Zenon

(* A handler after which the inbox is emptied if the client is gone. *)
LEMMA DaemonStepClear ==
  ASSUME IInv, NEW c \in Client, daemon.ses[c].live, Handled(daemon, daemon', c, 0),
         NEW q \in {inbox[c], << >>}, inbox' = [inbox EXCEPT ![c] = q],
         daemon'.ses[c].client = "ON" \/ q = << >>,
         ~daemon.exited, UNCHANGED libvars
  PROVE  IInv'
<1>1. /\ inbox[c] \in Seq(Requests) /\ q \in Seq(Requests) /\ Len(inbox[c]) \in Nat
      /\ q = inbox[c] \/ Len(q) = 0
  <2>1. CASE q = inbox[c]
    BY <2>1, DaemonFacts
  <2>2. CASE q = << >>
    <3>1. inbox[c] \in Seq(Requests)
      BY DaemonFacts
    <3> QED
      BY <2>2, <3>1
  <2> QED
    BY <2>1, <2>2
<1>2. \A i \in 1 .. Len(q) : i + 0 \in 1 .. Len(inbox[c]) /\ q[i] = inbox[c][i + 0]
  BY <1>1
<1>3. 0 \in {0, 1} /\ ~ (0 = 1)
  OBVIOUS
<1> QED
  BY <1>1, <1>2, <1>3, DaemonStep, Zenon

LEMMA SessionReadOK ==
  ASSUME IInv, NEW c \in Client, Session_Read(c)
  PROVE  IInv'
<1>1. /\ daemon.ses[c].live /\ inbox[c] # << >> /\ ~daemon.exited /\ UNCHANGED libvars
      /\ inbox' = [inbox EXCEPT ![c] = IF daemon'.ses[c].client = "ON" THEN Tail(inbox[c]) ELSE << >>]
  BY DEF Session_Read
<1>2. PICK room \in BOOLEAN :
        daemon' = Process_Session_Packet(daemon, c, Head(inbox[c]), room)
  BY DEF Session_Read
<1>3. /\ inbox[c] \in Seq(Requests) /\ Head(inbox[c]) = inbox[c][1] /\ 1 \in 1 .. Len(inbox[c])
      /\ Tail(inbox[c]) \in Seq(Requests) /\ Len(Tail(inbox[c])) = Len(inbox[c]) - 1
      /\ \A i \in 1 .. Len(Tail(inbox[c])) : Tail(inbox[c])[i] = inbox[c][i + 1]
      /\ Len(inbox[c]) \in Nat
  BY <1>1, DaemonFacts
<1>4. DaemonOK(daemon) /\ RequestOK(Head(inbox[c]))
  BY <1>3, DaemonFacts DEF InboxOK, OneAnswer
<1>5. PICK n \in {0, 1} : /\ Handled(daemon, daemon', c, n)
                          /\ n = 1 => Awaited(c, inbox[c][1])
  BY <1>1, <1>2, <1>3, <1>4, ProcessOK
<1> DEFINE q == IF daemon'.ses[c].client = "ON" THEN Tail(inbox[c]) ELSE << >>
<1>6. \A i \in 1 .. Len(q) : i + 1 \in 1 .. Len(inbox[c]) /\ q[i] = inbox[c][i + 1]
  BY <1>3
<1>7. q \in Seq(Requests) /\ (daemon'.ses[c].client = "ON" \/ q = << >>)
  BY <1>3
<1>8. inbox' = [inbox EXCEPT ![c] = q]
  BY <1>1
<1> HIDE DEF q
<1> QED
  BY <1>1, <1>3, <1>5, <1>6, <1>7, <1>8, DaemonStep, ZenonT(60)

LEMMA TryCloseOK ==
  ASSUME IInv, NEW c \in Client, Try_Close_Session(c)
  PROVE  IInv'
<1>1. DaemonOK(daemon) /\ daemon.ses[c].live /\ daemon.ses[c].close_reason \in Reasons
  BY DaemonFacts DEF Try_Close_Session, SessionType
<1>2. Handled(daemon, daemon', c, 0)
  BY <1>1, CloseOK DEF Try_Close_Session
<1>3. ~Connected(c)
  BY DEF Try_Close_Session, Connected, IInv, DaemonOK, ClosingOK
<1> QED
  BY <1>1, <1>2, <1>3, DaemonStepSame DEF Try_Close_Session

LEMMA FlooderOK ==
  ASSUME IInv, NEW c \in Client, Session_Flooder_Send(c)
  PROVE  IInv'
<1>1. DaemonOK(daemon) /\ daemon.ses[c].live /\ daemon.ses[c].flood \in Int
  BY DaemonFacts DEF Session_Flooder_Send, SessionType
<1>2. Handled(daemon, daemon', c, 0)
  BY <1>1, FloodPacketOK DEF Session_Flooder_Send
<1> DEFINE q == IF daemon'.ses[c].client = "ON" THEN inbox[c] ELSE << >>
<1>3. q \in {inbox[c], << >>} /\ inbox' = [inbox EXCEPT ![c] = q]
      /\ (daemon'.ses[c].client = "ON" \/ q = << >>)
  BY DEF Session_Flooder_Send
<1> HIDE DEF q
<1> QED
  BY <1>1, <1>2, <1>3, DaemonStepClear DEF Session_Flooder_Send

LEMMA ReliableEndsOK ==
  ASSUME IInv, NEW c \in Client, ReliableSessionEnds(c)
  PROVE  IInv'
<1>1. DaemonOK(daemon) /\ daemon.ses[c].live
  BY DaemonFacts DEF ReliableSessionEnds
<1>2. Handled(daemon, daemon', c, 0)
  BY <1>1, CloseOK, BlockedOK DEF ReliableSessionEnds, Reasons
<1> QED
  BY <1>1, <1>2, DaemonStepClear DEF ReliableSessionEnds

LEMMA DrainsOK ==
  ASSUME IInv, NEW c \in Client, RelSessionDrains(c) \/ FlowDrains(c)
  PROVE  IInv'
<1>1. DaemonOK(daemon) /\ daemon.ses[c].live /\ daemon \in DaemonType /\ daemon.ses[c] \in SessionType
  BY DaemonFacts DEF RelSessionDrains, FlowDrains, DaemonOK
<1>2. Handled(daemon, daemon', c, 0)
  BY <1>1, BlockedOK DEF RelSessionDrains, FlowDrains
<1>3. daemon'.ses[c].client = daemon.ses[c].client
  <2>1. Rel_Resume(daemon, c).ses[c].client = daemon.ses[c].client
    BY <1>1 DEF Rel_Resume, Resume_Session, DaemonType, SessionType
  <2>2. Reliable_Flood_Resume_Sessions(daemon, c).ses[c].client = daemon.ses[c].client
    BY <1>1 DEF Reliable_Flood_Resume_Sessions, Session_Send_Message, Resume_Session,
                DaemonType, SessionType
  <2> QED
    BY <2>1, <2>2 DEF RelSessionDrains, FlowDrains
<1> QED
  BY <1>1, <1>2, <1>3, DaemonStepSame DEF RelSessionDrains, FlowDrains

LEMMA LinksOK ==
  ASSUME IInv, LinkBlocks \/ LinkResumes
  PROVE  IInv'
<1>1. DaemonOK(daemon) /\ ~daemon.exited /\ UNCHANGED <<libvars, inbox>>
  BY DEF IInv, LinkBlocks, LinkResumes
<1>2. DaemonOK(daemon') /\ SameButRead(daemon, daemon') /\ daemon'.exited = daemon.exited
  <2>1. CASE LinkBlocks
    <3>1. FALSE = ~TRUE
      OBVIOUS
    <3> QED
      BY <1>1, <2>1, <3>1, AllSessionsOK DEF LinkBlocks, Block_All_Sessions
  <2>2. CASE LinkResumes
    <3>1. TRUE = ~FALSE
      OBVIOUS
    <3> QED
      BY <1>1, <2>2, <3>1, AllSessionsOK DEF LinkResumes, Resume_All_Sessions
  <2> QED
    BY <2>1, <2>2
<1>3. ASSUME NEW c \in Client PROVE InboxOK(c)'
  <2>1. InboxOK(c) /\ lib' = lib /\ inbox' = inbox
    BY <1>1 DEF IInv, libvars
  <2> QED
    BY <1>2, <2>1 DEF InboxOK, SameButRead, Connected
<1>4. Types' /\ TableOK'
  BY <1>1 DEF IInv, Types, TableOK, HasFd, HasSlot, libvars
<1> QED
  BY <1>2, <1>3, <1>4 DEF IInv

-----------------------------------------------------------------------------
(* The library's steps. *)

(* One more request that nobody waits for. *)
LEMMA SendPlain ==
  ASSUME NEW c \in Client, NEW q \in Seq(Requests), NEW pc, NEW a, OneAnswer(c, q, pc, a),
         NEW r \in Requests, RequestOK(r), ~Awaited(c, r)
  PROVE  OneAnswer(c, Append(q, r), pc, a) /\ Append(q, r) \in Seq(Requests)
<1>1. /\ Len(q) \in Nat /\ Append(q, r) \in Seq(Requests) /\ Len(Append(q, r)) = Len(q) + 1
      /\ Append(q, r)[Len(q) + 1] = r
      /\ \A i \in 1 .. Len(q) : Append(q, r)[i] = q[i]
  OBVIOUS
<1>2. \A i \in 1 .. Len(q) + 1 : i \in 1 .. Len(q) \/ i = Len(q) + 1
  BY <1>1
<1> DEFINE w == Append(q, r)
<1> HIDE DEF w
<1>3. /\ Len(w) = Len(q) + 1
      /\ \A i \in 1 .. Len(w) : (i \in 1 .. Len(q) /\ w[i] = q[i]) \/ w[i] = r
  BY <1>1, <1>2 DEF w
<1>4. OneAnswer(c, w, pc, a)
  BY <1>3 DEF OneAnswer
<1> QED
  BY <1>1, <1>4 DEF w

(* A socket that waits for no answer may move on. *)
LEMMA NotWaiting ==
  ASSUME NEW c \in Client, NEW q, NEW pc, NEW a, OneAnswer(c, q, pc, a), pc \notin {"id", "bind"}
  PROVE  /\ \A i \in 1 .. Len(q) : ~Awaited(c, q[i])
         /\ \A pc2 : OneAnswer(c, q, pc2, a)
         /\ a # 1
  BY DEF OneAnswer

(* The client reads an answer. *)
TakeAnswer(d, c) == [d EXCEPT !.ses[c].answers = @ - 1]

LEMMA AnswerTaken ==
  ASSUME NEW d, DaemonOK(d), NEW c \in Client, d.ses[c].answers > 0,
         NEW e, e = TakeAnswer(d, c)
  PROVE  /\ DaemonOK(e)
         /\ \A x \in Client : x # c => e.ses[x] = d.ses[x]
         /\ e.ses[c].live = d.ses[c].live /\ e.ses[c].client = d.ses[c].client
         /\ e.ses[c].answers = d.ses[c].answers - 1
         /\ e.exited = d.exited
<1> DEFINE s == d.ses[c]
           a == s.answers - 1
           t == [s EXCEPT !.answers = a]
<1>1. /\ d \in DaemonType /\ s \in SessionType /\ ReadOK(s, d.link_blocked) /\ ClosingOK(s)
      /\ a \in Nat
  BY SessionTyped DEF DaemonOK, SessionType
<1>2. e = SetSession(d, c, t)
  BY DEF SetSession, TakeAnswer
<1>3. a = s.answers - 1
  OBVIOUS
<1> HIDE DEF a
<1>4. t \in SessionType
  BY <1>1 DEF SessionType
<1>5. /\ t.live = s.live /\ t.port = s.port /\ t.groups = s.groups /\ t.answers = a
      /\ t.client = s.client /\ ReadOK(t, d.link_blocked) /\ ClosingOK(t)
  BY <1>1 DEF SessionType, ReadOK, ClosingOK
<1> HIDE DEF t
<1>6. /\ e \in DaemonType
      /\ e.ses[c] = t
      /\ \A x \in Client : x # c => e.ses[x] = d.ses[x]
      /\ e.Sessions_Port = d.Sessions_Port
      /\ e.joined = d.joined
      /\ e.link_blocked = d.link_blocked
      /\ e.exited = d.exited
  <2> DEFINE f == SetSession(d, c, t)
  <2>1. /\ f \in DaemonType
        /\ f.ses[c] = t
        /\ \A x \in Client : x # c => f.ses[x] = d.ses[x]
        /\ f.Sessions_Port = d.Sessions_Port
        /\ f.joined = d.joined
        /\ f.link_blocked = d.link_blocked
        /\ f.exited = d.exited
    BY <1>1, <1>4, SetSessionFields
  <2>2. e = f
    BY <1>2
  <2> HIDE DEF f
  <2> QED
    BY <2>1, <2>2
<1>7. PortsOK(e) /\ GroupsOK(e)
  BY <1>5, <1>6 DEF PortsOK, GroupsOK, DaemonOK
<1>8. \A x \in Client : ReadOK(e.ses[x], e.link_blocked) /\ ClosingOK(e.ses[x])
  BY <1>5, <1>6 DEF DaemonOK
<1> QED
  BY <1>3, <1>5, <1>6, <1>7, <1>8 DEF DaemonOK

(* A descriptor that no open socket has. *)
LEMMA NewFdFree ==
  ASSUME Types
  PROVE  NewFd \in Nat /\ NewFd \notin InUse
<1> DEFINE B == {x \in Client : lib[x].pc \in {"ctrl", "id", "open", "bind"}}
           f == [x \in B |-> lib[x].fd]
           N == Cardinality(Client)
           T == {n \in 0 .. N : n \notin InUse}
<1>1. IsFiniteSet(B) /\ Cardinality(B) <= N /\ N \in Nat /\ Cardinality(B) \in Nat
  BY CSAssumption, FS_Subset, FS_CardinalityType
<1>2. f \in Surjection(B, InUse)
  BY DEF Surjection, InUse
<1>3. IsFiniteSet(InUse) /\ Cardinality(InUse) <= Cardinality(B) /\ Cardinality(InUse) \in Nat
  <2> HIDE DEF f, B, N
  <2>1. IsFiniteSet(InUse) /\ Cardinality(InUse) <= Cardinality(B)
    BY <1>1, <1>2, FS_Surjection
  <2> QED
    BY <2>1, FS_CardinalityType
<1> HIDE DEF f, B
<1>4. Cardinality(0 .. N) = N + 1 /\ IsFiniteSet(0 .. N)
  BY <1>1, FS_Interval
<1>5. T # {}
  <2> SUFFICES ASSUME T = {} PROVE FALSE
    OBVIOUS
  <2>1. 0 .. N \in SUBSET InUse
    OBVIOUS
  <2>2. Cardinality(0 .. N) <= Cardinality(InUse)
    BY <1>3, <2>1, FS_Subset
  <2> HIDE DEF N
  <2> QED
    BY <1>1, <1>3, <1>4, <2>2
<1>6. T \subseteq Nat /\ NewFd = Lowest(T)
  BY <1>1 DEF NewFd
<1>7. NewFd \in T
  <2> HIDE DEF T
  <2> QED
    BY <1>5, <1>6, LowestIsLeast
<1> QED
  BY <1>6, <1>7

(* spines_get_client finds a slot of the descriptor. *)
LEMMA GetClientFinds ==
  ASSUME Types, NEW fd, spines_get_client(fd) # -1
  PROVE  /\ spines_get_client(fd) \in Slots
         /\ spines_get_client(fd) < Max_Client
         /\ all_clients[spines_get_client(fd)].udp_sk = fd
<1>1. SlotsOf(fd) \subseteq Nat
  BY DEF SlotsOf, Slots
<1>2. SlotsOf(fd) # {} => Lowest(SlotsOf(fd)) \in SlotsOf(fd)
  BY <1>1, LowestIsLeast
<1>3. spines_get_client(fd) \in SlotsOf(fd)
  BY <1>2 DEF spines_get_client
<1> QED
  BY <1>3 DEF SlotsOf

(* The other sockets, when a step of the library is about c: their inboxes   *)
(* and sessions are as they were.                                            *)
LEMMA OthersOK ==
  ASSUME IInv, NEW c \in Client, NEW x \in Client, x # c,
         lib'[x].pc = lib[x].pc, inbox'[x] = inbox[x],
         daemon'.ses[x].live = daemon.ses[x].live, daemon'.ses[x].client = daemon.ses[x].client,
         daemon'.ses[x].answers = daemon.ses[x].answers, daemon.exited => daemon'.exited
  PROVE  InboxOK(x)'
  BY DEF IInv, InboxOK, Connected

LEMMA LibFacts ==
  ASSUME IInv, NEW c \in Client
  PROVE  /\ Types /\ TableOK /\ DaemonOK(daemon)
         /\ lib \in [Client -> LibType] /\ lib[c] \in LibType
         /\ inbox \in [Client -> Seq(Requests)] /\ inbox[c] \in Seq(Requests)
         /\ OneAnswer(c, inbox[c], lib[c].pc, daemon.ses[c].answers)
         /\ daemon.ses[c] \in SessionType
         /\ daemon.ses[c].answers \in Nat /\ daemon.ses[c].port \in Port \cup {0}
         /\ InboxOK(c)
  BY SessionTyped DEF IInv, Types, InboxOK, SessionType

LEMMA CtrlOK ==
  ASSUME IInv, NEW c \in Client, spines_socket_ctrl(c)
  PROVE  IInv'
<1> DEFINE fd == NewFd
<1>1. /\ lib[c].pc = "none" /\ ~daemon.exited /\ daemon' = Session_Accept_Ctrl(daemon, c)
      /\ lib' = [lib EXCEPT ![c].pc = "ctrl", ![c].fd = fd]
      /\ UNCHANGED <<all_clients, Max_Client, inbox, calls>>
  BY DEF spines_socket_ctrl
<1>2. fd \in Nat /\ fd \notin InUse
  BY NewFdFree DEF IInv
<1> HIDE DEF fd
<1>3. DaemonOK(daemon') /\ SameButRead(daemon, daemon')
  BY <1>1, AcceptCtrlOK DEF IInv
<1>4. /\ lib \in [Client -> LibType] /\ lib' \in [Client -> LibType]
      /\ lib'[c].pc = "ctrl" /\ lib'[c].fd = fd
      /\ \A x \in Client : x # c => lib'[x] = lib[x]
  BY <1>1, <1>2, LibFacts, ZenonT(60) DEF LibType
<1>5. Types'
  BY <1>1, <1>4, LibFacts DEF Types
<1>6. TableOK'
  <2>1. \A x \in Client : HasFd(x) => lib[x].fd # fd
    BY <1>2 DEF InUse, HasFd
  <2>2. TableOK
    BY DEF IInv
  <2> QED
    BY <1>1, <1>2, <1>4, <2>1, <2>2 DEF TableOK, HasFd, HasSlot
<1>7. ASSUME NEW x \in Client, x # c PROVE InboxOK(x)'
  BY <1>1, <1>3, <1>4, <1>7, OthersOK DEF SameButRead
<1>8. InboxOK(c)'
  <2>1. /\ daemon'.ses[c].live = daemon.ses[c].live /\ daemon'.ses[c].client = daemon.ses[c].client
        /\ daemon'.ses[c].answers = daemon.ses[c].answers
    BY <1>3 DEF SameButRead
  <2>2. OneAnswer(c, inbox[c], "ctrl", daemon.ses[c].answers) /\ ~daemon.ses[c].live
        /\ (Connected(c) \/ inbox[c] = << >>)
    BY <1>1, LibFacts, NotWaiting DEF InboxOK
  <2> QED
    BY <1>1, <1>4, <2>1, <2>2 DEF InboxOK, Connected
<1> QED
  BY <1>3, <1>5, <1>6, <1>7, <1>8 DEF IInv

LEMMA FailsOK ==
  ASSUME IInv, NEW c \in Client, spines_socket_fails(c)
  PROVE  IInv'
<1>1. /\ lib[c].pc = "ctrl" /\ lib' = [lib EXCEPT ![c].pc = "failed"]
      /\ UNCHANGED <<all_clients, Max_Client, inbox, daemon, calls>>
  BY DEF spines_socket_fails
<1>2. /\ lib' \in [Client -> LibType] /\ lib'[c].pc = "failed"
      /\ \A x \in Client : x # c => lib'[x] = lib[x]
  BY <1>1, LibFacts, ZenonT(60) DEF LibType
<1>3. Types' /\ DaemonOK(daemon')
  BY <1>1, <1>2, LibFacts DEF Types
<1>4. TableOK'
  <2>1. TableOK
    BY DEF IInv
  <2> QED
    BY <1>1, <1>2, <2>1 DEF TableOK, HasFd, HasSlot
<1>5. ASSUME NEW x \in Client, x # c PROVE InboxOK(x)'
  BY <1>1, <1>2, <1>5, OthersOK
<1>6. InboxOK(c)'
  <2>1. OneAnswer(c, inbox[c], "failed", daemon.ses[c].answers)
    BY <1>1, LibFacts, NotWaiting
  <2> QED
    BY <1>1, <1>2, <2>1, LibFacts DEF InboxOK, Connected
<1> QED
  BY <1>3, <1>4, <1>5, <1>6 DEF IInv

(* spines_socket_data: the first two requests, and a slot. *)
LEMMA FirstRequests ==
  ASSUME NEW c \in Client, NEW b \in BOOLEAN
  PROVE  /\ <<Request("CTRL_SK", 0), Request("LINKS", b)>> \in Seq(Requests)
         /\ OneAnswer(c, <<Request("CTRL_SK", 0), Request("LINKS", b)>>, "id", 0)
         /\ <<Request("CTRL_SK", 0), Request("EOF", 0)>> \in Seq(Requests)
         /\ OneAnswer(c, <<Request("CTRL_SK", 0), Request("EOF", 0)>>, "failed", 0)
<1>1. /\ Request("CTRL_SK", 0) \in Requests /\ RequestOK(Request("CTRL_SK", 0))
      /\ ~Awaited(c, Request("CTRL_SK", 0))
  BY DEF Requests, Request, RequestOK, RequestTypes, Awaited
<1>2. Request("LINKS", b) \in Requests /\ RequestOK(Request("LINKS", b))
  BY DEF Requests, Request, RequestOK, RequestTypes
<1>3. /\ Request("EOF", 0) \in Requests /\ RequestOK(Request("EOF", 0))
      /\ ~Awaited(c, Request("EOF", 0))
  BY DEF Requests, Request, RequestOK, RequestTypes, Awaited
<1>4. ASSUME NEW r \in Requests, NEW w \in Requests
      PROVE  /\ <<r, w>> \in Seq(Requests)
             /\ Len(<<r, w>>) = 2 /\ <<r, w>>[1] = r /\ <<r, w>>[2] = w
             /\ \A i \in 1 .. Len(<<r, w>>) : i = 1 \/ i = 2
  OBVIOUS
<1> DEFINE q == <<Request("CTRL_SK", 0), Request("LINKS", b)>>
           e == <<Request("CTRL_SK", 0), Request("EOF", 0)>>
<1>5. /\ q \in Seq(Requests) /\ q[1] = Request("CTRL_SK", 0) /\ q[2] = Request("LINKS", b)
      /\ \A i \in 1 .. Len(q) : i = 1 \/ i = 2
  BY <1>1, <1>2, <1>4
<1>6. /\ e \in Seq(Requests) /\ e[1] = Request("CTRL_SK", 0) /\ e[2] = Request("EOF", 0)
      /\ \A i \in 1 .. Len(e) : i = 1 \/ i = 2
  BY <1>1, <1>3, <1>4
<1> HIDE DEF q, e
<1>7. OneAnswer(c, q, "id", 0)
  BY <1>1, <1>2, <1>5 DEF OneAnswer
<1>8. OneAnswer(c, e, "failed", 0)
  BY <1>1, <1>3, <1>6 DEF OneAnswer
<1> QED
  BY <1>5, <1>6, <1>7, <1>8 DEF q, e

LEMMA DataOK ==
  ASSUME IInv, NEW c \in Client, spines_socket_data(c)
  PROVE  IInv'
<1> DEFINE free == {i \in Slots : all_clients[i].udp_sk = -1}
           slot == Lowest(free)
           fd   == lib[c].fd
<1>1. /\ lib[c].pc = "ctrl" /\ ~daemon.exited /\ daemon' = Session_Accept(daemon, c)
      /\ \/ /\ free # {}
            /\ \E supported \in BOOLEAN :
                  inbox' = [inbox EXCEPT ![c] = <<Request("CTRL_SK", 0),
                                                  Request("LINKS", supported)>>]
            /\ lib' = [lib EXCEPT ![c].pc = "id", ![c].slot = slot]
            /\ all_clients' = [all_clients EXCEPT ![slot] = [udp_sk |-> fd, vport |-> 0]]
            /\ Max_Client' = IF slot = Max_Client THEN Max_Client + 1 ELSE Max_Client
         \/ /\ inbox' = [inbox EXCEPT ![c] = <<Request("CTRL_SK", 0), Request("EOF", 0)>>]
            /\ lib' = [lib EXCEPT ![c].pc = "failed"]
            /\ UNCHANGED <<all_clients, Max_Client>>
  BY DEF spines_socket_data
<1>2. /\ lib[c] \in LibType /\ fd \in Nat /\ ~daemon.ses[c].live /\ daemon.ses[c].answers = 0
      /\ Types /\ TableOK /\ DaemonOK(daemon)
  <2>1. daemon.ses[c].answers # 1 /\ daemon.ses[c].answers <= 1 /\ daemon.ses[c].answers \in Nat
    BY <1>1, LibFacts DEF OneAnswer
  <2>2. daemon.ses[c].answers = 0
    BY <2>1
  <2>3. lib[c].pc = "ctrl" /\ lib[c] \in LibType /\ Types /\ TableOK /\ DaemonOK(daemon) /\ InboxOK(c)
    BY <1>1, LibFacts
  <2>4. fd \in Nat
    BY <2>3 DEF TableOK, HasFd
  <2>5. ~daemon.ses[c].live
    BY <2>3 DEF InboxOK
  <2> QED
    BY <2>2, <2>3, <2>4, <2>5
<1>3. /\ DaemonOK(daemon')
      /\ \A x \in Client : x # c => daemon'.ses[x] = daemon.ses[x]
      /\ daemon'.ses[c].answers = 0
      /\ daemon'.exited \/ Connected(c)'
  BY <1>1, <1>2, SessionAcceptOK DEF Connected
<1>4. ASSUME NEW q \in Seq(Requests), inbox' = [inbox EXCEPT ![c] = q], OneAnswer(c, q, lib'[c].pc, 0),
             \A x \in Client : x # c => lib'[x] = lib[x], lib'[c].pc \in {"id", "failed"}
      PROVE  inbox' \in [Client -> Seq(Requests)] /\ \A x \in Client : InboxOK(x)'
  <2>1. /\ inbox' \in [Client -> Seq(Requests)] /\ inbox'[c] = q
        /\ \A x \in Client : x # c => inbox'[x] = inbox[x]
    BY <1>4, LibFacts
  <2>2. ASSUME NEW x \in Client, x # c PROVE InboxOK(x)'
    BY <1>1, <1>3, <1>4, <2>1, <2>2, OthersOK
  <2>3. InboxOK(c)'
    BY <1>3, <1>4, <2>1 DEF InboxOK
  <2> QED
    BY <2>1, <2>2, <2>3
<1>5. CASE /\ free # {}
           /\ \E supported \in BOOLEAN :
                 inbox' = [inbox EXCEPT ![c] = <<Request("CTRL_SK", 0),
                                                 Request("LINKS", supported)>>]
           /\ lib' = [lib EXCEPT ![c].pc = "id", ![c].slot = slot]
           /\ all_clients' = [all_clients EXCEPT ![slot] = [udp_sk |-> fd, vport |-> 0]]
           /\ Max_Client' = IF slot = Max_Client THEN Max_Client + 1 ELSE Max_Client
  <2>1. slot \in Slots /\ all_clients[slot].udp_sk = -1 /\ slot <= Max_Client
    <3>1. free \subseteq Nat
      BY DEF Slots
    <3>2. slot \in free /\ \A y \in free : slot <= y
      <4> HIDE DEF free
      <4> QED
        BY <1>5, <3>1, LowestIsLeast
    <3>3. Max_Client \in 0 .. MAX_APP_CLIENTS /\ MAX_APP_CLIENTS \in Nat
      BY <1>2, CSAssumption DEF Types
    <3>4. slot \in Nat /\ slot < MAX_APP_CLIENTS
      BY <3>2, <3>3 DEF Slots
    <3>5. Max_Client \in Slots => Max_Client \in free
      BY <1>2, <3>3 DEF TableOK
    <3>6. Max_Client \in Slots \/ Max_Client = MAX_APP_CLIENTS
      BY <3>3 DEF Slots
    <3> HIDE DEF slot
    <3>7. slot <= Max_Client
      BY <3>2, <3>3, <3>4, <3>5, <3>6
    <3> QED
      BY <3>2, <3>7
  <2> HIDE DEF slot, free
  <2>2. /\ lib' \in [Client -> LibType] /\ lib'[c].pc = "id" /\ lib'[c].slot = slot
        /\ lib'[c].fd = fd
        /\ \A x \in Client : x # c => lib'[x] = lib[x]
    BY <1>5, <2>1, LibFacts, ZenonT(60) DEF LibType
  <2>3. /\ all_clients' \in [Slots -> [udp_sk : Nat \cup {-1}, vport : Port \cup {0}]]
        /\ all_clients'[slot].udp_sk = fd
        /\ \A i \in Slots : i # slot => all_clients'[i] = all_clients[i]
    BY <1>2, <1>5, <2>1 DEF Types
  <2>4. /\ Max_Client' \in 0 .. MAX_APP_CLIENTS /\ slot < Max_Client'
        /\ Max_Client \in Nat /\ Max_Client' \in Nat /\ Max_Client <= Max_Client'
    <3>1. Max_Client \in 0 .. MAX_APP_CLIENTS /\ MAX_APP_CLIENTS \in Nat
      BY <1>2, CSAssumption DEF Types
    <3>2. slot \in Nat /\ slot < MAX_APP_CLIENTS /\ slot <= Max_Client
      BY <2>1, <3>1 DEF Slots
    <3>3. Max_Client' = IF slot = Max_Client THEN Max_Client + 1 ELSE Max_Client
      BY <1>5
    <3> QED
      BY <3>1, <3>2, <3>3
  <2>5. TableOK'
    <3>1. \A i \in Slots : all_clients'[i].udp_sk # -1 => i < Max_Client'
      BY <1>2, <2>3, <2>4 DEF TableOK, Slots
    <3>2. \A x \in Client : HasFd(x)' => lib'[x].fd \in Nat /\ lib'[x].fd = lib[x].fd /\ HasFd(x)
      BY <1>1, <1>2, <2>2 DEF TableOK, HasFd
    <3>3. ASSUME NEW x \in Client, HasSlot(x)'
          PROVE  lib'[x].slot \in Slots /\ all_clients'[lib'[x].slot].udp_sk = lib'[x].fd
      <4>1. CASE x = c
        BY <2>1, <2>2, <2>3, <4>1
      <4>2. CASE x # c
        <5>1. /\ lib[x].slot \in Slots /\ all_clients[lib[x].slot].udp_sk = lib[x].fd
              /\ lib[x].fd \in Nat /\ lib'[x] = lib[x]
          BY <1>2, <2>2, <3>3, <4>2 DEF TableOK, HasSlot, HasFd
        <5>2. lib[x].slot # slot
          BY <2>1, <5>1
        <5> QED
          BY <2>3, <5>1, <5>2
      <4> QED
        BY <4>1, <4>2
    <3> QED
      BY <1>2, <3>1, <3>2, <3>3 DEF TableOK
  <2>6. PICK supported \in BOOLEAN :
          inbox' = [inbox EXCEPT ![c] = <<Request("CTRL_SK", 0), Request("LINKS", supported)>>]
    BY <1>5
  <2>7. inbox' \in [Client -> Seq(Requests)] /\ \A x \in Client : InboxOK(x)'
    BY <1>4, <2>2, <2>6, FirstRequests
  <2> QED
    BY <1>3, <2>2, <2>3, <2>4, <2>5, <2>7 DEF IInv, Types
<1>6. CASE /\ inbox' = [inbox EXCEPT ![c] = <<Request("CTRL_SK", 0), Request("EOF", 0)>>]
           /\ lib' = [lib EXCEPT ![c].pc = "failed"]
           /\ UNCHANGED <<all_clients, Max_Client>>
  <2>1. /\ lib' \in [Client -> LibType] /\ lib'[c].pc = "failed"
        /\ \A x \in Client : x # c => lib'[x] = lib[x]
    BY <1>6, LibFacts DEF LibType
  <2>2. TRUE \in BOOLEAN
    OBVIOUS
  <2>3. inbox' \in [Client -> Seq(Requests)] /\ \A x \in Client : InboxOK(x)'
    BY <1>4, <1>6, <2>1, <2>2, FirstRequests
  <2>4. TableOK'
    BY <1>2, <1>6, <2>1 DEF TableOK, HasFd, HasSlot
  <2> QED
    BY <1>2, <1>3, <1>6, <2>1, <2>3, <2>4 DEF IInv, Types
<1> QED
  BY <1>1, <1>5, <1>6

(* A step that moves the application on and may change the port in a slot:   *)
(* descriptors and slots are as they were.                                   *)
LEMMA TableKept ==
  ASSUME IInv, NEW c \in Client, NEW pc, lib'[c].pc = pc,
         lib' \in [Client -> LibType], lib'[c].fd = lib[c].fd, lib'[c].slot = lib[c].slot,
         \A x \in Client : x # c => lib'[x] = lib[x],
         pc \in {"open", "bind"} => HasSlot(c),
         pc \in {"open", "bind", "failed"},
         \A i \in Slots : all_clients'[i].udp_sk = all_clients[i].udp_sk,
         Max_Client' = Max_Client
  PROVE  TableOK'
<1>1. TableOK
  BY DEF IInv
<1>2. \A x \in Client : /\ HasSlot(x)' => HasSlot(x) /\ lib'[x].slot = lib[x].slot
                        /\ HasFd(x)' => HasFd(x)
                        /\ lib'[x].fd = lib[x].fd
  BY DEF HasSlot, HasFd
<1> QED
  BY <1>1, <1>2 DEF TableOK

(* The answer that a socket waits for, or the end of its connection. *)
LEMMA AnswerOK ==
  ASSUME IInv, NEW c \in Client, spines_socket_id(c) \/ spines_bind_answer(c)
  PROVE  IInv'
<1> DEFINE a == daemon.ses[c].answers
<1>1. /\ lib[c].pc \in {"id", "bind"} /\ ~daemon.exited /\ UNCHANGED <<Max_Client, inbox, calls>>
  BY DEF spines_socket_id, spines_bind_answer
<1>2. /\ Types /\ TableOK /\ DaemonOK(daemon) /\ lib[c] \in LibType /\ a \in Nat
      /\ OneAnswer(c, inbox[c], lib[c].pc, a) /\ InboxOK(c)
      /\ lib[c].slot \in Slots /\ HasSlot(c)
      /\ all_clients \in [Slots -> [udp_sk : Nat \cup {-1}, vport : Port \cup {0}]]
      /\ lib \in [Client -> LibType]
  BY <1>1, LibFacts DEF TableOK, HasSlot, Types
<1>3. ASSUME NEW t \in Port \cup {0}, NEW pc \in {"open", "failed"},
             \/ /\ a > 0 /\ pc = "open" /\ daemon' = [daemon EXCEPT !.ses[c].answers = @ - 1]
             \/ /\ a = 0 /\ ~Connected(c) /\ daemon' = daemon,
             lib' = [lib EXCEPT ![c].pc = pc, ![c].told = t],
             all_clients' \in [Slots -> [udp_sk : Nat \cup {-1}, vport : Port \cup {0}]],
             \A i \in Slots : all_clients'[i].udp_sk = all_clients[i].udp_sk
      PROVE  IInv'
  <2>1. /\ lib' \in [Client -> LibType] /\ lib'[c].pc = pc
        /\ lib'[c].fd = lib[c].fd /\ lib'[c].slot = lib[c].slot
        /\ \A x \in Client : x # c => lib'[x] = lib[x]
    BY <1>2, <1>3 DEF LibType
  <2>2. Types'
    BY <1>1, <1>2, <1>3, <2>1 DEF Types
  <2>3. TableOK'
    <3>1. pc \in {"open", "bind", "failed"} /\ Max_Client' = Max_Client
      BY <1>1
    <3> QED
      BY <1>2, <1>3, <2>1, <3>1, TableKept
  <2>4. /\ DaemonOK(daemon')
        /\ \A x \in Client : x # c => daemon'.ses[x] = daemon.ses[x]
        /\ daemon'.ses[c].live = daemon.ses[c].live /\ daemon'.ses[c].client = daemon.ses[c].client
        /\ daemon'.exited = daemon.exited
        /\ a > 0 => daemon'.ses[c].answers = a - 1
        /\ a = 0 => daemon'.ses[c].answers = a
    <3>1. CASE a > 0
      <4>1. daemon' = TakeAnswer(daemon, c)
        BY <1>3, <3>1 DEF TakeAnswer
      <4>2. /\ DaemonOK(daemon')
            /\ \A x \in Client : x # c => daemon'.ses[x] = daemon.ses[x]
            /\ daemon'.ses[c].live = daemon.ses[c].live
            /\ daemon'.ses[c].client = daemon.ses[c].client
            /\ daemon'.ses[c].answers = daemon.ses[c].answers - 1
            /\ daemon'.exited = daemon.exited
        BY <1>2, <3>1, <4>1, AnswerTaken
      <4> QED
        BY <3>1, <4>2
    <3>2. CASE a = 0
      <4>1. daemon' = daemon
        BY <1>3, <3>2
      <4> QED
        BY <1>2, <3>2, <4>1
    <3> QED
      BY <1>2, <3>1, <3>2
  <2>5. ASSUME NEW x \in Client, x # c PROVE InboxOK(x)'
    BY <1>1, <2>1, <2>4, <2>5, OthersOK
  <2>6. OneAnswer(c, inbox[c], pc, daemon'.ses[c].answers)
    <3>1. CASE a > 0
      <4>1. a = 1 /\ daemon'.ses[c].answers = 0
        BY <1>2, <2>4, <3>1 DEF OneAnswer
      <4>2. \A i \in 1 .. Len(inbox[c]) : ~Awaited(c, inbox[c][i])
        BY <1>2, <4>1 DEF OneAnswer
      <4> QED
        BY <1>2, <4>1, <4>2 DEF OneAnswer
    <3>2. CASE a = 0
      <4>1. inbox[c] = << >> /\ daemon'.ses[c].answers = 0
        BY <1>1, <1>2, <1>3, <2>4, <3>2 DEF InboxOK
      <4> QED
        BY <4>1 DEF OneAnswer
    <3> QED
      BY <1>2, <3>1, <3>2
  <2>7. InboxOK(c)'
    BY <1>1, <1>2, <1>3, <2>1, <2>4, <2>6 DEF InboxOK, Connected
  <2> QED
    BY <2>2, <2>3, <2>4, <2>5, <2>7 DEF IInv
<1>4. ASSUME NEW v \in Port \cup {0}, all_clients' = [all_clients EXCEPT ![lib[c].slot].vport = v]
      PROVE  /\ all_clients' \in [Slots -> [udp_sk : Nat \cup {-1}, vport : Port \cup {0}]]
             /\ \A i \in Slots : all_clients'[i].udp_sk = all_clients[i].udp_sk
  BY <1>2, <1>4
<1>5. ASSUME NEW pc \in {"open", "failed"} , lib' = [lib EXCEPT ![c].pc = pc]
      PROVE  lib' = [lib EXCEPT ![c].pc = pc, ![c].told = lib[c].told] /\ lib[c].told \in Port \cup {0}
  BY <1>2, <1>5 DEF LibType
<1>6. daemon.ses[c].port \in Port \cup {0} /\ lib[c].told \in Port \cup {0}
      /\ all_clients[lib[c].slot].vport \in Port \cup {0}
  BY <1>2, LibFacts DEF LibType
<1>7. CASE spines_socket_id(c)
  <2>1. CASE /\ a > 0 /\ daemon' = [daemon EXCEPT !.ses[c].answers = @ - 1]
             /\ all_clients' = [all_clients EXCEPT ![lib[c].slot].vport = daemon.ses[c].port]
             /\ lib' = [lib EXCEPT ![c].pc = "open", ![c].told = daemon.ses[c].port]
    BY <1>3, <1>4, <1>6, <2>1
  <2>2. CASE /\ a = 0 /\ daemon.ses[c].closing /\ UNCHANGED <<all_clients, daemon>>
             /\ lib' = [lib EXCEPT ![c].pc = "failed"]
    <3>1. ~Connected(c)
      BY <1>2, <2>2 DEF DaemonOK, ClosingOK, Connected
    <3> QED
      BY <1>2, <1>3, <1>5, <2>2, <3>1
  <2> QED
    BY <1>7, <2>1, <2>2 DEF spines_socket_id
<1>8. CASE spines_bind_answer(c)
  <2>1. CASE /\ a > 0 /\ daemon' = [daemon EXCEPT !.ses[c].answers = @ - 1]
             /\ lib' = [lib EXCEPT ![c].pc = "open"]
             /\ all_clients' = [all_clients EXCEPT ![lib[c].slot].vport = lib[c].told]
    BY <1>3, <1>4, <1>5, <1>6, <2>1
  <2>2. CASE /\ a = 0 /\ ~Connected(c) /\ UNCHANGED <<all_clients, daemon>>
             /\ lib' = [lib EXCEPT ![c].pc = "open", ![c].told = all_clients[lib[c].slot].vport]
    BY <1>2, <1>3, <1>6, <2>2
  <2> QED
    BY <1>8, <2>1, <2>2 DEF spines_bind_answer
<1> QED
  BY <1>7, <1>8

(* A call on an open socket sends one request.  Nobody waits for its answer, *)
(* except with spines_bind on a socket that uses UDP_CONNECT.                *)
LEMMA RequestSent ==
  ASSUME IInv, NEW c \in Client, lib[c].pc = "open", Connected(c),
         NEW r \in Requests, RequestOK(r), Send(c, r), UNCHANGED daemon,
         lib' \in [Client -> LibType], \A x \in Client : x # c => lib'[x] = lib[x],
         lib'[c].pc \in {"open", "bind", "closed"}, Awaited(c, r) => lib'[c].pc = "bind"
  PROVE  inbox' \in [Client -> Seq(Requests)] /\ \A x \in Client : InboxOK(x)'
<1> DEFINE q == inbox[c]
           w == Append(q, r)
           a == daemon.ses[c].answers
           pc == lib'[c].pc
<1>1. /\ q \in Seq(Requests) /\ OneAnswer(c, q, "open", a) /\ a \in Nat
      /\ inbox \in [Client -> Seq(Requests)]
  BY LibFacts
<1>2. /\ \A i \in 1 .. Len(q) : ~Awaited(c, q[i])
      /\ a = 0 /\ OneAnswer(c, q, pc, a)
  <2>1. /\ \A i \in 1 .. Len(q) : ~Awaited(c, q[i])
        /\ a # 1 /\ a <= 1 /\ OneAnswer(c, q, pc, a)
    BY <1>1, NotWaiting DEF OneAnswer
  <2> HIDE DEF a, q, pc
  <2> QED
    BY <1>1, <2>1
<1> HIDE DEF a, pc, q
<1>3. OneAnswer(c, w, pc, a) /\ w \in Seq(Requests)
  <2>1. CASE ~Awaited(c, r)
    BY <1>1, <1>2, <2>1, SendPlain
  <2>2. CASE Awaited(c, r)
    <3>1. pc = "bind" /\ w \in Seq(Requests)
      BY <1>1, <2>2 DEF pc
    <3>2. \A i \in 1 .. Len(w) : \/ i \in 1 .. Len(q) /\ w[i] = q[i]
                                 \/ i = Len(q) + 1 /\ w[i] = r
      BY <1>1
    <3> HIDE DEF w
    <3> QED
      BY <1>1, <1>2, <3>1, <3>2 DEF OneAnswer
  <2> QED
    BY <2>1, <2>2
<1>4. /\ inbox' \in [Client -> Seq(Requests)] /\ inbox'[c] = w
      /\ \A x \in Client : x # c => inbox'[x] = inbox[x]
  BY <1>1, <1>3 DEF Send, q
<1> HIDE DEF w
<1>5. ASSUME NEW x \in Client, x # c PROVE InboxOK(x)'
  BY <1>4, <1>5, OthersOK
<1>6. InboxOK(c)'
  <2>1. Connected(c)' /\ daemon'.ses[c].answers = a
    BY DEF Connected, a
  <2>2. lib'[c].pc = pc /\ pc \notin {"none", "ctrl"}
    BY DEF pc
  <2> QED
    BY <1>3, <1>4, <2>1, <2>2 DEF InboxOK
<1> QED
  BY <1>4, <1>5, <1>6

LEMMA PlainRequests ==
  /\ \A t \in {"LISTEN", "ACCEPT", "FLOOD_RECV", "OPTION", "DATA", "EOF"} :
        Request(t, 0) \in Requests /\ RequestOK(Request(t, 0))
          /\ \A c \in Client : ~Awaited(c, Request(t, 0))
  /\ \A t \in {"JOIN", "LEAVE"}, g \in Group :
        Request(t, g) \in Requests /\ RequestOK(Request(t, g))
          /\ \A c \in Client : ~Awaited(c, Request(t, g))
  /\ \A b \in BOOLEAN : Request("CONNECT", b) \in Requests /\ RequestOK(Request("CONNECT", b))
          /\ \A c \in Client : ~Awaited(c, Request("CONNECT", b))
  /\ \A n \in Int : Request("FLOOD_SEND", n) \in Requests /\ RequestOK(Request("FLOOD_SEND", n))
          /\ \A c \in Client : ~Awaited(c, Request("FLOOD_SEND", n))
  /\ \A p \in BindPorts : Request("BIND", p) \in Requests /\ RequestOK(Request("BIND", p))
          /\ \A c \in Client : Awaited(c, Request("BIND", p)) <=> c \in UdpConnect
  BY CSAssumption DEF Requests, Request, RequestOK, RequestTypes, Awaited

LEMMA SendingCallOK ==
  ASSUME IInv, NEW c \in Client, SendingCall(c)
  PROVE  IInv'
<1>1. Calls(c) /\ UNCHANGED <<lib, all_clients, Max_Client, daemon>>
  BY DEF SendingCall, spines_listen, spines_connect, spines_accept, spines_sendto,
         spines_flood_send, spines_flood_recv, spines_setsockopt
<1>2. PICK r \in Requests : RequestOK(r) /\ ~Awaited(c, r) /\ Send(c, r)
  <2>1. CASE spines_listen(c)
    BY <2>1, PlainRequests DEF spines_listen
  <2>2. CASE spines_connect(c)
    BY <2>2, PlainRequests DEF spines_connect
  <2>3. CASE spines_accept(c)
    BY <2>3, PlainRequests DEF spines_accept
  <2>4. CASE spines_sendto(c)
    BY <2>4, PlainRequests DEF spines_sendto
  <2>5. CASE spines_flood_send(c)
    <3>1. PICK n \in 1 .. MaxPackets : Send(c, Request("FLOOD_SEND", n))
      BY <2>5 DEF spines_flood_send
    <3>2. n \in Int
      BY CSAssumption
    <3> QED
      BY <3>1, <3>2, PlainRequests
  <2>6. CASE spines_flood_recv(c)
    BY <2>6, PlainRequests DEF spines_flood_recv
  <2>7. CASE spines_setsockopt(c)
    BY <2>7, PlainRequests DEF spines_setsockopt
  <2> QED
    BY <2>1, <2>2, <2>3, <2>4, <2>5, <2>6, <2>7 DEF SendingCall
<1>3. /\ lib' = lib /\ lib \in [Client -> LibType] /\ lib[c].pc = "open" /\ Connected(c)
      /\ UNCHANGED daemon
  BY <1>1, LibFacts DEF Calls
<1>4. inbox' \in [Client -> Seq(Requests)] /\ \A x \in Client : InboxOK(x)'
  BY <1>2, <1>3, RequestSent
<1>5. Types' /\ TableOK' /\ DaemonOK(daemon')
  BY <1>1, <1>4 DEF IInv, Types, TableOK, HasFd, HasSlot
<1> QED
  BY <1>4, <1>5 DEF IInv

LEMMA BindOK ==
  ASSUME IInv, NEW c \in Client, spines_bind(c)
  PROVE  IInv'
<1>1. PICK p \in BindPorts :
        /\ Calls(c) /\ Send(c, Request("BIND", p)) /\ UNCHANGED <<Max_Client, daemon>>
        /\ \/ /\ c \in UdpConnect
              /\ lib' = [lib EXCEPT ![c].pc = "bind", ![c].told = p] /\ UNCHANGED all_clients
           \/ /\ c \notin UdpConnect
              /\ lib' = [lib EXCEPT ![c].told = p]
              /\ all_clients' = [all_clients EXCEPT ![spines_get_client(lib[c].fd)].vport = p]
  BY DEF spines_bind
<1> DEFINE i == spines_get_client(lib[c].fd)
<1>2. /\ lib[c].pc = "open" /\ Connected(c) /\ lib \in [Client -> LibType] /\ lib[c] \in LibType
      /\ i \in Slots /\ p \in Port \cup {0} /\ HasSlot(c)
      /\ all_clients \in [Slots -> [udp_sk : Nat \cup {-1}, vport : Port \cup {0}]]
  BY <1>1, LibFacts, GetClientFinds DEF Calls, Types, Port, HasSlot
<1> HIDE DEF i
<1>3. /\ lib' \in [Client -> LibType] /\ lib'[c].pc \in {"open", "bind"}
      /\ c \in UdpConnect => lib'[c].pc = "bind"
      /\ lib'[c].fd = lib[c].fd /\ lib'[c].slot = lib[c].slot
      /\ \A x \in Client : x # c => lib'[x] = lib[x]
  BY <1>1, <1>2, SMTT(60) DEF LibType
<1>4. /\ all_clients' \in [Slots -> [udp_sk : Nat \cup {-1}, vport : Port \cup {0}]]
      /\ \A j \in Slots : all_clients'[j].udp_sk = all_clients[j].udp_sk
  BY <1>1, <1>2 DEF i
<1>5. inbox' \in [Client -> Seq(Requests)] /\ \A x \in Client : InboxOK(x)'
  <2>1. Request("BIND", p) \in Requests /\ RequestOK(Request("BIND", p))
        /\ (Awaited(c, Request("BIND", p)) => c \in UdpConnect)
    BY PlainRequests
  <2> QED
    BY <1>1, <1>2, <1>3, <2>1, RequestSent
<1>6. TableOK'
  BY <1>1, <1>2, <1>3, <1>4, TableKept
<1>7. Types' /\ DaemonOK(daemon')
  BY <1>1, <1>3, <1>4, <1>5 DEF IInv, Types
<1> QED
  BY <1>5, <1>6, <1>7 DEF IInv

(* spines_close frees a slot of its descriptor, which no other socket has.   *)
LEMMA LibCloseOK ==
  ASSUME IInv, NEW c \in Client, spines_close(c)
  PROVE  IInv'
<1> DEFINE i == spines_get_client(lib[c].fd)
<1>1. /\ lib[c].pc = "open" /\ i # -1 /\ UNCHANGED <<daemon, calls>>
      /\ all_clients' = [all_clients EXCEPT ![i].udp_sk = -1]
      /\ Max_Client' = IF i = Max_Client - 1 THEN Max_Client - 1 ELSE Max_Client
      /\ lib' = [lib EXCEPT ![c].pc = "closed"]
      /\ IF Connected(c) /\ Reaches(c) THEN Send(c, Request("EOF", 0)) ELSE UNCHANGED inbox
  BY DEF spines_close
<1>2. /\ i \in Slots /\ i < Max_Client /\ all_clients[i].udp_sk = lib[c].fd
      /\ Types /\ TableOK /\ lib[c].fd \in Nat /\ i \in Nat
      /\ Max_Client \in 0 .. MAX_APP_CLIENTS /\ MAX_APP_CLIENTS \in Nat
  <2>1. Types /\ TableOK
    BY LibFacts
  <2>2. lib[c].fd \in Nat
    BY <1>1, <2>1 DEF TableOK, HasFd
  <2>3. i \in Slots /\ i < Max_Client /\ all_clients[i].udp_sk = lib[c].fd
    BY <1>1, <2>1, <2>2, GetClientFinds
  <2>4. Max_Client \in 0 .. MAX_APP_CLIENTS /\ MAX_APP_CLIENTS \in Nat
    BY <2>1, CSAssumption DEF Types
  <2> HIDE DEF i
  <2>5. i \in Nat
    BY <2>3, <2>4 DEF Slots
  <2> QED
    BY <2>1, <2>2, <2>3, <2>4, <2>5
<1> HIDE DEF i
<1>3. /\ lib' \in [Client -> LibType] /\ lib'[c].pc = "closed"
      /\ \A x \in Client : x # c => lib'[x] = lib[x]
  BY <1>1, LibFacts, ZenonT(60) DEF LibType
<1>4. /\ all_clients' \in [Slots -> [udp_sk : Nat \cup {-1}, vport : Port \cup {0}]]
      /\ all_clients'[i].udp_sk = -1
      /\ \A j \in Slots : j # i => all_clients'[j] = all_clients[j]
  BY <1>1, <1>2 DEF Types
<1>5. /\ Max_Client' \in 0 .. MAX_APP_CLIENTS
      /\ \A j \in Slots : j < Max_Client /\ j # i => j < Max_Client'
  BY <1>1, <1>2 DEF Slots
<1>6. TableOK'
  <2>1. \A j \in Slots : all_clients'[j].udp_sk # -1 => j < Max_Client'
    BY <1>2, <1>4, <1>5 DEF TableOK
  <2>2. ASSUME NEW x \in Client, HasSlot(x)'
        PROVE  lib'[x].slot \in Slots /\ all_clients'[lib'[x].slot].udp_sk = lib'[x].fd
    <3>1. /\ x # c /\ lib'[x] = lib[x] /\ HasSlot(x) /\ HasFd(x) /\ HasFd(c)
      BY <1>1, <1>3, <2>2 DEF HasSlot, HasFd
    <3>2. /\ lib[x].slot \in Slots /\ all_clients[lib[x].slot].udp_sk = lib[x].fd
          /\ lib[x].fd # lib[c].fd
      BY <1>2, <3>1 DEF TableOK
    <3>3. lib[x].slot # i
      BY <1>2, <3>2
    <3> QED
      BY <1>4, <3>1, <3>2, <3>3
  <2>3. \A x \in Client : HasFd(x)' => x # c /\ lib'[x] = lib[x] /\ HasFd(x)
    BY <1>3 DEF HasFd
  <2> QED
    BY <1>2, <2>1, <2>2, <2>3 DEF TableOK
<1>7. inbox' \in [Client -> Seq(Requests)] /\ \A x \in Client : InboxOK(x)'
  <2>1. CASE Connected(c) /\ Reaches(c)
    <3>1. Request("EOF", 0) \in Requests /\ RequestOK(Request("EOF", 0))
          /\ ~Awaited(c, Request("EOF", 0))
      BY PlainRequests
    <3> QED
      BY <1>1, <1>3, <2>1, <3>1, RequestSent
  <2>2. CASE ~(Connected(c) /\ Reaches(c))
    <3>1. inbox' = inbox /\ daemon' = daemon
      BY <1>1, <2>2
    <3>2. ASSUME NEW x \in Client, x # c PROVE InboxOK(x)'
      BY <1>3, <3>1, <3>2, OthersOK
    <3>3. InboxOK(c)'
      <4>1. OneAnswer(c, inbox[c], "closed", daemon.ses[c].answers)
        BY <1>1, LibFacts, NotWaiting
      <4> QED
        BY <1>3, <3>1, <4>1, LibFacts DEF InboxOK, Connected
    <3> QED
      BY <3>1, <3>2, <3>3, LibFacts
  <2> QED
    BY <2>1, <2>2
<1>8. Types' /\ DaemonOK(daemon')
  BY <1>1, <1>3, <1>4, <1>5, <1>7 DEF IInv, Types
<1> QED
  BY <1>6, <1>7, <1>8 DEF IInv

-----------------------------------------------------------------------------
(* The theorems. *)

LEMMA NextOK == IInv /\ [Next]_vars => IInv'
<1> SUFFICES ASSUME IInv, [Next]_vars PROVE IInv'
  OBVIOUS
<1>1. CASE UNCHANGED vars
  <2>1. Types' /\ TableOK' /\ DaemonOK(daemon')
    BY <1>1 DEF IInv, Types, TableOK, HasFd, HasSlot, vars
  <2>2. \A c \in Client : InboxOK(c)'
    BY <1>1 DEF IInv, InboxOK, Connected, vars
  <2> QED
    BY <2>1, <2>2 DEF IInv
<1>2. CASE LinkBlocks \/ LinkResumes
  BY <1>2, LinksOK
<1>3. ASSUME NEW c \in Client,
             \/ Session_Read(c) \/ Try_Close_Session(c) \/ Session_Flooder_Send(c)
             \/ RelSessionDrains(c) \/ FlowDrains(c) \/ ReliableSessionEnds(c)
      PROVE  IInv'
  BY <1>3, SessionReadOK, TryCloseOK, FlooderOK, DrainsOK, ReliableEndsOK
<1>4. ASSUME NEW c \in Client,
             \/ spines_socket_ctrl(c) \/ spines_socket_data(c) \/ spines_socket_fails(c)
             \/ spines_socket_id(c) \/ spines_bind(c) \/ spines_bind_answer(c)
             \/ SendingCall(c) \/ spines_close(c)
      PROVE  IInv'
  BY <1>4, CtrlOK, DataOK, FailsOK, AnswerOK, BindOK, SendingCallOK, LibCloseOK
<1> QED
  BY <1>1, <1>2, <1>3, <1>4 DEF Next

LEMMA Invariance == Spec => []IInv
<1>1. Init => IInv
  BY InitOK
<1>2. IInv /\ [Next]_vars => IInv'
  BY NextOK
<1> QED
  BY <1>1, <1>2, PTL DEF Spec

(* However ports are assigned, bound, refused and freed, Deliver_UDP_Data    *)
(* finds every session from Session_Accept to the end of Session_Close by    *)
(* its port; and the variables stay in their ranges, an open socket having   *)
(* at most one answer of the daemon to read.                                 *)
THEOREM PortsAlwaysFind == Spec => []PortsFindSessions
<1>1. IInv => PortsFindSessions
  <2> SUFFICES ASSUME IInv PROVE PortsFindSessions
    OBVIOUS
  <2>1. ASSUME NEW c \in Client
        PROVE  /\ lib[c].pc \in {"none", "ctrl", "id", "open", "bind", "failed", "closed"}
               /\ lib[c].slot \in Slots \cup {-1}
               /\ daemon.ses[c].type \in {"UDP", "LISTEN", "RELIABLE"}
               /\ daemon.ses[c].client \in {"ON", "OFF", "ORPHAN"}
               /\ daemon.ses[c].groups \subseteq Group
               /\ daemon.ses[c].port \in Port \cup {0}
               /\ daemon.ses[c].answers \in 0 .. MaxRequests + 1
    <3>1. lib[c] \in LibType /\ daemon.ses[c] \in SessionType
      BY LibFacts
    <3>2. daemon.ses[c].answers \in Nat /\ daemon.ses[c].answers <= 1
      BY LibFacts DEF OneAnswer
    <3>3. daemon.ses[c].answers \in 0 .. MaxRequests + 1
      BY <3>2, CSAssumption
    <3> QED
      BY <3>1, <3>3 DEF LibType, SessionType
  <2>2. Max_Client \in 0 .. MAX_APP_CLIENTS
    BY DEF IInv, Types
  <2>3. \A p \in Port : daemon.Sessions_Port[p] \in Client \cup {Nobody}
    BY DEF IInv, DaemonOK, DaemonType
  <2> QED
    BY <2>1, <2>2, <2>3 DEF PortsFindSessions, TypeOK, Live, IInv, DaemonOK, PortsOK
<1> QED
  BY <1>1, Invariance, PTL

(* The groups that sessions are in and the sessions that groups hold agree,  *)
(* also while Session_Close leaves them a few at a time.                     *)
THEOREM MembershipAgrees == Spec => []GroupsAgree
<1>1. IInv => GroupsAgree
  <2> SUFFICES ASSUME IInv, NEW g \in Group
               PROVE  daemon.joined[g] = {c \in Live(daemon) : g \in daemon.ses[c].groups}
    BY DEF GroupsAgree
  <2>1. daemon.joined[g] \subseteq Client
    BY DEF IInv, DaemonOK, DaemonType
  <2>2. \A c \in Client : c \in daemon.joined[g] <=> daemon.ses[c].live /\ g \in daemon.ses[c].groups
    BY DEF IInv, DaemonOK, GroupsOK
  <2> QED
    BY <2>1, <2>2 DEF Live
<1> QED
  BY <1>1, Invariance, PTL

(* Three mechanisms block sessions and each resumes what it blocked: a       *)
(* session with a client that is not read always has one of them left.       *)
THEOREM NobodyForgotten == Spec => []NobodyLeftBlocked
<1>1. IInv => NobodyLeftBlocked
  BY DEF IInv, DaemonOK, ReadOK, NobodyLeftBlocked, Live
<1> QED
  BY <1>1, Invariance, PTL

-----------------------------------------------------------------------------
(* The library's table. *)

(* A slot in use is that of an open socket, or it holds the descriptor of a  *)
(* socket that failed and left a slot with it behind.  The slot itself need  *)
(* not be the one left behind: a close frees the lower of two slots with its *)
(* descriptor, and then its own stays.                                       *)
Owned(i) == \E c \in Client : HasSlot(c) /\ lib[c].slot = i
Stray(i) == LeftSlot(all_clients[i].udp_sk)
StrayOK  == \A i \in Slots : all_clients[i].udp_sk # -1 => Owned(i) \/ Stray(i)

(* A step of the socket c that changes no descriptor in the table and takes  *)
(* the slot of c away only by a failure.                                     *)
LEMMA StrayKept ==
  ASSUME IInv, StrayOK, NEW c \in Client, lib[c].pc # "failed",
         \A x \in Client : x # c => lib'[x] = lib[x],
         HasSlot(c) => /\ lib'[c].pc \in {"id", "open", "bind", "failed"}
                       /\ lib'[c].slot = lib[c].slot /\ lib'[c].fd = lib[c].fd,
         \A i \in Slots : all_clients'[i].udp_sk = all_clients[i].udp_sk
  PROVE  StrayOK'
<1> SUFFICES ASSUME NEW i \in Slots, all_clients'[i].udp_sk # -1
             PROVE  Owned(i)' \/ Stray(i)'
  BY DEF StrayOK
<1>1. all_clients[i].udp_sk # -1 /\ all_clients'[i].udp_sk = all_clients[i].udp_sk
  OBVIOUS
<1>2. CASE Stray(i)
  BY <1>1, <1>2 DEF Stray, LeftSlot
<1>3. CASE Owned(i)
  <2>1. PICK x \in Client : HasSlot(x) /\ lib[x].slot = i
    BY <1>3 DEF Owned
  <2>2. all_clients[i].udp_sk = lib[x].fd /\ i # -1
    BY <2>1, LibFacts DEF TableOK, Slots
  <2>3. lib'[x].slot = i /\ lib'[x].fd = lib[x].fd /\ lib'[x].pc \in {"id", "open", "bind", "failed"}
    BY <2>1 DEF HasSlot
  <2>4. CASE lib'[x].pc = "failed"
    BY <1>1, <2>2, <2>3, <2>4 DEF Stray, LeftSlot
  <2>5. CASE lib'[x].pc # "failed"
    BY <2>3, <2>5 DEF Owned, HasSlot
  <2> QED
    BY <2>4, <2>5
<1> QED
  BY <1>1, <1>2, <1>3 DEF StrayOK

(* spines_socket takes a slot. *)
LEMMA StrayData ==
  ASSUME IInv, StrayOK, NEW c \in Client, spines_socket_data(c)
  PROVE  StrayOK'
<1> DEFINE free == {i \in Slots : all_clients[i].udp_sk = -1}
           slot == Lowest(free)
<1>1. /\ lib[c].pc = "ctrl" /\ lib[c].pc # "failed" /\ ~HasSlot(c)
      /\ lib \in [Client -> LibType] /\ lib[c] \in LibType
      /\ all_clients \in [Slots -> [udp_sk : Nat \cup {-1}, vport : Port \cup {0}]]
  BY LibFacts DEF spines_socket_data, HasSlot, Types
<1>2. CASE free = {}
  <2>1. lib' = [lib EXCEPT ![c].pc = "failed"] /\ all_clients' = all_clients
    BY <1>2 DEF spines_socket_data
  <2>2. \A x \in Client : x # c => lib'[x] = lib[x]
    BY <1>1, <2>1
  <2> QED
    BY <1>1, <2>1, <2>2, StrayKept
<1>3. CASE free # {}
  <2>1. /\ lib' = [lib EXCEPT ![c].pc = "id", ![c].slot = slot]
        /\ all_clients' = [all_clients EXCEPT ![slot] = [udp_sk |-> lib[c].fd, vport |-> 0]]
    BY <1>3 DEF spines_socket_data
  <2>2. PICK k \in Slots : k = slot
    <3>1. free \subseteq Nat
      BY DEF Slots
    <3> HIDE DEF free
    <3>2. slot \in free
      BY <1>3, <3>1, LowestIsLeast
    <3> QED
      BY <3>2 DEF free
  <2> HIDE DEF slot, free
  <2>3. /\ lib'[c].pc = "id" /\ lib'[c].slot = k
        /\ \A x \in Client : x # c => lib'[x] = lib[x]
        /\ \A i \in Slots : i # k => all_clients'[i] = all_clients[i]
    BY <1>1, <2>1, <2>2, ZenonT(60) DEF LibType
  <2>4. Owned(k)'
    BY <2>3 DEF Owned, HasSlot
  <2>5. ASSUME NEW i \in Slots, i # k, all_clients'[i].udp_sk # -1
        PROVE  Owned(i)' \/ Stray(i)'
    <3>1. all_clients'[i] = all_clients[i] /\ (Owned(i) \/ Stray(i))
      BY <2>3, <2>5 DEF StrayOK
    <3>2. CASE Owned(i)
      BY <1>1, <2>3, <3>2 DEF Owned, HasSlot
    <3>3. CASE Stray(i)
      BY <1>1, <2>3, <3>1, <3>3 DEF Stray, LeftSlot
    <3> QED
      BY <3>1, <3>2, <3>3
  <2> QED
    BY <2>4, <2>5 DEF StrayOK
<1> QED
  BY <1>2, <1>3

(* spines_close frees the slot found.  If that is not its own, a slot with   *)
(* its descriptor had been left behind.                                      *)
LEMMA StrayClose ==
  ASSUME IInv, StrayOK, NEW c \in Client, spines_close(c)
  PROVE  StrayOK'
<1> DEFINE i == spines_get_client(lib[c].fd)
<1>1. /\ lib[c].pc = "open" /\ i # -1 /\ lib' = [lib EXCEPT ![c].pc = "closed"]
      /\ all_clients' = [all_clients EXCEPT ![i].udp_sk = -1]
  BY DEF spines_close
<1>2. /\ Types /\ TableOK /\ lib \in [Client -> LibType] /\ lib[c] \in LibType
      /\ HasSlot(c) /\ HasFd(c)
      /\ all_clients \in [Slots -> [udp_sk : Nat \cup {-1}, vport : Port \cup {0}]]
  BY <1>1, LibFacts DEF HasSlot, HasFd, Types
<1>3. i \in Slots /\ all_clients[i].udp_sk = lib[c].fd /\ lib[c].fd # -1
  BY <1>1, <1>2, GetClientFinds DEF TableOK
<1> HIDE DEF i
<1>4. /\ \A x \in Client : x # c => lib'[x] = lib[x]
      /\ all_clients'[i].udp_sk = -1
      /\ \A j \in Slots : j # i => all_clients'[j] = all_clients[j]
  BY <1>1, <1>2, <1>3
<1>5. \A fd : LeftSlot(fd) => LeftSlot(fd)'
  BY <1>1, <1>4 DEF LeftSlot
<1>6. i # lib[c].slot => Stray(i)
  <2>1. ASSUME NEW x \in Client, HasSlot(x), lib[x].slot = i PROVE x = c
    <3>1. HasFd(x) /\ lib[x].fd = lib[c].fd
      BY <1>2, <1>3, <2>1 DEF TableOK, HasFd, HasSlot
    <3> QED
      BY <1>2, <3>1 DEF TableOK
  <2> QED
    BY <1>3, <2>1 DEF StrayOK, Owned
<1> SUFFICES ASSUME NEW j \in Slots, all_clients'[j].udp_sk # -1
             PROVE  Owned(j)' \/ Stray(j)'
  BY DEF StrayOK
<1>7. j # i /\ all_clients'[j] = all_clients[j] /\ (Owned(j) \/ Stray(j))
  BY <1>4 DEF StrayOK
<1>8. CASE Stray(j)
  BY <1>5, <1>7, <1>8 DEF Stray
<1>9. CASE Owned(j) /\ j # lib[c].slot
  BY <1>4, <1>9 DEF Owned, HasSlot
<1>10. CASE j = lib[c].slot
  <2>1. all_clients[j].udp_sk = all_clients[i].udp_sk
    BY <1>2, <1>3, <1>10 DEF TableOK
  <2> QED
    BY <1>5, <1>6, <1>7, <1>10, <2>1 DEF Stray
<1> QED
  BY <1>7, <1>8, <1>9, <1>10

LEMMA StrayStep ==
  ASSUME IInv, StrayOK, [Next]_vars
  PROVE  StrayOK'
<1>1. CASE lib' = lib /\ all_clients' = all_clients
  BY <1>1 DEF StrayOK, Owned, Stray, LeftSlot, HasSlot
<1>2. ASSUME NEW c \in Client,
             \/ spines_socket_ctrl(c) \/ spines_socket_fails(c) \/ spines_socket_id(c)
             \/ spines_bind(c) \/ spines_bind_answer(c)
      PROVE  StrayOK'
  <2>1. /\ lib \in [Client -> LibType] /\ lib[c] \in LibType
        /\ all_clients \in [Slots -> [udp_sk : Nat \cup {-1}, vport : Port \cup {0}]]
    BY LibFacts DEF Types
  <2>2. /\ lib[c].pc # "failed"
        /\ \A x \in Client : x # c => lib'[x] = lib[x]
        /\ HasSlot(c) => /\ lib'[c].pc \in {"id", "open", "bind", "failed"}
                         /\ lib'[c].slot = lib[c].slot /\ lib'[c].fd = lib[c].fd
    <3>1. CASE spines_socket_ctrl(c)
      <4>1. lib[c].pc = "none" /\ lib' = [lib EXCEPT ![c].pc = "ctrl", ![c].fd = NewFd]
        BY <3>1 DEF spines_socket_ctrl
      <4> QED
        BY <2>1, <4>1 DEF HasSlot
    <3>2. CASE spines_socket_fails(c)
      <4>1. lib[c].pc = "ctrl" /\ lib' = [lib EXCEPT ![c].pc = "failed"]
        BY <3>2 DEF spines_socket_fails
      <4> QED
        BY <2>1, <4>1 DEF HasSlot
    <3>3. CASE spines_socket_id(c)
      <4>1. /\ lib[c].pc = "id"
            /\ \/ lib' = [lib EXCEPT ![c].pc = "failed"]
               \/ lib' = [lib EXCEPT ![c].pc = "open", ![c].told = daemon.ses[c].port]
        BY <3>3 DEF spines_socket_id
      <4> QED
        BY <2>1, <4>1 DEF LibType
    <3>4. CASE spines_bind(c)
      <4>1. PICK p \in BindPorts :
              /\ lib[c].pc = "open"
              /\ \/ lib' = [lib EXCEPT ![c].pc = "bind", ![c].told = p]
                 \/ lib' = [lib EXCEPT ![c].told = p]
        BY <3>4 DEF spines_bind, Calls
      <4> QED
        BY <2>1, <4>1 DEF LibType
    <3>5. CASE spines_bind_answer(c)
      <4>1. /\ lib[c].pc = "bind"
            /\ \/ lib' = [lib EXCEPT ![c].pc = "open"]
               \/ lib' = [lib EXCEPT ![c].pc = "open", ![c].told = all_clients[lib[c].slot].vport]
        BY <3>5 DEF spines_bind_answer
      <4> QED
        BY <2>1, <4>1 DEF LibType
    <3> QED
      BY <1>2, <3>1, <3>2, <3>3, <3>4, <3>5
  <2>3. \A i \in Slots : all_clients'[i].udp_sk = all_clients[i].udp_sk
    <3>1. \/ all_clients' = all_clients
          \/ \E k, p : all_clients' = [all_clients EXCEPT ![k].vport = p]
      BY <1>2, Zenon DEF spines_socket_ctrl, spines_socket_fails, spines_socket_id, spines_bind,
                         spines_bind_answer
    <3> QED
      BY <2>1, <3>1
  <2> QED
    BY <2>2, <2>3, StrayKept
<1>3. ASSUME NEW c \in Client,
             \/ Session_Read(c) \/ Try_Close_Session(c) \/ Session_Flooder_Send(c)
             \/ RelSessionDrains(c) \/ FlowDrains(c) \/ ReliableSessionEnds(c) \/ SendingCall(c)
             \/ LinkBlocks \/ LinkResumes
      PROVE  lib' = lib /\ all_clients' = all_clients
  BY <1>3 DEF Session_Read, Try_Close_Session, Session_Flooder_Send, RelSessionDrains, FlowDrains,
              ReliableSessionEnds, SendingCall, LinkBlocks, LinkResumes, libvars
<1>4. LinkBlocks \/ LinkResumes => lib' = lib /\ all_clients' = all_clients
  BY DEF LinkBlocks, LinkResumes, libvars
<1>5. CASE UNCHANGED vars
  BY <1>1, <1>5 DEF vars
<1>6. CASE Next
  BY <1>1, <1>2, <1>3, <1>4, <1>6, StrayData, StrayClose DEF Next
<1> QED
  BY <1>5, <1>6

LEMMA StrayAlways == Spec => []StrayOK
<1>1. Init => StrayOK
  BY DEF Init, StrayOK, Free
<1>2. IInv /\ StrayOK /\ [Next]_vars => StrayOK'
  BY StrayStep
<1> QED
  BY <1>1, <1>2, Invariance, PTL DEF Spec

(* However sockets are opened and closed, fail leaving their slot behind and *)
(* have their descriptor used again: spines_get_client finds every socket in *)
(* use, never at the slot of another one, and at its own slot unless a       *)
(* failed socket left one with the same descriptor behind.                   *)
THEOREM SlotsStayVisible == Spec => []SlotsVisible
<1>1. IInv /\ StrayOK => SlotsVisible
  <2> SUFFICES ASSUME IInv, StrayOK, NEW c \in Client, HasSlot(c)
               PROVE  LET client == spines_get_client(lib[c].fd)
                      IN  /\ client # -1
                          /\ \A e \in Client \ {c} : HasSlot(e) => client # lib[e].slot
                          /\ client = lib[c].slot \/ LeftSlot(lib[c].fd)
    BY DEF SlotsVisible
  <2> DEFINE client == spines_get_client(lib[c].fd)
  <2>1. /\ Types /\ TableOK /\ HasFd(c) /\ lib[c].slot \in Slots /\ lib[c].fd \in Nat
        /\ all_clients[lib[c].slot].udp_sk = lib[c].fd /\ lib[c].slot < Max_Client
    BY LibFacts DEF TableOK, HasSlot, HasFd
  <2>2. client # -1
    <3>1. lib[c].slot \in SlotsOf(lib[c].fd)
      BY <2>1 DEF SlotsOf
    <3>2. SlotsOf(lib[c].fd) \subseteq Nat
      BY DEF SlotsOf, Slots
    <3>3. client \in Nat
      BY <3>1, <3>2, LowestIsLeast DEF spines_get_client
    <3> QED
      BY <3>3
  <2>3. client \in Slots /\ all_clients[client].udp_sk = lib[c].fd
    BY <2>1, <2>2, GetClientFinds
  <2> HIDE DEF client
  <2>4. ASSUME NEW e \in Client, HasSlot(e), client = lib[e].slot PROVE e = c
    <3>1. HasFd(e) /\ lib[e].fd = lib[c].fd
      BY <2>1, <2>3, <2>4 DEF TableOK, HasFd, HasSlot
    <3> QED
      BY <2>1, <3>1 DEF TableOK
  <2>5. Owned(client) \/ Stray(client)
    BY <2>1, <2>3 DEF StrayOK
  <2>6. client = lib[c].slot \/ LeftSlot(lib[c].fd)
    BY <2>3, <2>4, <2>5 DEF Owned, Stray
  <2> QED
    BY <2>2, <2>4, <2>6 DEF client
<1> QED
  BY <1>1, Invariance, StrayAlways, PTL
=============================================================================
