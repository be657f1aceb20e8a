----------------------- MODULE ReliableSession_proofs ----------------------
(***************************************************************************)
(* Proofs of the safety properties of ReliableSession, for every size of   *)
(* the windows and buffers, every option, number of messages and bound:    *)
(* Sequenced, NoAlarmExit and EndsComplete.                                *)
(***************************************************************************)
EXTENDS ReliableSession, FiniteSetTheorems, WellFoundedInduction, TLAPS

-----------------------------------------------------------------------------
(* Arithmetic of the slots. *)

(* The slot of a sequence number is an index of window[] and recv_window[]. *)
LEMMA SlotInIndex ==
  ASSUME NEW k \in Nat PROVE Slot(k) \in Index
  BY SizeAssumption DEF Slot, Index

LEMMA MultipleAtLeast ==
  ASSUME NEW w \in Nat \ {0}, NEW k \in Int, k >= 1 PROVE w * k >= w
  OBVIOUS

LEMMA ModInjective ==
  ASSUME NEW w \in Nat \ {0}, NEW a \in Nat, NEW b \in Nat,
         a <= b, b < a + w, a % w = b % w
  PROVE  a = b
<1> DEFINE x == a \div w
           y == b \div w
<1>1. a = w * x + (a % w) /\ b = w * y + (b % w) /\ x \in Nat /\ y \in Nat
  OBVIOUS
<1>2. b - a = w * (y - x)
  BY <1>1
<1>3. CASE y - x >= 1
  BY <1>1, <1>2, <1>3, MultipleAtLeast
<1>4. CASE y - x <= -1
  <2>1. w * (x - y) >= w
    BY <1>1, <1>4, MultipleAtLeast
  <2>2. w * (y - x) = -(w * (x - y))
    BY <1>1
  <2> QED
    BY <1>1, <1>2, <2>1, <2>2
<1>5. CASE y = x
  BY <1>1, <1>5
<1> QED
  BY <1>1, <1>3, <1>4, <1>5

(* Two sequence numbers less than MAX_WINDOW apart never share a slot. *)
LEMMA SlotInjective ==
  ASSUME NEW a \in Nat, NEW b \in Nat, Slot(a) = Slot(b),
         a < b + MAX_WINDOW, b < a + MAX_WINDOW
  PROVE  a = b
<1>1. CASE a <= b
  BY <1>1, ModInjective, SizeAssumption DEF Slot
<1>2. CASE b <= a
  BY <1>2, ModInjective, SizeAssumption DEF Slot
<1> QED
  BY <1>1, <1>2

LEMMA SlotInjectiveFrom ==
  ASSUME NEW t \in Nat, NEW a \in t .. t + MAX_WINDOW - 1,
         NEW b \in t .. t + MAX_WINDOW - 1, Slot(a) = Slot(b)
  PROVE  a = b
  BY SlotInjective, SizeAssumption

-----------------------------------------------------------------------------
(* Types.  The sets of the components have names of their own, so that the   *)
(* type of a changed component is a fact and not a formula to search in.     *)

Flags  == {"UNAVAILABLE", "CONNECT_WAIT", "ACCEPT_WAIT", "CONNECTED", "DISCONNECT"}
Events == {"hello", "close", "try", "one", "ack", "timeout", "nack"}
States == {"none", "open", "closed"}
Clients == {"ON", "OFF", "ORPHAN"}
Socks  == {"open", "closed"}

Packets ==
  [to : Side \cup {"listener"}, type : {"HELLO", "DISCNCT", "CLOSE", "DATA", "ACK"},
   seq_no : Nat, ack : Nat, adv_win : Int, nacks : SUBSET Nat]

Ints     == Seq(Int)
Nats     == Seq(Nat)
SendWin  == [Index -> Nat \cup {NoBuff}]
RecvWin  == [Index -> Int]
OutSet   == SUBSET Packets
NatSet   == SUBSET Nat
EventSet == SUBSET Events

SessionType ==
  [state : States, flags : Flags, client : Clients, sock : Socks,
   disconnecting : BOOLEAN, last_seq_sent : Int, hello_cnt : Int,
   seq_no : Nat, head : Nat, tail : Nat, window : SendWin,
   window_size : Int, ssthresh : Int, msg_buff : Nats, rel_blocked : BOOLEAN,
   recv_head : Nat, recv_tail : Nat, recv_window : RecvWin,
   adv_win : Int, nack_buff : NatSet, scheduled_ack : BOOLEAN,
   scheduled_timeout : BOOLEAN, events : EventSet, rel_deliver_buff : Ints,
   writing : BOOLEAN, out : OutSet, got : Ints, ended : BOOLEAN,
   exited : BOOLEAN, reused : BOOLEAN]

-----------------------------------------------------------------------------
(* The inductive invariant.  It is stated of one Session record, so that it  *)
(* speaks of every intermediate record of a handler as well.                 *)

(* The j-th message a client reads. *)
Expected(j) == IF j = 1 THEN Hello ELSE j - 2

(* The messages of q are the ones after the first m. *)
Numbered(q, m) == \A j \in 1 .. Len(q) : q[j] = Expected(m + j)

(* The sending half: msg_buff continues where the window ends, and every     *)
(* message of the window that is not acknowledged is in its slot.            *)
SendOK(r) ==
  /\ r.tail <= r.head /\ r.head <= r.seq_no
  /\ r.head - r.tail <= MAX_WINDOW /\ r.window_size <= MAX_WINDOW
  /\ Len(r.msg_buff) = r.seq_no - r.head
  /\ \A j \in 1 .. Len(r.msg_buff) : r.msg_buff[j] = r.head + j - 1
  /\ \A q \in r.tail .. r.head - 1 : r.window[Slot(q)] = q
  /\ ~r.exited

(* The receiving half: a full slot holds its message of the current window.  *)
RecvOK(r) ==
  /\ r.recv_tail <= r.recv_head /\ r.recv_head <= r.recv_tail + MAX_WINDOW
  /\ \A i \in Index : r.recv_window[i] >= 0 =>
       /\ Slot(r.recv_window[i]) = i
       /\ r.recv_tail <= r.recv_window[i] /\ r.recv_window[i] < r.recv_tail + MAX_WINDOW

(* What the client has read and what waits for it are the messages before    *)
(* recv_tail, after the hello that completed the connection.                 *)
GotOK(r) == Numbered(r.got, 0)
StreamOK(r) ==
  r.client = "ON" =>
    /\ Numbered(r.rel_deliver_buff, Len(r.got))
    /\ Len(r.got) + Len(r.rel_deliver_buff) = IF r.flags = "CONNECTED" THEN r.recv_tail + 1 ELSE 0
    /\ r.flags # "CONNECTED" => r.recv_tail = 0

(* Which events and descriptors the states of a session allow. *)
StatesOK(r) ==
  /\ r.state = "open" => r.flags \in {"CONNECT_WAIT", "ACCEPT_WAIT", "CONNECTED"}
  /\ r.state # "open" => r.events = {} /\ ~r.writing
  /\ "ack" \in r.events \/ "nack" \in r.events \/ r.writing => r.flags = "CONNECTED"
  /\ r.writing => r.client = "ON"
  /\ r.sock = IF r.client = "ON" THEN "open" ELSE "closed"
  /\ r.state = "none" => r.client = "ON" /\ ~r.disconnecting /\ ~r.ended

(* What the handler sends. *)
OutOK(s, r) ==
  /\ IsFiniteSet(r.out)
  /\ \A p \in r.out :
       /\ p.to # s
       /\ p.type = "DISCNCT" => p.seq_no = r.seq_no /\ r.client # "ON"

(* What the session knows of the end of the peer's stream: the peer has      *)
(* numbered n messages and "gone" says that it will not number more.         *)
EndsOK(r, n, gone) ==
  ~r.reused =>
    /\ r.disconnecting /\ r.client = "ON" => r.last_seq_sent = n /\ gone
    /\ r.ended => r.client # "ON" /\ r.recv_tail = n /\ gone

Base(s, r) == r \in SessionType /\ SendOK(r) /\ RecvOK(r) /\ GotOK(r) /\ StatesOK(r) /\ OutOK(s, r)

Good(s, r, n, gone) == Base(s, r) /\ StreamOK(r) /\ EndsOK(r, n, gone)

(* An orphan stays one and numbers no more messages. *)
Kept(r, e) == r.client # "ON" => e.client # "ON" /\ e.seq_no = r.seq_no

Gone(s) == ses[s].client # "ON"

NetOK ==
  /\ IsFiniteSet(net) /\ Cardinality(net) <= MaxNet
  /\ net \subseteq Packets
  /\ \A p \in net, s \in Side :
       p.to = s /\ p.type = "DISCNCT" => p.seq_no = ses[Peer(s)].seq_no /\ Gone(Peer(s))

IInv ==
  /\ ses \in [Side -> SessionType]
  /\ \A s \in Side : Good(s, ses[s], ses[Peer(s)].seq_no, Gone(Peer(s))) /\ ses[s].out = {}
  /\ NetOK

-----------------------------------------------------------------------------
(* The two sides. *)

LEMMA Peers ==
  ASSUME NEW s \in Side
  PROVE  Peer(s) \in Side /\ Peer(s) # s /\ Peer(Peer(s)) = s
  BY DEF Peer, Side

LEMMA OtherSide ==
  ASSUME NEW s \in Side, NEW t \in Side, s # t
  PROVE  t = Peer(s) /\ s = Peer(t)
  BY Peers DEF Side

(* Steps that change neither the stream to the client nor what is known of   *)
(* its end.                                                                  *)
Like(s, r, e) ==
  /\ e \in SessionType /\ SendOK(e) /\ RecvOK(e) /\ StatesOK(e) /\ OutOK(s, e)
  /\ e.state = r.state /\ e.flags = r.flags /\ e.client = r.client /\ e.sock = r.sock
  /\ e.disconnecting = r.disconnecting /\ e.ended = r.ended /\ e.reused = r.reused
  /\ e.recv_tail = r.recv_tail /\ e.got = r.got /\ e.rel_deliver_buff = r.rel_deliver_buff
  /\ r.client = "ON" => e.last_seq_sent = r.last_seq_sent
  /\ r.client # "ON" => e.seq_no = r.seq_no

LEMMA LikeGood ==
  ASSUME NEW s \in Side, NEW n, NEW gone, NEW r, NEW e, Good(s, r, n, gone), Like(s, r, e)
  PROVE  Good(s, e, n, gone) /\ Kept(r, e) /\ Base(s, e)
  BY DEF Good, Base, Like, GotOK, StreamOK, EndsOK, Kept

LEMMA LikeBase ==
  ASSUME NEW s, NEW r, NEW e, Base(s, r), Like(s, r, e)
  PROVE  Base(s, e)
  BY DEF Base, Like, GotOK

LEMMA LikeTrans ==
  ASSUME NEW s, NEW r, NEW e, NEW f, Like(s, r, e), Like(s, e, f)
  PROVE  Like(s, r, f)
  BY DEF Like

LEMMA LikeSelf ==
  ASSUME NEW s, NEW r, Base(s, r)
  PROVE  Like(s, r, r)
  BY DEF Base, Like

(* The fields a Session record has in common with another one, by the half   *)
(* of the invariant that speaks of them.                                     *)
SameSend(r, e) ==
  /\ e.seq_no = r.seq_no /\ e.head = r.head /\ e.tail = r.tail /\ e.window = r.window
  /\ e.window_size = r.window_size /\ e.msg_buff = r.msg_buff /\ e.exited = r.exited
SameRecv(r, e) ==
  e.recv_head = r.recv_head /\ e.recv_tail = r.recv_tail /\ e.recv_window = r.recv_window
SameRest(r, e) ==
  /\ e.state = r.state /\ e.flags = r.flags /\ e.client = r.client /\ e.sock = r.sock
  /\ e.disconnecting = r.disconnecting /\ e.ended = r.ended /\ e.reused = r.reused
  /\ e.recv_tail = r.recv_tail /\ e.got = r.got /\ e.rel_deliver_buff = r.rel_deliver_buff
  /\ e.writing = r.writing

LEMMA SendSame ==
  ASSUME NEW r, NEW e, SendOK(r), SameSend(r, e)
  PROVE  SendOK(e)
  BY DEF SendOK, SameSend

LEMMA RecvSame ==
  ASSUME NEW r, NEW e, RecvOK(r), SameRecv(r, e)
  PROVE  RecvOK(e)
  BY DEF RecvOK, SameRecv

(* Events come and go. *)
LEMMA StatesSame ==
  ASSUME NEW r, NEW e, StatesOK(r), SameRest(r, e), r.state = "open",
         "ack" \in e.events => "ack" \in r.events \/ r.flags = "CONNECTED",
         "nack" \in e.events => "nack" \in r.events \/ r.flags = "CONNECTED"
  PROVE  StatesOK(e)
  BY DEF StatesOK, SameRest

LEMMA OutSame ==
  ASSUME NEW s, NEW r, NEW e, OutOK(s, r), e.out = r.out, e.seq_no = r.seq_no, e.client = r.client
  PROVE  OutOK(s, e)
  BY DEF OutOK

(* A handler changes timers, flags of the queue and adv_win only. *)
LEMMA QuietStep ==
  ASSUME NEW s, NEW r, NEW e, Base(s, r), r.state = "open", e \in SessionType,
         SameSend(r, e), SameRecv(r, e), SameRest(r, e), e.last_seq_sent = r.last_seq_sent,
         e.out = r.out,
         "ack" \in e.events => "ack" \in r.events \/ r.flags = "CONNECTED",
         "nack" \in e.events => "nack" \in r.events \/ r.flags = "CONNECTED"
  PROVE  Like(s, r, e)
<1>1. SendOK(e) /\ RecvOK(e) /\ StatesOK(e)
  BY SendSame, RecvSame, StatesSame DEF Base
<1>2. OutOK(s, e)
  BY OutSame DEF Base, SameSend, SameRest
<1> QED
  BY <1>1, <1>2 DEF Like, SameRest, SameSend

LEMMA ScheduleTimeoutLike ==
  ASSUME NEW s, NEW r, Base(s, r), r.state = "open"
  PROVE  Like(s, r, ScheduleTimeout(r))
<1> DEFINE v == r.events \cup {"timeout"}
           e == ScheduleTimeout(r)
<1>1. r \in SessionType
  BY DEF Base
<1>2. v \in EventSet
  BY <1>1 DEF SessionType, EventSet, Events
<1>3. e = [r EXCEPT !.events = v, !.scheduled_timeout = TRUE]
  BY DEF ScheduleTimeout
<1>4. "ack" \in v => "ack" \in r.events
  OBVIOUS
<1>5. "nack" \in v => "nack" \in r.events
  OBVIOUS
<1> HIDE DEF v, e
<1>6. e \in SessionType /\ e.events = v
  BY <1>1, <1>2, <1>3, ZenonT(60) DEF SessionType
<1>7. SameSend(r, e) /\ SameRecv(r, e) /\ SameRest(r, e) /\ e.last_seq_sent = r.last_seq_sent /\ e.out = r.out
  BY <1>1, <1>3 DEF SessionType, SameSend, SameRecv, SameRest
<1>8. Like(s, r, e)
  BY <1>4, <1>5, <1>6, <1>7, QuietStep
<1> QED
  BY <1>8 DEF e

-----------------------------------------------------------------------------
(* A session begins and ends. *)

LEMMA FreshType ==
  ASSUME NEW flags \in Flags, NEW stale \in Int
  PROVE  /\ Fresh(flags, stale) \in SessionType
         /\ Fresh(flags, stale).window_size <= MAX_WINDOW
<1> DEFINE w == [i \in Index |-> NoBuff]
           v == [i \in Index |-> EMPTY_CELL]
           ws == IF TCP_Fairness THEN Lesser(10, MAX_CG_WINDOW \div 2) ELSE MAX_CG_WINDOW \div 2
           ss == MAX_CG_WINDOW \div 2
           last == Larger(stale, 0)
           d == stale # NotStale
           ns == {}
           es == {}
           os == {}
           mb == << >>
           g == << >>
           e == Fresh(flags, stale)
<1>1. w \in SendWin /\ v \in RecvWin
  BY DEF SendWin, RecvWin, NoBuff, EMPTY_CELL
<1>2. ws \in Int /\ ss \in Int /\ ws <= MAX_WINDOW
  BY SizeAssumption DEF Lesser
<1>3. last \in Int /\ d \in BOOLEAN
  BY DEF Larger
<1>4. ns \in NatSet /\ es \in EventSet /\ os \in OutSet /\ mb \in Nats /\ g \in Ints
  BY DEF NatSet, EventSet, OutSet, Nats, Ints
<1>5. "open" \in States /\ "ON" \in Clients /\ "open" \in Socks /\ MAX_BUFF_SESS \in Int
  BY SizeAssumption DEF States, Clients, Socks
<1>6. e = [state |-> "open", flags |-> flags, client |-> "ON", sock |-> "open",
           disconnecting |-> d, last_seq_sent |-> last, hello_cnt |-> 0,
           seq_no |-> 0, head |-> 0, tail |-> 0, window |-> w, window_size |-> ws,
           ssthresh |-> ss, msg_buff |-> mb, rel_blocked |-> FALSE,
           recv_head |-> 0, recv_tail |-> 0, recv_window |-> v,
           adv_win |-> MAX_BUFF_SESS, nack_buff |-> ns, scheduled_ack |-> FALSE,
           scheduled_timeout |-> FALSE, events |-> es, rel_deliver_buff |-> g,
           writing |-> FALSE, out |-> os, got |-> g, ended |-> FALSE,
           exited |-> FALSE, reused |-> d]
  BY DEF Fresh
<1> HIDE DEF w, v, ws, ss, last, d, ns, es, os, mb, g, e
<1>7. e \in SessionType /\ e.window_size <= MAX_WINDOW
  BY <1>1, <1>2, <1>3, <1>4, <1>5, <1>6 DEF SessionType
<1> QED
  BY <1>7 DEF e

LEMMA FreshGood ==
  ASSUME NEW s, NEW n, NEW gone, NEW flags \in {"CONNECT_WAIT", "ACCEPT_WAIT"}, NEW stale \in Int
  PROVE  /\ Good(s, Fresh(flags, stale), n, gone)
         /\ Fresh(flags, stale).state = "open" /\ Fresh(flags, stale).client = "ON"
         /\ Fresh(flags, stale).seq_no = 0
<1> DEFINE e == Fresh(flags, stale)
<1>1. e \in SessionType /\ e.window_size <= MAX_WINDOW
  BY FreshType DEF Flags
<1>2. /\ e.state = "open" /\ e.flags = flags /\ e.client = "ON" /\ e.sock = "open"
      /\ e.disconnecting = (stale # NotStale) /\ e.seq_no = 0 /\ e.head = 0 /\ e.tail = 0
      /\ e.msg_buff = << >> /\ e.recv_head = 0 /\ e.recv_tail = 0
      /\ e.recv_window = [i \in Index |-> EMPTY_CELL] /\ e.events = {}
      /\ e.rel_deliver_buff = << >> /\ e.writing = FALSE /\ e.out = {} /\ e.got = << >>
      /\ e.ended = FALSE /\ e.exited = FALSE /\ e.reused = (stale # NotStale)
  BY DEF Fresh
<1> HIDE DEF e
<1>3. SendOK(e)
  BY <1>1, <1>2, SizeAssumption DEF SendOK
<1>4. RecvOK(e)
  BY <1>1, <1>2, SizeAssumption DEF RecvOK, EMPTY_CELL
<1>5. GotOK(e) /\ StreamOK(e)
  BY <1>2 DEF GotOK, StreamOK, Numbered
<1>6. StatesOK(e)
  BY <1>2 DEF StatesOK
<1>7. OutOK(s, e)
  BY <1>2, FS_EmptySet DEF OutOK
<1>8. EndsOK(e, n, gone)
  BY <1>2 DEF EndsOK
<1>9. Good(s, e, n, gone)
  BY <1>1, <1>3, <1>4, <1>5, <1>6, <1>7, <1>8 DEF Good, Base
<1> QED
  BY <1>2, <1>9 DEF e

LEMMA NoSessionIs ==
  /\ NoSession \in SessionType
  /\ NoSession.state = "none" /\ NoSession.flags = "UNAVAILABLE" /\ NoSession.client = "ON"
  /\ NoSession.sock = "open" /\ ~NoSession.disconnecting /\ NoSession.seq_no = 0
  /\ NoSession.head = 0 /\ NoSession.tail = 0 /\ NoSession.window_size <= MAX_WINDOW
  /\ NoSession.msg_buff = << >> /\ NoSession.recv_head = 0 /\ NoSession.recv_tail = 0
  /\ NoSession.recv_window = [i \in Index |-> EMPTY_CELL] /\ NoSession.events = {}
  /\ NoSession.rel_deliver_buff = << >> /\ ~NoSession.writing /\ NoSession.out = {}
  /\ NoSession.got = << >> /\ ~NoSession.ended /\ ~NoSession.exited
<1> DEFINE f == Fresh("UNAVAILABLE", NotStale)
<1>1. f \in SessionType /\ f.window_size <= MAX_WINDOW
  BY FreshType DEF Flags, NotStale
<1>2. /\ f.flags = "UNAVAILABLE" /\ f.client = "ON" /\ f.sock = "open"
      /\ ~f.disconnecting /\ f.seq_no = 0 /\ f.head = 0 /\ f.tail = 0
      /\ f.msg_buff = << >> /\ f.recv_head = 0 /\ f.recv_tail = 0
      /\ f.recv_window = [i \in Index |-> EMPTY_CELL] /\ f.events = {}
      /\ f.rel_deliver_buff = << >> /\ ~f.writing /\ f.out = {} /\ f.got = << >>
      /\ ~f.ended /\ ~f.exited
  BY DEF Fresh
<1>3. NoSession = [f EXCEPT !.state = "none"]
  BY DEF NoSession
<1>4. "none" \in States
  BY DEF States
<1> HIDE DEF f
<1> QED
  BY <1>1, <1>2, <1>3, <1>4 DEF SessionType

LEMMA NoSessionGood ==
  ASSUME NEW s, NEW n, NEW gone
  PROVE  Good(s, NoSession, n, gone)
<1>1. SendOK(NoSession)
  BY NoSessionIs, SizeAssumption DEF SendOK
<1>2. RecvOK(NoSession)
  BY NoSessionIs, SizeAssumption DEF RecvOK, EMPTY_CELL
<1>3. GotOK(NoSession) /\ StreamOK(NoSession)
  BY NoSessionIs DEF GotOK, StreamOK, Numbered
<1>4. StatesOK(NoSession) /\ EndsOK(NoSession, n, gone)
  BY NoSessionIs DEF StatesOK, EndsOK
<1>5. OutOK(s, NoSession)
  BY NoSessionIs, FS_EmptySet DEF OutOK
<1> QED
  BY <1>1, <1>2, <1>3, <1>4, <1>5, NoSessionIs DEF Good, Base

(* What Session_Close needs: the numbering of what the client has read, and  *)
(* that a session ended by the peer is complete.                             *)
Complete(r, n, gone) == ~r.reused /\ r.ended => r.recv_tail = n /\ gone

LEMMA Session_CloseGood ==
  ASSUME NEW s, NEW n, NEW gone, NEW r \in SessionType, GotOK(r), ~r.exited,
         Complete(r, n, gone), IsFiniteSet(r.out),
         \A p \in r.out : p.to # s /\ (p.type = "DISCNCT" => p.seq_no = r.seq_no)
  PROVE  /\ Good(s, Session_Close(r), n, gone)
         /\ Session_Close(r).state = "closed" /\ Session_Close(r).client # "ON"
         /\ Session_Close(r).seq_no = r.seq_no
<1> DEFINE f == NoSession
           c == IF r.client = "ON" THEN "OFF" ELSE r.client
           g == Close_Reliable_Session(r)
           e == Session_Close(r)
<1>1. f \in SessionType
  BY NoSessionIs
<1>2. c \in Clients /\ c # "ON" /\ "closed" \in States /\ "closed" \in Socks
  BY DEF SessionType, Clients, States, Socks
<1>3. g = [f EXCEPT !.seq_no = r.seq_no, !.recv_tail = r.recv_tail, !.recv_head = r.recv_tail,
                    !.head = r.seq_no, !.tail = r.seq_no,
                    !.got = r.got, !.ended = r.ended, !.reused = r.reused, !.exited = r.exited,
                    !.out = r.out]
  BY DEF Close_Reliable_Session
<1>4. e = [g EXCEPT !.state = "closed", !.sock = "closed", !.client = c]
  BY DEF Session_Close
<1>5. /\ f.flags = "UNAVAILABLE" /\ ~f.disconnecting /\ f.window_size <= MAX_WINDOW
      /\ f.msg_buff = << >> /\ f.recv_window = [i \in Index |-> EMPTY_CELL] /\ f.events = {}
      /\ f.rel_deliver_buff = << >> /\ ~f.writing
  BY NoSessionIs
<1> HIDE DEF f, c, g, e
<1>6. g \in SessionType
  BY <1>1, <1>3, ZenonT(60) DEF SessionType
<1>7. /\ g.flags = f.flags /\ g.disconnecting = f.disconnecting /\ g.window_size = f.window_size
      /\ g.msg_buff = f.msg_buff /\ g.recv_window = f.recv_window /\ g.events = f.events
      /\ g.writing = f.writing
      /\ g.seq_no = r.seq_no /\ g.recv_tail = r.recv_tail /\ g.recv_head = r.recv_tail
      /\ g.head = r.seq_no /\ g.tail = r.seq_no /\ g.got = r.got /\ g.ended = r.ended
      /\ g.reused = r.reused /\ g.exited = r.exited /\ g.out = r.out
  BY <1>1, <1>3 DEF SessionType
<1>8. e \in SessionType
  BY <1>2, <1>4, <1>6, ZenonT(60) DEF SessionType
<1>9. /\ e.flags = g.flags /\ e.disconnecting = g.disconnecting /\ e.window_size = g.window_size
      /\ e.msg_buff = g.msg_buff /\ e.recv_window = g.recv_window /\ e.events = g.events
      /\ e.writing = g.writing
      /\ e.seq_no = g.seq_no /\ e.recv_tail = g.recv_tail /\ e.recv_head = g.recv_head
      /\ e.head = g.head /\ e.tail = g.tail /\ e.got = g.got /\ e.ended = g.ended
      /\ e.reused = g.reused /\ e.exited = g.exited /\ e.out = g.out
      /\ e.state = "closed" /\ e.client = c /\ e.sock = "closed"
  BY <1>4, <1>6 DEF SessionType
<1>10. r.seq_no \in Nat /\ r.recv_tail \in Nat
  BY DEF SessionType
<1>11. SendOK(e)
  BY <1>5, <1>7, <1>9, <1>10, SizeAssumption DEF SendOK
<1>12. RecvOK(e)
  BY <1>5, <1>7, <1>9, <1>10, SizeAssumption DEF RecvOK, EMPTY_CELL
<1>13. GotOK(e) /\ StreamOK(e)
  BY <1>2, <1>7, <1>9 DEF GotOK, StreamOK
<1>14. StatesOK(e) /\ EndsOK(e, n, gone)
  BY <1>2, <1>5, <1>7, <1>9 DEF StatesOK, EndsOK, Complete
<1>15. OutOK(s, e)
  BY <1>2, <1>7, <1>9 DEF OutOK
<1>16. Good(s, e, n, gone)
  BY <1>8, <1>11, <1>12, <1>13, <1>14, <1>15 DEF Good, Base
<1> QED
  BY <1>2, <1>7, <1>9, <1>16 DEF e

-----------------------------------------------------------------------------
(* Hellos and disconnecting. *)

LEMMA HelloOfIs ==
  ASSUME NEW s \in Side, NEW r \in SessionType, r.flags \in Flags \ {"UNAVAILABLE"}
  PROVE  /\ HelloOf(s, r) \in Packets /\ HelloOf(s, r).to # s
         /\ HelloOf(s, r).type = "DISCNCT" => HelloOf(s, r).seq_no = r.seq_no /\ r.client # "ON"
<1>1. r.seq_no \in Nat /\ Peer(s) \in Side /\ Peer(s) # s /\ "listener" # s
  BY Peers DEF SessionType, Side
<1>2. \A to \in Side \cup {"listener"}, type \in {"HELLO", "DISCNCT", "CLOSE"}, k \in Nat :
        /\ HelloPacket(to, type, k) \in Packets /\ HelloPacket(to, type, k).to = to
        /\ HelloPacket(to, type, k).type = type /\ HelloPacket(to, type, k).seq_no = k
  BY DEF HelloPacket, Packets
<1>3. CASE r.flags = "CONNECT_WAIT"
  <2>1. HelloOf(s, r) = HelloPacket("listener", "HELLO", 0)
    BY <1>3 DEF HelloOf
  <2>2. /\ HelloPacket("listener", "HELLO", 0) \in Packets
        /\ HelloPacket("listener", "HELLO", 0).to = "listener"
        /\ HelloPacket("listener", "HELLO", 0).type = "HELLO"
    BY <1>2
  <2> QED
    BY <1>1, <2>1, <2>2
<1>4. CASE r.flags = "ACCEPT_WAIT"
  <2>1. HelloOf(s, r) = HelloPacket(Peer(s), "HELLO", 1)
    BY <1>4 DEF HelloOf
  <2> QED
    BY <1>1, <1>2, <2>1
<1>5. CASE r.flags = "CONNECTED" /\ r.client = "ON"
  <2>1. HelloOf(s, r) = HelloPacket(Peer(s), "HELLO", 2)
    BY <1>5 DEF HelloOf
  <2> QED
    BY <1>1, <1>2, <2>1
<1>6. CASE r.flags = "CONNECTED" /\ r.client # "ON"
  <2>1. HelloOf(s, r) = HelloPacket(Peer(s), "DISCNCT", r.seq_no)
    BY <1>6 DEF HelloOf
  <2> QED
    BY <1>1, <1>2, <1>6, <2>1
<1>7. CASE r.flags = "DISCONNECT"
  <2>1. HelloOf(s, r) = HelloPacket(Peer(s), "CLOSE", 0)
    BY <1>7 DEF HelloOf
  <2> QED
    BY <1>1, <1>2, <2>1
<1> QED
  BY <1>3, <1>4, <1>5, <1>6, <1>7 DEF Flags

(* One more packet sent. *)
LEMMA OutMore ==
  ASSUME NEW s, NEW r \in SessionType, OutOK(s, r), NEW h \in Packets, h.to # s,
         h.type = "DISCNCT" => h.seq_no = r.seq_no /\ r.client # "ON"
  PROVE  /\ r.out \cup {h} \in OutSet /\ IsFiniteSet(r.out \cup {h})
         /\ \A p \in r.out \cup {h} :
              /\ p.to # s
              /\ p.type = "DISCNCT" => p.seq_no = r.seq_no /\ r.client # "ON"
<1>1. r.out \in OutSet
  BY DEF SessionType
<1>2. IsFiniteSet(r.out \cup {h})
  BY FS_AddElement DEF OutOK
<1> QED
  BY <1>1, <1>2 DEF OutSet, OutOK

(* Ses_Send_Rel_Hello either closes the session, which has not been          *)
(* connected, or touches nothing but timers and counters and sends a hello.  *)
LEMMA HelloSent ==
  ASSUME NEW s \in Side, NEW r \in SessionType, r.state = "open", OutOK(s, r),
         r.flags \in Flags \ {"UNAVAILABLE"}, NEW route \in BOOLEAN,
         r.flags # "CONNECTED" => ~(r.hello_cnt > Hello_Limit)
  PROVE  LET e == Ses_Send_Rel_Hello(s, r, route) IN
         /\ e \in SessionType /\ OutOK(s, e)
         /\ SameSend(r, e) /\ SameRecv(r, e) /\ SameRest(r, e)
         /\ r.client = "ON" => e.last_seq_sent = r.last_seq_sent
         /\ "ack" \in e.events => "ack" \in r.events
         /\ "nack" \in e.events => "nack" \in r.events
<1> DEFINE h == HelloOf(s, r)
           e == Ses_Send_Rel_Hello(s, r, route)
           v == r.events \cup {"hello"}
           o == r.out \cup {h}
           l == IF r.flags = "CONNECTED" /\ r.client # "ON" THEN r.seq_no ELSE r.last_seq_sent
           k == r.hello_cnt + 1
<1>1. v \in EventSet
  BY DEF SessionType, EventSet, Events
<1>2. ("ack" \in v => "ack" \in r.events) /\ ("nack" \in v => "nack" \in r.events)
  OBVIOUS
<1>3. h \in Packets /\ h.to # s /\ (h.type = "DISCNCT" => h.seq_no = r.seq_no /\ r.client # "ON")
  BY HelloOfIs
<1> HIDE DEF h
<1>4. /\ o \in OutSet /\ IsFiniteSet(o)
      /\ \A p \in o : p.to # s /\ (p.type = "DISCNCT" => p.seq_no = r.seq_no /\ r.client # "ON")
  BY <1>3, OutMore
<1>5. l \in Int /\ k \in Int /\ (r.client = "ON" => l = r.last_seq_sent)
  BY DEF SessionType
<1>6. CASE r.hello_cnt > Hello_Limit
  <2>1. e = r
    BY <1>6 DEF Ses_Send_Rel_Hello
  <2> QED
    BY <2>1 DEF SameSend, SameRecv, SameRest
<1>7. CASE ~(r.hello_cnt > Hello_Limit) /\ ~route
  <2>1. e = [r EXCEPT !.events = v]
    BY <1>7 DEF Ses_Send_Rel_Hello
  <2> HIDE DEF v, e
  <2>2. e \in SessionType /\ e.events = v
    BY <1>1, <2>1 DEF SessionType
  <2>3. SameSend(r, e) /\ SameRecv(r, e) /\ SameRest(r, e) /\ e.last_seq_sent = r.last_seq_sent /\ e.out = r.out
    BY <2>1 DEF SessionType, SameSend, SameRecv, SameRest
  <2>4. OutOK(s, e)
    BY <2>3, OutSame DEF SameSend, SameRest
  <2> QED
    BY <1>2, <2>2, <2>3, <2>4 DEF e
<1>8. CASE ~(r.hello_cnt > Hello_Limit) /\ route
  <2>1. e = [r EXCEPT !.out = o, !.last_seq_sent = l, !.hello_cnt = k, !.events = v]
    BY <1>8 DEF Ses_Send_Rel_Hello, h
  <2> HIDE DEF v, e, o, l, k
  <2>2. e \in SessionType /\ e.events = v /\ e.out = o /\ e.last_seq_sent = l
    BY <1>1, <1>4, <1>5, <2>1, ZenonT(60) DEF SessionType
  <2>3. SameSend(r, e) /\ SameRecv(r, e) /\ SameRest(r, e)
    BY <2>1 DEF SessionType, SameSend, SameRecv, SameRest
  <2>4. OutOK(s, e)
    BY <1>4, <2>2, <2>3 DEF SameSend, SameRest, OutOK
  <2> QED
    BY <1>2, <1>5, <2>2, <2>3, <2>4 DEF e
<1> QED
  BY <1>6, <1>7, <1>8

LEMMA HelloLike ==
  ASSUME NEW s \in Side, NEW r, Base(s, r), r.state = "open", NEW route \in BOOLEAN,
         r.flags # "CONNECTED" => ~(r.hello_cnt > Hello_Limit)
  PROVE  Like(s, r, Ses_Send_Rel_Hello(s, r, route))
<1> DEFINE e == Ses_Send_Rel_Hello(s, r, route)
<1>1. r \in SessionType /\ OutOK(s, r) /\ r.flags \in Flags \ {"UNAVAILABLE"}
  BY DEF Base, StatesOK, Flags
<1>2. /\ e \in SessionType /\ OutOK(s, e)
      /\ SameSend(r, e) /\ SameRecv(r, e) /\ SameRest(r, e)
      /\ r.client = "ON" => e.last_seq_sent = r.last_seq_sent
      /\ "ack" \in e.events => "ack" \in r.events
      /\ "nack" \in e.events => "nack" \in r.events
  BY <1>1, HelloSent
<1> HIDE DEF e
<1>3. SendOK(e) /\ RecvOK(e) /\ StatesOK(e)
  BY <1>2, SendSame, RecvSame, StatesSame DEF Base
<1>4. Like(s, r, e)
  BY <1>2, <1>3 DEF Like, SameRest, SameSend
<1> QED
  BY <1>4 DEF e

LEMMA Ses_Send_Rel_HelloGood ==
  ASSUME NEW s \in Side, NEW n, NEW gone, NEW r, Good(s, r, n, gone), NEW route \in BOOLEAN
  PROVE  /\ Good(s, Ses_Send_Rel_Hello(s, r, route), n, gone)
         /\ Kept(r, Ses_Send_Rel_Hello(s, r, route))
         /\ Ses_Send_Rel_Hello(s, r, route).state \in {r.state, "closed"}
<1>1. CASE r.state # "open"
  BY <1>1 DEF Ses_Send_Rel_Hello, Kept
<1>2. CASE r.state = "open" /\ (r.flags # "CONNECTED" => ~(r.hello_cnt > Hello_Limit))
  BY <1>2, HelloLike, LikeGood DEF Good, Like
<1>3. CASE r.state = "open" /\ r.flags # "CONNECTED" /\ r.hello_cnt > Hello_Limit
  <2>1. Ses_Send_Rel_Hello(s, r, route) = Session_Close(r)
    BY <1>3 DEF Ses_Send_Rel_Hello
  <2>2. r \in SessionType /\ GotOK(r) /\ ~r.exited /\ Complete(r, n, gone)
    BY DEF Good, Base, SendOK, EndsOK, Complete
  <2>3. /\ IsFiniteSet(r.out)
        /\ \A p \in r.out : p.to # s /\ (p.type = "DISCNCT" => p.seq_no = r.seq_no)
    BY DEF Good, Base, OutOK
  <2>4. /\ Good(s, Session_Close(r), n, gone)
        /\ Session_Close(r).client # "ON" /\ Session_Close(r).seq_no = r.seq_no
        /\ Session_Close(r).state = "closed"
    BY <2>2, <2>3, Session_CloseGood
  <2> QED
    BY <2>1, <2>4 DEF Kept
<1> QED
  BY <1>1, <1>2, <1>3

(* Only the events change. *)
LEMMA EventsLike ==
  ASSUME NEW s, NEW r, Base(s, r), r.state = "open", NEW v \in EventSet,
         "ack" \in v => "ack" \in r.events \/ r.flags = "CONNECTED",
         "nack" \in v => "nack" \in r.events \/ r.flags = "CONNECTED"
  PROVE  Like(s, r, [r EXCEPT !.events = v])
<1> DEFINE e == [r EXCEPT !.events = v]
<1>1. r \in SessionType
  BY DEF Base
<1>2. e \in SessionType /\ e.events = v
  BY <1>1 DEF SessionType
<1>3. SameSend(r, e) /\ SameRecv(r, e) /\ SameRest(r, e) /\ e.last_seq_sent = r.last_seq_sent /\ e.out = r.out
  BY <1>1 DEF SessionType, SameSend, SameRecv, SameRest
<1> HIDE DEF e
<1>4. Like(s, r, e)
  BY <1>2, <1>3, QuietStep
<1> QED
  BY <1>4 DEF e

(* Disconnect_Reliable_Session needs no more of the stream than that what    *)
(* the client has read is right.                                             *)
LEMMA DisconnectGood ==
  ASSUME NEW s \in Side, NEW n, NEW gone, NEW r, Base(s, r), r.state = "open",
         Complete(r, n, gone), NEW route \in BOOLEAN
  PROVE  /\ Good(s, Disconnect_Reliable_Session(s, r, route), n, gone)
         /\ Disconnect_Reliable_Session(s, r, route).client # "ON"
         /\ Disconnect_Reliable_Session(s, r, route).seq_no = r.seq_no
<1> DEFINE b == << >>
           o == [r EXCEPT !.rel_deliver_buff = << >>, !.writing = FALSE,
                          !.client = "ORPHAN", !.sock = "closed"]
           t == Ses_Send_Rel_Hello(s, o, route)
           v == t.events \cup {"close"}
           e == Disconnect_Reliable_Session(s, r, route)
<1>1. r \in SessionType
  BY DEF Base
<1>2. << >> \in Ints /\ "ORPHAN" \in Clients /\ "closed" \in Socks
  BY DEF Ints, Clients, Socks
<1>3. o \in SessionType
  <2>1. \A x \in Ints : [r EXCEPT !.rel_deliver_buff = x, !.writing = FALSE,
                                  !.client = "ORPHAN", !.sock = "closed"] \in SessionType
    BY <1>1, <1>2, ZenonT(60) DEF SessionType
  <2> QED
    BY <1>2, <2>1
<1>4. /\ o.client = "ORPHAN" /\ o.sock = "closed" /\ ~o.writing /\ o.state = "open"
      /\ o.flags = r.flags /\ o.ended = r.ended /\ o.reused = r.reused /\ o.out = r.out
      /\ o.got = r.got /\ o.events = r.events /\ SameSend(r, o) /\ SameRecv(r, o)
  BY <1>1 DEF SessionType, SameSend, SameRecv
<1>5. e = IF t.state = "closed" THEN t ELSE [t EXCEPT !.events = v]
  BY DEF Disconnect_Reliable_Session
<1> HIDE DEF o, e
<1>6. SendOK(o) /\ RecvOK(o)
  BY <1>4, SendSame, RecvSame DEF Base
<1>7. GotOK(o) /\ StreamOK(o) /\ StatesOK(o)
  BY <1>4 DEF Base, GotOK, StreamOK, StatesOK
<1>8. OutOK(s, o)
  BY <1>4 DEF Base, OutOK, SameSend
<1>9. EndsOK(o, n, gone)
  BY <1>4 DEF EndsOK, Complete, SameRecv
<1>10. Good(s, o, n, gone)
  BY <1>3, <1>6, <1>7, <1>8, <1>9 DEF Good, Base
<1>11. Good(s, t, n, gone) /\ t.client # "ON" /\ t.seq_no = r.seq_no /\ t.state \in {"open", "closed"}
  BY <1>4, <1>10, Ses_Send_Rel_HelloGood DEF Kept, SameSend
<1> HIDE DEF t
<1>12. CASE t.state = "closed"
  BY <1>5, <1>11, <1>12 DEF e
<1>13. CASE t.state = "open"
  <2>1. v \in EventSet
    BY <1>11 DEF Good, Base, SessionType, EventSet, Events
  <2>2. ("ack" \in v => "ack" \in t.events) /\ ("nack" \in v => "nack" \in t.events)
    OBVIOUS
  <2>3. e = [t EXCEPT !.events = v]
    BY <1>5, <1>13
  <2> HIDE DEF v
  <2>4. Like(s, t, e)
    BY <1>11, <1>13, <2>1, <2>2, <2>3, EventsLike DEF Good
  <2>5. Good(s, e, n, gone) /\ e.client = t.client /\ e.seq_no = t.seq_no
    BY <1>11, <2>4, LikeGood DEF Like
  <2> QED
    BY <1>11, <2>5 DEF e
<1> QED
  BY <1>11, <1>12, <1>13

-----------------------------------------------------------------------------
(* The stream to the client. *)

LEMMA EmptyNumbered ==
  ASSUME NEW m PROVE Numbered(<< >>, m)
  BY DEF Numbered

LEMMA NumberedCat ==
  ASSUME NEW a \in Ints, NEW b \in Ints, NEW m \in Nat, Numbered(a, m), Numbered(b, m + Len(a))
  PROVE  a \o b \in Ints /\ Len(a \o b) = Len(a) + Len(b) /\ Numbered(a \o b, m)
<1>1. a \o b \in Ints /\ Len(a \o b) = Len(a) + Len(b)
  BY DEF Ints
<1>2. ASSUME NEW j \in 1 .. Len(a \o b) PROVE (a \o b)[j] = Expected(m + j)
  <2>1. CASE j <= Len(a)
    BY <1>1, <2>1 DEF Numbered, Ints
  <2>2. CASE j > Len(a)
    <3>1. j - Len(a) \in 1 .. Len(b) /\ (a \o b)[j] = b[j - Len(a)]
      BY <1>1, <2>2 DEF Ints
    <3>2. m + Len(a) + (j - Len(a)) = m + j
      BY DEF Ints
    <3> QED
      BY <3>1, <3>2 DEF Numbered
  <2> QED
    BY <1>1, <2>1, <2>2 DEF Ints
<1> QED
  BY <1>1, <1>2 DEF Numbered

(* A numbered sequence is cut in two. *)
LEMMA NumberedCut ==
  ASSUME NEW b \in Ints, NEW m \in Nat, Numbered(b, m), NEW k \in 0 .. Len(b)
  PROVE  /\ SubSeq(b, 1, k) \in Ints /\ Len(SubSeq(b, 1, k)) = k
         /\ Numbered(SubSeq(b, 1, k), m)
         /\ SubSeq(b, k + 1, Len(b)) \in Ints /\ Len(SubSeq(b, k + 1, Len(b))) = Len(b) - k
         /\ Numbered(SubSeq(b, k + 1, Len(b)), m + k)
<1>1. Len(b) \in Nat /\ k \in Nat /\ \A j \in 1 .. Len(b) : b[j] \in Int
  BY DEF Ints
<1>2. SubSeq(b, 1, k) \in Ints /\ Len(SubSeq(b, 1, k)) = k
  BY <1>1 DEF Ints
<1>3. SubSeq(b, k + 1, Len(b)) \in Ints /\ Len(SubSeq(b, k + 1, Len(b))) = Len(b) - k
  BY <1>1 DEF Ints
<1>4. Numbered(SubSeq(b, 1, k), m)
  BY <1>1, <1>2 DEF Numbered, Ints
<1>5. ASSUME NEW j \in 1 .. Len(b) - k
      PROVE  SubSeq(b, k + 1, Len(b))[j] = Expected(m + k + j)
  <2>1. SubSeq(b, k + 1, Len(b))[j] = b[k + j] /\ k + j \in 1 .. Len(b)
    BY <1>1, <1>5 DEF Ints
  <2>2. m + (k + j) = m + k + j
    BY <1>1
  <2> QED
    BY <2>1, <2>2 DEF Numbered
<1> QED
  BY <1>2, <1>3, <1>4, <1>5 DEF Numbered

(* Only the stream to the client changes. *)
SameEnd(r, e) ==
  /\ e.state = r.state /\ e.flags = r.flags /\ e.client = r.client /\ e.sock = r.sock
  /\ e.disconnecting = r.disconnecting /\ e.reused = r.reused /\ e.ended = r.ended
  /\ e.last_seq_sent = r.last_seq_sent /\ e.out = r.out /\ e.events = r.events

LEMMA StreamBase ==
  ASSUME NEW s, NEW r, NEW e, Base(s, r), r.state = "open", e \in SessionType,
         SameSend(r, e), SameRecv(r, e), SameEnd(r, e), GotOK(e),
         e.writing => r.flags = "CONNECTED" /\ r.client = "ON"
  PROVE  Base(s, e)
<1>1. SendOK(e) /\ RecvOK(e)
  BY SendSame, RecvSame DEF Base
<1>2. StatesOK(e)
  BY DEF Base, StatesOK, SameEnd
<1>3. OutOK(s, e)
  BY OutSame DEF Base, SameSend, SameEnd
<1> QED
  BY <1>1, <1>2, <1>3 DEF Base

LEMMA EndIfGood ==
  ASSUME NEW s \in Side, NEW n, NEW gone, NEW r, Good(s, r, n, gone), r.state = "open",
         r.client = "ON", NEW route \in BOOLEAN
  PROVE  Good(s, EndIfPeerIsDone(s, r, route), n, gone)
<1> DEFINE e == [r EXCEPT !.ended = TRUE]
<1>1. CASE ~PeerIsDone(r)
  BY <1>1 DEF EndIfPeerIsDone
<1>2. CASE PeerIsDone(r)
  <2>1. r \in SessionType
    BY DEF Good, Base
  <2>2. e \in SessionType /\ SameSend(r, e) /\ SameRecv(r, e)
    BY <2>1 DEF SessionType, SameSend, SameRecv
  <2>3. /\ e.state = r.state /\ e.flags = r.flags /\ e.client = r.client /\ e.sock = r.sock
        /\ e.reused = r.reused /\ e.out = r.out /\ e.events = r.events /\ e.got = r.got
        /\ e.writing = r.writing
    BY <2>1 DEF SessionType
  <2> HIDE DEF e
  <2>4. SendOK(e) /\ RecvOK(e)
    BY <2>2, SendSame, RecvSame DEF Good, Base
  <2>5. StatesOK(e) /\ GotOK(e)
    BY <2>3 DEF Good, Base, StatesOK, GotOK
  <2>6. OutOK(s, e)
    BY <2>2, <2>3, OutSame DEF Good, Base, SameSend
  <2>7. Base(s, e)
    BY <2>2, <2>4, <2>5, <2>6 DEF Base
  <2>8. Complete(e, n, gone)
    BY <1>2, <2>2, <2>3 DEF Complete, Good, EndsOK, PeerIsDone, SameRecv
  <2>9. Good(s, Disconnect_Reliable_Session(s, e, route), n, gone)
    BY <2>3, <2>7, <2>8, DisconnectGood
  <2> QED
    BY <1>2, <2>9 DEF EndIfPeerIsDone, e
<1> QED
  BY <1>1, <1>2

(* The messages ms continue the stream up to recv_tail, unless the client's  *)
(* socket fails.                                                             *)
LEMMA Net_Rel_Sess_SendGood ==
  ASSUME NEW s \in Side, NEW n, NEW gone, NEW r, Base(s, r), EndsOK(r, n, gone), r.state = "open",
         r.flags = "CONNECTED", NEW ms \in Ints, NEW k \in 0 .. Len(ms), NEW failure \in BOOLEAN,
         NEW route \in BOOLEAN, k = Len(ms) => ~failure,
         r.client = "ON" => /\ r.rel_deliver_buff = << >> /\ Numbered(ms, Len(r.got))
                            /\ ~failure => Len(r.got) + Len(ms) = r.recv_tail + 1
  PROVE  LET e == Net_Rel_Sess_Send(s, r, ms, k, failure, route) IN
         /\ Good(s, e, n, gone)
         /\ Kept(r, e)
         /\ r.client = "ON" /\ ~failure => e.client = "ON" /\ e.state = "open"
<1> DEFINE g == r.got \o SubSeq(ms, 1, k)
           a == [r EXCEPT !.got = g]
           b == r.rel_deliver_buff \o SubSeq(ms, k + 1, Len(ms))
           f == [a EXCEPT !.rel_deliver_buff = b, !.writing = TRUE]
           e == Net_Rel_Sess_Send(s, r, ms, k, failure, route)
<1>1. r \in SessionType /\ GotOK(r) /\ Complete(r, n, gone)
  BY DEF Base, EndsOK, Complete
<1>2. CASE r.client = "OFF"
  BY <1>2 DEF Net_Rel_Sess_Send, Good, StreamOK, Kept
<1>3. CASE r.client # "OFF" /\ r.sock = "closed"
  <2>1. r.client # "ON"
    BY <1>3 DEF Base, StatesOK
  <2>2. e = Disconnect_Reliable_Session(s, r, route)
    BY <1>3 DEF Net_Rel_Sess_Send
  <2>3. Good(s, e, n, gone) /\ e.client # "ON" /\ e.seq_no = r.seq_no
    BY <1>1, <2>2, DisconnectGood
  <2> QED
    BY <2>1, <2>3 DEF Kept
<1>4. CASE r.client = "ON"
  <2>1. r.sock = "open" /\ r.got \in Ints /\ Len(r.got) \in Nat /\ Len(ms) \in Nat /\ r.rel_deliver_buff = << >>
    <3>1. r.got \in Seq(Int) /\ ms \in Seq(Int)
      BY <1>1 DEF SessionType, Ints
    <3>2. Len(r.got) \in Nat /\ Len(ms) \in Nat
      BY <3>1
    <3>3. r.sock = "open" /\ r.rel_deliver_buff = << >>
      BY <1>4 DEF Base, StatesOK
    <3> QED
      BY <3>1, <3>2, <3>3 DEF Ints
  <2>2. /\ SubSeq(ms, 1, k) \in Ints /\ Len(SubSeq(ms, 1, k)) = k
        /\ Numbered(SubSeq(ms, 1, k), Len(r.got))
        /\ SubSeq(ms, k + 1, Len(ms)) \in Ints /\ Len(SubSeq(ms, k + 1, Len(ms))) = Len(ms) - k
        /\ Numbered(SubSeq(ms, k + 1, Len(ms)), Len(r.got) + k)
    BY <1>4, <2>1, NumberedCut
  <2>3. Numbered(SubSeq(ms, 1, k), 0 + Len(r.got)) /\ Numbered(r.got, 0)
    BY <1>1, <2>1, <2>2 DEF GotOK
  <2>4. g \in Ints /\ Len(g) = Len(r.got) + k /\ Numbered(g, 0)
    BY <2>1, <2>2, <2>3, NumberedCat, ZenonT(60)
  <2>5. b = SubSeq(ms, k + 1, Len(ms))
    BY <2>1, <2>2 DEF Ints
  <2> HIDE DEF g, b
  <2>6. /\ a \in SessionType /\ a.got = g /\ SameSend(r, a) /\ SameRecv(r, a) /\ SameEnd(r, a)
        /\ a.writing = r.writing /\ a.rel_deliver_buff = r.rel_deliver_buff
    BY <1>1, <2>4 DEF SessionType, SameSend, SameRecv, SameEnd
  <2> HIDE DEF a
  <2>7. Base(s, a) /\ a.state = "open" /\ EndsOK(a, n, gone) /\ Complete(a, n, gone)
    <3>1. GotOK(a)
      BY <2>4, <2>6 DEF GotOK
    <3>2. a.writing => r.flags = "CONNECTED" /\ r.client = "ON"
      BY <1>4, <2>6
    <3>3. Base(s, a)
      BY <2>6, <3>1, <3>2, StreamBase
    <3> QED
      BY <2>6, <3>3 DEF EndsOK, Complete, SameEnd, SameRecv
  <2>8. CASE k = Len(ms)
    <3>1. e = a
      BY <1>4, <2>1, <2>8 DEF Net_Rel_Sess_Send, a, g
    <3>2. StreamOK(a)
      BY <1>4, <2>1, <2>4, <2>6, <2>8, EmptyNumbered DEF StreamOK, SameEnd, SameRecv
    <3> QED
      BY <1>4, <2>6, <2>7, <3>1, <3>2 DEF Good, Kept, SameEnd
  <2>9. CASE k # Len(ms) /\ failure
    <3>1. e = Disconnect_Reliable_Session(s, a, route)
      BY <1>4, <2>1, <2>9 DEF Net_Rel_Sess_Send, a, g
    <3>2. Good(s, e, n, gone)
      BY <2>7, <3>1, DisconnectGood
    <3> QED
      BY <1>4, <2>9, <3>2 DEF Kept
  <2>10. CASE k # Len(ms) /\ ~failure
    <3>1. e = f
      <4>1. a.rel_deliver_buff \o SubSeq(ms, k + 1, Len(ms)) = b
        BY <2>6 DEF b
      <4>2. e = [a EXCEPT !.rel_deliver_buff = @ \o SubSeq(ms, k + 1, Len(ms)), !.writing = TRUE]
        BY <1>4, <2>1, <2>10 DEF Net_Rel_Sess_Send, a, g
      <4> QED
        BY <4>1, <4>2
    <3>2. b \in Ints
      BY <2>2, <2>5
    <3>3. /\ f \in SessionType /\ f.got = a.got /\ SameSend(a, f) /\ SameRecv(a, f) /\ SameEnd(a, f)
          /\ f.writing = TRUE /\ f.rel_deliver_buff = b
      BY <2>6, <3>2 DEF SessionType, SameSend, SameRecv, SameEnd
    <3> HIDE DEF f
    <3>4. GotOK(f)
      BY <2>4, <2>6, <3>3 DEF GotOK
    <3>5. Base(s, f)
      BY <1>4, <2>6, <2>7, <3>3, <3>4, StreamBase DEF SameEnd
    <3>6. StreamOK(f)
      <4>1. Numbered(f.rel_deliver_buff, Len(f.got))
        BY <2>2, <2>4, <2>5, <2>6, <3>3
      <4>2. Len(f.got) + Len(f.rel_deliver_buff) = r.recv_tail + 1
        <5>1. Len(f.got) = Len(r.got) + k /\ Len(f.rel_deliver_buff) = Len(ms) - k
          BY <2>2, <2>4, <2>5, <2>6, <3>3
        <5>2. Len(r.got) + Len(ms) = r.recv_tail + 1
          BY <1>4, <2>10
        <5> QED
          BY <2>1, <5>1, <5>2
      <4>3. f.recv_tail = r.recv_tail /\ f.flags = "CONNECTED"
        BY <2>6, <3>3 DEF SameEnd, SameRecv
      <4> QED
        BY <4>1, <4>2, <4>3 DEF StreamOK
    <3>7. EndsOK(f, n, gone)
      BY <2>7, <3>3 DEF EndsOK, SameEnd, SameRecv
    <3>8. Good(s, f, n, gone) /\ f.client = "ON" /\ f.state = "open"
      BY <1>4, <2>6, <2>7, <3>3, <3>5, <3>6, <3>7 DEF Good, SameEnd
    <3> QED
      BY <1>4, <3>1, <3>8 DEF Kept
  <2> QED
    BY <2>8, <2>9, <2>10
<1> QED
  BY <1>1, <1>2, <1>3, <1>4 DEF Base, StatesOK, SessionType, Clients

(* The client's socket takes k of the messages that wait for it. *)
LEMMA Session_WriteGood ==
  ASSUME NEW s \in Side, NEW n, NEW gone, NEW r, Good(s, r, n, gone), r.writing,
         NEW k \in 0 .. Len(r.rel_deliver_buff), NEW failure \in BOOLEAN, NEW route \in BOOLEAN
  PROVE  /\ Good(s, Session_Write(s, r, k, failure, route), n, gone)
         /\ Kept(r, Session_Write(s, r, k, failure, route))
<1> DEFINE m == Len(r.rel_deliver_buff)
           g == r.got \o SubSeq(r.rel_deliver_buff, 1, k)
           b == SubSeq(r.rel_deliver_buff, k + 1, m)
           a == [r EXCEPT !.got = g, !.rel_deliver_buff = b, !.writing = FALSE]
           f == [a EXCEPT !.writing = TRUE]
           v == a.events \cup {"ack"}
           h == IF 0 < MAX_BUFF_SESS \div 2 THEN [a EXCEPT !.events = v] ELSE a
           e == Session_Write(s, r, k, failure, route)
<1>1. /\ r \in SessionType /\ Base(s, r) /\ GotOK(r) /\ EndsOK(r, n, gone) /\ StreamOK(r)
      /\ r.state = "open" /\ r.flags = "CONNECTED" /\ r.client = "ON"
  BY DEF Good, Base, StatesOK
<1>2. /\ r.got \in Ints /\ r.rel_deliver_buff \in Ints /\ Len(r.got) \in Nat /\ m \in Nat
      /\ r.recv_tail \in Nat
  BY <1>1 DEF SessionType, Ints
<1>3. Numbered(r.got, 0) /\ Numbered(r.rel_deliver_buff, Len(r.got)) /\ Len(r.got) + m = r.recv_tail + 1
  BY <1>1 DEF GotOK, StreamOK
<1>4. /\ SubSeq(r.rel_deliver_buff, 1, k) \in Ints /\ Len(SubSeq(r.rel_deliver_buff, 1, k)) = k
      /\ Numbered(SubSeq(r.rel_deliver_buff, 1, k), Len(r.got))
      /\ b \in Ints /\ Len(b) = m - k /\ Numbered(b, Len(r.got) + k)
  BY <1>2, <1>3, NumberedCut
<1>5. Numbered(SubSeq(r.rel_deliver_buff, 1, k), 0 + Len(r.got))
  BY <1>2, <1>4
<1>6. g \in Ints /\ Len(g) = Len(r.got) + k /\ Numbered(g, 0)
  BY <1>2, <1>3, <1>4, <1>5, NumberedCat, ZenonT(60)
<1> HIDE DEF g, b
<1>7. /\ a \in SessionType /\ a.got = g /\ a.rel_deliver_buff = b /\ SameSend(r, a) /\ SameRecv(r, a)
      /\ SameEnd(r, a) /\ a.writing = FALSE
  BY <1>1, <1>4, <1>6, ZenonT(60) DEF SessionType, SameSend, SameRecv, SameEnd
<1>8. e = IF k < m
          THEN IF failure THEN Disconnect_Reliable_Session(s, a, route) ELSE f
          ELSE EndIfPeerIsDone(s, h, route)
  BY DEF Session_Write, a, g, b
<1> HIDE DEF a, m, e
<1>9. GotOK(a) /\ StreamOK(a) /\ EndsOK(a, n, gone) /\ Complete(a, n, gone)
  <2>1. GotOK(a)
    BY <1>6, <1>7 DEF GotOK
  <2>2. Len(a.got) + Len(a.rel_deliver_buff) = r.recv_tail + 1
    BY <1>2, <1>3, <1>4, <1>6, <1>7
  <2>3. Numbered(a.rel_deliver_buff, Len(a.got))
    BY <1>4, <1>6, <1>7
  <2>4. StreamOK(a)
    BY <1>1, <1>7, <2>2, <2>3 DEF StreamOK, SameEnd, SameRecv
  <2> QED
    BY <1>1, <1>7, <2>1, <2>4 DEF EndsOK, Complete, SameEnd, SameRecv
<1>10. Base(s, a) /\ a.state = "open" /\ a.client = "ON" /\ a.flags = "CONNECTED"
  BY <1>1, <1>7, <1>9, StreamBase DEF SameEnd
<1>11. CASE k < m /\ failure
  <2>1. Good(s, e, n, gone)
    BY <1>8, <1>9, <1>10, <1>11, DisconnectGood
  <2> QED
    BY <1>1, <2>1 DEF Kept, e
<1>12. CASE k < m /\ ~failure
  <2>1. /\ f \in SessionType /\ f.got = a.got /\ f.rel_deliver_buff = a.rel_deliver_buff
        /\ SameSend(a, f) /\ SameRecv(a, f) /\ SameEnd(a, f) /\ f.writing = TRUE
    BY <1>7 DEF SessionType, SameSend, SameRecv, SameEnd
  <2>2. e = f
    BY <1>8, <1>12
  <2> HIDE DEF f
  <2>3. GotOK(f) /\ StreamOK(f) /\ EndsOK(f, n, gone)
    BY <1>9, <2>1 DEF GotOK, StreamOK, EndsOK, SameEnd, SameRecv
  <2>4. Base(s, f)
    BY <1>10, <2>1, <2>3, StreamBase
  <2> QED
    BY <1>1, <2>2, <2>3, <2>4 DEF Good, Kept, e
<1>13. CASE ~(k < m)
  <2>1. Good(s, a, n, gone)
    BY <1>9, <1>10 DEF Good
  <2>2. v \in EventSet
    BY <1>7 DEF SessionType, EventSet, Events
  <2>3. "nack" \in v => "nack" \in a.events
    OBVIOUS
  <2> HIDE DEF v
  <2>4. Like(s, a, [a EXCEPT !.events = v])
    BY <1>10, <2>2, <2>3, EventsLike
  <2>5. Good(s, h, n, gone) /\ h.state = "open" /\ h.client = "ON"
    BY <1>10, <2>1, <2>4, LikeGood DEF Like
  <2> HIDE DEF h
  <2>6. Good(s, e, n, gone)
    BY <1>8, <1>13, <2>5, EndIfGood
  <2> QED
    BY <1>1, <2>6 DEF Kept, e
<1> QED
  BY <1>11, <1>12, <1>13

-----------------------------------------------------------------------------
(* Data packets and nacks. *)

LEMMA ImageFinite ==
  ASSUME NEW S, IsFiniteSet(S), NEW f, DOMAIN f = S
  PROVE  IsFiniteSet({f[x] : x \in S})
<1> DEFINE T == {f[x] : x \in S}
           g == [x \in S |-> f[x]]
<1>1. g \in Surjection(S, T)
  BY DEF Surjection
<1> QED
  BY <1>1, FS_Surjection

LEMMA DataPacketIs ==
  ASSUME NEW s \in Side, NEW r \in SessionType, NEW q \in Nat, NEW nacks \in SUBSET Nat
  PROVE  /\ DataPacket(s, r, q, nacks) \in Packets
         /\ DataPacket(s, r, q, nacks).to = Peer(s)
         /\ DataPacket(s, r, q, nacks).type = "DATA"
<1>1. Adv_Win(r) \in Int
  BY SizeAssumption DEF Adv_Win, SessionType, Ints
<1>2. r.recv_tail \in Nat /\ Peer(s) \in Side
  BY Peers DEF SessionType
<1> QED
  BY <1>1, <1>2 DEF DataPacket, Packets

(* Marking a hole as nacked leaves the full slots alone. *)
LEMMA MarkNackedIs ==
  ASSUME NEW r \in SessionType, RecvOK(r), NEW nacks
  PROVE  LET e == MarkNacked(r, nacks) IN
         /\ e \in SessionType /\ RecvOK(e) /\ SameSend(r, e) /\ SameRest(r, e)
         /\ e.last_seq_sent = r.last_seq_sent /\ e.out = r.out /\ e.events = r.events
         /\ e.scheduled_ack = r.scheduled_ack
<1> DEFINE w == [i \in Index |-> IF \E n \in nacks : Slot(n) = i THEN NACK_CELL ELSE r.recv_window[i]]
           e == MarkNacked(r, nacks)
<1>1. r.recv_window \in RecvWin
  BY DEF SessionType
<1>2. w \in RecvWin
  BY <1>1 DEF RecvWin, NACK_CELL
<1>3. \A i \in Index : w[i] >= 0 => w[i] = r.recv_window[i]
  BY DEF NACK_CELL
<1>4. e = [r EXCEPT !.recv_window = w]
  BY DEF MarkNacked
<1> HIDE DEF w, e
<1>5. /\ e \in SessionType /\ SameSend(r, e) /\ SameRest(r, e) /\ e.recv_window = w
      /\ e.recv_head = r.recv_head /\ e.recv_tail = r.recv_tail
      /\ e.last_seq_sent = r.last_seq_sent /\ e.out = r.out /\ e.events = r.events
      /\ e.scheduled_ack = r.scheduled_ack
  BY <1>2, <1>4 DEF SessionType, SameSend, SameRest
<1>6. RecvOK(e)
  <2>1. \A i \in Index : e.recv_window[i] >= 0 => e.recv_window[i] = r.recv_window[i]
    BY <1>3, <1>5
  <2> QED
    BY <1>5, <2>1 DEF RecvOK
<1> QED
  BY <1>5, <1>6 DEF e

LEMMA NackSetsAreNats ==
  ASSUME NEW r \in SessionType, NEW nacks \in NackSets(r)
  PROVE  nacks \in SUBSET Nat
<1>1. r.recv_tail \in Nat /\ r.recv_head \in Nat
  BY DEF SessionType
<1>2. r.recv_tail .. r.recv_head - 1 \subseteq Nat
  BY <1>1
<1>3. NewNacks(r) \subseteq Nat /\ OldNacks(r) \subseteq Nat
  BY <1>2 DEF NewNacks, OldNacks
<1>4. PICK again \in SUBSET OldNacks(r) : nacks = NewNacks(r) \cup again
  BY DEF NackSets
<1> QED
  BY <1>3, <1>4

LEMMA TransmitLike ==
  ASSUME NEW s \in Side, NEW r, Base(s, r), r.state = "open",
         NEW seqs \in SUBSET Nat, IsFiniteSet(seqs), NEW nacks \in SUBSET Nat
  PROVE  Like(s, r, Transmit(s, r, seqs, nacks))
<1> DEFINE carrier == CHOOSE q \in seqs : \A p \in seqs : q <= p
           v == IF r.scheduled_ack THEN r.events \ {"ack"} ELSE r.events
           f == IF r.scheduled_ack THEN [r EXCEPT !.scheduled_ack = FALSE, !.events = v] ELSE r
           m == MarkNacked(f, nacks)
           d == [q \in seqs |-> DataPacket(s, r, q, IF q = carrier THEN nacks ELSE {})]
           D == {DataPacket(s, r, q, IF q = carrier THEN nacks ELSE {}) : q \in seqs}
           o == m.out \cup D
           e == Transmit(s, r, seqs, nacks)
<1>1. r \in SessionType /\ RecvOK(r) /\ SendOK(r) /\ StatesOK(r) /\ OutOK(s, r)
  BY DEF Base
<1>2. v \in EventSet /\ ("ack" \in v => "ack" \in r.events) /\ ("nack" \in v => "nack" \in r.events)
  BY <1>1 DEF SessionType, EventSet
<1>3. e = [m EXCEPT !.out = o]
  <2>1. e = [MarkNacked(IF r.scheduled_ack
                        THEN [r EXCEPT !.scheduled_ack = FALSE, !.events = @ \ {"ack"}] ELSE r, nacks)
               EXCEPT !.out = @ \cup D]
    BY DEF Transmit
  <2>2. f = IF r.scheduled_ack
            THEN [r EXCEPT !.scheduled_ack = FALSE, !.events = @ \ {"ack"}] ELSE r
    OBVIOUS
  <2> HIDE DEF f, D
  <2> QED
    BY <2>1, <2>2
<1> HIDE DEF v, e
<1>4. /\ f \in SessionType /\ SameSend(r, f) /\ SameRecv(r, f) /\ SameRest(r, f)
      /\ f.last_seq_sent = r.last_seq_sent /\ f.out = r.out
      /\ "ack" \in f.events => "ack" \in r.events
      /\ "nack" \in f.events => "nack" \in r.events
  <2>1. CASE r.scheduled_ack
    <3> DEFINE x == [r EXCEPT !.scheduled_ack = FALSE, !.events = v]
    <3>1. /\ x \in SessionType /\ SameSend(r, x) /\ SameRecv(r, x) /\ SameRest(r, x)
          /\ x.last_seq_sent = r.last_seq_sent /\ x.out = r.out /\ x.events = v
      BY <1>1, <1>2 DEF SessionType, SameSend, SameRecv, SameRest
    <3> QED
      BY <1>2, <2>1, <3>1
  <2>2. CASE ~r.scheduled_ack
    BY <1>1, <2>2 DEF SameSend, SameRecv, SameRest
  <2> QED
    BY <2>1, <2>2
<1> HIDE DEF f
<1>5. RecvOK(f)
  BY <1>1, <1>4, RecvSame
<1>6. /\ m \in SessionType /\ RecvOK(m) /\ SameSend(f, m) /\ SameRest(f, m)
      /\ m.last_seq_sent = f.last_seq_sent /\ m.out = f.out /\ m.events = f.events
  BY <1>4, <1>5, MarkNackedIs
<1> HIDE DEF m
<1>7. \A p \in D : p \in Packets /\ p.to # s /\ p.type # "DISCNCT"
  <2>1. ASSUME NEW q \in seqs
        PROVE  LET p == DataPacket(s, r, q, IF q = carrier THEN nacks ELSE {}) IN
               p \in Packets /\ p.to # s /\ p.type # "DISCNCT"
    <3>1. (IF q = carrier THEN nacks ELSE {}) \in SUBSET Nat
      OBVIOUS
    <3> QED
      BY <1>1, <3>1, DataPacketIs, Peers
  <2> QED
    BY <2>1
<1>8. IsFiniteSet(D)
  <2>1. DOMAIN d = seqs /\ D = {d[q] : q \in seqs}
    OBVIOUS
  <2> HIDE DEF d, D
  <2>2. IsFiniteSet({d[q] : q \in seqs})
    BY <2>1, ImageFinite
  <2> QED
    BY <2>1, <2>2
<1> HIDE DEF D
<1>9. o \in OutSet /\ IsFiniteSet(o)
  <2>1. IsFiniteSet(o)
    BY <1>1, <1>4, <1>6, <1>8, FS_Union DEF OutOK
  <2> QED
    BY <1>6, <1>7, <2>1 DEF SessionType, OutSet
<1>10. \A p \in o : p.to # s /\ (p.type = "DISCNCT" => p.seq_no = r.seq_no /\ r.client # "ON")
  BY <1>1, <1>4, <1>6, <1>7 DEF OutOK
<1> HIDE DEF o
<1>11. /\ e \in SessionType /\ SameSend(m, e) /\ SameRecv(m, e) /\ SameRest(m, e)
       /\ e.last_seq_sent = m.last_seq_sent /\ e.out = o /\ e.events = m.events
  BY <1>3, <1>6, <1>9 DEF SessionType, SameSend, SameRecv, SameRest
<1>12. SameSend(r, e) /\ SameRest(r, e) /\ e.last_seq_sent = r.last_seq_sent
  BY <1>4, <1>6, <1>11 DEF SameSend, SameRest
<1>13. SendOK(e) /\ RecvOK(e)
  BY <1>1, <1>6, <1>11, <1>12, SendSame, RecvSame
<1>14. StatesOK(e)
  BY <1>1, <1>4, <1>6, <1>11, <1>12, StatesSame
<1>15. OutOK(s, e)
  BY <1>9, <1>10, <1>11, <1>12 DEF OutOK, SameSend, SameRest
<1>16. Like(s, r, e)
  BY <1>11, <1>12, <1>13, <1>14, <1>15 DEF Like, SameRest, SameSend
<1> QED
  BY <1>16 DEF e

-----------------------------------------------------------------------------
(* The sender's window. *)

(* n messages from head on go into the window, which has room for them. *)
LEMMA IntoWindowIs ==
  ASSUME NEW r \in SessionType, r.tail <= r.head, NEW n \in Nat \ {0}, NEW seqs,
         seqs = r.head .. r.head + n - 1, r.head + n - r.tail <= MAX_WINDOW,
         \A q \in r.tail .. r.head - 1 : r.window[Slot(q)] = q
  PROVE  LET e == IntoWindow(r, seqs) IN
         /\ e \in SessionType /\ SameRecv(r, e) /\ SameRest(r, e)
         /\ e.last_seq_sent = r.last_seq_sent /\ e.out = r.out /\ e.events = r.events
         /\ e.seq_no = r.seq_no /\ e.tail = r.tail /\ e.msg_buff = r.msg_buff
         /\ e.window_size = r.window_size /\ e.exited = r.exited /\ e.head = r.head + n
         /\ \A q \in r.tail .. r.head + n - 1 : e.window[Slot(q)] = q
<1> DEFINE w == [i \in Index |-> IF \E q \in seqs : Slot(q) = i
                                 THEN CHOOSE q \in seqs : Slot(q) = i ELSE r.window[i]]
           h == CHOOSE x \in {q + 1 : q \in seqs} : \A q \in seqs : q < x
           x == r.exited \/ \E q \in seqs : q < r.head
           e == IntoWindow(r, seqs)
<1>1. r.head \in Nat /\ r.tail \in Nat /\ r.window \in SendWin /\ r.exited \in BOOLEAN
  BY DEF SessionType
<1>2. MAX_WINDOW \in Nat
  BY SizeAssumption
<1>3. w \in SendWin
  <2>1. ASSUME NEW i \in Index PROVE w[i] \in Nat \cup {NoBuff}
    <3>1. CASE \E q \in seqs : Slot(q) = i
      <4>1. (CHOOSE q \in seqs : Slot(q) = i) \in seqs
        BY <3>1
      <4> QED
        BY <1>1, <3>1, <4>1
    <3>2. CASE ~ \E q \in seqs : Slot(q) = i
      BY <1>1, <3>2 DEF SendWin
    <3> QED
      BY <3>1, <3>2
  <2> QED
    BY <2>1 DEF SendWin
<1>4. ASSUME NEW q \in r.tail .. r.head + n - 1 PROVE w[Slot(q)] = q
  <2>1. q \in Nat /\ Slot(q) \in Index /\ q \in r.tail .. r.tail + MAX_WINDOW - 1
    BY <1>1, <1>2, SlotInIndex
  <2>2. \A p \in seqs : p \in r.tail .. r.tail + MAX_WINDOW - 1
    BY <1>1, <1>2
  <2>3. \A p \in seqs : Slot(p) = Slot(q) => p = q
    BY <1>1, <2>1, <2>2, SlotInjectiveFrom
  <2>4. CASE q \in seqs
    <3>1. \E p \in seqs : Slot(p) = Slot(q)
      BY <2>4
    <3>2. (CHOOSE p \in seqs : Slot(p) = Slot(q)) = q
      BY <2>3, <2>4
    <3> QED
      BY <2>1, <3>1, <3>2
  <2>5. CASE q \notin seqs
    <3>1. ~ \E p \in seqs : Slot(p) = Slot(q)
      BY <2>3, <2>5
    <3>2. q \in r.tail .. r.head - 1
      BY <1>1, <2>5
    <3> QED
      BY <2>1, <3>1, <3>2
  <2> QED
    BY <2>4, <2>5
<1>5. h = r.head + n
  <2> DEFINE H == {q + 1 : q \in seqs}
  <2>1. r.head + n \in H
    <3>1. r.head + n - 1 \in seqs /\ r.head + n = (r.head + n - 1) + 1
      BY <1>1
    <3> QED
      BY <3>1
  <2>2. \A q \in seqs : q < r.head + n
    BY <1>1
  <2>3. \A y \in H : (\A q \in seqs : q < y) => y = r.head + n
    <3> SUFFICES ASSUME NEW z \in seqs, \A q \in seqs : q < z + 1 PROVE z + 1 = r.head + n
      OBVIOUS
    <3>1. r.head + n - 1 \in seqs
      BY <1>1
    <3>2. r.head + n - 1 < z + 1
      BY <3>1
    <3> QED
      BY <1>1, <3>2, SMTT(60)
  <2> HIDE DEF H
  <2> QED
    BY <2>1, <2>2, <2>3 DEF H
<1>6. x = r.exited
  BY <1>1
<1>7. e = [r EXCEPT !.window = w, !.head = h, !.exited = x]
  BY DEF IntoWindow
<1> HIDE DEF w, h, x, e
<1>8. h \in Nat /\ x \in BOOLEAN
  BY <1>1, <1>5, <1>6
<1>9. /\ e \in SessionType /\ SameRecv(r, e) /\ SameRest(r, e)
      /\ e.last_seq_sent = r.last_seq_sent /\ e.out = r.out /\ e.events = r.events
      /\ e.seq_no = r.seq_no /\ e.tail = r.tail /\ e.msg_buff = r.msg_buff
      /\ e.window_size = r.window_size /\ e.exited = x /\ e.head = h /\ e.window = w
  BY <1>3, <1>7, <1>8, ZenonT(60) DEF SessionType, SameRecv, SameRest
<1> QED
  BY <1>4, <1>5, <1>6, <1>9 DEF e

(* The sender's half of a step that changes nothing else but timers. *)
LEMMA SendStep ==
  ASSUME NEW s, NEW r, NEW e, Base(s, r), r.state = "open", e \in SessionType, SendOK(e),
         SameRecv(r, e), SameRest(r, e), e.last_seq_sent = r.last_seq_sent,
         e.out = r.out, e.seq_no = r.seq_no \/ (r.client = "ON" /\ r.out = {}),
         "ack" \in e.events => "ack" \in r.events \/ r.flags = "CONNECTED",
         "nack" \in e.events => "nack" \in r.events \/ r.flags = "CONNECTED"
  PROVE  Like(s, r, e)
<1>1. RecvOK(e) /\ StatesOK(e)
  BY RecvSame, StatesSame DEF Base
<1>2. OutOK(s, e)
  BY DEF Base, OutOK, SameRest
<1> QED
  BY <1>1, <1>2 DEF Like, SameRest

LEMMA Process_Reliable_Session_PacketLike ==
  ASSUME NEW s \in Side, NEW r, Base(s, r), r.state = "open", r.client = "ON", r.out = {},
         NEW nacks \in SUBSET Nat, NEW route \in BOOLEAN
  PROVE  Like(s, r, Process_Reliable_Session_Packet(s, r, nacks, route))
<1> DEFINE q == r.seq_no
           g == [r EXCEPT !.seq_no = @ + 1]
           longer == Append(g.msg_buff, q)
           rb == g.rel_blocked \/ Len(longer) > MAX_BUFF_LINK
           f == [g EXCEPT !.msg_buff = longer, !.rel_blocked = rb]
           i == IntoWindow(g, {q})
           t == Transmit(s, i, {q}, nacks)
           e == Process_Reliable_Session_Packet(s, r, nacks, route)
<1>1. r \in SessionType /\ SendOK(r)
  BY DEF Base
<1>2. /\ r.seq_no \in Nat /\ r.head \in Nat /\ r.tail \in Nat /\ r.window_size \in Int
      /\ r.msg_buff \in Nats /\ r.seq_no + 1 \in Nat /\ r.exited \in BOOLEAN
  BY <1>1 DEF SessionType
<1>3. /\ g \in SessionType /\ SameRecv(r, g) /\ SameRest(r, g)
      /\ g.last_seq_sent = r.last_seq_sent /\ g.out = r.out /\ g.events = r.events
      /\ g.seq_no = r.seq_no + 1 /\ g.head = r.head /\ g.tail = r.tail /\ g.window = r.window
      /\ g.msg_buff = r.msg_buff /\ g.window_size = r.window_size /\ g.exited = r.exited
  BY <1>1, <1>2 DEF SessionType, SameRecv, SameRest
<1>4. e = IF MustWait(g, route) THEN f ELSE ScheduleTimeout(t)
  BY DEF Process_Reliable_Session_Packet, Reliable_Ses_Send
<1> HIDE DEF g, e
<1>5. CASE MustWait(g, route)
  <2>1. longer \in Nats /\ Len(longer) = Len(r.msg_buff) + 1
    BY <1>2, <1>3 DEF Nats
  <2>2. \A j \in 1 .. Len(longer) : longer[j] = r.head + j - 1
    <3> SUFFICES ASSUME NEW j \in 1 .. Len(longer) PROVE longer[j] = r.head + j - 1
      OBVIOUS
    <3>1. Len(r.msg_buff) = r.seq_no - r.head /\ Len(r.msg_buff) \in Nat
      BY <1>1, <1>2 DEF SendOK, Nats
    <3>2. CASE j <= Len(r.msg_buff)
      BY <1>1, <1>2, <1>3, <2>1, <3>1, <3>2 DEF SendOK, Nats
    <3>3. CASE j = Len(r.msg_buff) + 1
      BY <1>2, <1>3, <2>1, <3>1, <3>3 DEF Nats
    <3> QED
      BY <2>1, <3>1, <3>2, <3>3
  <2>3. rb \in BOOLEAN
    BY <1>3 DEF SessionType
  <2> HIDE DEF longer, rb
  <2>4. /\ f \in SessionType /\ SameRecv(g, f) /\ SameRest(g, f)
        /\ f.last_seq_sent = g.last_seq_sent /\ f.out = g.out /\ f.events = g.events
        /\ f.seq_no = g.seq_no /\ f.head = g.head /\ f.tail = g.tail /\ f.window = g.window
        /\ f.msg_buff = longer /\ f.window_size = g.window_size /\ f.exited = g.exited
    BY <1>3, <2>1, <2>3, ZenonT(60) DEF SessionType, SameRecv, SameRest
  <2> HIDE DEF f
  <2>5. Len(f.msg_buff) = f.seq_no - f.head /\ f.head <= f.seq_no
    BY <1>1, <1>2, <1>3, <2>1, <2>4 DEF SendOK, Nats
  <2>6. SendOK(f)
    BY <1>1, <1>3, <2>2, <2>4, <2>5 DEF SendOK
  <2>7. SameRecv(r, f) /\ SameRest(r, f)
    BY <1>3, <2>4 DEF SameRecv, SameRest
  <2>8. Like(s, r, f)
    BY <1>3, <2>4, <2>6, <2>7, SendStep
  <2> QED
    BY <1>4, <1>5, <2>8 DEF e
<1>6. CASE ~MustWait(g, route)
  <2>1. r.msg_buff = << >> /\ r.head - r.tail < r.window_size
    BY <1>2, <1>3, <1>6 DEF MustWait
  <2>2. r.head = r.seq_no /\ r.tail <= r.head /\ r.head + 1 - r.tail <= MAX_WINDOW
    BY <1>1, <1>2, <2>1, SizeAssumption DEF SendOK
  <2>3. {q} = g.head .. g.head + 1 - 1
    BY <1>2, <1>3, <2>2
  <2>4. \A p \in g.tail .. g.head - 1 : g.window[Slot(p)] = p
    BY <1>1, <1>3 DEF SendOK
  <2>5. g.tail <= g.head /\ g.head + 1 - g.tail <= MAX_WINDOW
    BY <1>3, <2>2
  <2>6. /\ i \in SessionType /\ SameRecv(g, i) /\ SameRest(g, i)
        /\ i.last_seq_sent = g.last_seq_sent /\ i.out = g.out /\ i.events = g.events
        /\ i.seq_no = g.seq_no /\ i.tail = g.tail /\ i.msg_buff = g.msg_buff
        /\ i.window_size = g.window_size /\ i.exited = g.exited /\ i.head = g.head + 1
        /\ \A p \in g.tail .. g.head + 1 - 1 : i.window[Slot(p)] = p
    <3> DEFINE k == 1
               S == {q}
    <3>1. k \in Nat \ {0} /\ S = g.head .. g.head + k - 1 /\ g.head + k - g.tail <= MAX_WINDOW
      BY <2>3, <2>5
    <3>2. i = IntoWindow(g, S) /\ k = 1
      OBVIOUS
    <3> HIDE DEF k, S, i
    <3>3. /\ i \in SessionType /\ SameRecv(g, i) /\ SameRest(g, i)
          /\ i.last_seq_sent = g.last_seq_sent /\ i.out = g.out /\ i.events = g.events
          /\ i.seq_no = g.seq_no /\ i.tail = g.tail /\ i.msg_buff = g.msg_buff
          /\ i.window_size = g.window_size /\ i.exited = g.exited /\ i.head = g.head + k
          /\ \A p \in g.tail .. g.head + k - 1 : i.window[Slot(p)] = p
      BY <1>3, <2>4, <2>5, <3>1, <3>2, IntoWindowIs
    <3> QED
      BY <3>2, <3>3
  <2> HIDE DEF i
  <2>7. SendOK(i)
    BY <1>1, <1>2, <1>3, <2>1, <2>2, <2>6, SMTT(60) DEF SendOK
  <2>8. SameRecv(r, i) /\ SameRest(r, i)
    BY <1>3, <2>6 DEF SameRecv, SameRest
  <2>9. Like(s, r, i)
    BY <1>3, <2>6, <2>7, <2>8, SendStep
  <2>10. Base(s, i) /\ i.state = "open"
    BY <2>9, LikeBase DEF Like
  <2>11. {q} \in SUBSET Nat /\ IsFiniteSet({q})
    BY <1>2, FS_Singleton
  <2>12. Like(s, i, t)
    BY <2>10, <2>11, TransmitLike
  <2> HIDE DEF t
  <2>13. Base(s, t) /\ t.state = "open"
    BY <2>10, <2>12, LikeBase DEF Like
  <2>14. Like(s, t, ScheduleTimeout(t))
    BY <2>13, ScheduleTimeoutLike
  <2>15. Like(s, r, ScheduleTimeout(t))
    BY <2>9, <2>12, <2>14, LikeTrans
  <2> QED
    BY <1>4, <1>6, <2>15 DEF e
<1> QED
  BY <1>5, <1>6

LEMMA SendableIs ==
  ASSUME NEW r \in SessionType, SendOK(r), Sendable(r) > 0
  PROVE  /\ Sendable(r) \in Nat \ {0} /\ Sendable(r) <= Len(r.msg_buff)
         /\ r.head + Sendable(r) - r.tail <= MAX_WINDOW
<1>1. /\ r.head \in Nat /\ r.tail \in Nat /\ r.window_size \in Int /\ r.adv_win \in Int
      /\ Len(r.msg_buff) \in Nat
  BY DEF SessionType, Nats
<1> DEFINE a == Len(r.msg_buff)
           b == r.window_size - (r.head - r.tail)
           c == r.adv_win - r.head
<1>2. a \in Int /\ b \in Int /\ c \in Int
  BY <1>1
<1>3. Sendable(r) = Lesser(a, Lesser(b, c))
  BY DEF Sendable
<1> HIDE DEF a, b, c
<1>4. Sendable(r) \in Int /\ Sendable(r) <= a /\ Sendable(r) <= b
  BY <1>2, <1>3 DEF Lesser
<1>5. Sendable(r) <= r.window_size - (r.head - r.tail) /\ r.window_size <= MAX_WINDOW
  BY <1>4 DEF b, SendOK
<1>6. MAX_WINDOW \in Int
  BY SizeAssumption
<1> HIDE DEF Sendable
<1> QED
  BY <1>1, <1>4, <1>5, <1>6, SMTT(60) DEF a

LEMMA Ses_Send_MuchLike ==
  ASSUME NEW s \in Side, NEW r, Base(s, r), r.state = "open",
         NEW nacks \in SUBSET Nat, NEW route \in BOOLEAN
  PROVE  Like(s, r, Ses_Send_Much(s, r, nacks, route))
<1> DEFINE n == Sendable(r)
           seqs == {r.msg_buff[j] : j \in 1 .. n}
           rest == SubSeq(r.msg_buff, n + 1, Len(r.msg_buff))
           g == [r EXCEPT !.msg_buff = rest]
           i == IntoWindow(g, seqs)
           t == Transmit(s, i, seqs, nacks)
           rb == t.rel_blocked /\ ~ Len(rest) < MAX_BUFF_LINK \div 4
           u == [t EXCEPT !.rel_blocked = rb]
           e == Ses_Send_Much(s, r, nacks, route)
<1>1. r \in SessionType /\ SendOK(r)
  BY DEF Base
<1>2. CASE ~route \/ r.flags # "CONNECTED" \/ Sendable(r) <= 0
  BY <1>2, LikeSelf DEF Ses_Send_Much
<1>3. CASE route /\ r.flags = "CONNECTED" /\ ~(Sendable(r) <= 0)
  <2>1. /\ r.seq_no \in Nat /\ r.head \in Nat /\ r.tail \in Nat /\ r.window_size \in Int
        /\ r.msg_buff \in Nats /\ Len(r.msg_buff) \in Nat /\ r.adv_win \in Int
    BY <1>1 DEF SessionType, Nats
  <2>2. Sendable(r) > 0
    BY <1>3, <2>1 DEF Sendable, Lesser
  <2>3. n \in Nat \ {0} /\ n <= Len(r.msg_buff) /\ r.head + n - r.tail <= MAX_WINDOW
    BY <1>1, <2>2, SendableIs
  <2> HIDE DEF n
  <2>4. e = ScheduleTimeout(u)
    BY <1>3 DEF Ses_Send_Much, n
  <2> HIDE DEF e
  <2>5. seqs = r.head .. r.head + n - 1
    <3>1. \A j \in 1 .. n : r.msg_buff[j] = r.head + j - 1
      BY <1>1, <2>1, <2>3 DEF SendOK
    <3>2. \A q \in r.head .. r.head + n - 1 : q - r.head + 1 \in 1 .. n /\ q = r.head + (q - r.head + 1) - 1
      BY <2>1, <2>3, SMTT(60)
    <3>3. \A j \in 1 .. n : r.head + j - 1 \in r.head .. r.head + n - 1
      BY <2>1, <2>3
    <3> QED
      BY <3>1, <3>2, <3>3
  <2>6. rest \in Nats /\ Len(rest) = Len(r.msg_buff) - n
    <3>1. n \in 0 .. Len(r.msg_buff) /\ r.msg_buff \in Seq(Nat)
      BY <2>1, <2>3 DEF Nats
    <3> QED
      BY <2>1, <3>1 DEF Nats
  <2>7. \A j \in 1 .. Len(rest) : rest[j] = r.head + n + j - 1
    <3> SUFFICES ASSUME NEW j \in 1 .. Len(rest) PROVE rest[j] = r.head + n + j - 1
      OBVIOUS
    <3>1. n + j \in 1 .. Len(r.msg_buff) /\ rest[j] = r.msg_buff[n + j]
      BY <2>1, <2>3, <2>6 DEF Nats
    <3>2. r.msg_buff[n + j] = r.head + (n + j) - 1
      BY <1>1, <3>1 DEF SendOK
    <3>3. j \in Int /\ n \in Int
      BY <2>1, <2>3, <2>6
    <3> HIDE DEF rest
    <3> QED
      BY <2>1, <3>1, <3>2, <3>3
  <2> HIDE DEF rest, seqs
  <2>8. /\ g \in SessionType /\ SameRecv(r, g) /\ SameRest(r, g)
        /\ g.last_seq_sent = r.last_seq_sent /\ g.out = r.out /\ g.events = r.events
        /\ g.seq_no = r.seq_no /\ g.head = r.head /\ g.tail = r.tail /\ g.window = r.window
        /\ g.msg_buff = rest /\ g.window_size = r.window_size /\ g.exited = r.exited
    BY <1>1, <2>6 DEF SessionType, SameRecv, SameRest
  <2> HIDE DEF g
  <2>9. \A p \in g.tail .. g.head - 1 : g.window[Slot(p)] = p
    BY <1>1, <2>8 DEF SendOK
  <2>10. /\ g.tail <= g.head /\ seqs = g.head .. g.head + n - 1
         /\ g.head + n - g.tail <= MAX_WINDOW
    BY <1>1, <2>3, <2>5, <2>8 DEF SendOK
  <2>11. /\ i \in SessionType /\ SameRecv(g, i) /\ SameRest(g, i)
         /\ i.last_seq_sent = g.last_seq_sent /\ i.out = g.out /\ i.events = g.events
         /\ i.seq_no = g.seq_no /\ i.tail = g.tail /\ i.msg_buff = g.msg_buff
         /\ i.window_size = g.window_size /\ i.exited = g.exited /\ i.head = g.head + n
         /\ \A p \in g.tail .. g.head + n - 1 : i.window[Slot(p)] = p
    BY <2>3, <2>8, <2>9, <2>10, IntoWindowIs
  <2> HIDE DEF i
  <2>12. SendOK(i)
    <3>1. i.tail <= i.head /\ i.head <= i.seq_no /\ i.head - i.tail <= MAX_WINDOW
      BY <1>1, <2>1, <2>3, <2>8, <2>11, SMTT(60) DEF SendOK
    <3>2. Len(i.msg_buff) = i.seq_no - i.head
      <4>1. Len(r.msg_buff) = r.seq_no - r.head /\ n \in Int
        BY <1>1, <2>3 DEF SendOK
      <4>2. Len(i.msg_buff) = Len(r.msg_buff) - n /\ i.seq_no = r.seq_no /\ i.head = r.head + n
        BY <2>6, <2>8, <2>11
      <4> QED
        BY <2>1, <4>1, <4>2
    <3>3. \A j \in 1 .. Len(i.msg_buff) : i.msg_buff[j] = i.head + j - 1
      BY <2>7, <2>8, <2>11
    <3>4. \A p \in i.tail .. i.head - 1 : i.window[Slot(p)] = p
      <4> SUFFICES ASSUME NEW p \in i.tail .. i.head - 1 PROVE i.window[Slot(p)] = p
        OBVIOUS
      <4>1. i.tail = g.tail /\ i.head = g.head + n
        BY <2>11
      <4>2. p \in g.tail .. g.head + n - 1
        <5>1. g.tail \in Int /\ g.head \in Int /\ n \in Int
          BY <2>1, <2>3, <2>8
        <5> QED
          BY <4>1, <5>1
      <4>3. \A x \in g.tail .. g.head + n - 1 : i.window[Slot(x)] = x
        BY <2>11
      <4> QED
        BY <4>2, <4>3
    <3> QED
      BY <1>1, <2>8, <2>11, <3>1, <3>2, <3>3, <3>4 DEF SendOK
  <2>13. SameRecv(r, i) /\ SameRest(r, i)
    BY <2>8, <2>11 DEF SameRecv, SameRest
  <2>14. Like(s, r, i)
    BY <2>8, <2>11, <2>12, <2>13, SendStep
  <2>15. Base(s, i) /\ i.state = "open"
    BY <2>14, LikeBase DEF Like
  <2>16. seqs \in SUBSET Nat /\ IsFiniteSet(seqs)
    <3>1. r.head \in Int /\ r.head + n - 1 \in Int
      BY <2>1, <2>3
    <3>2. IsFiniteSet(r.head .. r.head + n - 1)
      BY <3>1, FS_Interval
    <3>3. r.head .. r.head + n - 1 \subseteq Nat
      BY <2>1
    <3> QED
      BY <2>5, <3>2, <3>3
  <2>17. Like(s, i, t)
    BY <2>15, <2>16, TransmitLike
  <2> HIDE DEF t
  <2>18. Base(s, t) /\ t.state = "open" /\ t \in SessionType
    BY <2>15, <2>17, LikeBase DEF Like
  <2>19. rb \in BOOLEAN
    OBVIOUS
  <2> HIDE DEF rb
  <2>20. /\ u \in SessionType /\ SameSend(t, u) /\ SameRecv(t, u) /\ SameRest(t, u)
         /\ u.last_seq_sent = t.last_seq_sent /\ u.out = t.out /\ u.events = t.events
    BY <2>18, <2>19 DEF SessionType, SameSend, SameRecv, SameRest
  <2> HIDE DEF u
  <2>21. Like(s, t, u)
    BY <2>18, <2>20, QuietStep
  <2>22. Base(s, u) /\ u.state = "open"
    BY <2>18, <2>21, LikeBase DEF Like
  <2>23. Like(s, u, ScheduleTimeout(u))
    BY <2>22, ScheduleTimeoutLike
  <2>24. Like(s, i, u)
    BY <2>17, <2>21, LikeTrans
  <2>25. Like(s, r, ScheduleTimeout(u))
    BY <2>14, <2>23, <2>24, LikeTrans
  <2> QED
    BY <2>4, <2>25 DEF e
<1> QED
  BY <1>2, <1>3

-----------------------------------------------------------------------------
(* Acknowledgements. *)

(* The congestion window never exceeds window[]. *)
LEMMA WindowsFit ==
  ASSUME NEW r \in SessionType, SendOK(r), NEW k \in Nat, NEW c \in 0 .. 3, NEW w \in Windows(r, k, c)
  PROVE  w[1] \in Int /\ w[2] \in Int /\ w[1] <= MAX_WINDOW
<1> DEFINE ws == r.window_size
           ss == r.ssthresh
           halved == Larger(2, ss \div 2)
           slow == Lesser(k, Larger(0, ss - ws))
<1>1. ws \in Int /\ ss \in Int /\ ws <= MAX_WINDOW
  BY DEF SessionType, SendOK
<1>2. halved \in Int /\ slow \in Int
  BY <1>1 DEF Larger, Lesser
<1>3. CASE ~TCP_Fairness \/ k = 0 \/ c = 3 \/ (c = 0 /\ r.msg_buff = << >>)
  <2>1. w = <<ws, ss>>
    BY <1>3 DEF Windows
  <2> QED
    BY <1>1, <2>1
<1>4. CASE TCP_Fairness /\ k # 0 /\ c = 1
  <2>1. w = <<2, halved>>
    BY <1>4 DEF Windows
  <2> QED
    BY <1>2, <2>1, SizeAssumption
<1>5. CASE TCP_Fairness /\ k # 0 /\ c = 2
  <2>1. w = <<Larger(2, (ws + 1) \div 2), halved>>
    BY <1>5 DEF Windows
  <2>2. Larger(2, (ws + 1) \div 2) \in Int /\ Larger(2, (ws + 1) \div 2) <= MAX_WINDOW
    BY <1>1, SizeAssumption DEF Larger
  <2> QED
    BY <1>2, <2>1, <2>2
<1>6. CASE TCP_Fairness /\ k # 0 /\ c = 0 /\ r.msg_buff # << >>
  <2>1. Windows(r, k, c) = {<<Lesser(ws + j, Larger(ws, MAX_CG_WINDOW \div 2)), ss>> : j \in slow .. k}
    BY <1>6 DEF Windows
  <2> HIDE DEF slow
  <2>2. PICK j \in slow .. k : w = <<Lesser(ws + j, Larger(ws, MAX_CG_WINDOW \div 2)), ss>>
    BY <2>1
  <2>3. j \in Int /\ MAX_CG_WINDOW \div 2 \in Int /\ MAX_CG_WINDOW \div 2 <= MAX_WINDOW /\ MAX_WINDOW \in Int
    BY <1>2, SizeAssumption
  <2>4. /\ Lesser(ws + j, Larger(ws, MAX_CG_WINDOW \div 2)) \in Int
        /\ Lesser(ws + j, Larger(ws, MAX_CG_WINDOW \div 2)) <= MAX_WINDOW
    BY <1>1, <2>3 DEF Lesser, Larger
  <2> QED
    BY <1>1, <2>2, <2>4
<1> QED
  BY <1>3, <1>4, <1>5, <1>6

LEMMA KeepNacksLike ==
  ASSUME NEW s, NEW r, Base(s, r), r.state = "open", r.flags = "CONNECTED",
         NEW p \in Packets, NEW junk \in SUBSET Nat
  PROVE  /\ Like(s, r, KeepNacks(r, p, junk)) /\ SameSend(r, KeepNacks(r, p, junk))
         /\ SameRecv(r, KeepNacks(r, p, junk))
<1> DEFINE nb == r.nack_buff \cup p.nacks \cup junk
           v == r.events \cup {"nack"}
           e == [r EXCEPT !.nack_buff = nb, !.events = v]
<1>1. r \in SessionType
  BY DEF Base
<1>2. CASE p.nacks = {}
  BY <1>2, LikeSelf DEF KeepNacks, SameSend, SameRecv
<1>3. CASE p.nacks # {}
  <2>1. nb \in NatSet /\ v \in EventSet
    BY <1>1 DEF SessionType, NatSet, EventSet, Events, Packets
  <2>2. KeepNacks(r, p, junk) = e
    BY <1>3 DEF KeepNacks
  <2> HIDE DEF nb, v
  <2>3. /\ e \in SessionType /\ SameSend(r, e) /\ SameRecv(r, e) /\ SameRest(r, e)
        /\ e.last_seq_sent = r.last_seq_sent /\ e.out = r.out
    BY <1>1, <2>1 DEF SessionType, SameSend, SameRecv, SameRest
  <2> HIDE DEF e
  <2>4. Like(s, r, e)
    BY <2>3, QuietStep
  <2> QED
    BY <2>2, <2>3, <2>4
<1> QED
  BY <1>2, <1>3

LEMMA AdvertisedLike ==
  ASSUME NEW s, NEW r, Base(s, r), r.state = "open", NEW p \in Packets
  PROVE  /\ Like(s, r, Advertised(r, p)) /\ SameSend(r, Advertised(r, p))
         /\ SameRecv(r, Advertised(r, p))
<1> DEFINE v == r.events \cup {"try"} \cup (IF r.head >= p.adv_win THEN {"one"} ELSE {})
           e == [r EXCEPT !.adv_win = p.adv_win, !.events = v]
<1>1. r \in SessionType
  BY DEF Base
<1>2. CASE p.ack < r.tail
  BY <1>2, LikeSelf DEF Advertised, SameSend, SameRecv
<1>3. CASE ~(p.ack < r.tail)
  <2>1. v \in EventSet /\ p.adv_win \in Int
    BY <1>1 DEF SessionType, EventSet, Events, Packets
  <2>2. Advertised(r, p) = e
    BY <1>3 DEF Advertised
  <2>3. ("ack" \in v => "ack" \in r.events) /\ ("nack" \in v => "nack" \in r.events)
    OBVIOUS
  <2> HIDE DEF v
  <2>4. /\ e \in SessionType /\ SameSend(r, e) /\ SameRecv(r, e) /\ SameRest(r, e)
        /\ e.last_seq_sent = r.last_seq_sent /\ e.out = r.out /\ e.events = v
    BY <1>1, <2>1 DEF SessionType, SameSend, SameRecv, SameRest
  <2> HIDE DEF e
  <2>5. Like(s, r, e)
    BY <2>3, <2>4, QuietStep
  <2> QED
    BY <2>2, <2>4, <2>5
<1> QED
  BY <1>2, <1>3

(* A cumulative ack frees full slots only: "Reliability failure" is not      *)
(* reached.                                                                  *)
LEMMA AcknowledgedLike ==
  ASSUME NEW s, NEW r, Base(s, r), r.state = "open", NEW p \in Packets, ~Foreign(r, p),
         NEW w, w[1] \in Int, w[2] \in Int, w[1] <= MAX_WINDOW
  PROVE  /\ Like(s, r, Acknowledged(r, p, w)) /\ SameRecv(r, Acknowledged(r, p, w))
         /\ Acknowledged(r, p, w).head = r.head
<1> DEFINE acked == r.tail .. p.ack - 1
           win == [i \in Index |-> IF \E q \in acked : Slot(q) = i THEN NoBuff ELSE r.window[i]]
           x == r.exited \/ \E q \in acked : r.window[Slot(q)] = NoBuff
           tl == Larger(r.tail, p.ack)
           ws == w[1]
           ss == w[2]
           f == [r EXCEPT !.window = win, !.exited = x, !.tail = tl, !.window_size = ws, !.ssthresh = ss]
           v == f.events \ {"timeout"}
           g == [f EXCEPT !.events = v, !.scheduled_timeout = FALSE]
           c == IF r.scheduled_timeout THEN g ELSE f
           e == Acknowledged(r, p, w)
<1>1. r \in SessionType /\ SendOK(r)
  BY DEF Base
<1>2. /\ r.head \in Nat /\ r.tail \in Nat /\ r.window \in SendWin /\ r.exited \in BOOLEAN
      /\ p.ack \in Nat /\ p.ack <= r.head /\ MAX_WINDOW \in Nat
  BY <1>1, SizeAssumption DEF SessionType, Packets, Foreign
<1>3. win \in SendWin
  BY <1>2 DEF SendWin
<1>4. x = r.exited
  <2>1. \A q \in acked : r.window[Slot(q)] = q /\ q # NoBuff
    BY <1>1, <1>2 DEF SendOK, NoBuff
  <2> QED
    BY <1>2, <2>1
<1>5. tl \in Nat /\ tl <= r.head /\ r.tail <= tl /\ \A q \in acked : q \in Nat /\ q < tl /\ r.tail <= q
  BY <1>1, <1>2 DEF SendOK, Larger
<1>6. \A q \in tl .. r.head - 1 : win[Slot(q)] = q
  <2> SUFFICES ASSUME NEW q \in tl .. r.head - 1 PROVE win[Slot(q)] = q
    OBVIOUS
  <2>1. r.head - r.tail <= MAX_WINDOW
    BY <1>1 DEF SendOK
  <2>2. q \in Nat /\ q \in r.tail .. r.head - 1 /\ tl <= q /\ q < r.tail + MAX_WINDOW
    BY <1>2, <1>5, <2>1
  <2>3. \A y \in acked : y \in Nat /\ y < q /\ q < y + MAX_WINDOW /\ y < q + MAX_WINDOW
    BY <1>2, <1>5, <2>2
  <2>4. \A y \in acked : Slot(y) # Slot(q)
    BY <2>2, <2>3, SlotInjective
  <2>5. Slot(q) \in Index /\ r.window[Slot(q)] = q
    BY <1>1, <2>2, SlotInIndex DEF SendOK
  <2> QED
    BY <2>4, <2>5
<1>7. e = IF c.head > c.tail THEN ScheduleTimeout(c) ELSE c
  BY DEF Acknowledged
<1>8. ws \in Int /\ ss \in Int /\ ws <= MAX_WINDOW
  OBVIOUS
<1> HIDE DEF win, x, tl, ws, ss, e
<1>9. x \in BOOLEAN
  BY <1>2, <1>4
<1>10. /\ f \in SessionType /\ SameRecv(r, f) /\ SameRest(r, f)
       /\ f.last_seq_sent = r.last_seq_sent /\ f.out = r.out /\ f.events = r.events
       /\ f.seq_no = r.seq_no /\ f.head = r.head /\ f.tail = tl /\ f.window = win
       /\ f.msg_buff = r.msg_buff /\ f.window_size = ws /\ f.exited = x
  BY <1>1, <1>3, <1>5, <1>8, <1>9, ZenonT(60) DEF SessionType, SameRecv, SameRest
<1> HIDE DEF f
<1>11. SendOK(f)
  <2>1. f.tail <= f.head /\ f.head <= f.seq_no /\ f.head - f.tail <= MAX_WINDOW
    BY <1>1, <1>2, <1>5, <1>10 DEF SendOK
  <2>2. f.window_size <= MAX_WINDOW /\ ~f.exited
    BY <1>1, <1>4, <1>8, <1>10 DEF SendOK
  <2>3. \A q \in f.tail .. f.head - 1 : f.window[Slot(q)] = q
    BY <1>6, <1>10
  <2> QED
    BY <1>1, <1>10, <2>1, <2>2, <2>3 DEF SendOK
<1>12. Like(s, r, f)
  BY <1>10, <1>11, SendStep
<1>13. Base(s, f) /\ f.state = "open"
  BY <1>12, LikeBase DEF Like
<1>14. Like(s, f, c) /\ SameRecv(f, c) /\ c.head = f.head
  <2>1. CASE r.scheduled_timeout
    <3>1. v \in EventSet /\ ("ack" \in v => "ack" \in f.events) /\ ("nack" \in v => "nack" \in f.events)
      BY <1>10 DEF SessionType, EventSet
    <3> HIDE DEF v
    <3>2. /\ g \in SessionType /\ SameSend(f, g) /\ SameRecv(f, g) /\ SameRest(f, g)
          /\ g.last_seq_sent = f.last_seq_sent /\ g.out = f.out /\ g.events = v
      BY <1>10, <3>1 DEF SessionType, SameSend, SameRecv, SameRest
    <3> HIDE DEF g
    <3>3. Like(s, f, g)
      BY <1>13, <3>1, <3>2, QuietStep
    <3> QED
      BY <2>1, <3>2, <3>3 DEF SameSend
  <2>2. CASE ~r.scheduled_timeout
    BY <1>13, <2>2, LikeSelf DEF SameRecv
  <2> QED
    BY <2>1, <2>2
<1> HIDE DEF c
<1>15. Base(s, c) /\ c.state = "open" /\ c \in SessionType
  BY <1>13, <1>14, LikeBase DEF Like
<1>16. /\ Like(s, c, ScheduleTimeout(c)) /\ SameRecv(c, ScheduleTimeout(c))
       /\ ScheduleTimeout(c).head = c.head
  BY <1>15, ScheduleTimeoutLike DEF ScheduleTimeout, SameRecv, SessionType
<1>17. Like(s, r, c)
  BY <1>12, <1>14, LikeTrans
<1>18. Like(s, r, ScheduleTimeout(c))
  BY <1>16, <1>17, LikeTrans
<1>19. SameRecv(r, c) /\ SameRecv(r, ScheduleTimeout(c))
  BY <1>10, <1>14, <1>16 DEF SameRecv
<1> QED
  BY <1>7, <1>10, <1>14, <1>16, <1>17, <1>18, <1>19 DEF e

LEMMA Process_Sess_AckLike ==
  ASSUME NEW s, NEW r, Base(s, r), r.state = "open", r.flags = "CONNECTED",
         NEW p \in Packets, NEW junk \in SUBSET Nat,
         NEW w, w[1] \in Int, w[2] \in Int, w[1] <= MAX_WINDOW
  PROVE  /\ Like(s, r, Process_Sess_Ack(r, p, junk, w))
         /\ SameRecv(r, Process_Sess_Ack(r, p, junk, w))
         /\ Process_Sess_Ack(r, p, junk, w).head = r.head
<1> DEFINE a == KeepNacks(r, p, junk)
           b == Advertised(a, p)
           c == Acknowledged(b, p, w)
<1>1. Like(s, r, a) /\ SameSend(r, a) /\ SameRecv(r, a)
  BY KeepNacksLike
<1>2. Process_Sess_Ack(r, p, junk, w) = IF Foreign(r, p) THEN a ELSE c
  BY DEF Process_Sess_Ack
<1> HIDE DEF a
<1>3. Base(s, a) /\ a.state = "open"
  BY <1>1, LikeBase DEF Like
<1>4. Like(s, a, b) /\ SameSend(a, b) /\ SameRecv(a, b)
  BY <1>3, AdvertisedLike
<1> HIDE DEF b
<1>5. Base(s, b) /\ b.state = "open" /\ b.head = r.head
  BY <1>1, <1>3, <1>4, LikeBase DEF Like, SameSend
<1>6. CASE Foreign(r, p)
  BY <1>1, <1>2, <1>6 DEF SameSend
<1>7. CASE ~Foreign(r, p)
  <2>1. ~Foreign(b, p)
    BY <1>5, <1>7 DEF Foreign
  <2>2. Like(s, b, c) /\ SameRecv(b, c) /\ c.head = b.head
    BY <1>5, <2>1, AcknowledgedLike
  <2> HIDE DEF c
  <2>3. Like(s, r, b)
    BY <1>1, <1>4, LikeTrans
  <2>4. Like(s, r, c)
    BY <2>2, <2>3, LikeTrans
  <2>5. SameRecv(r, c)
    BY <1>1, <1>4, <2>2 DEF SameRecv
  <2> QED
    BY <1>2, <1>5, <1>7, <2>2, <2>4, <2>5
<1> QED
  BY <1>6, <1>7

-----------------------------------------------------------------------------
(* The receiver's window. *)

LEMMA ArrivedLike ==
  ASSUME NEW s, NEW r, Base(s, r), r.state = "open", NEW p \in Packets
  PROVE  Like(s, r, Arrived(r, p))
<1> DEFINE h == Larger(r.recv_head, p.seq_no + 1)
           w == [r.recv_window EXCEPT ![Slot(p.seq_no)] = p.seq_no]
           e == [r EXCEPT !.recv_head = h, !.recv_window = w]
<1>1. r \in SessionType /\ RecvOK(r) /\ SendOK(r) /\ StatesOK(r) /\ OutOK(s, r)
  BY DEF Base
<1>2. /\ r.recv_head \in Nat /\ r.recv_tail \in Nat /\ r.recv_window \in RecvWin /\ p.seq_no \in Nat
      /\ MAX_WINDOW \in Nat
  BY <1>1, SizeAssumption DEF SessionType, Packets
<1>3. CASE p.type = "ACK" \/ ~IsNew(r, p)
  BY <1>3, LikeSelf DEF Arrived
<1>4. CASE p.type # "ACK" /\ IsNew(r, p)
  <2>1. p.seq_no - r.recv_tail < MAX_WINDOW /\ p.seq_no >= r.recv_tail
    BY <1>4 DEF IsNew
  <2>2. h \in Nat /\ r.recv_tail <= h /\ h <= r.recv_tail + MAX_WINDOW
    BY <1>1, <1>2, <2>1 DEF RecvOK, Larger
  <2>3. Slot(p.seq_no) \in Index
    BY <1>2, SlotInIndex
  <2>4. w \in RecvWin
    BY <1>2, <2>3 DEF RecvWin
  <2>5. \A i \in Index : w[i] >= 0 =>
          Slot(w[i]) = i /\ r.recv_tail <= w[i] /\ w[i] < r.recv_tail + MAX_WINDOW
    <3> SUFFICES ASSUME NEW i \in Index, w[i] >= 0
                 PROVE  Slot(w[i]) = i /\ r.recv_tail <= w[i] /\ w[i] < r.recv_tail + MAX_WINDOW
      OBVIOUS
    <3>1. CASE i = Slot(p.seq_no)
      <4>1. w[i] = p.seq_no
        BY <1>2, <2>3, <3>1 DEF RecvWin
      <4> QED
        BY <1>2, <2>1, <3>1, <4>1
    <3>2. CASE i # Slot(p.seq_no)
      <4>1. w[i] = r.recv_window[i]
        BY <1>2, <3>2 DEF RecvWin
      <4> QED
        BY <1>1, <4>1 DEF RecvOK
    <3> QED
      BY <3>1, <3>2
  <2>6. Arrived(r, p) = e
    BY <1>4 DEF Arrived
  <2> HIDE DEF h, w
  <2>7. /\ e \in SessionType /\ SameSend(r, e) /\ SameRest(r, e)
        /\ e.recv_head = h /\ e.recv_window = w /\ e.recv_tail = r.recv_tail
        /\ e.last_seq_sent = r.last_seq_sent /\ e.out = r.out /\ e.events = r.events
    BY <1>1, <2>2, <2>4 DEF SessionType, SameSend, SameRest
  <2> HIDE DEF e
  <2>8. RecvOK(e)
    BY <2>2, <2>5, <2>7 DEF RecvOK
  <2>9. SendOK(e) /\ StatesOK(e)
    BY <1>1, <2>7, SendSame, StatesSame
  <2>10. OutOK(s, e)
    BY <1>1, <2>7, OutSame DEF SameSend, SameRest
  <2> QED
    BY <2>6, <2>7, <2>8, <2>9, <2>10 DEF Like, SameRest, SameSend
<1> QED
  BY <1>3, <1>4

LEMMA NoMoreHellosLike ==
  ASSUME NEW s, NEW r, Base(s, r), r.state = "open"
  PROVE  Like(s, r, NoMoreHellos(r)) /\ SameRecv(r, NoMoreHellos(r))
<1> DEFINE v == r.events \ {"hello"}
           c == -1
           e == [r EXCEPT !.hello_cnt = c, !.events = v]
<1>1. r \in SessionType
  BY DEF Base
<1>2. v \in EventSet /\ ("ack" \in v => "ack" \in r.events) /\ ("nack" \in v => "nack" \in r.events)
  BY <1>1 DEF SessionType, EventSet
<1>3. NoMoreHellos(r) = IF r.client = "ON" /\ r.hello_cnt >= 0 THEN e ELSE r
  BY DEF NoMoreHellos
<1> HIDE DEF v
<1>4. c \in Int
  OBVIOUS
<1> HIDE DEF c
<1>5. /\ e \in SessionType /\ SameSend(r, e) /\ SameRecv(r, e) /\ SameRest(r, e)
      /\ e.last_seq_sent = r.last_seq_sent /\ e.out = r.out /\ e.events = v
  BY <1>1, <1>2, <1>4 DEF SessionType, SameSend, SameRecv, SameRest
<1> HIDE DEF e
<1>6. Like(s, r, e)
  BY <1>2, <1>5, QuietStep
<1>7. Like(s, r, r) /\ SameRecv(r, r)
  BY LikeSelf DEF SameRecv
<1> QED
  BY <1>3, <1>5, <1>6, <1>7

(* A nonempty set of naturals has a least element. *)
LEMMA LeastExists ==
  ASSUME NEW T, T \subseteq Nat, T # {}
  PROVE  \E x \in T : \A y \in T : x <= y
<1> DEFINE R == {ss \in Nat \X Nat : ss[1] < ss[2]}
<1>1. IsWellFoundedOn(R, Nat)
  BY NatLessThanWellFounded, Zenon DEF OpToRel
<1> HIDE DEF R
<1>2. PICK x \in T : \A y \in T : ~ (<<y, x>> \in R)
  BY <1>1, WFMin
<1>3. ASSUME NEW y \in T PROVE x <= y
  <2>1. y < x => <<y, x>> \in R
    BY DEF R
  <2> QED
    BY <1>2, <2>1
<1> QED
  BY <1>3

(* The messages in order are an interval from recv_tail on, and their slots  *)
(* hold just them.                                                           *)
LEMMA InOrderIs ==
  ASSUME NEW r \in SessionType, RecvOK(r)
  PROVE  /\ InOrder(r) \in Ints /\ Len(InOrder(r)) \in Nat
         /\ r.recv_tail + Len(InOrder(r)) <= r.recv_head
         /\ \A j \in 1 .. Len(InOrder(r)) : InOrder(r)[j] = r.recv_tail + j - 1
<1> DEFINE t == r.recv_tail
           h == r.recv_head
           w == r.recv_window
           T == {m \in Nat : t + m = h \/ w[Slot(t + m)] < 0}
<1>1. t \in Nat /\ h \in Nat /\ t <= h /\ h <= t + MAX_WINDOW /\ MAX_WINDOW \in Nat /\ w \in [Index -> Int]
  BY SizeAssumption DEF SessionType, RecvOK, RecvWin
<1>2. h - t \in T
  BY <1>1
<1>3. PICK n \in T : \A m \in T : n <= m
  <2>1. T # {} /\ T \subseteq Nat
    BY <1>2
  <2> HIDE DEF T
  <2> QED
    BY <2>1, LeastExists
<1>4. n \in Nat /\ n <= h - t /\ (t + n = h \/ w[Slot(t + n)] < 0)
  BY <1>2, <1>3
<1>5. \A m \in Nat : m < n => Slot(t + m) \in Index /\ w[Slot(t + m)] >= 0
  <2> SUFFICES ASSUME NEW m \in Nat, m < n PROVE Slot(t + m) \in Index /\ w[Slot(t + m)] >= 0
    OBVIOUS
  <2>1. m \notin T
    BY <1>3, <1>4
  <2>2. t + m \in Nat /\ t + m # h
    BY <1>1, <1>4
  <2>3. Slot(t + m) \in Index
    BY <2>2, SlotInIndex
  <2> QED
    BY <1>1, <2>1, <2>2, <2>3
<1> HIDE DEF T
<1>6. Ready(r) = t .. t + n - 1
  <2>1. ASSUME NEW q \in Ready(r) PROVE q \in t .. t + n - 1
    <3>1. q \in t .. h - 1 /\ \A j \in t .. q : w[Slot(j)] >= 0
      BY <2>1 DEF Ready
    <3>2. CASE q >= t + n
      <4>1. t + n \in t .. q /\ t + n # h
        BY <1>1, <1>4, <3>1, <3>2
      <4>2. t + n \in Nat
        BY <1>1, <1>4
      <4>3. Slot(t + n) \in Index
        BY <4>2, SlotInIndex
      <4> QED
        BY <1>1, <1>4, <3>1, <4>1, <4>3
    <3> QED
      BY <1>1, <1>4, <3>1, <3>2
  <2>2. ASSUME NEW q \in t .. t + n - 1 PROVE q \in Ready(r)
    <3>1. q \in t .. h - 1
      BY <1>1, <1>4
    <3>2. ASSUME NEW j \in t .. q PROVE w[Slot(j)] >= 0
      <4>1. j - t \in Nat /\ j - t < n /\ t + (j - t) = j
        BY <1>1, <1>4
      <4> QED
        BY <1>5, <4>1
    <3> QED
      BY <3>1, <3>2 DEF Ready
  <2> QED
    BY <2>1, <2>2
<1>7. Cardinality(Ready(r)) = n
  <2>1. t \in Int /\ t + n - 1 \in Int
    BY <1>1, <1>4
  <2>2. Cardinality(t .. t + n - 1) = IF t > t + n - 1 THEN 0 ELSE (t + n - 1) - t + 1
    BY <2>1, FS_Interval
  <2> QED
    BY <1>1, <1>4, <1>6, <2>2
<1>8. InOrder(r) = [j \in 1 .. n |-> w[Slot(t + j - 1)]]
  BY <1>7 DEF InOrder
<1>9. ASSUME NEW j \in 1 .. n PROVE w[Slot(t + j - 1)] = t + j - 1
  <2>1. j - 1 \in Nat /\ j - 1 < n /\ t + (j - 1) = t + j - 1 /\ t + j - 1 \in t .. t + MAX_WINDOW - 1
    BY <1>1, <1>4
  <2>2. Slot(t + j - 1) \in Index /\ w[Slot(t + j - 1)] >= 0
    BY <1>5, <2>1
  <2> DEFINE v == w[Slot(t + j - 1)]
  <2>3. Slot(v) = Slot(t + j - 1) /\ t <= v /\ v < t + MAX_WINDOW /\ v \in Int
    BY <1>1, <2>2 DEF RecvOK
  <2> HIDE DEF v
  <2>4. v \in t .. t + MAX_WINDOW - 1
    BY <1>1, <2>3
  <2>5. v = t + j - 1
    BY <1>1, <2>1, <2>3, <2>4, SlotInjectiveFrom
  <2> QED
    BY <2>5 DEF v
<1>10. \A j \in 1 .. n : InOrder(r)[j] = t + j - 1 /\ t + j - 1 \in Int
  BY <1>1, <1>8, <1>9
<1>11. InOrder(r) \in Seq(Int) /\ Len(InOrder(r)) = n
  <2>1. InOrder(r) \in [1 .. n -> Int]
    BY <1>1, <1>8, <1>9, <1>10
  <2> QED
    BY <1>4, <2>1
<1>12. t + Len(InOrder(r)) <= h
  <2> HIDE DEF t, h
  <2> QED
    BY <1>1, <1>4, <1>11
<1>13. \A j \in 1 .. Len(InOrder(r)) : InOrder(r)[j] = t + j - 1
  BY <1>10, <1>11, Zenon
<1>14. InOrder(r) \in Ints /\ Len(InOrder(r)) \in Nat
  BY <1>4, <1>11 DEF Ints
<1> QED
  BY <1>12, <1>13, <1>14, Zenon

(* The slots of the first x messages in order are emptied. *)
LEMMA ReleasedIs ==
  ASSUME NEW r \in SessionType, RecvOK(r), NEW x \in 0 .. Len(InOrder(r))
  PROVE  LET e == Released(r, x) IN
         /\ e \in SessionType /\ RecvOK(e) /\ SameSend(r, e) /\ SameEnd(r, e)
         /\ e.recv_tail = r.recv_tail + x /\ e.got = r.got
         /\ e.rel_deliver_buff = r.rel_deliver_buff /\ e.writing = r.writing
<1> DEFINE w == [i \in Index |-> IF \E j \in 0 .. x - 1 : Slot(r.recv_tail + j) = i
                                 THEN EMPTY_CELL ELSE r.recv_window[i]]
           t == r.recv_tail + x
           e == Released(r, x)
<1>1. /\ r.recv_tail \in Nat /\ r.recv_head \in Nat /\ r.recv_window \in RecvWin /\ MAX_WINDOW \in Nat
      /\ r.recv_tail <= r.recv_head /\ r.recv_head <= r.recv_tail + MAX_WINDOW
  BY SizeAssumption DEF SessionType, RecvOK
<1>2. x \in Nat /\ r.recv_tail + x <= r.recv_head
  <2>1. Len(InOrder(r)) \in Nat /\ r.recv_tail + Len(InOrder(r)) <= r.recv_head
    BY InOrderIs
  <2> QED
    BY <1>1, <2>1
<1>3. w \in RecvWin /\ t \in Nat
  BY <1>1, <1>2 DEF RecvWin, EMPTY_CELL
<1>4. e = [r EXCEPT !.recv_window = w, !.recv_tail = t]
  BY DEF Released
<1>5. ASSUME NEW i \in Index, w[i] >= 0
      PROVE  Slot(w[i]) = i /\ t <= w[i] /\ w[i] < t + MAX_WINDOW
  <2>1. ~ \E j \in 0 .. x - 1 : Slot(r.recv_tail + j) = i
    BY <1>5 DEF EMPTY_CELL
  <2>2. w[i] = r.recv_window[i]
    BY <2>1
  <2> DEFINE v == w[i]
  <2>3. Slot(v) = i /\ r.recv_tail <= v /\ v < r.recv_tail + MAX_WINDOW /\ v \in Int
    BY <1>1, <1>5, <2>2 DEF RecvOK, RecvWin
  <2> HIDE DEF w, v
  <2>4. v >= r.recv_tail + x
    <3> SUFFICES ASSUME v < r.recv_tail + x PROVE FALSE
      BY <1>1, <1>2, <2>3
    <3>1. v - r.recv_tail \in 0 .. x - 1 /\ r.recv_tail + (v - r.recv_tail) = v
      BY <1>1, <1>2, <2>3
    <3> QED
      BY <2>1, <2>3, <3>1
  <2>5. Slot(v) = i /\ t <= v /\ v < t + MAX_WINDOW
    BY <1>1, <1>2, <2>3, <2>4
  <2> QED
    BY <2>5 DEF v
<1> HIDE DEF w, t, e
<1>6. /\ e \in SessionType /\ SameSend(r, e) /\ SameEnd(r, e)
      /\ e.recv_tail = t /\ e.recv_head = r.recv_head /\ e.recv_window = w /\ e.got = r.got
      /\ e.rel_deliver_buff = r.rel_deliver_buff /\ e.writing = r.writing
  BY <1>3, <1>4, ZenonT(60) DEF SessionType, SameSend, SameEnd
<1>7. RecvOK(e)
  <2>1. t <= r.recv_head /\ r.recv_head <= t + MAX_WINDOW
    BY <1>1, <1>2 DEF t
  <2> QED
    BY <1>5, <1>6, <2>1 DEF RecvOK
<1> QED
  BY <1>6, <1>7 DEF e, t

LEMMA ReleasedBase ==
  ASSUME NEW s, NEW n, NEW gone, NEW r, Good(s, r, n, gone), r.client = "ON",
         NEW x \in 0 .. Len(InOrder(r))
  PROVE  LET e == Released(r, x) IN
         /\ Base(s, e) /\ EndsOK(e, n, gone) /\ SameEnd(r, e)
         /\ e.recv_tail = r.recv_tail + x /\ e.got = r.got
         /\ e.rel_deliver_buff = r.rel_deliver_buff /\ e.writing = r.writing
<1> DEFINE e == Released(r, x)
<1>1. r \in SessionType /\ RecvOK(r) /\ SendOK(r) /\ GotOK(r) /\ StatesOK(r) /\ OutOK(s, r)
  BY DEF Good, Base
<1>2. /\ e \in SessionType /\ RecvOK(e) /\ SameSend(r, e) /\ SameEnd(r, e)
      /\ e.recv_tail = r.recv_tail + x /\ e.got = r.got
      /\ e.rel_deliver_buff = r.rel_deliver_buff /\ e.writing = r.writing
  BY <1>1, ReleasedIs
<1> HIDE DEF e
<1>3. SendOK(e)
  BY <1>1, <1>2, SendSame
<1>4. GotOK(e) /\ StatesOK(e)
  BY <1>1, <1>2 DEF GotOK, StatesOK, SameEnd
<1>5. OutOK(s, e)
  BY <1>1, <1>2, OutSame DEF SameSend, SameEnd
<1>6. EndsOK(e, n, gone)
  BY <1>2 DEF Good, EndsOK, SameEnd
<1>7. Base(s, e)
  BY <1>1, <1>2, <1>3, <1>4, <1>5 DEF Base
<1> QED
  BY <1>2, <1>6, <1>7 DEF e

LEMMA SumShift ==
  ASSUME NEW a \in Int, NEW b \in Int, NEW m \in Int, NEW t \in Int, a + b = t + 1
  PROVE  a + (b + m) = t + m + 1
  OBVIOUS

LEMMA DeliverInOrderGood ==
  ASSUME NEW s \in Side, NEW n, NEW gone, NEW r, Good(s, r, n, gone), r.state = "open",
         r.client = "ON", r.flags = "CONNECTED", NEW k, NEW failure \in BOOLEAN, NEW route \in BOOLEAN,
         r.rel_deliver_buff = << >> => k \in 0 .. Len(InOrder(r)) /\ (k = Len(InOrder(r)) => ~failure)
  PROVE  Good(s, DeliverInOrder(s, r, k, failure, route), n, gone)
<1> DEFINE ms == InOrder(r)
           m == Len(ms)
           a == Released(r, m)
           b == r.rel_deliver_buff \o ms
           f == [a EXCEPT !.rel_deliver_buff = b]
           d == Released(r, k)
           e == DeliverInOrder(s, r, k, failure, route)
<1>1. r \in SessionType /\ RecvOK(r) /\ StreamOK(r)
  BY DEF Good, Base
<1>2. /\ ms \in Ints /\ m \in Nat /\ \A j \in 1 .. m : ms[j] = r.recv_tail + j - 1
  BY <1>1, InOrderIs
<1>3. /\ r.recv_tail \in Nat /\ r.got \in Ints /\ Len(r.got) \in Nat /\ r.rel_deliver_buff \in Ints
      /\ Len(r.rel_deliver_buff) \in Nat
  BY <1>1 DEF SessionType, Ints
<1>4. Len(r.got) + Len(r.rel_deliver_buff) = r.recv_tail + 1 /\ Numbered(r.rel_deliver_buff, Len(r.got))
  BY <1>1 DEF StreamOK
<1>5. m \in 0 .. Len(InOrder(r))
  BY <1>2
<1>6. e = IF r.rel_deliver_buff # << >>
          THEN EndIfPeerIsDone(s, [a EXCEPT !.rel_deliver_buff = @ \o ms], route)
          ELSE IF k < m /\ failure
          THEN Net_Rel_Sess_Send(s, d, ms, k, failure, route)
          ELSE EndIfPeerIsDone(s, Net_Rel_Sess_Send(s, a, ms, k, failure, route), route)
  BY DEF DeliverInOrder
<1>7. /\ Base(s, a) /\ EndsOK(a, n, gone) /\ SameEnd(r, a) /\ a.recv_tail = r.recv_tail + m
      /\ a.got = r.got /\ a.rel_deliver_buff = r.rel_deliver_buff /\ a.writing = r.writing
  BY <1>5, ReleasedBase
<1>8. Numbered(ms, Len(r.got) + Len(r.rel_deliver_buff))
  <2> SUFFICES ASSUME NEW j \in 1 .. m
               PROVE  ms[j] = Expected(Len(r.got) + Len(r.rel_deliver_buff) + j)
    BY DEF Numbered
  <2>1. ms[j] = r.recv_tail + j - 1
    BY <1>2
  <2>2. Expected(r.recv_tail + 1 + j) = r.recv_tail + j - 1
    BY <1>2, <1>3 DEF Expected
  <2> QED
    BY <1>4, <2>1, <2>2
<1> HIDE DEF ms, m, a, d, e
<1>9. CASE r.rel_deliver_buff # << >>
  <2>1. b \in Ints /\ Len(b) = Len(r.rel_deliver_buff) + m /\ Numbered(b, Len(r.got))
    BY <1>2, <1>3, <1>4, <1>8, NumberedCat DEF m
  <2>2. e = EndIfPeerIsDone(s, f, route)
    BY <1>6, <1>7, <1>9
  <2> HIDE DEF b
  <2>3. a \in SessionType
    BY <1>7 DEF Base
  <2>4. /\ f \in SessionType /\ f.rel_deliver_buff = b /\ f.got = a.got /\ f.writing = a.writing
        /\ SameSend(a, f) /\ SameRecv(a, f) /\ SameEnd(a, f)
    BY <2>1, <2>3 DEF SessionType, SameSend, SameRecv, SameEnd
  <2> HIDE DEF f
  <2>5. GotOK(f)
    BY <1>7, <2>4 DEF Base, GotOK
  <2>6. a.state = "open" /\ (f.writing => a.flags = "CONNECTED" /\ a.client = "ON")
    BY <1>7 DEF SameEnd
  <2>7. Base(s, f)
    BY <1>7, <2>4, <2>5, <2>6, StreamBase
  <2>8. f.state = "open" /\ f.client = "ON" /\ f.flags = "CONNECTED" /\ f.recv_tail = r.recv_tail + m
    BY <1>7, <2>4 DEF SameEnd, SameRecv
  <2>9. Len(f.got) + Len(f.rel_deliver_buff) = r.recv_tail + m + 1
    <3>1. Len(f.got) = Len(r.got) /\ Len(f.rel_deliver_buff) = Len(r.rel_deliver_buff) + m
      BY <1>7, <2>1, <2>4
    <3> DEFINE A == Len(r.got)
               B == Len(r.rel_deliver_buff)
               T == r.recv_tail
    <3>2. A \in Int /\ B \in Int /\ m \in Int /\ T \in Int
      BY <1>2, <1>3
    <3>3. A + B = T + 1
      BY <1>4
    <3> HIDE DEF A, B, T
    <3>4. A + (B + m) = T + m + 1
      BY <3>2, <3>3, SumShift
    <3> QED
      BY <3>1, <3>4 DEF A, B, T
  <2>10. StreamOK(f)
    BY <1>7, <2>1, <2>4, <2>8, <2>9 DEF StreamOK
  <2>11. EndsOK(f, n, gone)
    BY <1>7, <2>4 DEF EndsOK, SameEnd, SameRecv
  <2>12. Good(s, f, n, gone)
    BY <2>7, <2>10, <2>11 DEF Good
  <2>13. Good(s, EndIfPeerIsDone(s, f, route), n, gone)
    BY <2>8, <2>12, EndIfGood
  <2> QED
    BY <2>2, <2>13 DEF e
<1>10. CASE r.rel_deliver_buff = << >>
  <2>1. k \in 0 .. m /\ (k = m => ~failure) /\ k \in 0 .. Len(InOrder(r))
    BY <1>10 DEF m, ms
  <2>2. Numbered(ms, Len(r.got)) /\ Len(r.got) = r.recv_tail + 1
    BY <1>3, <1>4, <1>8, <1>10
  <2>3. CASE k < m /\ failure
    <3>1. /\ Base(s, d) /\ EndsOK(d, n, gone) /\ SameEnd(r, d)
          /\ d.got = r.got /\ d.rel_deliver_buff = r.rel_deliver_buff
      BY <2>1, ReleasedBase DEF d
    <3>2. /\ d.state = "open" /\ d.flags = "CONNECTED" /\ d.rel_deliver_buff = << >>
          /\ Numbered(ms, Len(d.got))
      BY <1>10, <2>2, <3>1 DEF SameEnd
    <3>3. Good(s, Net_Rel_Sess_Send(s, d, ms, k, failure, route), n, gone)
      BY <1>2, <2>1, <2>3, <3>1, <3>2, Net_Rel_Sess_SendGood DEF m
    <3>4. e = Net_Rel_Sess_Send(s, d, ms, k, failure, route)
      BY <1>6, <1>10, <2>3
    <3> QED
      BY <3>3, <3>4 DEF e
  <2>4. CASE ~(k < m /\ failure)
    <3>1. ~failure
      BY <1>2, <2>1, <2>4
    <3>2. /\ a.state = "open" /\ a.flags = "CONNECTED" /\ a.rel_deliver_buff = << >> /\ a.client = "ON"
          /\ Numbered(ms, Len(a.got))
      BY <1>7, <1>10, <2>2 DEF SameEnd
    <3>3. Len(a.got) + Len(ms) = a.recv_tail + 1
      BY <1>2, <1>3, <1>7, <2>2 DEF m
    <3> DEFINE g == Net_Rel_Sess_Send(s, a, ms, k, failure, route)
    <3>4. Good(s, g, n, gone) /\ g.client = "ON" /\ g.state = "open"
      <4>1. k \in 0 .. Len(ms) /\ (k = Len(ms) => ~failure)
        BY <2>1 DEF m
      <4>2. a.client = "ON" => /\ a.rel_deliver_buff = << >> /\ Numbered(ms, Len(a.got))
                               /\ ~failure => Len(a.got) + Len(ms) = a.recv_tail + 1
        BY <3>2, <3>3
      <4>3. Base(s, a) /\ EndsOK(a, n, gone) /\ ms \in Ints
        BY <1>2, <1>7
      <4> QED
        BY <3>1, <3>2, <4>1, <4>2, <4>3, Net_Rel_Sess_SendGood
    <3>5. e = EndIfPeerIsDone(s, g, route)
      BY <1>6, <1>10, <2>4
    <3> HIDE DEF g
    <3>6. Good(s, EndIfPeerIsDone(s, g, route), n, gone)
      BY <3>4, EndIfGood
    <3> QED
      BY <3>5, <3>6 DEF e
  <2> QED
    BY <2>3, <2>4
<1> QED
  BY <1>9, <1>10

-----------------------------------------------------------------------------
(* The packets. *)

(* How many messages in order the record scheduled in Deliver_Rel_UDP_Data   *)
(* has depends on the receiving half only.                                   *)
LEMMA InOrderSame ==
  ASSUME NEW r, NEW e, SameRecv(r, e) PROVE InOrder(e) = InOrder(r)
<1>1. Ready(e) = Ready(r)
  BY DEF Ready, SameRecv
<1> QED
  BY <1>1 DEF InOrder, SameRecv

LEMMA ArrivedSame ==
  ASSUME NEW r \in SessionType, NEW e \in SessionType, SameRecv(r, e), e.head = r.head, NEW p
  PROVE  SameRecv(Arrived(r, p), Arrived(e, p)) /\ (IsNew(e, p) <=> IsNew(r, p))
<1>1. IsNew(e, p) <=> IsNew(r, p)
  BY DEF IsNew, Foreign, SameRecv
<1>2. CASE p.type = "ACK" \/ ~IsNew(r, p)
  BY <1>1, <1>2 DEF Arrived
<1>3. CASE p.type # "ACK" /\ IsNew(r, p)
  <2> DEFINE h == Larger(r.recv_head, p.seq_no + 1)
             w == [r.recv_window EXCEPT ![Slot(p.seq_no)] = p.seq_no]
             f == [r EXCEPT !.recv_head = h, !.recv_window = w]
             g == [e EXCEPT !.recv_head = h, !.recv_window = w]
  <2>1. Arrived(r, p) = f
    BY <1>3 DEF Arrived
  <2>2. Arrived(e, p) = g
    BY <1>1, <1>3 DEF Arrived, SameRecv
  <2> HIDE DEF h, w
  <2>3. f.recv_head = h /\ f.recv_window = w /\ f.recv_tail = r.recv_tail
    BY DEF SessionType
  <2>4. g.recv_head = h /\ g.recv_window = w /\ g.recv_tail = e.recv_tail
    BY DEF SessionType
  <2> QED
    BY <1>1, <2>1, <2>2, <2>3, <2>4 DEF SameRecv
<1> QED
  BY <1>2, <1>3

LEMMA Deliver_Rel_UDP_DataGood ==
  ASSUME NEW s \in Side, NEW n, NEW gone, NEW r, Good(s, r, n, gone), r.state = "open",
         r.flags = "CONNECTED", NEW p \in Packets, NEW junk \in SUBSET Nat,
         NEW w, w[1] \in Int, w[2] \in Int, w[1] <= MAX_WINDOW,
         NEW k, NEW failure \in BOOLEAN, NEW route \in BOOLEAN,
         (/\ r.client = "ON" /\ r.rel_deliver_buff = << >>
          /\ p.type = "DATA" /\ IsNew(r, p) /\ p.seq_no = r.recv_tail)
         => /\ k \in 0 .. Len(InOrder(Arrived(r, p)))
            /\ k = Len(InOrder(Arrived(r, p))) => ~failure
  PROVE  LET e == Deliver_Rel_UDP_Data(s, r, p, junk, w, k, failure, route) IN
         Good(s, e, n, gone) /\ Kept(r, e)
<1> DEFINE x == Process_Sess_Ack(r, p, junk, w)
           y == Arrived(x, p)
           a == NoMoreHellos(y)
           v == a.events \cup {"ack"}
           b == [a EXCEPT !.scheduled_ack = TRUE, !.events = v]
           isNew == p.type = "DATA" /\ IsNew(r, p)
           e == Deliver_Rel_UDP_Data(s, r, p, junk, w, k, failure, route)
<1>1. r \in SessionType /\ Base(s, r)
  BY DEF Good, Base
<1>2. Like(s, r, x) /\ SameRecv(r, x) /\ x.head = r.head
  BY <1>1, Process_Sess_AckLike
<1>3. e = IF r.client # "ON" \/ (p.type = "ACK" /\ ~Foreign(r, p)) THEN a
          ELSE IF Len(r.rel_deliver_buff) >= 3 * MAX_BUFF_SESS
          THEN Disconnect_Reliable_Session(s, a, route)
          ELSE IF ~isNew \/ p.seq_no # r.recv_tail THEN b
          ELSE DeliverInOrder(s, b, k, failure, route)
  BY DEF Deliver_Rel_UDP_Data
<1> HIDE DEF x, e
<1>4. Base(s, x) /\ x \in SessionType /\ x.state = "open"
  BY <1>1, <1>2, LikeBase DEF Like
<1>5. Like(s, x, y)
  BY <1>4, ArrivedLike
<1>6. SameRecv(Arrived(r, p), y)
  BY <1>1, <1>2, <1>4, ArrivedSame
<1> HIDE DEF y
<1>7. Base(s, y) /\ y.state = "open"
  BY <1>4, <1>5, LikeBase DEF Like
<1>8. Like(s, y, a) /\ SameRecv(y, a)
  BY <1>7, NoMoreHellosLike
<1> HIDE DEF a
<1>9. Like(s, r, a)
  <2>1. Like(s, r, y)
    BY <1>2, <1>5, LikeTrans
  <2> QED
    BY <1>8, <2>1, LikeTrans
<1>10. Good(s, a, n, gone) /\ Kept(r, a) /\ Base(s, a)
  BY <1>9, LikeGood
<1>11. /\ a \in SessionType /\ a.state = "open" /\ a.flags = "CONNECTED" /\ a.client = r.client
       /\ a.rel_deliver_buff = r.rel_deliver_buff
  BY <1>9 DEF Like
<1>12. v \in EventSet /\ ("nack" \in v => "nack" \in a.events)
  BY <1>11 DEF SessionType, EventSet, Events
<1> HIDE DEF v
<1>13. /\ b \in SessionType /\ SameSend(a, b) /\ SameRecv(a, b) /\ SameRest(a, b)
       /\ b.last_seq_sent = a.last_seq_sent /\ b.out = a.out /\ b.events = v
  BY <1>11, <1>12 DEF SessionType, SameSend, SameRecv, SameRest
<1> HIDE DEF b
<1>14. Like(s, a, b)
  BY <1>10, <1>11, <1>12, <1>13, QuietStep
<1>15. Good(s, b, n, gone)
  BY <1>10, <1>14, LikeGood
<1>16. CASE r.client # "ON" \/ (p.type = "ACK" /\ ~Foreign(r, p))
  BY <1>3, <1>10, <1>16 DEF e
<1>17. CASE ~(r.client # "ON" \/ (p.type = "ACK" /\ ~Foreign(r, p)))
  <2>1. r.client = "ON"
    BY <1>17
  <2>2. CASE Len(r.rel_deliver_buff) >= 3 * MAX_BUFF_SESS
    <3>1. Complete(a, n, gone)
      BY <1>10 DEF Good, EndsOK, Complete
    <3>2. Good(s, Disconnect_Reliable_Session(s, a, route), n, gone)
      BY <1>10, <1>11, <3>1, DisconnectGood
    <3>3. e = Disconnect_Reliable_Session(s, a, route)
      BY <1>3, <1>17, <2>2
    <3> QED
      BY <2>1, <3>2, <3>3 DEF Kept, e
  <2>3. CASE ~(Len(r.rel_deliver_buff) >= 3 * MAX_BUFF_SESS) /\ (~isNew \/ p.seq_no # r.recv_tail)
    <3>1. e = b
      BY <1>3, <1>17, <2>3
    <3> QED
      BY <1>15, <2>1, <3>1 DEF Kept, e
  <2>4. CASE ~(Len(r.rel_deliver_buff) >= 3 * MAX_BUFF_SESS) /\ isNew /\ p.seq_no = r.recv_tail
    <3>1. e = DeliverInOrder(s, b, k, failure, route)
      BY <1>3, <1>17, <2>4
    <3>2. SameRecv(Arrived(r, p), b)
      BY <1>6, <1>8, <1>13 DEF SameRecv
    <3>3. InOrder(b) = InOrder(Arrived(r, p))
      BY <3>2, InOrderSame
    <3>4. b.state = "open" /\ b.client = "ON" /\ b.flags = "CONNECTED" /\ b.rel_deliver_buff = r.rel_deliver_buff
      BY <1>11, <1>13, <2>1 DEF SameRest
    <3>5. b.rel_deliver_buff = << >> => k \in 0 .. Len(InOrder(b)) /\ (k = Len(InOrder(b)) => ~failure)
      BY <2>1, <2>4, <3>3, <3>4
    <3>6. Good(s, DeliverInOrder(s, b, k, failure, route), n, gone)
      BY <1>15, <3>4, <3>5, DeliverInOrderGood
    <3> QED
      BY <2>1, <3>1, <3>6 DEF Kept, e
  <2> QED
    BY <2>2, <2>3, <2>4
<1> QED
  BY <1>16, <1>17

LEMMA LikeEnds ==
  ASSUME NEW s, NEW n, NEW gone, NEW r, NEW e, EndsOK(r, n, gone), Like(s, r, e)
  PROVE  EndsOK(e, n, gone)
  BY DEF EndsOK, Like

LEMMA BothEmpty ==
  ASSUME NEW a \in Ints, NEW b \in Ints, Len(a) + Len(b) = 0
  PROVE  a = << >> /\ b = << >>
<1>1. Len(a) \in Nat /\ Len(b) \in Nat
  BY DEF Ints
<1>2. Len(a) = 0 /\ Len(b) = 0
  BY <1>1
<1> QED
  BY <1>2 DEF Ints

(* The handshake completes: the hello is the first message of the stream.    *)
LEMMA Process_HelloGood ==
  ASSUME NEW s \in Side, NEW n, NEW gone, NEW r, Good(s, r, n, gone), r.state = "open",
         r.flags \in {"CONNECT_WAIT", "ACCEPT_WAIT"}, NEW k \in 0 .. 1, NEW failure \in BOOLEAN,
         k = 1 => ~failure, NEW route \in BOOLEAN
  PROVE  LET e == Process_Hello(s, r, k, failure, route) IN Good(s, e, n, gone) /\ Kept(r, e)
<1> DEFINE u == [r EXCEPT !.hello_cnt = 0, !.flags = "CONNECTED"]
           a == IF r.flags = "CONNECT_WAIT" THEN Ses_Send_Rel_Hello(s, u, route) ELSE u
           ms == <<Hello>>
           e == Process_Hello(s, r, k, failure, route)
<1>1. /\ r \in SessionType /\ SendOK(r) /\ RecvOK(r) /\ GotOK(r) /\ StatesOK(r) /\ OutOK(s, r)
      /\ StreamOK(r) /\ EndsOK(r, n, gone) /\ "CONNECTED" \in Flags
  BY DEF Good, Base, Flags
<1>2. e = Net_Rel_Sess_Send(s, a, ms, k, failure, route)
  BY DEF Process_Hello
<1>3. /\ u \in SessionType /\ SameSend(r, u) /\ SameRecv(r, u) /\ u.flags = "CONNECTED"
      /\ u.state = r.state /\ u.client = r.client /\ u.sock = r.sock
      /\ u.disconnecting = r.disconnecting /\ u.reused = r.reused /\ u.ended = r.ended
      /\ u.last_seq_sent = r.last_seq_sent /\ u.out = r.out /\ u.events = r.events
      /\ u.got = r.got /\ u.rel_deliver_buff = r.rel_deliver_buff /\ u.writing = r.writing
  <2> DEFINE c == 0
             fl == "CONNECTED"
  <2>1. u = [r EXCEPT !.hello_cnt = c, !.flags = fl] /\ c \in Int /\ fl \in Flags
    BY <1>1
  <2> HIDE DEF c, fl, u
  <2>2. /\ u \in SessionType /\ SameSend(r, u) /\ SameRecv(r, u) /\ u.flags = fl
        /\ u.state = r.state /\ u.client = r.client /\ u.sock = r.sock
        /\ u.disconnecting = r.disconnecting /\ u.reused = r.reused /\ u.ended = r.ended
        /\ u.last_seq_sent = r.last_seq_sent /\ u.out = r.out /\ u.events = r.events
        /\ u.got = r.got /\ u.rel_deliver_buff = r.rel_deliver_buff /\ u.writing = r.writing
    <3>1. r \in SessionType
      BY <1>1
    <3> QED
      BY <2>1, <3>1, ZenonT(60) DEF SessionType, SameSend, SameRecv
  <2> QED
    BY <2>2 DEF fl
<1> HIDE DEF u, e
<1>4. SendOK(u) /\ RecvOK(u)
  BY <1>1, <1>3, SendSame, RecvSame
<1>5. GotOK(u) /\ StatesOK(u) /\ EndsOK(u, n, gone)
  BY <1>1, <1>3 DEF GotOK, StatesOK, EndsOK, SameRecv
<1>6. OutOK(s, u)
  BY <1>1, <1>3, OutSame DEF SameSend
<1>7. Base(s, u)
  BY <1>3, <1>4, <1>5, <1>6 DEF Base
<1>8. Like(s, u, a)
  <2>1. Like(s, u, Ses_Send_Rel_Hello(s, u, route))
    BY <1>3, <1>7, HelloLike
  <2>2. Like(s, u, u)
    BY <1>7, LikeSelf
  <2> QED
    BY <2>1, <2>2
<1> HIDE DEF a
<1>9. Base(s, a) /\ EndsOK(a, n, gone)
  BY <1>5, <1>7, <1>8, LikeBase, LikeEnds
<1>10. /\ a.state = "open" /\ a.flags = "CONNECTED" /\ a.client = r.client /\ a.got = r.got
       /\ a.rel_deliver_buff = r.rel_deliver_buff /\ a.recv_tail = r.recv_tail
       /\ r.client # "ON" => a.seq_no = r.seq_no
  BY <1>3, <1>8 DEF Like, SameRecv, SameSend
<1>11. ms \in Ints /\ Len(ms) = 1 /\ Numbered(ms, 0)
  BY DEF Ints, Numbered, Expected, Hello
<1> HIDE DEF ms
<1>12. r.client = "ON" => r.got = << >> /\ r.rel_deliver_buff = << >> /\ r.recv_tail = 0
  <2> SUFFICES ASSUME r.client = "ON"
               PROVE  r.got = << >> /\ r.rel_deliver_buff = << >> /\ r.recv_tail = 0
    OBVIOUS
  <2>1. /\ Len(r.got) + Len(r.rel_deliver_buff) = 0 /\ r.recv_tail = 0
        /\ r.got \in Ints /\ r.rel_deliver_buff \in Ints
    BY <1>1 DEF StreamOK, SessionType
  <2> QED
    BY <2>1, BothEmpty
<1>13. a.client = "ON" => /\ a.rel_deliver_buff = << >> /\ Numbered(ms, Len(a.got))
                          /\ ~failure => Len(a.got) + Len(ms) = a.recv_tail + 1
  <2> SUFFICES ASSUME a.client = "ON"
               PROVE  /\ a.rel_deliver_buff = << >> /\ Numbered(ms, Len(a.got))
                      /\ Len(a.got) + Len(ms) = a.recv_tail + 1
    OBVIOUS
  <2>1. a.got = << >> /\ a.rel_deliver_buff = << >> /\ a.recv_tail = 0
    BY <1>10, <1>12
  <2>2. Len(a.got) = 0
    BY <2>1
  <2> QED
    BY <1>11, <2>1, <2>2
<1>14. k \in 0 .. Len(ms) /\ (k = Len(ms) => ~failure)
  BY <1>11
<1>15. Good(s, e, n, gone) /\ Kept(a, e)
  BY <1>2, <1>9, <1>10, <1>11, <1>13, <1>14, Net_Rel_Sess_SendGood, ZenonT(60)
<1> QED
  BY <1>10, <1>15 DEF Kept, e

LEMMA GoodCloses ==
  ASSUME NEW s, NEW n, NEW gone, NEW r, Good(s, r, n, gone)
  PROVE  Good(s, Session_Close(r), n, gone) /\ Kept(r, Session_Close(r))
<1>1. r \in SessionType /\ GotOK(r) /\ ~r.exited /\ Complete(r, n, gone)
  BY DEF Good, Base, SendOK, EndsOK, Complete
<1>2. /\ IsFiniteSet(r.out)
      /\ \A p \in r.out : p.to # s /\ (p.type = "DISCNCT" => p.seq_no = r.seq_no)
  BY DEF Good, Base, OutOK
<1>3. /\ Good(s, Session_Close(r), n, gone)
      /\ Session_Close(r).client # "ON" /\ Session_Close(r).seq_no = r.seq_no
  BY <1>1, <1>2, Session_CloseGood
<1> QED
  BY <1>3 DEF Kept

(* The peer has disconnected after n messages. *)
LEMMA Process_DiscnctGood ==
  ASSUME NEW s \in Side, NEW n, NEW gone \in BOOLEAN, NEW r, Good(s, r, n, gone), r.state = "open",
         r.flags = "CONNECTED", NEW p \in Packets, p.seq_no = n, gone, NEW route \in BOOLEAN
  PROVE  LET e == Process_Discnct(s, r, p, route) IN Good(s, e, n, gone) /\ Kept(r, e)
<1> DEFINE x == [r EXCEPT !.disconnecting = TRUE, !.ended = TRUE]
           y == [r EXCEPT !.disconnecting = TRUE, !.last_seq_sent = p.seq_no]
           z == [r EXCEPT !.flags = "DISCONNECT"]
           h == Ses_Send_Rel_Hello(s, z, route)
           e == Process_Discnct(s, r, p, route)
<1>1. /\ r \in SessionType /\ SendOK(r) /\ RecvOK(r) /\ GotOK(r) /\ StatesOK(r) /\ OutOK(s, r)
      /\ StreamOK(r) /\ EndsOK(r, n, gone) /\ p.seq_no \in Int /\ "DISCONNECT" \in Flags
  BY DEF Good, Base, Flags, Packets
<1>2. CASE r.disconnecting
  BY <1>2 DEF Process_Discnct, Kept
<1>3. CASE r.client = "ON" /\ ~r.disconnecting /\ p.seq_no = r.recv_tail
  <2>1. e = Disconnect_Reliable_Session(s, x, route)
    BY <1>3 DEF Process_Discnct
  <2>2. /\ x \in SessionType /\ SameSend(r, x) /\ SameRecv(r, x)
        /\ x.state = r.state /\ x.flags = r.flags /\ x.client = r.client /\ x.sock = r.sock
        /\ x.out = r.out /\ x.events = r.events /\ x.got = r.got /\ x.writing = r.writing
    BY <1>1 DEF SessionType, SameSend, SameRecv
  <2> HIDE DEF x
  <2>3. SendOK(x) /\ RecvOK(x)
    BY <1>1, <2>2, SendSame, RecvSame
  <2>4. GotOK(x) /\ StatesOK(x)
    BY <1>1, <2>2 DEF GotOK, StatesOK
  <2>5. OutOK(s, x)
    BY <1>1, <2>2, OutSame DEF SameSend
  <2>6. Complete(x, n, gone)
    BY <1>3, <2>2 DEF Complete, SameRecv
  <2>7. Base(s, x)
    BY <2>2, <2>3, <2>4, <2>5 DEF Base
  <2>8. Good(s, Disconnect_Reliable_Session(s, x, route), n, gone)
    BY <2>2, <2>6, <2>7, DisconnectGood, ZenonT(60)
  <2> QED
    BY <1>3, <2>1, <2>8 DEF Kept
<1>4. CASE r.client = "ON" /\ ~r.disconnecting /\ p.seq_no # r.recv_tail
  <2>1. e = y
    BY <1>4 DEF Process_Discnct
  <2>2. /\ y \in SessionType /\ SameSend(r, y) /\ SameRecv(r, y) /\ y.last_seq_sent = p.seq_no
        /\ y.state = r.state /\ y.flags = r.flags /\ y.client = r.client /\ y.sock = r.sock
        /\ y.out = r.out /\ y.events = r.events /\ y.got = r.got /\ y.writing = r.writing
        /\ y.ended = r.ended /\ y.reused = r.reused /\ y.rel_deliver_buff = r.rel_deliver_buff
    BY <1>1 DEF SessionType, SameSend, SameRecv
  <2> HIDE DEF y
  <2>3. SendOK(y) /\ RecvOK(y)
    BY <1>1, <2>2, SendSame, RecvSame
  <2>4. GotOK(y) /\ StatesOK(y) /\ StreamOK(y)
    BY <1>1, <2>2 DEF GotOK, StatesOK, StreamOK, SameRecv
  <2>5. OutOK(s, y)
    BY <1>1, <2>2, OutSame DEF SameSend
  <2>6. EndsOK(y, n, gone)
    BY <1>1, <2>2 DEF EndsOK, SameRecv
  <2>7. Good(s, y, n, gone)
    BY <2>2, <2>3, <2>4, <2>5, <2>6 DEF Good, Base
  <2> QED
    BY <1>4, <2>1, <2>7 DEF Kept
<1>5. CASE r.client # "ON" /\ ~r.disconnecting
  <2>1. e = Session_Close(h)
    BY <1>5 DEF Process_Discnct
  <2>2. /\ z \in SessionType /\ SameSend(r, z) /\ SameRecv(r, z) /\ z.flags = "DISCONNECT"
        /\ z.state = "open" /\ z.client = r.client /\ z.out = r.out /\ z.got = r.got
        /\ z.ended = r.ended /\ z.reused = r.reused
    BY <1>1 DEF SessionType, SameSend, SameRecv
  <2> HIDE DEF z, e
  <2>3. GotOK(z) /\ ~z.exited /\ Complete(z, n, gone)
    BY <1>1, <2>2 DEF GotOK, SendOK, SameSend, Complete, EndsOK, SameRecv
  <2>4. OutOK(s, z)
    BY <1>1, <2>2, OutSame DEF SameSend
  <2>5. CASE z.hello_cnt > Hello_Limit
    <3>1. h = Session_Close(z)
      BY <2>2, <2>5 DEF Ses_Send_Rel_Hello
    <3>2. Good(s, h, n, gone) /\ h.client # "ON" /\ h.seq_no = z.seq_no
      <4>1. /\ IsFiniteSet(z.out)
            /\ \A q \in z.out : q.to # s /\ (q.type = "DISCNCT" => q.seq_no = z.seq_no)
        BY <2>4 DEF OutOK
      <4>2. /\ Good(s, Session_Close(z), n, gone) /\ Session_Close(z).client # "ON"
            /\ Session_Close(z).seq_no = z.seq_no
        <5>1. z \in SessionType
          BY <2>2
        <5> HIDE DEF h
        <5> QED
          BY <2>3, <4>1, <5>1, Session_CloseGood, ZenonT(60)
      <4> QED
        BY <3>1, <4>2
    <3> HIDE DEF h
    <3>3. Good(s, Session_Close(h), n, gone) /\ Kept(h, Session_Close(h))
      BY <3>2, GoodCloses
    <3> QED
      BY <2>1, <2>2, <3>2, <3>3 DEF Kept, SameSend, e
  <2>6. CASE ~(z.hello_cnt > Hello_Limit)
    <3>1. z.flags \in Flags \ {"UNAVAILABLE"}
      BY <2>2 DEF Flags
    <3>2. h \in SessionType /\ OutOK(s, h) /\ SameSend(z, h) /\ SameRecv(z, h) /\ SameRest(z, h)
      BY <2>2, <2>4, <2>6, <3>1, HelloSent
    <3> HIDE DEF h
    <3>3. GotOK(h) /\ ~h.exited /\ Complete(h, n, gone)
      BY <2>3, <3>2 DEF GotOK, SameSend, SameRest, Complete
    <3>4. /\ IsFiniteSet(h.out)
          /\ \A q \in h.out : q.to # s /\ (q.type = "DISCNCT" => q.seq_no = h.seq_no)
      BY <3>2 DEF OutOK
    <3>5. Good(s, Session_Close(h), n, gone) /\ Session_Close(h).client # "ON" /\ Session_Close(h).seq_no = h.seq_no
      BY <3>2, <3>3, <3>4, Session_CloseGood, ZenonT(60)
    <3> QED
      BY <2>1, <2>2, <3>2, <3>5 DEF Kept, SameSend, e
  <2> QED
    BY <2>5, <2>6
<1> QED
  BY <1>1, <1>2, <1>3, <1>4, <1>5 DEF SessionType

(* What the caller of a handler has made sure of: the socket takes k of the  *)
(* messages wanted, the new congestion window fits into window[], and a      *)
(* DISCNCT tells the end of the peer's stream.                               *)
SocketFits(r, p, k, failure) ==
  /\ p.type = "HELLO" => k \in 0 .. 1 /\ (k = 1 => ~failure)
  /\ (/\ r.client = "ON" /\ r.rel_deliver_buff = << >>
      /\ p.type = "DATA" /\ IsNew(r, p) /\ p.seq_no = r.recv_tail)
     => /\ k \in 0 .. Len(InOrder(Arrived(r, p)))
        /\ k = Len(InOrder(Arrived(r, p))) => ~failure
WindowFits(w) == w[1] \in Int /\ w[2] \in Int /\ w[1] <= MAX_WINDOW
TellsEnd(p, n, gone) == p.type = "DISCNCT" => p.seq_no = n /\ gone

LEMMA ProcessGood ==
  ASSUME NEW s \in Side, NEW n, NEW gone \in BOOLEAN, NEW r, Good(s, r, n, gone), NEW p \in Packets,
         Accepts(r, p), TellsEnd(p, n, gone), NEW junk \in SUBSET Nat, NEW w, WindowFits(w),
         NEW k, NEW failure \in BOOLEAN, NEW route \in BOOLEAN, SocketFits(r, p, k, failure)
  PROVE  /\ Good(s, Process(s, r, p, junk, w, k, failure, route), n, gone)
         /\ Kept(r, Process(s, r, p, junk, w, k, failure, route))
<1> USE DEF SocketFits, WindowFits, TellsEnd
<1> DEFINE e == Process(s, r, p, junk, w, k, failure, route)
<1>1. r.state = "open" /\ r \in SessionType
  BY DEF Accepts, Good, Base
<1>2. CASE p.type = "HELLO"
  <2>1. e = Process_Hello(s, r, k, failure, route)
    BY <1>2 DEF Process
  <2>2. r.flags \in {"CONNECT_WAIT", "ACCEPT_WAIT"} /\ k \in 0 .. 1 /\ (k = 1 => ~failure)
    BY <1>2 DEF Accepts
  <2>3. Good(s, Process_Hello(s, r, k, failure, route), n, gone) /\ Kept(r, Process_Hello(s, r, k, failure, route))
    BY <1>1, <2>2, Process_HelloGood
  <2> QED
    BY <2>1, <2>3
<1>3. CASE p.type = "DISCNCT"
  <2>1. e = Process_Discnct(s, r, p, route)
    BY <1>3 DEF Process
  <2>2. r.flags = "CONNECTED" /\ p.seq_no = n /\ gone
    BY <1>3 DEF Accepts
  <2>3. Good(s, Process_Discnct(s, r, p, route), n, gone) /\ Kept(r, Process_Discnct(s, r, p, route))
    BY <1>1, <2>2, Process_DiscnctGood
  <2> QED
    BY <2>1, <2>3
<1>4. CASE p.type = "CLOSE"
  <2>1. e = IF r.disconnecting THEN Session_Close(r) ELSE r
    BY <1>4 DEF Process, Process_Close
  <2>2. Good(s, Session_Close(r), n, gone) /\ Kept(r, Session_Close(r))
    BY GoodCloses
  <2>3. Kept(r, r)
    BY DEF Kept
  <2> QED
    BY <2>1, <2>2, <2>3
<1>5. CASE p.type \notin {"HELLO", "DISCNCT", "CLOSE"}
  <2> DEFINE f == Deliver_Rel_UDP_Data(s, r, p, junk, w, k, failure, route)
  <2>1. e = f
    BY <1>5 DEF Process
  <2>2. r.flags = "CONNECTED"
    BY <1>5 DEF Accepts
  <2>3. Good(s, f, n, gone) /\ Kept(r, f)
    BY <1>1, <2>2, Deliver_Rel_UDP_DataGood
  <2> QED
    BY <2>1, <2>3
<1> QED
  BY <1>2, <1>3, <1>4, <1>5

-----------------------------------------------------------------------------
(* The invariant holds initially and every step keeps it. *)

LEMMA EmptyOut ==
  ASSUME NEW s, NEW n, NEW gone, NEW r, Good(s, r, n, gone)
  PROVE  LET e == [r EXCEPT !.out = {}] IN
         /\ Good(s, e, n, gone) /\ e \in SessionType /\ e.out = {} /\ e.seq_no = r.seq_no
         /\ e.client = r.client
<1> DEFINE o == {}
           e == [r EXCEPT !.out = o]
<1>1. r \in SessionType /\ SendOK(r) /\ RecvOK(r) /\ GotOK(r) /\ StatesOK(r)
  BY DEF Good, Base
<1>2. o \in OutSet /\ o = {}
  BY DEF OutSet
<1> HIDE DEF o
<1>3. /\ e \in SessionType /\ SameSend(r, e) /\ SameRecv(r, e) /\ SameRest(r, e)
      /\ e.out = o /\ e.events = r.events /\ e.last_seq_sent = r.last_seq_sent
  BY <1>1, <1>2 DEF SessionType, SameSend, SameRecv, SameRest
<1> HIDE DEF e
<1>4. SendOK(e) /\ RecvOK(e)
  BY <1>1, <1>3, SendSame, RecvSame
<1>5. GotOK(e) /\ StatesOK(e)
  BY <1>1, <1>3 DEF GotOK, StatesOK, SameRest
<1>6. OutOK(s, e)
  BY <1>2, <1>3, FS_EmptySet DEF OutOK
<1>7. StreamOK(e) /\ EndsOK(e, n, gone)
  BY <1>3 DEF Good, StreamOK, EndsOK, SameRest
<1>8. Good(s, e, n, gone)
  BY <1>3, <1>4, <1>5, <1>6, <1>7 DEF Good, Base
<1> QED
  BY <1>2, <1>3, <1>8 DEF e, o, SameSend, SameRest

(* What one side knows of the other stays true. *)
LEMMA KeptEnds ==
  ASSUME NEW t, NEW r, NEW a, NEW b, Good(t, r, a.seq_no, a.client # "ON"), Kept(a, b)
  PROVE  Good(t, r, b.seq_no, b.client # "ON")
  BY DEF Good, EndsOK, Kept

LEMMA StepOK ==
  ASSUME IInv, NEW s \in Side, NEW r, Good(s, r, ses[Peer(s)].seq_no, Gone(Peer(s))), Kept(ses[s], r),
         NEW through, through \subseteq r.out, ses' = [ses EXCEPT ![s] = [r EXCEPT !.out = {}]],
         net' \subseteq net \cup through, Cardinality(net') <= MaxNet
  PROVE  IInv'
<1> DEFINE t == Peer(s)
           e == [r EXCEPT !.out = {}]
           a == ses[s]
           b == ses[t]
<1>1. t \in Side /\ t # s /\ Peer(t) = s /\ \A x \in Side : x = s \/ x = t
  BY Peers, OtherSide
<1>2. ses \in [Side -> SessionType]
  BY DEF IInv
<1>3. /\ Good(s, e, b.seq_no, b.client # "ON") /\ e \in SessionType /\ e.out = {}
      /\ e.seq_no = r.seq_no /\ e.client = r.client
  BY EmptyOut DEF Gone
<1>4. Good(t, b, a.seq_no, a.client # "ON") /\ b.out = {}
  BY <1>1 DEF IInv, Gone
<1>5. ses' = [ses EXCEPT ![s] = e]
  OBVIOUS
<1>6. Peer(s) = t
  OBVIOUS
<1>7. \A p \in r.out : /\ p \in Packets /\ p.to # s
                       /\ p.type = "DISCNCT" => p.seq_no = r.seq_no /\ r.client # "ON"
  BY DEF Good, Base, OutOK, SessionType, OutSet
<1>8. IsFiniteSet(r.out)
  BY DEF Good, Base, OutOK
<1> HIDE DEF e
<1>9. ses'[s] = e /\ ses'[t] = b /\ ses' \in [Side -> SessionType]
  BY <1>1, <1>2, <1>3, <1>5
<1> HIDE DEF t
<1>10. Kept(a, e)
  BY <1>3 DEF Kept
<1>11. Good(t, b, e.seq_no, e.client # "ON")
  BY <1>4, <1>10, KeptEnds
<1>12. \A x \in Side : Good(x, ses[x], ses[Peer(x)].seq_no, Gone(Peer(x)))' /\ ses'[x].out = {}
  <2>1. Good(s, ses[s], ses[Peer(s)].seq_no, Gone(Peer(s)))' /\ ses'[s].out = {}
    BY <1>3, <1>6, <1>9 DEF Gone
  <2>2. Good(t, ses[t], ses[Peer(t)].seq_no, Gone(Peer(t)))' /\ ses'[t].out = {}
    BY <1>1, <1>4, <1>9, <1>11 DEF Gone
  <2> QED
    BY <1>1, <2>1, <2>2
<1>13. NetOK'
  <2>1. IsFiniteSet(net') /\ net' \subseteq Packets
    <3>1. IsFiniteSet(through)
      BY <1>8, FS_Subset
    <3>2. IsFiniteSet(net \cup through) /\ net \subseteq Packets
      BY <3>1, FS_Union DEF IInv, NetOK
    <3> QED
      BY <1>7, <3>2, FS_Subset
  <2>2. ASSUME NEW p \in net', NEW x \in Side, p.to = x, p.type = "DISCNCT"
        PROVE  p.seq_no = ses'[Peer(x)].seq_no /\ ses'[Peer(x)].client # "ON"
    <3>1. CASE p \in net
      <4>1. p.seq_no = ses[Peer(x)].seq_no /\ ses[Peer(x)].client # "ON"
        BY <2>2, <3>1 DEF IInv, NetOK, Gone
      <4>2. CASE x = s
        BY <1>6, <1>9, <4>1, <4>2
      <4>3. CASE x = t
        BY <1>1, <1>9, <1>10, <4>1, <4>3 DEF Kept
      <4> QED
        BY <1>1, <4>2, <4>3
    <3>2. CASE p \in through
      <4>1. p.to # s /\ p.seq_no = r.seq_no /\ r.client # "ON"
        BY <1>7, <2>2, <3>2
      <4>2. x = t
        BY <1>1, <2>2, <4>1
      <4> QED
        BY <1>1, <1>3, <1>9, <4>1, <4>2
    <3> QED
      BY <3>1, <3>2
  <2> QED
    BY <2>1, <2>2 DEF NetOK, Gone
<1> QED
  BY <1>9, <1>12, <1>13 DEF IInv

LEMMA SendsOK ==
  ASSUME IInv, NEW s \in Side, NEW r, Good(s, r, ses[Peer(s)].seq_no, Gone(Peer(s))), Kept(ses[s], r),
         Sends(s, r)
  PROVE  IInv'
<1>1. PICK through \in SUBSET r.out : Step(s, r, through)
  BY DEF Sends
<1>2. /\ ses' = [ses EXCEPT ![s] = [r EXCEPT !.out = {}]]
      /\ through \subseteq r.out /\ net' = net \cup through /\ Cardinality(net') <= MaxNet
  BY <1>1 DEF Step
<1> QED
  BY <1>2, StepOK

(* A handler that leaves the stream alone. *)
LEMMA LikeSendsOK ==
  ASSUME IInv, NEW s \in Side, NEW r, Like(s, ses[s], r), Sends(s, r)
  PROVE  IInv'
<1>1. Good(s, ses[s], ses[Peer(s)].seq_no, Gone(Peer(s)))
  BY DEF IInv
<1>2. Good(s, r, ses[Peer(s)].seq_no, Gone(Peer(s))) /\ Kept(ses[s], r)
  BY <1>1, LikeGood
<1> QED
  BY <1>2, SendsOK

LEMMA InitOK ==
  ASSUME Init PROVE IInv
<1>1. ses \in [Side -> SessionType] /\ \A s \in Side : ses[s] = NoSession
  BY NoSessionIs DEF Init
<1>2. \A s \in Side : Good(s, ses[s], ses[Peer(s)].seq_no, Gone(Peer(s))) /\ ses[s].out = {}
  BY <1>1, NoSessionGood, NoSessionIs
<1>3. NetOK
  BY FS_EmptySet, BoundAssumption DEF Init, NetOK
<1> QED
  BY <1>1, <1>2, <1>3 DEF IInv

LEMMA Here ==
  ASSUME IInv, NEW s \in Side
  PROVE  /\ ses[s] \in SessionType /\ Base(s, ses[s]) /\ ses[s].out = {}
         /\ Good(s, ses[s], ses[Peer(s)].seq_no, Gone(Peer(s)))
  BY DEF IInv, Good

LEMMA LosesOK ==
  ASSUME IInv, NEW p, net' = net \ {p}, ses' = ses
  PROVE  IInv'
<1>1. IsFiniteSet(net) /\ net' \subseteq net /\ Cardinality(net) <= MaxNet
  BY DEF IInv, NetOK
<1>2. IsFiniteSet(net') /\ Cardinality(net') <= Cardinality(net)
  BY <1>1, FS_Subset
<1>3. Cardinality(net) \in Nat /\ Cardinality(net') \in Nat /\ MaxNet \in Nat
  BY <1>1, <1>2, FS_CardinalityType, BoundAssumption
<1>4. Cardinality(net') <= MaxNet
  BY <1>1, <1>2, <1>3
<1>5. NetOK'
  BY <1>1, <1>2, <1>4 DEF IInv, NetOK, Gone
<1> QED
  BY <1>5 DEF IInv, Good, Gone

LEMMA ConnectOK ==
  ASSUME IInv, NEW s \in Side, Connect(s) PROVE IInv'
<1>1. ses[s].state = "none" /\ s = "connector"
  BY DEF Connect
<1>2. ses[s].client = "ON"
  BY <1>1, Here DEF Base, StatesOK
<1>3. PICK stale \in Stale[s] : Sends(s, Ses_Send_Rel_Hello(s, Fresh("CONNECT_WAIT", stale), TRUE))
  BY DEF Connect
<1> DEFINE f == Fresh("CONNECT_WAIT", stale)
           r == Ses_Send_Rel_Hello(s, f, TRUE)
<1>4. stale \in Int
  BY OptionAssumption
<1>5. Good(s, f, ses[Peer(s)].seq_no, Gone(Peer(s)))
  BY <1>4, FreshGood
<1> HIDE DEF f
<1>6. Good(s, r, ses[Peer(s)].seq_no, Gone(Peer(s)))
  BY <1>5, Ses_Send_Rel_HelloGood
<1>7. Kept(ses[s], r)
  BY <1>2 DEF Kept
<1>8. Sends(s, r)
  BY <1>3 DEF f
<1> HIDE DEF r
<1> QED
  BY <1>6, <1>7, <1>8, SendsOK

LEMMA AcceptOK ==
  ASSUME IInv, NEW s \in Side, Accept(s) PROVE IInv'
<1>1. ses[s].state = "none"
  BY DEF Accept
<1>2. ses[s].client = "ON"
  BY <1>1, Here DEF Base, StatesOK
<1>3. PICK stale \in Stale[s] : Sends(s, Ses_Send_Rel_Hello(s, Fresh("ACCEPT_WAIT", stale), TRUE))
  BY DEF Accept
<1> DEFINE f == Fresh("ACCEPT_WAIT", stale)
           r == Ses_Send_Rel_Hello(s, f, TRUE)
<1>4. stale \in Int
  BY OptionAssumption
<1>5. Good(s, f, ses[Peer(s)].seq_no, Gone(Peer(s)))
  BY <1>4, FreshGood
<1> HIDE DEF f
<1>6. Good(s, r, ses[Peer(s)].seq_no, Gone(Peer(s)))
  BY <1>5, Ses_Send_Rel_HelloGood
<1>7. Kept(ses[s], r)
  BY <1>2 DEF Kept
<1>8. Sends(s, r)
  BY <1>3 DEF f
<1> HIDE DEF r
<1> QED
  BY <1>6, <1>7, <1>8, SendsOK

LEMMA ClientSendOK ==
  ASSUME IInv, NEW s \in Side, ClientSend(s) PROVE IInv'
<1>1. PICK nacks \in NackSets(ses[s]), route \in BOOLEAN :
        Sends(s, Process_Reliable_Session_Packet(s, ses[s], nacks, route))
  BY DEF ClientSend
<1>2. ses[s].state = "open" /\ ses[s].client = "ON"
  BY DEF ClientSend, HasClient
<1>3. nacks \in SUBSET Nat
  BY Here, NackSetsAreNats
<1>4. Like(s, ses[s], Process_Reliable_Session_Packet(s, ses[s], nacks, route))
  BY <1>2, <1>3, Here, Process_Reliable_Session_PacketLike
<1> QED
  BY <1>1, <1>4, LikeSendsOK

LEMMA ClientCloseOK ==
  ASSUME IInv, NEW s \in Side, ClientClose(s) PROVE IInv'
<1> DEFINE r == Disconnect_Reliable_Session(s, ses[s], TRUE)
<1>1. Sends(s, r) /\ ses[s].state = "open" /\ ses[s].client = "ON"
  BY DEF ClientClose, HasClient
<1>2. Complete(ses[s], ses[Peer(s)].seq_no, Gone(Peer(s)))
  BY Here DEF Good, EndsOK, Complete
<1>3. Good(s, r, ses[Peer(s)].seq_no, Gone(Peer(s)))
  BY <1>1, <1>2, Here, DisconnectGood
<1>4. Kept(ses[s], r)
  BY <1>1 DEF Kept
<1> HIDE DEF r
<1> QED
  BY <1>1, <1>3, <1>4, SendsOK

LEMMA ClientReadsOK ==
  ASSUME IInv, NEW s \in Side, ClientReads(s) PROVE IInv'
<1>1. PICK k \in 0 .. Len(ses[s].rel_deliver_buff), failure \in BOOLEAN :
        Sends(s, Session_Write(s, ses[s], k, failure, TRUE))
  BY DEF ClientReads
<1> DEFINE r == Session_Write(s, ses[s], k, failure, TRUE)
<1>2. ses[s].writing
  BY DEF ClientReads
<1>3. Good(s, r, ses[Peer(s)].seq_no, Gone(Peer(s))) /\ Kept(ses[s], r)
  BY <1>2, Here, Session_WriteGood
<1>4. Sends(s, r)
  BY <1>1
<1> HIDE DEF r
<1> QED
  BY <1>3, <1>4, SendsOK

(* A packet is processed.  The socket takes k of the messages wanted. *)
LEMMA ReceiveOK ==
  ASSUME IInv, NEW s \in Side, NEW p \in net, NEW kept \in SUBSET {p}, Receive(s, p, kept)
  PROVE  IInv'
<1> DEFINE a == ses[s]
           n == ses[Peer(s)].seq_no
           gone == Gone(Peer(s))
<1>1. p.to = s /\ Accepts(a, p)
  BY DEF Receive
<1>2. PICK k \in 0 .. Wanted(s, p), failure \in BOOLEAN,
        junk \in (IF p.nacks = {} THEN {{}} ELSE {{}} \cup {{i} : i \in Index}),
        c \in (IF TCP_Fairness /\ p.ack > ses[s].tail THEN 0 .. 3 ELSE {0}) :
          /\ Takes(Wanted(s, p), k, failure)
          /\ \E w \in Windows(ses[s], Larger(0, p.ack - ses[s].tail), c) :
               LET r == Process(s, ses[s], p, junk, w, k, failure, TRUE) IN
               \E through \in SUBSET r.out :
                 /\ ses' = [ses EXCEPT ![s] = [r EXCEPT !.out = {}]]
                 /\ net' = ((net \ {p}) \cup kept) \cup through
                 /\ Cardinality(net') <= MaxNet
  BY DEF Receive
<1>3. PICK w \in Windows(ses[s], Larger(0, p.ack - ses[s].tail), c) :
        \E through \in SUBSET Process(s, ses[s], p, junk, w, k, failure, TRUE).out :
          /\ ses' = [ses EXCEPT ![s] = [Process(s, ses[s], p, junk, w, k, failure, TRUE) EXCEPT !.out = {}]]
          /\ net' = ((net \ {p}) \cup kept) \cup through
          /\ Cardinality(net') <= MaxNet
  BY <1>2
<1> DEFINE yes == TRUE
           r == Process(s, a, p, junk, w, k, failure, yes)
<1>4. p \in Packets /\ (p.type = "DISCNCT" => p.seq_no = n /\ gone)
  BY <1>1 DEF IInv, NetOK
<1>5. a \in SessionType /\ Good(s, a, n, gone) /\ SendOK(a)
  BY Here DEF Base
<1>6. junk \in SUBSET Nat
  BY SizeAssumption DEF Index
<1>7. w[1] \in Int /\ w[2] \in Int /\ w[1] <= MAX_WINDOW
  <2>1. Larger(0, p.ack - a.tail) \in Nat
    BY <1>4, <1>5 DEF Larger, Packets, SessionType
  <2>2. c \in 0 .. 3
    OBVIOUS
  <2> QED
    BY <1>5, <2>1, <2>2, WindowsFit
<1>8. k = Wanted(s, p) => ~failure
  BY <1>2 DEF Takes
<1>9. p.type = "HELLO" => k \in 0 .. 1 /\ (k = 1 => ~failure)
  BY <1>8 DEF Wanted
<1>10. (/\ a.client = "ON" /\ a.rel_deliver_buff = << >>
        /\ p.type = "DATA" /\ IsNew(a, p) /\ p.seq_no = a.recv_tail)
       => /\ k \in 0 .. Len(InOrder(Arrived(a, p)))
          /\ k = Len(InOrder(Arrived(a, p))) => ~failure
  <2> SUFFICES ASSUME a.client = "ON", a.rel_deliver_buff = << >>, p.type = "DATA", IsNew(a, p),
                      p.seq_no = a.recv_tail
               PROVE  Wanted(s, p) = Len(InOrder(Arrived(a, p)))
    BY <1>8
  <2> QED
    BY DEF Wanted
<1>11. gone \in BOOLEAN
  BY DEF Gone
<1>a. \E through \in SUBSET r.out :
         /\ ses' = [ses EXCEPT ![s] = [r EXCEPT !.out = {}]]
         /\ net' = ((net \ {p}) \cup kept) \cup through
         /\ Cardinality(net') <= MaxNet
  BY <1>3
<1>b. yes \in BOOLEAN /\ failure \in BOOLEAN
  OBVIOUS
<1> HIDE DEF gone, n, a, yes
<1>12. Good(s, r, n, gone) /\ Kept(a, r)
  <2>1. TellsEnd(p, n, gone)
    BY <1>4 DEF TellsEnd
  <2>2. WindowFits(w)
    BY <1>7 DEF WindowFits
  <2>3. SocketFits(a, p, k, failure)
    BY <1>9, <1>10 DEF SocketFits
  <2> QED
    BY <1>1, <1>4, <1>5, <1>6, <1>11, <1>b, <2>1, <2>2, <2>3, ProcessGood
<1> HIDE DEF r
<1>13. PICK through \in SUBSET r.out :
         /\ ses' = [ses EXCEPT ![s] = [r EXCEPT !.out = {}]]
         /\ net' = ((net \ {p}) \cup kept) \cup through
         /\ Cardinality(net') <= MaxNet
  BY <1>a
<1>14. net' \subseteq net \cup through
  BY <1>13
<1> QED
  BY <1>12, <1>13, <1>14, StepOK DEF n, gone, a

-----------------------------------------------------------------------------
(* The events of the queue. *)

(* An event runs in an open session only, an ack or nack in a connected one. *)
LEMMA PastLike ==
  ASSUME IInv, NEW s \in Side, NEW e, Runs(s, e)
  PROVE  /\ ses[s].state = "open" /\ Like(s, ses[s], Past(s, e)) /\ Base(s, Past(s, e))
         /\ Past(s, e).state = "open" /\ Past(s, e) \in SessionType
         /\ e \in {"ack", "nack"} => Past(s, e).flags = "CONNECTED"
<1> DEFINE r == ses[s]
           v == r.events \ {e}
<1>1. r \in SessionType /\ Base(s, r)
  BY Here
<1>2. r.state = "open" /\ (e \in {"ack", "nack"} => r.flags = "CONNECTED")
  BY <1>1 DEF Runs, Base, StatesOK
<1>3. v \in EventSet
  BY <1>1 DEF SessionType, EventSet
<1>4. Past(s, e) = [r EXCEPT !.events = v]
  BY DEF Past
<1>5. ("ack" \in v => "ack" \in r.events) /\ ("nack" \in v => "nack" \in r.events)
  OBVIOUS
<1> HIDE DEF v, r
<1>6. Like(s, r, [r EXCEPT !.events = v])
  BY <1>1, <1>2, <1>3, <1>5, EventsLike
<1>7. Like(s, r, Past(s, e))
  BY <1>4, <1>6
<1>8. Base(s, Past(s, e))
  BY <1>1, <1>7, LikeBase
<1>9. Past(s, e).state = r.state /\ Past(s, e).flags = r.flags /\ Past(s, e) \in SessionType
  BY <1>7 DEF Like
<1> QED
  BY <1>2, <1>7, <1>8, <1>9 DEF r

LEMMA Hello_EventOK ==
  ASSUME IInv, NEW s \in Side, Hello_Event(s) PROVE IInv'
<1>1. PICK route \in BOOLEAN : Sends(s, Ses_Send_Rel_Hello(s, Past(s, "hello"), route))
  BY DEF Hello_Event
<1> DEFINE r == Past(s, "hello")
           e == Ses_Send_Rel_Hello(s, r, route)
           n == ses[Peer(s)].seq_no
           gone == Gone(Peer(s))
<1>2. Like(s, ses[s], r)
  BY PastLike DEF Hello_Event
<1>3. Good(s, ses[s], n, gone)
  BY Here
<1>4. Sends(s, e)
  BY <1>1
<1> HIDE DEF r, n, gone
<1>5. Good(s, r, n, gone) /\ Kept(ses[s], r)
  BY <1>2, <1>3, LikeGood
<1>6. Good(s, e, n, gone) /\ Kept(r, e)
  BY <1>5, Ses_Send_Rel_HelloGood
<1> HIDE DEF e
<1>7. Kept(ses[s], e)
  BY <1>5, <1>6 DEF Kept
<1> QED
  BY <1>4, <1>6, <1>7, SendsOK DEF n, gone

LEMMA Ses_Delay_CloseOK ==
  ASSUME IInv, NEW s \in Side, Ses_Delay_Close(s) PROVE IInv'
<1> DEFINE e == Session_Close(ses[s])
<1>1. Sends(s, e)
  BY DEF Ses_Delay_Close
<1>2. Good(s, e, ses[Peer(s)].seq_no, Gone(Peer(s))) /\ Kept(ses[s], e)
  BY Here, GoodCloses
<1> HIDE DEF e
<1> QED
  BY <1>1, <1>2, SendsOK

LEMMA Ses_Try_to_SendOK ==
  ASSUME IInv, NEW s \in Side, Ses_Try_to_Send(s) PROVE IInv'
<1>1. PICK nacks \in NackSets(ses[s]), route \in BOOLEAN :
        Sends(s, Ses_Send_Much(s, Past(s, "try"), nacks, route))
  BY DEF Ses_Try_to_Send
<1> DEFINE r == Past(s, "try")
<1>2. Like(s, ses[s], r) /\ Base(s, r) /\ r.state = "open"
  BY PastLike DEF Ses_Try_to_Send
<1>3. nacks \in SUBSET Nat
  BY Here, NackSetsAreNats
<1>4. Like(s, r, Ses_Send_Much(s, r, nacks, route))
  BY <1>2, <1>3, Ses_Send_MuchLike
<1> HIDE DEF r
<1>5. Like(s, ses[s], Ses_Send_Much(s, r, nacks, route))
  BY <1>2, <1>4, LikeTrans
<1> QED
  BY <1>1, <1>5, LikeSendsOK DEF r

LEMMA Ses_Send_OneOK ==
  ASSUME IInv, NEW s \in Side, Ses_Send_One(s) PROVE IInv'
<1> DEFINE r == Past(s, "one")
           more == r.adv_win + 1
           v == r.events \cup {"try", "one"}
           e == [r EXCEPT !.adv_win = more, !.events = v]
           f == IF r.head < r.adv_win THEN r ELSE e
<1>1. Sends(s, f)
  BY DEF Ses_Send_One
<1>2. Like(s, ses[s], r) /\ Base(s, r) /\ r.state = "open" /\ r \in SessionType
  BY PastLike DEF Ses_Send_One
<1>3. more \in Int
  BY <1>2 DEF SessionType
<1>4. v \in EventSet /\ ("ack" \in v => "ack" \in r.events) /\ ("nack" \in v => "nack" \in r.events)
  BY <1>2 DEF SessionType, EventSet, Events
<1> HIDE DEF r, more, v
<1>5. /\ e \in SessionType /\ SameSend(r, e) /\ SameRecv(r, e) /\ SameRest(r, e)
      /\ e.last_seq_sent = r.last_seq_sent /\ e.out = r.out /\ e.events = v
  BY <1>2, <1>3, <1>4 DEF SessionType, SameSend, SameRecv, SameRest
<1> HIDE DEF e
<1>6. Like(s, r, e)
  BY <1>2, <1>4, <1>5, QuietStep
<1>7. Like(s, r, r)
  BY <1>2, LikeSelf
<1>8. Like(s, r, f)
  BY <1>6, <1>7
<1> HIDE DEF f
<1>9. Like(s, ses[s], f)
  BY <1>2, <1>8, LikeTrans
<1> QED
  BY <1>1, <1>9, LikeSendsOK

LEMMA Ses_Send_AckOK ==
  ASSUME IInv, NEW s \in Side, Ses_Send_Ack(s) PROVE IInv'
<1> DEFINE r == Past(s, "ack")
<1>1. PICK nacks \in NackSets(ses[s]), route \in BOOLEAN :
        Sends(s, IF ~route THEN r
                 ELSE IF r.flags # "CONNECTED" THEN [r EXCEPT !.exited = TRUE]
                 ELSE [MarkNacked(r, nacks) EXCEPT !.scheduled_ack = FALSE,
                                                   !.out = {AckPacket(s, r, nacks)}])
  BY DEF Ses_Send_Ack
<1>2. /\ Like(s, ses[s], r) /\ Base(s, r) /\ r.state = "open" /\ r \in SessionType
      /\ r.flags = "CONNECTED"
  BY PastLike DEF Ses_Send_Ack
<1>3. nacks \in SUBSET Nat
  BY Here, NackSetsAreNats
<1> DEFINE m == MarkNacked(r, nacks)
           p == AckPacket(s, r, nacks)
           o == {p}
           no == FALSE
           e == [m EXCEPT !.scheduled_ack = no, !.out = o]
           f == IF ~route THEN r ELSE e
<1>4. Sends(s, f)
  BY <1>1, <1>2
<1> HIDE DEF r
<1>5. /\ m \in SessionType /\ RecvOK(m) /\ SameSend(r, m) /\ SameRest(r, m)
      /\ m.last_seq_sent = r.last_seq_sent /\ m.events = r.events
  BY <1>2, MarkNackedIs DEF Base
<1>6. p \in Packets /\ p.to = Peer(s) /\ p.type = "ACK"
  <2> DEFINE d == DataPacket(s, r, r.seq_no, nacks)
  <2>1. d \in Packets /\ d.to = Peer(s)
    BY <1>2, <1>3, DataPacketIs DEF SessionType
  <2>2. p = [d EXCEPT !.type = "ACK"]
    BY DEF AckPacket
  <2> HIDE DEF d, p
  <2> QED
    BY <2>1, <2>2 DEF Packets
<1> HIDE DEF m, p
<1>7. o \in OutSet /\ IsFiniteSet(o) /\ no \in BOOLEAN
  BY <1>6, FS_Singleton DEF OutSet
<1>8. \A q \in o : q.to # s /\ q.type # "DISCNCT"
  BY <1>6, Peers
<1> HIDE DEF o, no
<1>9. /\ e \in SessionType /\ SameSend(m, e) /\ SameRecv(m, e) /\ SameRest(m, e)
      /\ e.last_seq_sent = m.last_seq_sent /\ e.out = o /\ e.events = m.events
  BY <1>5, <1>7, ZenonT(60) DEF SessionType, SameSend, SameRecv, SameRest
<1> HIDE DEF e
<1>10. SameSend(r, e) /\ SameRest(r, e) /\ e.last_seq_sent = r.last_seq_sent /\ e.events = r.events
  BY <1>5, <1>9 DEF SameSend, SameRest
<1>11. SendOK(e) /\ RecvOK(e)
  BY <1>2, <1>5, <1>9, <1>10, SendSame, RecvSame DEF Base
<1>12. StatesOK(e)
  BY <1>2, <1>10, StatesSame DEF Base
<1>13. OutOK(s, e)
  BY <1>7, <1>8, <1>9 DEF OutOK
<1>14. Like(s, r, e)
  BY <1>9, <1>10, <1>11, <1>12, <1>13 DEF Like, SameRest, SameSend
<1>15. Like(s, r, r)
  BY <1>2, LikeSelf
<1>16. Like(s, r, f)
  BY <1>14, <1>15
<1> HIDE DEF f
<1>17. Like(s, ses[s], f)
  BY <1>2, <1>16, LikeTrans
<1> QED
  BY <1>4, <1>17, LikeSendsOK
(* Congestion control makes the window smaller. *)
LEMMA ShrunkLike ==
  ASSUME NEW s, NEW r, Base(s, r), r.state = "open", NEW w \in Int, w <= MAX_WINDOW
  PROVE  Like(s, r, Shrunk(r, w)) /\ Base(s, Shrunk(r, w))
<1> DEFINE t == Larger(2, r.window_size \div 2)
           e == [r EXCEPT !.ssthresh = t, !.window_size = w]
<1>1. r \in SessionType /\ SendOK(r)
  BY DEF Base
<1>2. r.window_size \in Int
  BY <1>1 DEF SessionType
<1>3. t \in Int
  BY <1>2 DEF Larger
<1> HIDE DEF t
<1>4. /\ e \in SessionType /\ SameRecv(r, e) /\ SameRest(r, e) /\ e.last_seq_sent = r.last_seq_sent
      /\ e.out = r.out /\ e.events = r.events /\ e.window_size = w
  BY <1>1, <1>3 DEF SessionType, SameRecv, SameRest
<1>5. /\ e.seq_no = r.seq_no /\ e.head = r.head /\ e.tail = r.tail /\ e.window = r.window
      /\ e.msg_buff = r.msg_buff /\ e.exited = r.exited
  BY <1>1 DEF SessionType
<1> HIDE DEF e
<1>6. SendOK(e)
  BY <1>1, <1>4, <1>5 DEF SendOK
<1>7. Like(s, r, e)
  BY <1>4, <1>5, <1>6, SendStep
<1>8. Like(s, r, r)
  BY LikeSelf
<1>9. Shrunk(r, w) = IF TCP_Fairness THEN e ELSE r
  BY DEF Shrunk, e, t
<1>10. Like(s, r, Shrunk(r, w))
  BY <1>7, <1>8, <1>9
<1> QED
  BY <1>10, LikeBase

(* What the slots hold that a retransmission reads. *)
LEMMA SlotsHold ==
  ASSUME NEW r \in SessionType, NEW S \in SUBSET Nat
  PROVE  LET seqs == {r.window[Slot(q)] : q \in S} IN
         seqs \in SUBSET (Nat \cup {NoBuff}) /\ IsFiniteSet(seqs)
<1> DEFINE win == r.window
           seqs == {win[Slot(q)] : q \in S}
<1>1. win \in [Index -> Nat \cup {NoBuff}]
  BY DEF SessionType, SendWin
<1>2. IsFiniteSet(Index)
  BY FS_Interval, SizeAssumption DEF Index
<1> HIDE DEF win
<1>3. IsFiniteSet({win[i] : i \in Index})
  BY <1>1, <1>2, ImageFinite
<1>4. \A q \in S : Slot(q) \in Index
  BY SlotInIndex
<1>5. seqs \subseteq {win[i] : i \in Index}
  BY <1>4
<1>6. IsFiniteSet(seqs)
  BY <1>3, <1>5, FS_Subset
<1>7. seqs \in SUBSET (Nat \cup {NoBuff})
  BY <1>1, <1>4
<1> QED
  BY <1>6, <1>7 DEF win

LEMMA Ses_Reliable_TimeoutOK ==
  ASSUME IInv, NEW s \in Side, Ses_Reliable_Timeout(s) PROVE IInv'
<1> DEFINE r == Past(s, "timeout")
           seqs == {r.window[Slot(q)] : q \in r.tail .. r.head - 1}
<1>1. PICK nacks \in NackSets(ses[s]), route \in BOOLEAN :
        Sends(s, IF ~route THEN [r EXCEPT !.events = @ \cup {"timeout"}]
                 ELSE IF r.flags # "CONNECTED" THEN r
                 ELSE IF r.head = r.tail THEN [r EXCEPT !.scheduled_timeout = FALSE]
                 ELSE IF NoBuff \in seqs THEN [r EXCEPT !.exited = TRUE]
                 ELSE [Transmit(s, Shrunk(r, 2), seqs, nacks) EXCEPT !.events = @ \cup {"timeout"}])
  BY DEF Ses_Reliable_Timeout
<1>2. Like(s, ses[s], r) /\ Base(s, r) /\ r.state = "open" /\ r \in SessionType
  BY PastLike DEF Ses_Reliable_Timeout
<1>3. nacks \in SUBSET Nat
  BY Here, NackSetsAreNats
<1> DEFINE t == Transmit(s, Shrunk(r, 2), seqs, nacks)
           v == r.events \cup {"timeout"}
           u == t.events \cup {"timeout"}
           no == FALSE
           a == [r EXCEPT !.events = v]
           b == [r EXCEPT !.scheduled_timeout = no]
           e == [t EXCEPT !.events = u]
           f == IF ~route THEN a ELSE IF r.flags # "CONNECTED" THEN r
                ELSE IF r.head = r.tail THEN b ELSE e
<1>4. seqs \in SUBSET Nat /\ IsFiniteSet(seqs)
  <2>1. r.tail .. r.head - 1 \in SUBSET Nat
    BY <1>2 DEF SessionType
  <2>2. IsFiniteSet(seqs)
    BY <1>2, <2>1, SlotsHold
  <2>3. \A q \in r.tail .. r.head - 1 : r.window[Slot(q)] = q
    BY <1>2 DEF Base, SendOK
  <2>4. \A q \in r.tail .. r.head - 1 : r.window[Slot(q)] \in Nat
    BY <2>1, <2>3
  <2> QED
    BY <2>2, <2>4
<1>5. NoBuff \notin seqs
  BY <1>4 DEF NoBuff
<1>6. Sends(s, f)
  BY <1>1, <1>5, Zenon
<1> HIDE DEF r, seqs
<1>7. Like(s, r, a)
  <2>1. v \in EventSet /\ ("ack" \in v => "ack" \in r.events) /\ ("nack" \in v => "nack" \in r.events)
    BY <1>2 DEF SessionType, EventSet, Events
  <2> HIDE DEF v
  <2> QED
    BY <1>2, <2>1, EventsLike
<1>8. Like(s, r, b)
  <2>1. no \in BOOLEAN
    OBVIOUS
  <2> HIDE DEF no
  <2>2. /\ b \in SessionType /\ SameSend(r, b) /\ SameRecv(r, b) /\ SameRest(r, b)
        /\ b.last_seq_sent = r.last_seq_sent /\ b.out = r.out /\ b.events = r.events
    BY <1>2, <2>1 DEF SessionType, SameSend, SameRecv, SameRest
  <2> HIDE DEF b
  <2> QED
    BY <1>2, <2>2, QuietStep
<1>9. Like(s, r, e)
  <2> DEFINE h == Shrunk(r, 2)
  <2>1. Like(s, r, h) /\ Base(s, h)
    BY <1>2, ShrunkLike, SizeAssumption
  <2>2. h.state = "open"
    BY <1>2, <2>1 DEF Like
  <2> HIDE DEF h
  <2> DEFINE g == Transmit(s, h, seqs, nacks)
  <2>3. Like(s, h, g)
    BY <1>3, <1>4, <2>1, <2>2, TransmitLike
  <2>4. t = g
    BY DEF h
  <2> HIDE DEF g, t
  <2>5. Base(s, t) /\ t.state = "open" /\ Like(s, r, t)
    BY <2>1, <2>2, <2>3, <2>4, LikeBase, LikeTrans DEF Like
  <2>6. u \in EventSet /\ ("ack" \in u => "ack" \in t.events) /\ ("nack" \in u => "nack" \in t.events)
    BY <2>5 DEF Base, SessionType, EventSet, Events
  <2> HIDE DEF u
  <2>7. Like(s, t, e)
    BY <2>5, <2>6, EventsLike
  <2> HIDE DEF e
  <2> QED
    BY <2>5, <2>7, LikeTrans
<1>10. Like(s, r, r)
  BY <1>2, LikeSelf
<1> HIDE DEF a, b, e
<1>11. Like(s, r, f)
  BY <1>7, <1>8, <1>9, <1>10
<1> HIDE DEF f
<1>12. Like(s, ses[s], f)
  BY <1>2, <1>11, LikeTrans
<1> QED
  BY <1>6, <1>12, LikeSendsOK
LEMMA Ses_Send_Nack_RetransmOK ==
  ASSUME IInv, NEW s \in Side, Ses_Send_Nack_Retransm(s) PROVE IInv'
<1> DEFINE r == Past(s, "nack")
           seqs == {r.window[Slot(n)] : n \in r.nack_buff} \ {NoBuff}
           w == Larger(2, (r.window_size + 1) \div 2)
           half == Shrunk(r, w)
           u == IF r.scheduled_ack THEN half.events \ {"ack"} ELSE half.events
           no == FALSE
           free == [half EXCEPT !.scheduled_ack = no, !.events = u]
<1>1. PICK nacks \in NackSets(ses[s]), route \in BOOLEAN :
        Sends(s, IF ~route \/ r.nack_buff = {} THEN r
                 ELSE IF r.flags # "CONNECTED" THEN [r EXCEPT !.exited = TRUE]
                 ELSE IF r.head = r.tail THEN [r EXCEPT !.scheduled_timeout = FALSE]
                 ELSE [(IF seqs = {} THEN free ELSE Transmit(s, half, seqs, nacks)) EXCEPT !.nack_buff = {}])
  BY DEF Ses_Send_Nack_Retransm
<1>2. /\ Like(s, ses[s], r) /\ Base(s, r) /\ r.state = "open" /\ r \in SessionType
      /\ r.flags = "CONNECTED"
  BY PastLike DEF Ses_Send_Nack_Retransm
<1>3. nacks \in SUBSET Nat
  BY Here, NackSetsAreNats
<1> DEFINE sent == IF seqs = {} THEN free ELSE Transmit(s, half, seqs, nacks)
           none == {}
           b == [r EXCEPT !.scheduled_timeout = no]
           e == [sent EXCEPT !.nack_buff = none]
           f == IF ~route \/ r.nack_buff = {} THEN r ELSE IF r.head = r.tail THEN b ELSE e
<1>4. Sends(s, f)
  BY <1>1, <1>2, Zenon
<1>5. no \in BOOLEAN /\ none \in NatSet
  BY DEF NatSet
<1> HIDE DEF r, no, none
<1>6. seqs \in SUBSET Nat /\ IsFiniteSet(seqs)
  <2>1. r.nack_buff \in SUBSET Nat
    BY <1>2 DEF SessionType, NatSet
  <2> DEFINE all == {r.window[Slot(n)] : n \in r.nack_buff}
  <2>2. all \in SUBSET (Nat \cup {NoBuff}) /\ IsFiniteSet(all)
    BY <1>2, <2>1, SlotsHold
  <2>3. seqs = all \ {NoBuff}
    OBVIOUS
  <2> HIDE DEF all, seqs
  <2> QED
    BY <2>2, <2>3, FS_Subset
<1> HIDE DEF seqs
<1>7. w \in Int /\ w <= MAX_WINDOW
  <2>1. r.window_size \in Int /\ r.window_size <= MAX_WINDOW
    BY <1>2 DEF Base, SendOK, SessionType
  <2> DEFINE x == r.window_size
  <2> HIDE DEF x
  <2>2. x \in Int /\ x <= MAX_WINDOW
    BY <2>1 DEF x
  <2>3. (x + 1) \div 2 \in Int /\ (x + 1) \div 2 <= MAX_WINDOW
    BY <2>2, SizeAssumption
  <2>4. w = Larger(2, (x + 1) \div 2)
    BY DEF x
  <2> QED
    BY <2>3, <2>4, SizeAssumption DEF Larger
<1> HIDE DEF w
<1>8. Like(s, r, half) /\ Base(s, half)
  BY <1>2, <1>7, ShrunkLike
<1>9. half.state = "open" /\ half \in SessionType
  BY <1>2, <1>8 DEF Like
<1> HIDE DEF half
<1>10. Like(s, half, free)
  <2>1. u \in EventSet /\ ("ack" \in u => "ack" \in half.events) /\ ("nack" \in u => "nack" \in half.events)
    BY <1>9 DEF SessionType, EventSet
  <2> HIDE DEF u
  <2>2. /\ free \in SessionType /\ SameSend(half, free) /\ SameRecv(half, free) /\ SameRest(half, free)
        /\ free.last_seq_sent = half.last_seq_sent /\ free.out = half.out /\ free.events = u
    BY <1>5, <1>9, <2>1, ZenonT(60) DEF SessionType, SameSend, SameRecv, SameRest
  <2> HIDE DEF free
  <2> QED
    BY <1>8, <1>9, <2>1, <2>2, QuietStep
<1> HIDE DEF free
<1>11. Like(s, half, Transmit(s, half, seqs, nacks))
  BY <1>3, <1>6, <1>8, <1>9, TransmitLike
<1>12. Like(s, half, sent)
  BY <1>10, <1>11
<1> HIDE DEF sent
<1>13. Like(s, r, sent) /\ Base(s, sent) /\ sent.state = "open" /\ sent \in SessionType
  BY <1>8, <1>9, <1>12, LikeBase, LikeTrans DEF Like
<1>14. Like(s, sent, e)
  <2>1. /\ e \in SessionType /\ SameSend(sent, e) /\ SameRecv(sent, e) /\ SameRest(sent, e)
        /\ e.last_seq_sent = sent.last_seq_sent /\ e.out = sent.out /\ e.events = sent.events
    BY <1>5, <1>13 DEF SessionType, SameSend, SameRecv, SameRest
  <2> HIDE DEF e
  <2> QED
    BY <1>13, <2>1, QuietStep
<1>15. Like(s, r, b)
  <2>1. /\ b \in SessionType /\ SameSend(r, b) /\ SameRecv(r, b) /\ SameRest(r, b)
        /\ b.last_seq_sent = r.last_seq_sent /\ b.out = r.out /\ b.events = r.events
    BY <1>2, <1>5 DEF SessionType, SameSend, SameRecv, SameRest
  <2> HIDE DEF b
  <2> QED
    BY <1>2, <2>1, QuietStep
<1> HIDE DEF e, b
<1>16. Like(s, r, r) /\ Like(s, r, e)
  BY <1>2, <1>13, <1>14, LikeSelf, LikeTrans
<1>17. Like(s, r, f)
  BY <1>15, <1>16
<1> HIDE DEF f
<1>18. Like(s, ses[s], f)
  BY <1>2, <1>17, LikeTrans
<1> QED
  BY <1>4, <1>18, LikeSendsOK

(* Every step keeps the invariant. *)
LEMMA NextOK ==
  ASSUME IInv, [Next]_vars PROVE IInv'
<1>1. ASSUME NEW s \in Side,
             \/ Connect(s) \/ Accept(s) \/ ClientSend(s) \/ ClientClose(s) \/ ClientReads(s)
             \/ Hello_Event(s) \/ Ses_Delay_Close(s) \/ Ses_Try_to_Send(s) \/ Ses_Send_One(s)
             \/ Ses_Send_Ack(s) \/ Ses_Reliable_Timeout(s) \/ Ses_Send_Nack_Retransm(s)
      PROVE  IInv'
  <2>1. CASE Connect(s)
    BY <2>1, ConnectOK
  <2>2. CASE Accept(s)
    BY <2>2, AcceptOK
  <2>3. CASE ClientSend(s)
    BY <2>3, ClientSendOK
  <2>4. CASE ClientClose(s)
    BY <2>4, ClientCloseOK
  <2>5. CASE ClientReads(s)
    BY <2>5, ClientReadsOK
  <2>6. CASE Hello_Event(s)
    BY <2>6, Hello_EventOK
  <2>7. CASE Ses_Delay_Close(s)
    BY <2>7, Ses_Delay_CloseOK
  <2>8. CASE Ses_Try_to_Send(s)
    BY <2>8, Ses_Try_to_SendOK
  <2>9. CASE Ses_Send_One(s)
    BY <2>9, Ses_Send_OneOK
  <2>10. CASE Ses_Send_Ack(s)
    BY <2>10, Ses_Send_AckOK
  <2>11. CASE Ses_Reliable_Timeout(s)
    BY <2>11, Ses_Reliable_TimeoutOK
  <2>12. CASE Ses_Send_Nack_Retransm(s)
    BY <2>12, Ses_Send_Nack_RetransmOK
  <2> QED
    BY <1>1, <2>1, <2>2, <2>3, <2>4, <2>5, <2>6, <2>7, <2>8, <2>9, <2>10, <2>11, <2>12
<1>2. ASSUME NEW p \in net, Listen(p) PROVE IInv'
  BY <1>2, LosesOK DEF Listen
<1>3. ASSUME NEW p \in net, NEW s \in Side, Drop(s, p) PROVE IInv'
  BY <1>3, LosesOK DEF Drop
<1>4. ASSUME NEW p \in net, NEW s \in Side, Receive(s, p, {}) PROVE IInv'
  <2>1. {} \in SUBSET {p}
    OBVIOUS
  <2> QED
    BY <1>4, <2>1, ReceiveOK
<1>5. ASSUME NEW p \in net, NEW s \in Side, Receive(s, p, {p}) PROVE IInv'
  <2>1. {p} \in SUBSET {p}
    OBVIOUS
  <2> QED
    BY <1>5, <2>1, ReceiveOK
<1>6. CASE UNCHANGED vars
  BY <1>6 DEF vars, IInv, NetOK, Gone
<1> QED
  BY <1>1, <1>2, <1>3, <1>4, <1>5, <1>6 DEF Next

(* The invariant holds in every reachable state. *)
LEMMA Invariance == Spec => []IInv
<1>1. Init => IInv
  BY InitOK
<1>2. IInv /\ [Next]_vars => IInv'
  BY NextOK
<1> QED
  BY <1>1, <1>2, PTL DEF Spec

-----------------------------------------------------------------------------
(* The theorems. *)

(* What a client reads is its hello and then the messages of the other       *)
(* client in the order they were sent, none missing and none twice, whatever *)
(* the network loses, duplicates and reorders, however often the client's    *)
(* socket would block, and whatever the Reliable_Data held before            *)
(* (Deliver_Rel_UDP_Data, Net_Rel_Sess_Send, Session_Write).                 *)
THEOREM StreamInOrder == Spec => []Sequenced
<1>1. IInv => Sequenced
  <2> SUFFICES ASSUME IInv, NEW s \in Side, NEW j \in 1 .. Len(ses[s].got)
               PROVE  ses[s].got[j] = IF j = 1 THEN Hello ELSE j - 2
    BY DEF Sequenced
  <2>1. ses[s].got[j] = Expected(0 + j)
    BY Here DEF Base, GotOK, Numbered
  <2>2. 0 + j = j
    BY Here DEF SessionType, Ints
  <2> QED
    BY <2>1, <2>2 DEF Expected
<1> QED
  BY <1>1, Invariance, PTL

(* No Alarm(EXIT) of reliable_session.c is reached, whatever arrives in      *)
(* whatever order: a slot of the window is full exactly when its message is  *)
(* not acknowledged, so an ack and a retransmission find what they expect,   *)
(* and an ack is scheduled in a connected session only.                      *)
THEOREM SessionsNeverExit == Spec => []NoAlarmExit
<1>1. IInv => NoAlarmExit
  <2> SUFFICES ASSUME IInv PROVE NoAlarmExit
    OBVIOUS
  <2>1. ASSUME NEW s \in Side
        PROVE  /\ ses[s].state \in {"none", "open", "closed"}
               /\ ses[s].window \in [Index -> Int]
               /\ ses[s].recv_window \in [Index -> Int]
               /\ ses[s].tail <= ses[s].head /\ ses[s].head <= ses[s].seq_no
               /\ ses[s].recv_tail <= ses[s].recv_head
               /\ ses[s].events \subseteq {"hello", "close", "try", "one", "ack", "timeout", "nack"}
               /\ ses[s].out = {} /\ ~ses[s].exited
    <3>1. ses[s] \in SessionType /\ SendOK(ses[s]) /\ RecvOK(ses[s]) /\ ses[s].out = {}
      BY Here DEF Base
    <3>2. ses[s].state \in States /\ ses[s].window \in SendWin /\ ses[s].recv_window \in RecvWin
          /\ ses[s].events \in EventSet
      BY <3>1 DEF SessionType
    <3>3. ses[s].window \in [Index -> Int]
      BY <3>2 DEF SendWin, NoBuff
    <3> QED
      BY <3>1, <3>2, <3>3 DEF SendOK, RecvOK, States, RecvWin, EventSet, Events
  <2>2. Cardinality(net) <= MaxNet
    BY DEF IInv, NetOK
  <2> QED
    BY <2>1, <2>2 DEF NoAlarmExit, TypeOK
<1> QED
  BY <1>1, Invariance, PTL

(* A session that ends because the other client closed has received all that *)
(* the other client sent: the number in a DISCNCT is final, since an orphan  *)
(* numbers no more messages, and the session waits for it (Process_Discnct,  *)
(* Session_Write).  Excepted is a session whose Reliable_Data still had the  *)
(* connect_state of an earlier one.                                          *)
THEOREM EndsAreComplete == Spec => []EndsComplete
<1>1. IInv => EndsComplete
  BY Here DEF EndsComplete, Good, EndsOK
<1> QED
  BY <1>1, Invariance, PTL

=============================================================================
