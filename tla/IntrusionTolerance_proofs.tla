--------------------- MODULE IntrusionTolerance_proofs ----------------------
(***************************************************************************)
(* Proofs about three parts of the intrusion-tolerant messaging: the keys  *)
(* of a link (EstablishedMeansShared), for any number of restarts and of   *)
(* packets in the network, the status changes (GraphsAgree), for every     *)
(* connected overlay, and the reliable flow (KeptUntilDelivered), for      *)
(* every overlay, window and number of restarts.                           *)
(***************************************************************************)
EXTENDS IntrusionTolKeys, LinkStatus, ReliableFlood, FiniteSetTheorems, TLAPS

-----------------------------------------------------------------------------
(* Keys: the inductive invariant. *)

(* The key that two daemons compute from their public ones. *)
Common(n, inc, m, minc) == {<<n, inc>>, <<m, minc>>}

(* A daemon has no common key, or one of its own public key and of that of   *)
(* the incarnation of its neighbor that it knows; until the key is           *)
(* established its Diffie-Hellman packet is being sent.                      *)
PartyOK(n, d) ==
  /\ d.my_inc \in Nat /\ d.ngbr_inc \in Nat /\ d.dh_aru \in Nat /\ d.computed \in {1, 2}
  /\ ~d.exit /\ (d.established \/ "DH" \in d.timers)
  /\ d.computed = 1 => ~d.established
  /\ d.computed = 2 => d.key = Common(n, d.my_inc, Across(n), d.ngbr_inc)

(* Who locked a packet in its incarnation inc, for incarnation ngbr of its   *)
(* neighbor, has restarted, or has a key for ngbr or a later one.            *)
Maker(o, inc, ngbr) ==
  \/ inc < o.my_inc
  \/ inc = o.my_inc /\ o.computed = 2 /\ ngbr <= o.ngbr_inc

(* The packets: a Diffie-Hellman packet has the public key of its sender's   *)
(* incarnation, any other one was locked with a key its sender made.         *)
PacketOK(p) ==
  /\ p.to \in Peer /\ p.inc \in Nat /\ p.aru_inc \in Nat
  /\ p.type = "DH" => p.public = <<Across(p.to), p.inc>> /\ p.inc <= party[Across(p.to)].my_inc
  /\ p.type # "DH" =>
       /\ p.key = Common(Across(p.to), p.inc, p.to, p.aru_inc)
       /\ Maker(party[Across(p.to)], p.inc, p.aru_inc)

(* A daemon knows no incarnation of its neighbor that is yet to come, and    *)
(* the neighbor has made the key of one that is established.                 *)
Shared(d, o) ==
  /\ d.ngbr_inc <= o.my_inc
  /\ d.established => Maker(o, d.ngbr_inc, d.my_inc)

IInv ==
  /\ DOMAIN party = Peer
  /\ \A n \in Peer : PartyOK(n, party[n]) /\ Shared(party[n], party[Across(n)])
  /\ \A p \in flight : PacketOK(p)

-----------------------------------------------------------------------------
LEMMA Ends ==
  ASSUME NEW n \in Peer
  PROVE  Across(n) \in Peer /\ Across(n) # n /\ Across(Across(n)) = n
  BY TwoPeers DEF Across

LEMMA OtherEnd ==
  ASSUME NEW n \in Peer, NEW m \in Peer, n # m
  PROVE  m = Across(n) /\ n = Across(m)
  BY TwoPeers DEF Across

(* Equal keys are made of the same public keys. *)
LEMMA CommonIs ==
  ASSUME NEW n, NEW m, n # m, NEW a, NEW c, NEW e, NEW g,
         Common(m, a, n, c) = Common(n, e, m, g)
  PROVE  a = g /\ c = e
<1>1. <<m, a>> \in {<<n, e>>, <<m, g>>} /\ <<n, c>> \in {<<n, e>>, <<m, g>>}
  BY DEF Common
<1> QED
  BY <1>1

(* What a daemon can open was locked by the incarnation of its neighbor that *)
(* it knows, which knew it.                                                  *)
LEMMA OpensIs ==
  ASSUME IInv, NEW p \in flight, p.type # "DH", Opens(party[p.to], p)
  PROVE  LET d == party[p.to] IN
         /\ p.inc = d.ngbr_inc /\ p.aru_inc = d.my_inc
         /\ Maker(party[Across(p.to)], d.ngbr_inc, d.my_inc)
<1> DEFINE n == p.to
           m == Across(n)
           d == party[n]
<1>1. n \in Peer /\ m \in Peer /\ n # m /\ PacketOK(p) /\ PartyOK(n, d)
  BY Ends DEF IInv, PacketOK
<1>2. Common(m, p.inc, n, p.aru_inc) = Common(n, d.my_inc, m, d.ngbr_inc)
  BY <1>1 DEF PacketOK, PartyOK, Opens
<1>3. p.inc = d.ngbr_inc /\ p.aru_inc = d.my_inc
  BY <1>1, <1>2, CommonIs
<1>4. Maker(party[m], p.inc, p.aru_inc)
  BY <1>1 DEF PacketOK
<1> QED
  BY <1>3, <1>4

(* Steps that leave a daemon's incarnation and key alone. *)
SameKey(d, e) ==
  /\ e.my_inc = d.my_inc /\ e.ngbr_inc = d.ngbr_inc /\ e.dh_aru = d.dh_aru
  /\ e.computed = d.computed /\ e.key = d.key /\ e.exit = d.exit
  /\ "DH" \in d.timers => e.established \/ "DH" \in e.timers
  /\ d.established => e.established

(* What a step does to a daemon for the packets and keys it made before: it  *)
(* restarts, or keeps its key or makes one for a later incarnation.          *)
Onward(d, e) ==
  \/ e.my_inc > d.my_inc
  \/ e.my_inc = d.my_inc /\ e.ngbr_inc >= d.ngbr_inc /\ (d.computed = 2 => e.computed = 2)

LEMMA MakerStays ==
  ASSUME NEW m, NEW d, NEW e, PartyOK(m, d), PartyOK(m, e), Onward(d, e),
         NEW inc \in Nat, NEW ngbr \in Nat, Maker(d, inc, ngbr)
  PROVE  Maker(e, inc, ngbr)
  BY DEF PartyOK, Onward, Maker

-----------------------------------------------------------------------------
(* A step of daemon n to e that sends packets of its new state. *)
LEMMA StepOK ==
  ASSUME IInv, NEW n \in Peer, NEW e, party' = [party EXCEPT ![n] = e],
         PartyOK(n, e), Onward(party[n], e), Shared(e, party[Across(n)]),
         \A p \in flight' : p \in flight \/ PacketOK(p)'
  PROVE  IInv'
<1> DEFINE m == Across(n)
<1>1. m \in Peer /\ m # n /\ Across(m) = n
  BY Ends
<1>2. DOMAIN party' = Peer /\ party'[n] = e /\ party'[m] = party[m]
  BY <1>1 DEF IInv
<1>3. PartyOK(n, party[n]) /\ PartyOK(m, party[m]) /\ Shared(party[m], party[n])
  BY <1>1 DEF IInv
<1>4. /\ party[n].my_inc \in Nat /\ e.my_inc \in Nat /\ party[m].my_inc \in Nat
      /\ party[m].ngbr_inc \in Nat /\ party[n].my_inc <= e.my_inc
  BY <1>3 DEF PartyOK, Onward
<1>5. Shared(party[m], e)
  <2>1. party[m].ngbr_inc <= e.my_inc
    BY <1>3, <1>4 DEF Shared
  <2>2. party[m].established => Maker(e, party[m].ngbr_inc, party[m].my_inc)
    BY <1>3, <1>4, MakerStays DEF Shared
  <2> QED
    BY <2>1, <2>2 DEF Shared
<1>6. ASSUME NEW x \in Peer
      PROVE  PartyOK(x, party'[x]) /\ Shared(party'[x], party'[Across(x)])
  BY <1>1, <1>2, <1>3, <1>5, <1>6, OtherEnd
<1>7. ASSUME NEW p \in flight PROVE PacketOK(p)'
  <2>1. PacketOK(p) /\ p.to \in Peer
    BY DEF IInv, PacketOK
  <2>2. CASE p.to = n
    BY <1>2, <2>1, <2>2 DEF PacketOK
  <2>3. CASE p.to # n
    <3>1. p.to = m
      BY <2>1, <2>3, OtherEnd
    <3>2. p.inc \in Nat /\ p.aru_inc \in Nat
      BY <2>1 DEF PacketOK
    <3>3. CASE p.type = "DH"
      <4>1. p.public = <<n, p.inc>> /\ p.inc <= party[n].my_inc
        BY <1>1, <2>1, <3>1, <3>3 DEF PacketOK
      <4>2. p.inc <= party'[n].my_inc
        BY <1>2, <1>4, <3>2, <4>1
      <4> QED
        BY <1>1, <2>1, <3>1, <3>2, <3>3, <4>1, <4>2 DEF PacketOK
    <3>4. CASE p.type # "DH"
      <4>1. Maker(party[n], p.inc, p.aru_inc)
        BY <1>1, <2>1, <3>1, <3>4 DEF PacketOK
      <4>2. Maker(party'[n], p.inc, p.aru_inc)
        BY <1>2, <1>3, <3>2, <4>1, MakerStays
      <4> QED
        BY <1>1, <2>1, <3>1, <3>2, <3>4, <4>2 DEF PacketOK
    <3> QED
      BY <3>3, <3>4
  <2> QED
    BY <2>2, <2>3
<1> QED
  BY <1>2, <1>6, <1>7 DEF IInv

(* A step of daemon n that leaves its key alone. *)
LEMMA QuietStep ==
  ASSUME IInv, NEW n \in Peer, NEW e, party' = [party EXCEPT ![n] = e],
         SameKey(party[n], e),
         e.established => party[n].established
                          \/ (/\ party[n].computed = 2
                              /\ Maker(party[Across(n)], party[n].ngbr_inc, party[n].my_inc)),
         \A p \in flight' : p \in flight \/ PacketOK(p)'
  PROVE  IInv'
<1>1. PartyOK(n, party[n]) /\ Shared(party[n], party[Across(n)])
  BY DEF IInv
<1>2. PartyOK(n, e)
  BY <1>1 DEF PartyOK, SameKey
<1>3. Onward(party[n], e)
  BY <1>1 DEF Onward, SameKey, PartyOK
<1>4. Shared(e, party[Across(n)])
  BY <1>1 DEF Shared, SameKey
<1> QED
  BY <1>2, <1>3, <1>4, StepOK

-----------------------------------------------------------------------------
(* The invariant holds initially and every step keeps it. *)

(* A new link has no common key yet. *)
LEMMA NewLinkIs ==
  ASSUME NEW inc \in Nat
  PROVE  LET d == NewLink(inc) IN
         /\ d.my_inc = inc /\ d.ngbr_inc = 0 /\ d.dh_aru = 0 /\ d.computed = 1
         /\ ~d.established /\ ~d.exit /\ "DH" \in d.timers
  BY DEF NewLink, Key_Exchange_IT

LEMMA InitOK ==
  ASSUME KeysInit PROVE IInv
<1>1. \A n \in Peer : party[n] = NewLink(1)
  BY DEF KeysInit
<1>2. \A n \in Peer : /\ PartyOK(n, party[n]) /\ ~party[n].established
                      /\ party[n].ngbr_inc = 0 /\ party[n].my_inc = 1
  BY <1>1, NewLinkIs DEF PartyOK
<1>3. \A n \in Peer : Shared(party[n], party[Across(n)])
  BY <1>2, Ends DEF Shared
<1> QED
  BY <1>2, <1>3 DEF KeysInit, IInv

(* What is carried was in flight or has been sent. *)
LEMMA CarryIs ==
  ASSUME NEW rest, rest \subseteq flight, NEW out, Carry(rest, out)
  PROVE  \A p \in flight' : p \in flight \/ p \in out
  BY DEF Carry

LEMMA Send_IT_DHOK ==
  ASSUME IInv, NEW n \in Peer, Send_IT_DH(n) PROVE IInv'
<1> DEFINE d == party[n]
           ts == d.timers \ {"DH"}
           e == [d EXCEPT !.timers = ts]
<1>1. CASE d.established
  <2>1. party' = [party EXCEPT ![n] = e] /\ flight' = flight
    BY <1>1 DEF Send_IT_DH, Becomes
  <2>2. /\ e.my_inc = d.my_inc /\ e.ngbr_inc = d.ngbr_inc /\ e.dh_aru = d.dh_aru
        /\ e.computed = d.computed /\ e.key = d.key /\ e.exit = d.exit /\ e.established = d.established
    OBVIOUS
  <2> HIDE DEF e
  <2>3. SameKey(d, e)
    BY <1>1, <2>2 DEF SameKey
  <2> QED
    BY <2>1, <2>2, <2>3, QuietStep
<1>2. CASE ~d.established
  <2> DEFINE p == DHPacket(n)
  <2>1. party' = party /\ Carry(flight, {p})
    BY <1>2 DEF Send_IT_DH
  <2>2. p.to = Across(n) /\ p.type = "DH" /\ p.inc = d.my_inc /\ p.aru_inc = d.dh_aru
        /\ p.public = <<n, d.my_inc>>
    BY DEF DHPacket
  <2>3. d.my_inc \in Nat /\ d.dh_aru \in Nat
    BY DEF IInv, PartyOK
  <2>4. Across(n) \in Peer /\ Across(Across(n)) = n
    BY Ends
  <2> HIDE DEF p
  <2>5. ASSUME NEW q, q = p PROVE PacketOK(q)'
    BY <2>1, <2>2, <2>3, <2>4, <2>5 DEF PacketOK
  <2>6. \A q \in flight' : q \in flight \/ q = p
    BY <2>1, CarryIs
  <2>7. \A q \in flight : PacketOK(q)'
    BY <2>1 DEF IInv, PacketOK
  <2>8. \A q \in flight' : PacketOK(q)'
    BY <2>5, <2>6, <2>7
  <2>9. /\ DOMAIN party' = Peer
        /\ \A x \in Peer : PartyOK(x, party'[x]) /\ Shared(party'[x], party'[Across(x)])
    BY <2>1 DEF IInv
  <2> QED
    BY <2>8, <2>9 DEF IInv
<1> QED
  BY <1>1, <1>2

LEMMA Process_DH_ITOK ==
  ASSUME IInv, NEW p \in flight, p.type = "DH", Becomes(p.to, Process_DH_IT(p.to, p)),
         flight' \subseteq flight
  PROVE  IInv'
<1> DEFINE n == p.to
           d == party[n]
           k == IF d.computed # 1 THEN Key_Exchange_IT(d)
                ELSE [d EXCEPT !.exit = @ \/ "DH" \notin d.timers]
           e == [k EXCEPT !.key = {p.public, <<n, d.my_inc>>}, !.computed = 2,
                          !.ngbr_inc = p.inc, !.timers = @ \cup {"Ping"}]
<1>1. n \in Peer /\ PacketOK(p) /\ PartyOK(n, d)
  BY DEF IInv, PacketOK
<1>2. CASE p.inc <= d.ngbr_inc \/ p.aru_inc > d.my_inc
  <2>1. party' = [party EXCEPT ![n] = d]
    BY <1>2 DEF Process_DH_IT, Becomes
  <2>2. SameKey(d, d)
    BY DEF SameKey
  <2> QED
    BY <1>1, <2>1, <2>2, QuietStep
<1>3. CASE ~(p.inc <= d.ngbr_inc \/ p.aru_inc > d.my_inc)
  <2>1. party' = [party EXCEPT ![n] = e]
    BY <1>3 DEF Process_DH_IT, Becomes
  <2>2. /\ p.public = <<Across(n), p.inc>> /\ p.inc \in Nat /\ p.inc <= party[Across(n)].my_inc
        /\ d.my_inc \in Nat /\ d.ngbr_inc \in Nat /\ d.dh_aru \in Nat
    BY <1>1 DEF PacketOK, PartyOK
  <2>3. CASE d.computed # 1
    <3> DEFINE x == Key_Exchange_IT(d)
    <3>1. /\ x.my_inc = d.my_inc /\ x.dh_aru = d.ngbr_inc /\ x.exit = d.exit
          /\ ~x.established /\ "DH" \in x.timers
      BY DEF Key_Exchange_IT
    <3>2. e = [x EXCEPT !.key = {p.public, <<n, d.my_inc>>}, !.computed = 2,
                        !.ngbr_inc = p.inc, !.timers = @ \cup {"Ping"}]
      BY <2>3
    <3>3. /\ e.my_inc = x.my_inc /\ e.dh_aru = x.dh_aru /\ e.exit = x.exit
          /\ e.established = x.established /\ e.timers = x.timers \cup {"Ping"}
          /\ e.computed = 2 /\ e.ngbr_inc = p.inc /\ e.key = {p.public, <<n, d.my_inc>>}
      <4> DEFINE ts == x.timers \cup {"Ping"}
                 key == {p.public, <<n, d.my_inc>>}
      <4> HIDE DEF x, e, d, n
      <4>1. e = [x EXCEPT !.key = key, !.computed = 2, !.ngbr_inc = p.inc, !.timers = ts]
        BY <3>2
      <4> HIDE DEF ts, key
      <4>2. /\ e.my_inc = x.my_inc /\ e.dh_aru = x.dh_aru /\ e.exit = x.exit
            /\ e.established = x.established /\ e.timers = ts
            /\ e.computed = 2 /\ e.ngbr_inc = p.inc /\ e.key = key
        BY <4>1
      <4> QED
        BY <4>2 DEF ts, key
    <3> HIDE DEF e, x
    <3>4. ~d.exit
      BY <1>1 DEF PartyOK
    <3>5. PartyOK(n, e)
      BY <2>2, <3>1, <3>3, <3>4 DEF PartyOK, Common
    <3>6. Onward(d, e) /\ Shared(e, party[Across(n)])
      BY <1>3, <2>2, <3>1, <3>3 DEF Onward, Shared
    <3> QED
      BY <1>1, <2>1, <3>5, <3>6, StepOK
  <2>4. CASE d.computed = 1
    <3> DEFINE b == d.exit \/ "DH" \notin d.timers
               x == [d EXCEPT !.exit = b]
    <3>1. ~b /\ ~d.established /\ "DH" \in d.timers
      BY <1>1, <2>4 DEF PartyOK
    <3>2. e = [x EXCEPT !.key = {p.public, <<n, d.my_inc>>}, !.computed = 2,
                        !.ngbr_inc = p.inc, !.timers = @ \cup {"Ping"}]
      BY <2>4
    <3>3. /\ e.my_inc = d.my_inc /\ e.dh_aru = d.dh_aru /\ e.exit = b
          /\ e.established = d.established /\ e.timers = d.timers \cup {"Ping"}
          /\ e.computed = 2 /\ e.ngbr_inc = p.inc /\ e.key = {p.public, <<n, d.my_inc>>}
      <4> DEFINE ts == d.timers \cup {"Ping"}
                 key == {p.public, <<n, d.my_inc>>}
      <4> HIDE DEF b, e, d, n
      <4>1. e = [d EXCEPT !.exit = b, !.key = key, !.computed = 2, !.ngbr_inc = p.inc, !.timers = ts]
        BY <3>2
      <4> HIDE DEF ts, key
      <4>2. /\ e.my_inc = d.my_inc /\ e.dh_aru = d.dh_aru /\ e.exit = b
            /\ e.established = d.established /\ e.timers = ts
            /\ e.computed = 2 /\ e.ngbr_inc = p.inc /\ e.key = key
        BY <4>1
      <4> QED
        BY <4>2 DEF ts, key
    <3> HIDE DEF e, b
    <3>4. PartyOK(n, e)
      BY <2>2, <3>1, <3>3 DEF PartyOK, Common
    <3>5. Onward(d, e) /\ Shared(e, party[Across(n)])
      BY <1>3, <2>2, <3>1, <3>3 DEF Onward, Shared
    <3> QED
      BY <1>1, <2>1, <3>4, <3>5, StepOK
  <2> QED
    BY <2>3, <2>4
<1> QED
  BY <1>2, <1>3

(* A daemon hears what it can open: its key is established, and the packet   *)
(* tells it no later incarnation than the one it knows.                      *)
LEMMA HeardOK ==
  ASSUME IInv, NEW p \in flight, p.type # "DH", Opens(party[p.to], p),
         NEW e, Becomes(p.to, e), SameKey(party[p.to], e),
         \A q \in flight' : q \in flight \/ q = Locked(p.to, e, "PONG")
  PROVE  IInv'
<1> DEFINE n == p.to
           d == party[n]
<1>1. n \in Peer /\ PartyOK(n, d) /\ d.computed = 2
  BY DEF IInv, PacketOK, Opens
<1>2. Maker(party[Across(n)], d.ngbr_inc, d.my_inc)
  BY OpensIs
<1>3. party' = [party EXCEPT ![n] = e]
  BY DEF Becomes
<1>4. PacketOK(Locked(n, e, "PONG"))'
  <2> DEFINE q == Locked(n, e, "PONG")
             m == Across(n)
  <2>1. party'[n] = e /\ e.my_inc \in Nat /\ e.ngbr_inc \in Nat /\ e.computed = 2
        /\ e.key = Common(n, e.my_inc, m, e.ngbr_inc)
    BY <1>1, <1>3 DEF IInv, PartyOK, SameKey
  <2>2. q.to = m /\ q.type = "PONG" /\ q.inc = e.my_inc /\ q.aru_inc = e.ngbr_inc /\ q.key = e.key
    BY DEF Locked
  <2>3. m \in Peer /\ Across(m) = n
    BY <1>1, Ends
  <2>4. Maker(party'[n], e.my_inc, e.ngbr_inc)
    BY <2>1 DEF Maker
  <2> HIDE DEF q, m, n
  <2>5. PacketOK(q)'
    BY <2>1, <2>2, <2>3, <2>4 DEF PacketOK
  <2> QED
    BY <2>5 DEF q
<1>5. \A q \in flight' : q \in flight \/ PacketOK(q)'
  BY <1>4
<1> HIDE DEF n
<1> QED
  BY <1>1, <1>2, <1>3, <1>5, QuietStep DEF n

LEMMA ReceiveOK ==
  ASSUME IInv, NEW p \in flight, ReceiveLocked(p.to, p) PROVE IInv'
<1> DEFINE n == p.to
           d == party[n]
           h == Heard(d, p)
<1>1. PICK rest \in {flight, flight \ {p}} :
        \/ /\ p.type = "DH"
           /\ Becomes(n, Process_DH_IT(n, p)) /\ Carry(rest, {})
        \/ /\ p.type = "PING" /\ Opens(d, p)
           /\ IF p.inc < d.ngbr_inc \/ p.aru_inc > d.my_inc
              THEN Becomes(n, DH_established(d)) /\ Carry(rest, {})
              ELSE Becomes(n, h) /\ Carry(rest, {Locked(n, h, "PONG")})
        \/ /\ p.type = "PONG" /\ Opens(d, p)
           /\ \E m \in 1 .. d.missed :
                 IF p.inc < d.ngbr_inc \/ p.aru_inc > d.my_inc
                 THEN Becomes(n, DH_established(d))
                 ELSE Becomes(n, Pong(h, m))
           /\ Carry(rest, {})
  BY DEF ReceiveLocked
<1>2. rest \subseteq flight
  OBVIOUS
<1>3. ASSUME Carry(rest, {}) PROVE flight' \subseteq flight
  BY <1>2, <1>3, CarryIs
<1>4. SameKey(d, DH_established(d))
  BY DEF DH_established, SameKey
<1>5. ASSUME p.type # "DH", Opens(d, p)
      PROVE  SameKey(d, h) /\ \A m : SameKey(d, Pong(h, m))
  <2>1. p.inc = d.ngbr_inc
    BY <1>5, OpensIs
  <2>2. d.ngbr_inc \in Nat
    BY DEF IInv, PartyOK, PacketOK
  <2>3. SameKey(d, h)
    BY <2>1, <2>2 DEF SameKey, Heard, DH_established
  <2> HIDE DEF h
  <2> QED
    BY <2>3 DEF SameKey, Pong
<1> HIDE DEF h
<1>6. CASE p.type = "DH"
  BY <1>1, <1>3, <1>6, Process_DH_ITOK
<1>7. ASSUME NEW e, p.type # "DH", Opens(d, p), Becomes(n, e), SameKey(d, e), Carry(rest, {})
      PROVE  IInv'
  BY <1>3, <1>7, HeardOK
<1>8. CASE p.type = "PING"
  <2>1. CASE Becomes(n, DH_established(d)) /\ Carry(rest, {}) /\ Opens(d, p)
    BY <1>4, <1>7, <1>8, <2>1
  <2>2. CASE Becomes(n, h) /\ Carry(rest, {Locked(n, h, "PONG")}) /\ Opens(d, p)
    <3>1. \A q \in flight' : q \in flight \/ q = Locked(n, h, "PONG")
      BY <1>2, <2>2, CarryIs
    <3> QED
      BY <1>5, <1>8, <2>2, <3>1, HeardOK
  <2> QED
    BY <1>1, <1>8, <2>1, <2>2
<1>9. CASE p.type = "PONG"
  <2>1. PICK m : /\ Carry(rest, {}) /\ Opens(d, p)
                 /\ Becomes(n, DH_established(d)) \/ Becomes(n, Pong(h, m))
    BY <1>1, <1>9
  <2> QED
    BY <1>4, <1>5, <1>7, <1>9, <2>1
<1> QED
  BY <1>1, <1>6, <1>8, <1>9

LEMMA PingLockedOK ==
  ASSUME IInv, NEW n \in Peer, PingLocked_IT_Timeout(n) PROVE IInv'
<1> DEFINE d == party[n]
           m == IF d.missed > Ping_Threshold THEN d.missed ELSE d.missed + 1
           s == IF d.status # "DEAD" /\ m > Ping_Threshold THEN "DEAD" ELSE d.status
           e == [d EXCEPT !.missed = m, !.status = s]
           p == Locked(n, d, "PING")
<1>1. party' = [party EXCEPT ![n] = e] /\ d.computed = 2 /\ Carry(flight, {p})
  BY DEF PingLocked_IT_Timeout, Becomes
<1>2. SameKey(d, e) /\ e.established = d.established
  BY DEF SameKey
<1> HIDE DEF e
<1>3. PartyOK(n, d)
  BY DEF IInv
<1>4. ASSUME NEW q, q = p PROVE PacketOK(q)'
  <2>1. party'[n] = e
    BY <1>1 DEF IInv
  <2>2. p.to = Across(n) /\ p.type = "PING" /\ p.inc = d.my_inc /\ p.aru_inc = d.ngbr_inc /\ p.key = d.key
    BY DEF Locked
  <2>3. Across(n) \in Peer /\ Across(Across(n)) = n
    BY Ends
  <2>4. /\ d.my_inc \in Nat /\ d.ngbr_inc \in Nat
        /\ d.key = Common(n, d.my_inc, Across(n), d.ngbr_inc)
    BY <1>1, <1>3 DEF PartyOK
  <2>5. Maker(party'[n], d.my_inc, d.ngbr_inc)
    BY <1>1, <1>2, <2>1, <2>4 DEF Maker, SameKey
  <2> HIDE DEF p, d
  <2> QED
    BY <1>4, <2>2, <2>3, <2>4, <2>5 DEF PacketOK
<1> HIDE DEF p
<1>5. \A q \in flight' : q \in flight \/ PacketOK(q)'
  <2>1. \A q \in flight' : q \in flight \/ q \in {p}
    BY <1>1, CarryIs
  <2> QED
    BY <1>4, <2>1
<1> QED
  BY <1>1, <1>2, <1>5, QuietStep

LEMMA Loss_Calculation_EventOK ==
  ASSUME IInv, NEW n \in Peer, Loss_Calculation_Event(n) PROVE IInv'
<1>1. PICK s : party' = [party EXCEPT ![n] = [party[n] EXCEPT !.status = s]] /\ flight' = flight
  BY DEF Loss_Calculation_Event, Becomes
<1> DEFINE e == [party[n] EXCEPT !.status = s]
<1>2. SameKey(party[n], e) /\ e.established = party[n].established
  BY DEF SameKey
<1>3. party' = [party EXCEPT ![n] = e]
  BY <1>1
<1> HIDE DEF e
<1> QED
  BY <1>1, <1>2, <1>3, QuietStep

LEMMA RestartOK ==
  ASSUME IInv, NEW n \in Peer, RestartLocked(n) PROVE IInv'
<1> DEFINE i == party[n].my_inc + 1
           e == NewLink(i)
<1>1. party' = [party EXCEPT ![n] = e] /\ flight' = flight
  BY DEF RestartLocked, Becomes
<1>2. party[n].my_inc \in Nat /\ i \in Nat /\ i > party[n].my_inc
  BY DEF IInv, PartyOK
<1> HIDE DEF i
<1>3. /\ e.my_inc = i /\ e.ngbr_inc = 0 /\ e.dh_aru = 0 /\ e.computed = 1
      /\ ~e.established /\ ~e.exit /\ "DH" \in e.timers
  BY <1>2, NewLinkIs
<1> HIDE DEF e
<1>4. party[Across(n)].my_inc \in Nat
  BY Ends DEF IInv, PartyOK
<1>5. PartyOK(n, e) /\ Onward(party[n], e) /\ Shared(e, party[Across(n)])
  BY <1>2, <1>3, <1>4 DEF PartyOK, Onward, Shared
<1> QED
  BY <1>1, <1>5, StepOK

LEMMA NextOK ==
  ASSUME IInv, [KeysNext]_keyvars PROVE IInv'
<1>1. ASSUME NEW p \in flight, Vanish(p) PROVE IInv'
  BY <1>1 DEF Vanish, IInv, PacketOK
<1>2. ASSUME NEW p \in flight, ReceiveLocked(p.to, p) PROVE IInv'
  BY <1>2, ReceiveOK
<1>3. ASSUME NEW n \in Peer, Send_IT_DH(n) PROVE IInv'
  BY <1>3, Send_IT_DHOK
<1>4. ASSUME NEW n \in Peer, PingLocked_IT_Timeout(n) PROVE IInv'
  BY <1>4, PingLockedOK
<1>5. ASSUME NEW n \in Peer, Loss_Calculation_Event(n) PROVE IInv'
  BY <1>5, Loss_Calculation_EventOK
<1>6. ASSUME NEW n \in Peer, RestartLocked(n) PROVE IInv'
  BY <1>6, RestartOK
<1>7. CASE UNCHANGED keyvars
  BY <1>7 DEF keyvars, IInv, PacketOK
<1> QED
  BY <1>1, <1>2, <1>3, <1>4, <1>5, <1>6, <1>7 DEF KeysNext

-----------------------------------------------------------------------------
(* A daemon that has decrypted a packet of its neighbor, and so stopped      *)
(* repeating its Diffie-Hellman packet, shares its key with the incarnation  *)
(* of the neighbor that it knows while that one runs; one that has not is    *)
(* sending its packet; for any number of restarts of both and whatever       *)
(* packets are lost, late or repeated (Process_DH_IT, DH_established,        *)
(* Key_Exchange_IT).                                                         *)
THEOREM KeysAreShared == KeysSpec => []EstablishedMeansShared
<1>1. KeysInit => IInv
  BY InitOK
<1>2. IInv /\ [KeysNext]_keyvars => IInv'
  BY NextOK
<1>3. IInv => EstablishedMeansShared
  <2> SUFFICES ASSUME IInv, NEW n \in Peer
               PROVE  LET d == party[n]
                          o == party[Across(n)]
                      IN  /\ ~d.exit
                          /\ d.established \/ "DH" \in d.timers
                          /\ d.established /\ o.my_inc = d.ngbr_inc => o.computed = 2 /\ o.key = d.key
    BY DEF EstablishedMeansShared
  <2> DEFINE m == Across(n)
             d == party[n]
             o == party[m]
  <2>1. m \in Peer /\ Across(m) = n
    BY Ends
  <2>2. PartyOK(n, d) /\ PartyOK(m, o) /\ Shared(d, o) /\ Shared(o, d)
    BY <2>1 DEF IInv
  <2>3. ASSUME d.established, o.my_inc = d.ngbr_inc PROVE o.computed = 2 /\ o.key = d.key
    <3>1. o.computed = 2 /\ d.computed = 2 /\ o.ngbr_inc = d.my_inc
      BY <2>2, <2>3 DEF PartyOK, Shared, Maker
    <3>2. d.key = Common(n, d.my_inc, m, d.ngbr_inc) /\ o.key = Common(m, o.my_inc, n, o.ngbr_inc)
      BY <2>1, <2>2, <3>1 DEF PartyOK
    <3> QED
      BY <2>3, <3>1, <3>2 DEF Common
  <2> QED
    BY <2>2, <2>3 DEF PartyOK
<1> QED
  BY <1>1, <1>2, <1>3, PTL DEF KeysSpec


-----------------------------------------------------------------------------
(* Link status changes.  The statuses of a creator c are those the daemons   *)
(* keep and those on the links.                                              *)
Status(c) == [epoch : Nat, cell : [Adj(c) -> [seq : Nat, cost : Int]]]
Held(x, c) ==
  {x.site[n].sc[c] : n \in Site}
    \cup {Head(x.wire[p]).sc : p \in {q \in Pairs : x.wire[q] # <<>> /\ Head(x.wire[q]).creator = c}}

SiteShape(n, v) ==
  /\ v \in [sc : {v.sc}, graph : {v.graph}, unsent : {v.unsent}, progress : {v.progress}, gen : {v.gen}]
  /\ v.sc = [c \in Site |-> v.sc[c]]
  /\ v.graph = [p \in Pairs |-> v.graph[p]]
  /\ v.unsent \in [Adj(n) -> SUBSET Site]
  /\ v.progress \in BOOLEAN /\ v.gen \in BOOLEAN

WireShape(w) ==
  \/ w = <<>>
  \/ /\ w = <<Head(w)>>
     /\ Head(w) = [creator |-> Head(w).creator, sc |-> Head(w).sc]
     /\ Head(w).creator \in Site

Shape(x) ==
  /\ x \in [site : {x.site}, wire : {x.wire}, new : {x.new}, boot : {x.boot}, clock : {x.clock},
            changes : {x.changes}, back : {x.back}]
  /\ x.site = [n \in Site |-> x.site[n]]
  /\ \A n \in Site : SiteShape(n, x.site[n])
  /\ x.wire = [p \in Pairs |-> x.wire[p]]
  /\ \A p \in Pairs : WireShape(x.wire[p])
  /\ x.new \subseteq Pairs /\ x.back \subseteq Site
  /\ x.boot \in [Site -> Nat \ {0}]
  /\ x.clock \in Nat
  /\ \A n \in Site : x.boot[n] <= x.clock

CostsOK(s) == \A j \in DOMAIN s.cell : s.cell[j].cost = -1 \/ s.cell[j].cost >= 1

(* Cell by cell, s is not beyond t. *)
Within(s, t) == \A j \in DOMAIN s.cell : s.cell[j].seq <= t.cell[j].seq
(* Equal numbers, equal costs. *)
Same(s, t) == \A j \in DOMAIN s.cell : s.cell[j].seq = t.cell[j].seq => s.cell[j].cost = t.cell[j].cost

(* t says all that s says. *)
Tells(t, s) == t.epoch > s.epoch \/ (t.epoch = s.epoch /\ Within(s, t))

HeldOK(x, c) ==
  /\ Held(x, c) \subseteq Status(c)
  /\ \A s \in Held(x, c) : s.epoch <= x.boot[c] /\ (s.epoch > 0 => CostsOK(s))
  /\ CostsOK(x.site[c].sc[c])

(* The statuses of the present incarnation of a creator are a chain, and the *)
(* creator has the last one.                                                 *)
Chain(x, c) ==
  /\ x.site[c].sc[c].epoch \in {0, x.boot[c]}
  /\ \A s \in Held(x, c) : s.epoch = x.boot[c] =>
       /\ x.site[c].sc[c].epoch = x.boot[c] /\ Within(s, x.site[c].sc[c])
       /\ \A t \in Held(x, c) : t.epoch = x.boot[c] => Same(s, t) /\ (Within(s, t) \/ Within(t, s))

GraphOK(x, c) ==
  \A n \in Site \ {c} : x.site[n].sc[c].epoch = x.boot[c] =>
    \A j \in Adj(c) : x.site[n].graph[<<c, j>>] = x.site[n].sc[c].cell[j].cost

(* What a daemon sent in this session it still knows. *)
Echo(x, c) ==
  \A p \in Pairs :
    /\ x.wire[p] # <<>> /\ Head(x.wire[p]).creator = c /\ Head(x.wire[p]).sc.epoch = x.boot[c]
    /\ <<p[2], p[1]>> \notin x.new
    => Tells(x.site[p[1]].sc[c], Head(x.wire[p]).sc)

(* A daemon that knows less than its neighbor is about to be told. *)
Pending(x, c, n, j) ==
  \/ <<n, j>> \in x.new
  \/ c \in x.site[n].unsent[j]
  \/ Tells(x.site[j].sc[c], x.site[n].sc[c])
  \/ /\ <<j, n>> \notin x.new /\ x.wire[<<n, j>>] # <<>>
     /\ Head(x.wire[<<n, j>>]).creator = c /\ Tells(Head(x.wire[<<n, j>>]).sc, x.site[n].sc[c])
  \/ n = c /\ x.site[n].progress /\ x.site[n].gen

News(x, c) ==
  \A p \in Pairs : p[2] # c /\ x.site[p[1]].sc[c].epoch = x.boot[c] => Pending(x, c, p[1], p[2])

Current(x, c) == c \notin x.back => Chain(x, c) /\ GraphOK(x, c) /\ Echo(x, c) /\ News(x, c)

StatusInv(x) == Shape(x) /\ \A c \in Site : HeldOK(x, c) /\ Current(x, c)

-----------------------------------------------------------------------------
LEMMA PairIs ==
  ASSUME NEW n \in Site, NEW j \in Adj(n)
  PROVE  j \in Site /\ n \in Adj(j) /\ n # j /\ <<n, j>> \in Pairs /\ <<j, n>> \in Pairs
<1>1. j \in Site /\ {n, j} \in Cable
  BY DEF Adj
<1>2. {n, j} = {j, n} /\ (n = j => {n, j} = {n})
  OBVIOUS
<1> QED
  BY <1>1, <1>2, CableAssumption DEF Adj, Pairs

LEMMA PairOf ==
  ASSUME NEW p \in Pairs
  PROVE  p = <<p[1], p[2]>> /\ p[1] \in Site /\ p[2] \in Site /\ p[2] \in Adj(p[1])
  BY DEF Pairs, Adj

LEMMA One ==
  ASSUME NEW m
  PROVE  /\ Append(<<>>, m) = <<m>> /\ Head(<<m>>) = m /\ Tail(<<m>>) = <<>> /\ <<m>> # <<>>
         /\ Len(<<>>) = 0 /\ Len(<<m>>) = 1
  OBVIOUS

LEMMA Updated ==
  ASSUME NEW S, NEW f, f = [x \in S |-> f[x]], NEW a \in S, NEW v, NEW g, g = [f EXCEPT ![a] = v]
  PROVE  g = [x \in S |-> g[x]] /\ g[a] = v /\ \A x \in S \ {a} : g[x] = f[x]
  OBVIOUS

-----------------------------------------------------------------------------
(* What each action does. *)

Generated(n, j, cost) ==
  st' = [st EXCEPT !.changes = @ + 1,
           !.site[n] = [st.site[n] EXCEPT !.graph = Apply(@, n, j, cost),
                          !.sc[n] = [epoch |-> IF st.site[n].sc[n].epoch = 0 THEN st.boot[n] ELSE st.site[n].sc[n].epoch,
                                     cell |-> [st.site[n].sc[n].cell EXCEPT ![j] = [seq |-> @.seq + 1, cost |-> cost]]],
                          !.progress = TRUE, !.gen = TRUE]]

LEMMA GenerateDoes ==
  ASSUME Shape(st), NEW n \in Site, NEW j \in Adj(n), NEW cost \in Costs, Generated(n, j, cost)
  PROVE  /\ Shape(st')
         /\ st'.wire = st.wire /\ st'.new = st.new /\ st'.boot = st.boot /\ st'.back = st.back /\ st'.clock = st.clock
         /\ \A k \in Site \ {n} : st'.site[k] = st.site[k]
         /\ \A c \in Site \ {n} : st'.site[n].sc[c] = st.site[n].sc[c]
         /\ st'.site[n].sc[n] =
              [epoch |-> IF st.site[n].sc[n].epoch = 0 THEN st.boot[n] ELSE st.site[n].sc[n].epoch,
               cell |-> [st.site[n].sc[n].cell EXCEPT ![j] = [seq |-> @.seq + 1, cost |-> cost]]]
         /\ st'.site[n].graph = Apply(st.site[n].graph, n, j, cost)
         /\ st'.site[n].unsent = st.site[n].unsent
         /\ st'.site[n].progress /\ st'.site[n].gen
<1> DEFINE v == st.site[n]
           g == Apply(v.graph, n, j, cost)
           s == [epoch |-> IF v.sc[n].epoch = 0 THEN st.boot[n] ELSE v.sc[n].epoch,
                 cell |-> [v.sc[n].cell EXCEPT ![j] = [seq |-> @.seq + 1, cost |-> cost]]]
           w == [v EXCEPT !.graph = g, !.sc[n] = s, !.progress = TRUE, !.gen = TRUE]
<1>1. SiteShape(n, v)
  BY DEF Shape
<1>2. g = [p \in Pairs |-> g[p]]
  BY <1>1 DEF Apply, SiteShape
<1> HIDE DEF g, s
<1>3. /\ w.sc = [v.sc EXCEPT ![n] = s] /\ w.graph = g /\ w.unsent = v.unsent
      /\ w.progress = TRUE /\ w.gen = TRUE
      /\ w \in [sc : {w.sc}, graph : {w.graph}, unsent : {w.unsent}, progress : {w.progress}, gen : {w.gen}]
  BY <1>1 DEF SiteShape
<1>4. SiteShape(n, w)
  BY <1>1, <1>2, <1>3 DEF SiteShape
<1>5. \A c \in Site \ {n} : w.sc[c] = v.sc[c]
  BY <1>1, <1>3 DEF SiteShape
<1>6. w.sc[n] = s /\ w.graph = g /\ w.unsent = v.unsent /\ w.progress /\ w.gen
  BY <1>1, <1>3 DEF SiteShape
<1> HIDE DEF w
<1>7. st' = [st EXCEPT !.changes = @ + 1, !.site[n] = w]
  BY DEF w, s, g, Generated
<1> DEFINE y == st'
<1>8. /\ y.wire = st.wire /\ y.new = st.new /\ y.boot = st.boot /\ y.back = st.back
      /\ y.clock = st.clock
      /\ y.site = [st.site EXCEPT ![n] = w]
      /\ y \in [site : {y.site}, wire : {y.wire}, new : {y.new}, boot : {y.boot}, clock : {y.clock},
            changes : {y.changes}, back : {y.back}]
  BY <1>7 DEF Shape
<1> HIDE DEF y
<1>9. /\ y.site = [k \in Site |-> y.site[k]] /\ y.site[n] = w
      /\ \A k \in Site \ {n} : y.site[k] = st.site[k]
  BY <1>8, Updated DEF Shape
<1>10. Shape(y)
  BY <1>4, <1>8, <1>9 DEF Shape
<1> QED
  BY <1>5, <1>6, <1>8, <1>9, <1>10 DEF s, g, y

LEMMA GenDoes ==
  ASSUME Shape(st), NEW n \in Site, Gen_Status_Change(n)
  PROVE  /\ Shape(st')
         /\ st'.wire = st.wire /\ st'.new = st.new /\ st'.boot = st.boot /\ st'.back = st.back
         /\ st'.clock = st.clock
         /\ \A k \in Site \ {n} : st'.site[k] = st.site[k]
         /\ st'.site[n].sc = st.site[n].sc /\ st'.site[n].graph = st.site[n].graph
         /\ st.site[n].progress => \A j \in Adj(n) : st'.site[n].unsent[j] = st.site[n].unsent[j] \cup {n}
         /\ ~st.site[n].progress => st'.site[n].unsent = st.site[n].unsent
<1> DEFINE v == st.site[n]
           u == [j \in Adj(n) |-> v.unsent[j] \cup {n}]
           w1 == [v EXCEPT !.progress = FALSE, !.unsent = u]
           w2 == [v EXCEPT !.gen = FALSE]
           w == IF v.progress THEN w1 ELSE w2
           y == st'
<1>1. SiteShape(n, v)
  BY DEF Shape
<1>2. /\ w.sc = v.sc /\ w.graph = v.graph
      /\ v.progress => w.unsent = u /\ w.progress = FALSE /\ w.gen = v.gen
      /\ ~v.progress => w.unsent = v.unsent /\ w.progress = v.progress /\ w.gen = FALSE
      /\ w \in [sc : {w.sc}, graph : {w.graph}, unsent : {w.unsent}, progress : {w.progress}, gen : {w.gen}]
  <2> HIDE DEF u
  <2>1. /\ w1.sc = v.sc /\ w1.graph = v.graph /\ w1.unsent = u /\ w1.progress = FALSE /\ w1.gen = v.gen
        /\ w1 \in [sc : {w1.sc}, graph : {w1.graph}, unsent : {w1.unsent}, progress : {w1.progress}, gen : {w1.gen}]
    BY <1>1 DEF SiteShape
  <2>2. /\ w2.sc = v.sc /\ w2.graph = v.graph /\ w2.unsent = v.unsent /\ w2.progress = v.progress /\ w2.gen = FALSE
        /\ w2 \in [sc : {w2.sc}, graph : {w2.graph}, unsent : {w2.unsent}, progress : {w2.progress}, gen : {w2.gen}]
    BY <1>1 DEF SiteShape
  <2> HIDE DEF w1, w2
  <2> QED
    BY <2>1, <2>2
<1>3. st' = [st EXCEPT !.site[n] = w]
  BY DEF Gen_Status_Change
<1>4. SiteShape(n, w)
  <2>1. u \in [Adj(n) -> SUBSET Site]
    BY <1>1 DEF SiteShape
  <2>2. w.unsent \in [Adj(n) -> SUBSET Site] /\ w.progress \in BOOLEAN /\ w.gen \in BOOLEAN
    <3> HIDE DEF w, u
    <3>1. CASE v.progress
      BY <3>1, <1>1, <1>2, <2>1 DEF SiteShape
    <3>2. CASE ~v.progress
      BY <3>2, <1>1, <1>2 DEF SiteShape
    <3> QED
      BY <3>1, <3>2
  <2> HIDE DEF w
  <2> QED
    BY <1>1, <1>2, <2>2 DEF SiteShape
<1> HIDE DEF w
<1>5. /\ y.wire = st.wire /\ y.new = st.new /\ y.boot = st.boot /\ y.back = st.back
      /\ y.clock = st.clock
      /\ y.site = [st.site EXCEPT ![n] = w]
      /\ y \in [site : {y.site}, wire : {y.wire}, new : {y.new}, boot : {y.boot}, clock : {y.clock},
            changes : {y.changes}, back : {y.back}]
  BY <1>3 DEF Shape
<1> HIDE DEF y
<1>6. /\ y.site = [k \in Site |-> y.site[k]] /\ y.site[n] = w
      /\ \A k \in Site \ {n} : y.site[k] = st.site[k]
  BY <1>5, Updated DEF Shape
<1>7. Shape(y)
  BY <1>4, <1>5, <1>6 DEF Shape
<1> QED
  BY <1>2, <1>5, <1>6, <1>7 DEF y

Sent(n, j, d) ==
  st' = [st EXCEPT !.site[n].unsent[j] = @ \ {d},
                   !.wire[<<n, j>>] = IF <<n, j>> \in st.new THEN @
                                      ELSE Append(@, [creator |-> d, sc |-> st.site[n].sc[d]])]

LEMMA SendDoes ==
  ASSUME Shape(st), NEW n \in Site, NEW j \in Adj(n), NEW c \in st.site[n].unsent[j],
         Len(st.wire[<<n, j>>]) < 1, Sent(n, j, c)
  PROVE  /\ Shape(st')
         /\ st'.new = st.new /\ st'.boot = st.boot /\ st'.back = st.back /\ st'.clock = st.clock
         /\ \A k \in Site \ {n} : st'.site[k] = st.site[k]
         /\ st'.site[n].sc = st.site[n].sc /\ st'.site[n].graph = st.site[n].graph
         /\ st'.site[n].progress = st.site[n].progress /\ st'.site[n].gen = st.site[n].gen
         /\ \A k \in Adj(n) : st'.site[n].unsent[k] = IF k = j THEN st.site[n].unsent[j] \ {c} ELSE st.site[n].unsent[k]
         /\ \A p \in Pairs \ {<<n, j>>} : st'.wire[p] = st.wire[p]
         /\ st.wire[<<n, j>>] = <<>>
         /\ st'.wire[<<n, j>>] = IF <<n, j>> \in st.new THEN <<>> ELSE <<[creator |-> c, sc |-> st.site[n].sc[c]]>>
<1> DEFINE v == st.site[n]
           w == [v EXCEPT !.unsent[j] = @ \ {c}]
           q == <<n, j>>
           m == [creator |-> c, sc |-> st.site[n].sc[c]]
           u == IF q \in st.new THEN st.wire[q] ELSE Append(st.wire[q], m)
           y == st'
<1>1. SiteShape(n, v) /\ q \in Pairs /\ WireShape(st.wire[q])
  BY PairIs DEF Shape
<1>2. c \in Site
  BY <1>1 DEF SiteShape
<1>3. /\ w.sc = v.sc /\ w.graph = v.graph /\ w.progress = v.progress /\ w.gen = v.gen
      /\ w.unsent = [v.unsent EXCEPT ![j] = @ \ {c}]
      /\ w \in [sc : {w.sc}, graph : {w.graph}, unsent : {w.unsent}, progress : {w.progress}, gen : {w.gen}]
  BY <1>1 DEF SiteShape
<1>4. st' = [st EXCEPT !.site[n] = w, !.wire[q] = u]
  BY DEF Sent
<1>5. st.wire[q] = <<>> /\ u = IF q \in st.new THEN <<>> ELSE <<m>>
  <2>1. st.wire[q] = <<>>
    BY <1>1, One DEF WireShape
  <2> QED
    BY <2>1, One
<1>6. WireShape(u)
  BY <1>2, <1>5, One DEF WireShape
<1> HIDE DEF w, u
<1>7. /\ SiteShape(n, w)
      /\ \A k \in Adj(n) : w.unsent[k] = IF k = j THEN v.unsent[j] \ {c} ELSE v.unsent[k]
  BY <1>1, <1>3 DEF SiteShape
<1>8. /\ y.new = st.new /\ y.boot = st.boot /\ y.back = st.back /\ y.clock = st.clock
      /\ y.site = [st.site EXCEPT ![n] = w] /\ y.wire = [st.wire EXCEPT ![q] = u]
      /\ y \in [site : {y.site}, wire : {y.wire}, new : {y.new}, boot : {y.boot}, clock : {y.clock},
            changes : {y.changes}, back : {y.back}]
  BY <1>4 DEF Shape
<1> HIDE DEF y
<1>9. /\ y.site = [k \in Site |-> y.site[k]] /\ y.site[n] = w
      /\ \A k \in Site \ {n} : y.site[k] = st.site[k]
  BY <1>8, Updated DEF Shape
<1>10. /\ y.wire = [p \in Pairs |-> y.wire[p]] /\ y.wire[q] = u
       /\ \A p \in Pairs \ {q} : y.wire[p] = st.wire[p]
  BY <1>1, <1>8, Updated DEF Shape
<1>11. Shape(y)
  BY <1>6, <1>7, <1>8, <1>9, <1>10 DEF Shape
<1> QED
  BY <1>3, <1>5, <1>7, <1>8, <1>9, <1>10, <1>11 DEF y

Taken(n, j) == Head(st.wire[<<j, n>>])

LEMMA ProcessDoes ==
  ASSUME Shape(st), NEW n \in Site, NEW j \in Adj(n), Process_Status_Change(n, j)
  PROVE  /\ Shape(st')
         /\ st'.new = st.new /\ st'.boot = st.boot /\ st'.clock = st.clock
         /\ st.wire[<<j, n>>] # <<>> /\ Taken(n, j).creator \in Site
         /\ \A k \in Site \ {n} : st'.site[k] = st.site[k]
         /\ \A p \in Pairs \ {<<j, n>>} : st'.wire[p] = st.wire[p]
         /\ st'.wire[<<j, n>>] = <<>>
         /\ ~Valid(Taken(n, j).sc, st.site[n].sc[Taken(n, j).creator]) => st'.site[n] = st.site[n] /\ st'.back = st.back
         /\ Valid(Taken(n, j).sc, st.site[n].sc[Taken(n, j).creator]) =>
              /\ st'.site[n].sc[Taken(n, j).creator] = Taken(n, j).sc
              /\ \A c \in Site \ {Taken(n, j).creator} : st'.site[n].sc[c] = st.site[n].sc[c]
              /\ st'.site[n].graph = ApplyAll(st.site[n].graph, Taken(n, j).creator, Taken(n, j).sc, st.site[n].sc[Taken(n, j).creator])
              /\ st'.site[n].progress = st.site[n].progress /\ st'.site[n].gen = st.site[n].gen
              /\ \A k \in Adj(n) : st'.site[n].unsent[k] =
                   IF k = j THEN st.site[n].unsent[k] ELSE st.site[n].unsent[k] \cup {Taken(n, j).creator}
              /\ st'.back = IF Taken(n, j).creator = n THEN st.back \cup {n} ELSE st.back
<1> DEFINE v == st.site[n]
           q == <<j, n>>
           m == Taken(n, j)
           old == v.sc[m.creator]
           g == ApplyAll(v.graph, m.creator, m.sc, old)
           u == [k \in Adj(n) |-> IF k = j THEN v.unsent[k] ELSE v.unsent[k] \cup {m.creator}]
           w1 == [v EXCEPT !.graph = g, !.sc[m.creator] = m.sc, !.unsent = u]
           w == IF Valid(m.sc, old) THEN w1 ELSE v
           b == IF Valid(m.sc, old) /\ m.creator = n THEN st.back \cup {n} ELSE st.back
           t == Tail(st.wire[q])
           y == st'
<1>1. SiteShape(n, v) /\ q \in Pairs /\ WireShape(st.wire[q]) /\ st.wire[q] # <<>>
  BY PairIs DEF Shape, Process_Status_Change
<1>2. m.creator \in Site /\ t = <<>>
  BY <1>1, One DEF WireShape, Taken
<1>3. st' = [st EXCEPT !.wire[q] = t, !.site[n] = w, !.back = b]
  BY DEF Process_Status_Change, Taken
<1> HIDE DEF m, old
<1>4. g = [p \in Pairs |-> g[p]] /\ u \in [Adj(n) -> SUBSET Site]
  <2>1. g = [p \in Pairs |-> g[p]]
    BY DEF ApplyAll
  <2>2. u \in [Adj(n) -> SUBSET Site]
    BY <1>1, <1>2 DEF SiteShape
  <2> QED
    BY <2>1, <2>2
<1>5. \A k \in Adj(n) : u[k] = IF k = j THEN v.unsent[k] ELSE v.unsent[k] \cup {m.creator}
  OBVIOUS
<1> HIDE DEF g, u
<1>6. /\ w1.sc = [v.sc EXCEPT ![m.creator] = m.sc] /\ w1.graph = g /\ w1.unsent = u
      /\ w1.progress = v.progress /\ w1.gen = v.gen
      /\ w1 \in [sc : {w1.sc}, graph : {w1.graph}, unsent : {w1.unsent}, progress : {w1.progress}, gen : {w1.gen}]
  BY <1>1 DEF SiteShape
<1> HIDE DEF w1
<1>7. /\ w1.sc = [c \in Site |-> w1.sc[c]] /\ w1.sc[m.creator] = m.sc
      /\ \A c \in Site \ {m.creator} : w1.sc[c] = v.sc[c]
  BY <1>1, <1>2, <1>6, Updated DEF SiteShape
<1>8. SiteShape(n, w1)
  BY <1>1, <1>4, <1>6, <1>7 DEF SiteShape
<1>9. SiteShape(n, w) /\ b \subseteq Site
  BY <1>1, <1>8 DEF Shape
<1> HIDE DEF w, b, t
<1>10. /\ y.new = st.new /\ y.boot = st.boot /\ y.back = b /\ y.clock = st.clock
       /\ y.site = [st.site EXCEPT ![n] = w] /\ y.wire = [st.wire EXCEPT ![q] = t]
       /\ y \in [site : {y.site}, wire : {y.wire}, new : {y.new}, boot : {y.boot}, clock : {y.clock},
            changes : {y.changes}, back : {y.back}]
  BY <1>3 DEF Shape
<1> HIDE DEF y
<1>11. /\ y.site = [k \in Site |-> y.site[k]] /\ y.site[n] = w
       /\ \A k \in Site \ {n} : y.site[k] = st.site[k]
  BY <1>10, Updated DEF Shape
<1>12. /\ y.wire = [p \in Pairs |-> y.wire[p]] /\ y.wire[q] = t
       /\ \A p \in Pairs \ {q} : y.wire[p] = st.wire[p]
  BY <1>1, <1>10, Updated DEF Shape
<1>13. WireShape(t)
  BY <1>2 DEF WireShape
<1>14. Shape(y)
  BY <1>9, <1>10, <1>11, <1>12, <1>13 DEF Shape
<1>15. ~Valid(m.sc, old) => y.site[n] = st.site[n] /\ y.back = st.back
  BY <1>10, <1>11 DEF w, b
<1>16. Valid(m.sc, old) => y.site[n] = w1 /\ y.back = IF m.creator = n THEN st.back \cup {n} ELSE st.back
  BY <1>10, <1>11 DEF w, b
<1>17. Valid(m.sc, old) =>
         /\ y.site[n].sc[m.creator] = m.sc
         /\ \A c \in Site \ {m.creator} : y.site[n].sc[c] = st.site[n].sc[c]
         /\ y.site[n].graph = g
         /\ y.site[n].progress = st.site[n].progress /\ y.site[n].gen = st.site[n].gen
         /\ \A k \in Adj(n) : y.site[n].unsent[k] =
              IF k = j THEN st.site[n].unsent[k] ELSE st.site[n].unsent[k] \cup {m.creator}
  BY <1>5, <1>6, <1>7, <1>16
<1>18. y.wire[q] = <<>>
  BY <1>2, <1>12
<1> HIDE DEF v
<1> QED
  BY <1>1, <1>2, <1>10, <1>11, <1>12, <1>14, <1>15, <1>16, <1>17, <1>18, Zenon DEF y, g, v, q, m, old

LEMMA TransferDoes ==
  ASSUME Shape(st), NEW n \in Site, NEW j \in Adj(n), Neighbor_Transfer(n, j)
  PROVE  /\ Shape(st')
         /\ st'.boot = st.boot /\ st'.back = st.back /\ st'.clock = st.clock
         /\ st'.new = st.new \ {<<n, j>>}
         /\ \A k \in Site \ {n} : st'.site[k] = st.site[k]
         /\ st'.site[n].sc = st.site[n].sc /\ st'.site[n].graph = st.site[n].graph
         /\ st'.site[n].progress = st.site[n].progress /\ st'.site[n].gen = st.site[n].gen
         /\ \A k \in Adj(n) \ {j} : st'.site[n].unsent[k] = st.site[n].unsent[k]
         /\ st'.site[n].unsent[j] = st.site[n].unsent[j] \cup {c \in Site \ {j} : st.site[n].sc[c].epoch > 0}
         /\ \A p \in Pairs \ {<<j, n>>} : st'.wire[p] = st.wire[p]
         /\ st'.wire[<<j, n>>] = <<>>
<1> DEFINE v == st.site[n]
           e == {c \in Site \ {j} : v.sc[c].epoch > 0}
           w == [v EXCEPT !.unsent[j] = @ \cup e]
           q == <<j, n>>
           y == st'
<1>1. SiteShape(n, v) /\ q \in Pairs
  BY PairIs DEF Shape
<1>2. e \subseteq Site
  OBVIOUS
<1>3. st' = [st EXCEPT !.new = @ \ {<<n, j>>}, !.wire[q] = <<>>, !.site[n] = w]
  BY DEF Neighbor_Transfer
<1> HIDE DEF e
<1>4. /\ w.sc = v.sc /\ w.graph = v.graph /\ w.progress = v.progress /\ w.gen = v.gen
      /\ w.unsent = [v.unsent EXCEPT ![j] = @ \cup e]
      /\ w \in [sc : {w.sc}, graph : {w.graph}, unsent : {w.unsent}, progress : {w.progress}, gen : {w.gen}]
  BY <1>1 DEF SiteShape
<1> HIDE DEF w
<1>5. /\ SiteShape(n, w) /\ w.unsent[j] = v.unsent[j] \cup e
      /\ \A k \in Adj(n) \ {j} : w.unsent[k] = v.unsent[k]
  BY <1>1, <1>2, <1>4 DEF SiteShape
<1>6. /\ y.boot = st.boot /\ y.back = st.back /\ y.clock = st.clock /\ y.new = st.new \ {<<n, j>>}
      /\ y.site = [st.site EXCEPT ![n] = w] /\ y.wire = [st.wire EXCEPT ![q] = <<>>]
      /\ y \in [site : {y.site}, wire : {y.wire}, new : {y.new}, boot : {y.boot}, clock : {y.clock},
            changes : {y.changes}, back : {y.back}]
  BY <1>3 DEF Shape
<1> HIDE DEF y
<1>7. /\ y.site = [k \in Site |-> y.site[k]] /\ y.site[n] = w
      /\ \A k \in Site \ {n} : y.site[k] = st.site[k]
  BY <1>6, Updated DEF Shape
<1>8. /\ y.wire = [p \in Pairs |-> y.wire[p]] /\ y.wire[q] = <<>>
      /\ \A p \in Pairs \ {q} : y.wire[p] = st.wire[p]
  BY <1>1, <1>6, Updated DEF Shape
<1>9. Shape(y)
  BY <1>5, <1>6, <1>7, <1>8 DEF Shape, WireShape
<1> QED
  BY <1>4, <1>5, <1>6, <1>7, <1>8, <1>9 DEF y, e

LEMMA FreshShape ==
  ASSUME NEW n \in Site
  PROVE  /\ SiteShape(n, FreshSite(n))
         /\ \A c \in Site : FreshSite(n).sc[c] =
              [epoch |-> 0, cell |-> [j \in Adj(c) |-> [seq |-> 0, cost |-> IF c = n THEN -1 ELSE 0]]]
  BY DEF SiteShape, FreshSite

LEMMA RestartDoes ==
  ASSUME Shape(st), NEW n \in Site, RestartSite(n)
  PROVE  /\ Shape(st')
         /\ st'.clock = st.clock + 1 /\ st'.boot[n] = st.clock + 1
         /\ \A k \in Site \ {n} : st'.boot[k] = st.boot[k]
         /\ st'.site[n] = FreshSite(n)
         /\ \A k \in Site \ {n} : st'.site[k] = st.site[k]
         /\ st'.new = st.new \cup {p \in Pairs : n \in {p[1], p[2]}}
         /\ st'.back = st.back \ {n}
         /\ \A p \in Pairs : st'.wire[p] = IF p[2] = n THEN <<>> ELSE st.wire[p]
<1> DEFINE w == FreshSite(n)
           y == st'
           e == {p \in Pairs : n \in {p[1], p[2]}}
           u == [p \in Pairs |-> IF p[2] = n THEN <<>> ELSE st.wire[p]]
<1>1. u = [p \in Pairs |-> u[p]] /\ \A p \in Pairs : u[p] = IF p[2] = n THEN <<>> ELSE st.wire[p]
  OBVIOUS
<1>2. e \subseteq Pairs
  OBVIOUS
<1>3. st' = [st EXCEPT !.clock = @ + 1, !.boot[n] = st.clock + 1, !.site[n] = w, !.new = @ \cup e,
                       !.back = @ \ {n}, !.wire = u]
  BY DEF RestartSite
<1> HIDE DEF w, u, e
<1>4. /\ y.clock = st.clock + 1 /\ y.boot = [st.boot EXCEPT ![n] = st.clock + 1]
      /\ y.site = [st.site EXCEPT ![n] = w] /\ y.new = st.new \cup e /\ y.back = st.back \ {n} /\ y.wire = u
      /\ y \in [site : {y.site}, wire : {y.wire}, new : {y.new}, boot : {y.boot}, clock : {y.clock},
            changes : {y.changes}, back : {y.back}]
  BY <1>3 DEF Shape
<1> HIDE DEF y
<1>5. /\ y.site = [k \in Site |-> y.site[k]] /\ y.site[n] = w
      /\ \A k \in Site \ {n} : y.site[k] = st.site[k]
  BY <1>4, Updated DEF Shape
<1>6. y.boot \in [Site -> Nat \ {0}] /\ y.boot[n] = st.clock + 1 /\ \A k \in Site \ {n} : y.boot[k] = st.boot[k]
  BY <1>4 DEF Shape
<1>7. \A p \in Pairs : WireShape(u[p])
  BY <1>1 DEF Shape, WireShape
<1>8. \A k \in Site : SiteShape(k, y.site[k])
  BY <1>5, FreshShape DEF Shape, w
<1>9. y.clock \in Nat /\ \A k \in Site : y.boot[k] <= y.clock
  BY <1>4, <1>6 DEF Shape
<1>10. Shape(y)
  BY <1>1, <1>2, <1>4, <1>5, <1>6, <1>7, <1>8, <1>9 DEF Shape
<1> QED
  BY <1>1, <1>4, <1>5, <1>6, <1>10 DEF y, w, e

-----------------------------------------------------------------------------
(* Orders of statuses. *)

LEMMA TellsRefl ==
  ASSUME NEW c, NEW s \in Status(c)
  PROVE  Tells(s, s)
  BY DEF Tells, Within, Status

LEMMA TellsTrans ==
  ASSUME NEW c, NEW s \in Status(c), NEW t \in Status(c), NEW u \in Status(c), Tells(t, s), Tells(u, t)
  PROVE  Tells(u, s)
  BY DEF Tells, Within, Status

LEMMA Accepted ==
  ASSUME NEW c, NEW new \in Status(c), NEW old \in Status(c), Valid(new, old)
  PROVE  Tells(new, old) /\ CostsOK(new) /\ (new.epoch = old.epoch => Within(old, new))
<1>1. CostsOK(new)
  BY DEF Valid, CostsOK
<1>2. new.epoch > old.epoch \/ (new.epoch = old.epoch /\ ~Newer(old, new))
  <2>1. new.epoch \in Nat /\ old.epoch \in Nat
    BY DEF Status
  <2>2. new.epoch >= old.epoch /\ (new.epoch = old.epoch => ~Newer(old, new))
    BY DEF Valid
  <2> QED
    BY <2>1, <2>2
<1>3. ~Newer(old, new) => Within(old, new)
  BY DEF Newer, Within, Status
<1> QED
  BY <1>1, <1>2, <1>3 DEF Tells, Status

(* A status that is refused is not news, unless the numbers are mixed. *)
LEMMA Refused ==
  ASSUME NEW c, NEW new \in Status(c), NEW old \in Status(c), ~Valid(new, old), CostsOK(new),
         new.epoch >= old.epoch,
         new.epoch = old.epoch => Within(new, old) \/ Within(old, new)
  PROVE  Tells(old, new)
<1>1. new.epoch = old.epoch /\ (~Newer(new, old) \/ Newer(old, new))
  BY DEF Valid, CostsOK, Status
<1>2. CASE ~Newer(new, old)
  BY <1>1, <1>2 DEF Tells, Within, Status, Newer
<1>3. CASE Newer(old, new)
  BY <1>1, <1>3 DEF Tells, Within, Status, Newer
<1> QED
  BY <1>1, <1>2, <1>3

LEMMA SiteHeld ==
  ASSUME NEW x, NEW c, NEW n \in Site
  PROVE  x.site[n].sc[c] \in Held(x, c)
  BY DEF Held

LEMMA WireHeld ==
  ASSUME NEW x, NEW c, NEW p \in Pairs, x.wire[p] # <<>>, Head(x.wire[p]).creator = c
  PROVE  Head(x.wire[p]).sc \in Held(x, c)
  BY DEF Held

LEMMA HeldIs ==
  ASSUME NEW x, NEW c, NEW s \in Held(x, c)
  PROVE  \/ \E n \in Site : s = x.site[n].sc[c]
         \/ \E p \in Pairs : x.wire[p] # <<>> /\ Head(x.wire[p]).creator = c /\ s = Head(x.wire[p]).sc
  BY DEF Held

LEMMA KeepHeld ==
  ASSUME NEW x, NEW y, NEW c, HeldOK(x, c), Held(y, c) \subseteq Held(x, c), y.boot[c] = x.boot[c],
         CostsOK(y.site[c].sc[c])
  PROVE  HeldOK(y, c)
  BY DEF HeldOK

LEMMA KeepChain ==
  ASSUME NEW x, NEW y, NEW c, Chain(x, c), Held(y, c) \subseteq Held(x, c), y.boot[c] = x.boot[c],
         y.site[c].sc[c] = x.site[c].sc[c]
  PROVE  Chain(y, c)
  BY DEF Chain

(* The graph of a daemon changes only where its status does. *)
LEMMA KeepGraph ==
  ASSUME NEW x, NEW y, NEW c, GraphOK(x, c), y.boot[c] = x.boot[c],
         \A n \in Site \ {c} : /\ y.site[n].sc[c] = x.site[n].sc[c]
                               /\ \A j \in Adj(c) : y.site[n].graph[<<c, j>>] = x.site[n].graph[<<c, j>>]
  PROVE  GraphOK(y, c)
  BY DEF GraphOK

(* Statuses that stay, while messages leave the links. *)
LEMMA KeepEcho ==
  ASSUME NEW x, NEW y, NEW c, Echo(x, c), y.boot[c] = x.boot[c], y.new = x.new,
         \A n \in Site : y.site[n].sc[c] = x.site[n].sc[c],
         \A p \in Pairs : y.wire[p] = <<>> \/ y.wire[p] = x.wire[p]
  PROVE  Echo(y, c)
  BY PairOf DEF Echo

-----------------------------------------------------------------------------
(* The invariant, action by action. *)

LEMMA GenerateKeeps ==
  ASSUME StatusInv(st), NEW n \in Site, NEW i \in Adj(n), Generate_Link_Status_Change(n, i)
  PROVE  StatusInv(st')
<1> DEFINE own == st.site[n].sc[n]
           y == st'
<1>1. PICK cost \in Costs : Generated(n, i, cost)
  BY Zenon DEF Generate_Link_Status_Change, Generated
<1> DEFINE s == [epoch |-> IF own.epoch = 0 THEN st.boot[n] ELSE own.epoch,
                 cell |-> [own.cell EXCEPT ![i] = [seq |-> @.seq + 1, cost |-> cost]]]
<1>2. /\ Shape(y)
      /\ y.wire = st.wire /\ y.new = st.new /\ y.boot = st.boot /\ y.back = st.back
      /\ \A k \in Site \ {n} : y.site[k] = st.site[k]
      /\ \A c \in Site \ {n} : y.site[n].sc[c] = st.site[n].sc[c]
      /\ y.site[n].sc[n] = s
      /\ y.site[n].graph = Apply(st.site[n].graph, n, i, cost)
      /\ y.site[n].unsent = st.site[n].unsent
      /\ y.site[n].progress /\ y.site[n].gen
  <2>1. Shape(st)
    BY DEF StatusInv
  <2> QED
    BY <1>1, <2>1, GenerateDoes
<1> HIDE DEF y
<1>3. own \in Status(n) /\ CostsOK(own) /\ own.epoch <= st.boot[n] /\ st.boot[n] \in Nat \ {0} /\ own \in Held(st, n)
  BY SiteHeld DEF StatusInv, HeldOK, Shape
<1>4. cost \in Int /\ (cost = -1 \/ cost >= 1)
  BY CostAssumption
<1>5. /\ s \in Status(n) /\ CostsOK(s) /\ s.epoch <= st.boot[n] /\ Within(own, s)
      /\ s.cell[i].seq = own.cell[i].seq + 1
      /\ \A j \in Adj(n) \ {i} : s.cell[j] = own.cell[j]
      /\ own.epoch \in {0, st.boot[n]} => s.epoch = st.boot[n]
  <2> HIDE DEF own
  <2>1. own.epoch \in Nat /\ own.cell \in [Adj(n) -> [seq : Nat, cost : Int]]
    BY <1>3 DEF Status
  <2>2. s.cell = [own.cell EXCEPT ![i] = [seq |-> @.seq + 1, cost |-> cost]]
    OBVIOUS
  <2>3. s.cell \in [Adj(n) -> [seq : Nat, cost : Int]]
    BY <1>4, <2>1, <2>2
  <2>4. /\ s.cell[i].seq = own.cell[i].seq + 1 /\ s.cell[i].cost = cost
        /\ \A j \in Adj(n) \ {i} : s.cell[j] = own.cell[j]
    BY <2>1, <2>2
  <2>5. s.epoch = (IF own.epoch = 0 THEN st.boot[n] ELSE own.epoch) /\ s.epoch \in Nat /\ s.epoch <= st.boot[n]
    BY <1>3, <2>1
  <2>6. s \in Status(n)
    BY <2>2, <2>3, <2>5 DEF Status
  <2> HIDE DEF s
  <2>7. CostsOK(s)
    BY <1>3, <1>4, <2>1, <2>3, <2>4 DEF CostsOK
  <2>8. Within(own, s)
    BY <2>1, <2>3, <2>4 DEF Within
  <2> QED
    BY <2>4, <2>5, <2>6, <2>7, <2>8
<1> HIDE DEF s
<1>6. SUFFICES ASSUME NEW c \in Site
               PROVE  HeldOK(y, c) /\ Current(y, c)
  BY <1>2 DEF StatusInv, y
<1>7. HeldOK(st, c) /\ Current(st, c) /\ Shape(st)
  BY DEF StatusInv
<1>8. CASE c # n
  <2>1. \A k \in Site : y.site[k].sc[c] = st.site[k].sc[c]
    BY <1>2, <1>8
  <2>2. Held(y, c) = Held(st, c)
    BY <1>2, <2>1 DEF Held
  <2>3. HeldOK(y, c)
    BY <1>2, <1>7, <2>1, <2>2, KeepHeld DEF HeldOK
  <2>4. ASSUME c \notin y.back
        PROVE  Chain(y, c) /\ GraphOK(y, c) /\ Echo(y, c) /\ News(y, c)
    <3>1. Chain(st, c) /\ GraphOK(st, c) /\ Echo(st, c) /\ News(st, c)
      BY <1>2, <1>7, <2>4 DEF Current
    <3>2. Chain(y, c)
      BY <1>2, <2>1, <2>2, <3>1, KeepChain
    <3>3. \A j \in Adj(c) : y.site[n].graph[<<c, j>>] = st.site[n].graph[<<c, j>>]
      <4>1. SUFFICES ASSUME NEW j \in Adj(c)
                     PROVE  y.site[n].graph[<<c, j>>] = st.site[n].graph[<<c, j>>]
        OBVIOUS
      <4>2. <<c, j>> \in Pairs /\ <<c, j>> # <<n, i>> /\ SiteShape(n, st.site[n])
        BY <1>7, <1>8, PairIs DEF Shape
      <4> QED
        BY <1>2, <4>2 DEF Apply, SiteShape
    <3>4. GraphOK(y, c)
      BY <1>2, <2>1, <3>1, <3>3, KeepGraph
    <3>5. Echo(y, c)
      BY <1>2, <2>1, <3>1, KeepEcho
    <3>6. News(y, c)
      BY <1>2, <1>8, <2>1, <3>1, PairOf, SMTT(30) DEF News, Pending
    <3> QED
      BY <3>2, <3>4, <3>5, <3>6
  <2> QED
    BY <2>3, <2>4 DEF Current
<1>9. CASE c = n
  <2>1. \A t \in Held(y, c) : t = s \/ t \in Held(st, c)
    <3>1. SUFFICES ASSUME NEW t \in Held(y, c)
                   PROVE  t = s \/ t \in Held(st, c)
      OBVIOUS
    <3>2. CASE \E k \in Site : t = y.site[k].sc[c]
      BY <3>2, <1>2, <1>9, SiteHeld
    <3>3. CASE \E p \in Pairs : y.wire[p] # <<>> /\ Head(y.wire[p]).creator = c /\ t = Head(y.wire[p]).sc
      BY <3>3, <1>2, WireHeld
    <3> QED
      BY <3>2, <3>3, HeldIs
  <2>2. HeldOK(y, c)
    BY <1>2, <1>5, <1>7, <1>9, <2>1 DEF HeldOK
  <2>3. ASSUME c \notin y.back
        PROVE  Chain(y, c) /\ GraphOK(y, c) /\ Echo(y, c) /\ News(y, c)
    <3>1. Chain(st, c) /\ GraphOK(st, c) /\ Echo(st, c) /\ News(st, c)
      BY <1>2, <1>7, <2>3 DEF Current
    <3>2. s.epoch = st.boot[n]
      BY <1>5, <1>9, <3>1 DEF Chain
    <3>3. \A t \in Held(st, n) : t.epoch = st.boot[n] =>
            /\ t \in Status(n) /\ Within(t, own) /\ Same(t, own)
            /\ own.epoch = st.boot[n]
      BY <1>3, <1>7, <1>9, <3>1 DEF Chain, HeldOK
    <3>4. \A t \in Held(st, n) : t.epoch = st.boot[n] => Within(t, s) /\ Same(t, s) /\ Same(s, t)
      <4>1. SUFFICES ASSUME NEW t \in Held(st, n), t.epoch = st.boot[n]
                     PROVE  Within(t, s) /\ Same(t, s) /\ Same(s, t)
        OBVIOUS
      <4>2. t \in Status(n) /\ Within(t, own) /\ Same(t, own)
        BY <3>3, <4>1
      <4>3. DOMAIN t.cell = Adj(n) /\ DOMAIN s.cell = Adj(n) /\ DOMAIN own.cell = Adj(n)
        BY <1>3, <1>5, <4>2 DEF Status
      <4>4. \A j \in Adj(n) : t.cell[j].seq \in Nat /\ own.cell[j].seq \in Nat /\ s.cell[j].seq \in Nat
        BY <1>3, <1>5, <4>2 DEF Status
      <4>5. \A j \in Adj(n) : t.cell[j].seq <= s.cell[j].seq
        BY <1>5, <4>2, <4>3, <4>4, SMTT(120) DEF Within
      <4>6. \A j \in Adj(n) : t.cell[j].seq = s.cell[j].seq => t.cell[j].cost = s.cell[j].cost
        BY <1>5, <4>2, <4>3, <4>4, SMTT(120) DEF Within, Same
      <4> QED
        BY <4>3, <4>5, <4>6 DEF Within, Same
    <3>5. Within(s, s) /\ Same(s, s)
      BY <1>5 DEF Within, Same, Status
    <3>6. Chain(y, c)
      BY <1>2, <1>9, <2>1, <3>1, <3>2, <3>4, <3>5 DEF Chain
    <3>7. GraphOK(y, c)
      BY <1>2, <1>9, <3>1, KeepGraph
    <3>8. Echo(y, c)
      <4>1. SUFFICES ASSUME NEW p \in Pairs,
                            y.wire[p] # <<>>, Head(y.wire[p]).creator = c, Head(y.wire[p]).sc.epoch = y.boot[c],
                            <<p[2], p[1]>> \notin y.new
                     PROVE  Tells(y.site[p[1]].sc[c], Head(y.wire[p]).sc)
        BY DEF Echo
      <4>2. CASE p[1] # n
        BY <1>2, <3>1, <4>1, <4>2, PairOf DEF Echo
      <4>3. CASE p[1] = n
        BY <1>2, <1>9, <3>2, <3>6, <4>1, <4>3, WireHeld DEF Chain, Tells
      <4> QED
        BY <4>2, <4>3
    <3>9. News(y, c)
      BY <1>2, <1>9, <3>1, PairOf, SMTT(30) DEF News, Pending
    <3> QED
      BY <3>6, <3>7, <3>8, <3>9
  <2> QED
    BY <2>2, <2>3 DEF Current
<1> QED
  BY <1>8, <1>9

LEMMA GenKeeps ==
  ASSUME StatusInv(st), NEW n \in Site, Gen_Status_Change(n)
  PROVE  StatusInv(st')
<1> DEFINE y == st'
<1>1. /\ Shape(y)
      /\ y.wire = st.wire /\ y.new = st.new /\ y.boot = st.boot /\ y.back = st.back
      /\ \A k \in Site \ {n} : y.site[k] = st.site[k]
      /\ y.site[n].sc = st.site[n].sc /\ y.site[n].graph = st.site[n].graph
      /\ st.site[n].progress => \A j \in Adj(n) : y.site[n].unsent[j] = st.site[n].unsent[j] \cup {n}
      /\ ~st.site[n].progress => y.site[n].unsent = st.site[n].unsent
  BY GenDoes DEF StatusInv
<1> HIDE DEF y
<1>2. SUFFICES ASSUME NEW c \in Site
               PROVE  HeldOK(y, c) /\ Current(y, c)
  BY <1>1 DEF StatusInv, y
<1>3. HeldOK(st, c) /\ Current(st, c) /\ Shape(st)
  BY DEF StatusInv
<1>4. \A k \in Site : y.site[k].sc[c] = st.site[k].sc[c] /\ y.site[k].graph = st.site[k].graph
  BY <1>1
<1>5. Held(y, c) = Held(st, c)
  BY <1>1, <1>4 DEF Held
<1>6. HeldOK(y, c)
  BY <1>1, <1>3, <1>4, <1>5, KeepHeld DEF HeldOK
<1>7. ASSUME c \notin y.back
      PROVE  Chain(y, c) /\ GraphOK(y, c) /\ Echo(y, c) /\ News(y, c)
  <2>1. Chain(st, c) /\ GraphOK(st, c) /\ Echo(st, c) /\ News(st, c)
    BY <1>1, <1>3, <1>7 DEF Current
  <2>2. Chain(y, c)
    BY <1>1, <1>4, <1>5, <2>1, KeepChain
  <2>3. GraphOK(y, c)
    BY <1>1, <1>4, <2>1, KeepGraph
  <2>4. Echo(y, c)
    BY <1>1, <1>4, <2>1, KeepEcho
  <2>5. ASSUME NEW p \in Pairs, p[2] # c, y.site[p[1]].sc[c].epoch = y.boot[c]
        PROVE  Pending(y, c, p[1], p[2])
    <3>1. p[1] \in Site /\ p[2] \in Site /\ p[2] \in Adj(p[1])
      BY PairOf
    <3>2. Pending(st, c, p[1], p[2])
      BY <1>1, <1>4, <2>1, <2>5, <3>1 DEF News
    <3>3. c \in st.site[p[1]].unsent[p[2]] => c \in y.site[p[1]].unsent[p[2]]
      BY <1>1, <3>1
    <3>4. p[1] = c /\ st.site[p[1]].progress => c \in y.site[p[1]].unsent[p[2]] \/ y.site[p[1]] = st.site[p[1]]
      BY <1>1, <3>1
    <3> QED
      BY <1>1, <1>4, <3>1, <3>2, <3>3, <3>4 DEF Pending
  <2> QED
    BY <2>2, <2>3, <2>4, <2>5 DEF News
<1> QED
  BY <1>6, <1>7 DEF Current

LEMMA SendKeeps ==
  ASSUME StatusInv(st), NEW n \in Site, NEW i \in Adj(n), Send_Status_Change(n, i)
  PROVE  StatusInv(st')
<1> DEFINE y == st'
           q == <<n, i>>
<1>1. PICK d \in st.site[n].unsent[i] : /\ <<i, n>> \in st.new => q \in st.new
                                        /\ Len(st.wire[q]) < 1
                                        /\ Sent(n, i, d)
  BY Zenon DEF Send_Status_Change, Sent
<1> DEFINE m == [creator |-> d, sc |-> st.site[n].sc[d]]
<1>2. /\ Shape(y)
      /\ y.new = st.new /\ y.boot = st.boot /\ y.back = st.back
      /\ \A k \in Site \ {n} : y.site[k] = st.site[k]
      /\ y.site[n].sc = st.site[n].sc /\ y.site[n].graph = st.site[n].graph
      /\ y.site[n].progress = st.site[n].progress /\ y.site[n].gen = st.site[n].gen
      /\ \A k \in Adj(n) : y.site[n].unsent[k] = IF k = i THEN st.site[n].unsent[i] \ {d} ELSE st.site[n].unsent[k]
      /\ \A p \in Pairs \ {q} : y.wire[p] = st.wire[p]
      /\ st.wire[q] = <<>>
      /\ y.wire[q] = IF q \in st.new THEN <<>> ELSE <<m>>
  <2>1. Shape(st)
    BY DEF StatusInv
  <2> QED
    BY <1>1, <2>1, SendDoes, SMTT(120)
<1>3. q \in Pairs /\ <<i, n>> \in Pairs /\ i \in Site
  BY PairIs
<1> HIDE DEF y
<1>4. SUFFICES ASSUME NEW c \in Site
               PROVE  HeldOK(y, c) /\ Current(y, c)
  BY <1>2 DEF StatusInv, y
<1>5. HeldOK(st, c) /\ Current(st, c) /\ Shape(st)
  BY DEF StatusInv
<1>6. m.creator = d /\ m.sc = st.site[n].sc[d]
  OBVIOUS
<1>7. y.wire[q] # <<>> => q \notin st.new /\ Head(y.wire[q]) = m
  BY <1>2, One
<1> HIDE DEF m
<1>8. \A k \in Site : y.site[k].sc[c] = st.site[k].sc[c] /\ y.site[k].graph = st.site[k].graph
  BY <1>2
<1>9. Held(y, c) \subseteq Held(st, c)
  <2>1. SUFFICES ASSUME NEW t \in Held(y, c)
                 PROVE  t \in Held(st, c)
    OBVIOUS
  <2>2. CASE \E k \in Site : t = y.site[k].sc[c]
    BY <2>2, <1>8, SiteHeld
  <2>3. CASE \E p \in Pairs : y.wire[p] # <<>> /\ Head(y.wire[p]).creator = c /\ t = Head(y.wire[p]).sc
    <3>1. PICK p \in Pairs : y.wire[p] # <<>> /\ Head(y.wire[p]).creator = c /\ t = Head(y.wire[p]).sc
      BY <2>3
    <3>2. CASE p = q
      BY <3>1, <3>2, <1>6, <1>7, SiteHeld
    <3>3. CASE p # q
      BY <3>1, <3>3, <1>2, WireHeld
    <3> QED
      BY <3>2, <3>3
  <2> QED
    BY <2>2, <2>3, HeldIs
<1>10. HeldOK(y, c)
  BY <1>2, <1>5, <1>8, <1>9, KeepHeld DEF HeldOK
<1>11. \A k \in Site : Tells(st.site[k].sc[c], st.site[k].sc[c])
  BY <1>5, SiteHeld, TellsRefl DEF HeldOK
<1>12. ASSUME c \notin y.back
       PROVE  Chain(y, c) /\ GraphOK(y, c) /\ Echo(y, c) /\ News(y, c)
  <2>1. Chain(st, c) /\ GraphOK(st, c) /\ Echo(st, c) /\ News(st, c)
    BY <1>2, <1>5, <1>12 DEF Current
  <2>2. Chain(y, c)
    BY <1>2, <1>8, <1>9, <2>1, KeepChain
  <2>3. GraphOK(y, c)
    BY <1>2, <1>8, <2>1, KeepGraph
  <2>4. ASSUME NEW p \in Pairs,
               y.wire[p] # <<>>, Head(y.wire[p]).creator = c, Head(y.wire[p]).sc.epoch = y.boot[c],
               <<p[2], p[1]>> \notin y.new
        PROVE  Tells(y.site[p[1]].sc[c], Head(y.wire[p]).sc)
    <3>1. CASE p = q
      <4>1. p[1] = n /\ Head(y.wire[p]) = m /\ d = c
        BY <1>6, <1>7, <2>4, <3>1
      <4> QED
        BY <1>6, <1>8, <1>11, <4>1
    <3>2. CASE p # q
      BY <1>2, <1>8, <2>1, <2>4, <3>2, PairOf DEF Echo
    <3> QED
      BY <3>1, <3>2
  <2>5. ASSUME NEW p \in Pairs, p[2] # c, y.site[p[1]].sc[c].epoch = y.boot[c]
        PROVE  Pending(y, c, p[1], p[2])
    <3>1. p = <<p[1], p[2]>> /\ p[1] \in Site /\ p[2] \in Site /\ p[2] \in Adj(p[1])
      BY PairOf
    <3>2. Pending(st, c, p[1], p[2])
      BY <1>2, <1>8, <2>1, <2>5, <3>1 DEF News
    <3>3. CASE p # q
      <4>1. y.wire[<<p[1], p[2]>>] = st.wire[<<p[1], p[2]>>]
        BY <1>2, <3>1, <3>3
      <4>2. c \in st.site[p[1]].unsent[p[2]] => c \in y.site[p[1]].unsent[p[2]]
        BY <1>2, <3>1, <3>3
      <4>3. y.site[p[1]].progress = st.site[p[1]].progress /\ y.site[p[1]].gen = st.site[p[1]].gen
        BY <1>2, <3>1
      <4> QED
        BY <1>2, <1>8, <3>1, <3>2, <4>1, <4>2, <4>3 DEF Pending
    <3>4. CASE p = q /\ q \notin st.new /\ c = d
      <4>1. p[1] = n /\ p[2] = i
        BY <3>4
      <4>2. y.wire[<<n, i>>] # <<>> /\ Head(y.wire[<<n, i>>]) = m
        BY <1>2, <1>7, <3>4, One
      <4> QED
        BY <1>1, <1>2, <1>6, <1>8, <1>11, <3>4, <4>1, <4>2 DEF Pending
    <3>5. CASE p = q /\ (q \in st.new \/ c # d)
      <4>1. p[1] = n /\ p[2] = i
        BY <3>5
      <4>2. st.wire[<<n, i>>] = <<>> /\ (c \in st.site[n].unsent[i] /\ c # d => c \in y.site[n].unsent[i])
        BY <1>2
      <4> QED
        BY <1>2, <1>3, <1>8, <3>2, <3>5, <4>1, <4>2 DEF Pending
    <3> QED
      BY <3>3, <3>4, <3>5
  <2> QED
    BY <2>2, <2>3, <2>4, <2>5 DEF News, Echo
<1> QED
  BY <1>10, <1>12 DEF Current

LEMMA ProcessKeeps ==
  ASSUME StatusInv(st), NEW n \in Site, NEW i \in Adj(n), Process_Status_Change(n, i)
  PROVE  StatusInv(st')
<1> DEFINE y == st'
           q == <<i, n>>
           m == Taken(n, i)
           d == m.creator
           old == st.site[n].sc[d]
<1>0. Shape(st)
  BY DEF StatusInv
<1>1. /\ Shape(y)
      /\ y.new = st.new /\ y.boot = st.boot
      /\ st.wire[q] # <<>> /\ d \in Site
      /\ \A k \in Site \ {n} : y.site[k] = st.site[k]
      /\ \A p \in Pairs \ {q} : y.wire[p] = st.wire[p]
      /\ y.wire[q] = <<>>
  BY <1>0, ProcessDoes, ZenonT(40)
<1>2. ~Valid(m.sc, old) => y.site[n] = st.site[n] /\ y.back = st.back
  BY <1>0, ProcessDoes
<1>3. Valid(m.sc, old) =>
        /\ y.site[n].sc[d] = m.sc
        /\ \A c \in Site \ {d} : y.site[n].sc[c] = st.site[n].sc[c]
        /\ y.site[n].graph = ApplyAll(st.site[n].graph, d, m.sc, old)
        /\ y.site[n].progress = st.site[n].progress /\ y.site[n].gen = st.site[n].gen
        /\ \A k \in Adj(n) : y.site[n].unsent[k] =
             IF k = i THEN st.site[n].unsent[k] ELSE st.site[n].unsent[k] \cup {d}
        /\ y.back = IF d = n THEN st.back \cup {n} ELSE st.back
  BY <1>0, ProcessDoes
<1>4. q \in Pairs /\ <<n, i>> \in Pairs /\ i \in Site /\ i # n
  BY PairIs
<1> HIDE DEF y
<1>5. SUFFICES ASSUME NEW c \in Site
               PROVE  HeldOK(y, c) /\ Current(y, c)
  BY <1>1 DEF StatusInv, y
<1>6. HeldOK(st, c) /\ Current(st, c) /\ Shape(st) /\ HeldOK(st, d)
  BY <1>1 DEF StatusInv
<1>7. m.sc \in Held(st, d) /\ old \in Held(st, d) /\ m.sc \in Status(d) /\ old \in Status(d)
  BY <1>1, <1>4, <1>6, SiteHeld, WireHeld DEF HeldOK, Taken
<1> HIDE DEF m, d, old
<1>8. d = m.creator /\ m = Head(st.wire[q]) /\ old = st.site[n].sc[d]
  BY DEF m, d, old, Taken
<1>9. \A p \in Pairs : y.wire[p] = <<>> \/ y.wire[p] = st.wire[p]
  BY <1>1
<1>10. Held(y, c) \subseteq Held(st, c)
  <2>1. SUFFICES ASSUME NEW t \in Held(y, c)
                 PROVE  t \in Held(st, c)
    OBVIOUS
  <2>2. CASE \E k \in Site : t = y.site[k].sc[c]
    <3>1. PICK k \in Site : t = y.site[k].sc[c]
      BY <2>2
    <3>2. t = st.site[k].sc[c] \/ (c = d /\ t = m.sc)
      BY <3>1, <1>1, <1>2, <1>3
    <3> QED
      BY <3>2, <1>7, SiteHeld
  <2>3. CASE \E p \in Pairs : y.wire[p] # <<>> /\ Head(y.wire[p]).creator = c /\ t = Head(y.wire[p]).sc
    BY <2>3, <1>9, WireHeld
  <2> QED
    BY <2>2, <2>3, HeldIs
<1>11. CostsOK(y.site[c].sc[c])
  <2>1. y.site[c].sc[c] = st.site[c].sc[c] \/ (Valid(m.sc, old) /\ y.site[c].sc[c] = m.sc)
    BY <1>1, <1>2, <1>3
  <2> QED
    BY <2>1, <1>6, <1>7, Accepted DEF HeldOK
<1>12. HeldOK(y, c)
  BY <1>1, <1>6, <1>10, <1>11, KeepHeld
<1>13. ASSUME c \notin y.back
       PROVE  Chain(y, c) /\ GraphOK(y, c) /\ Echo(y, c) /\ News(y, c)
  <2>1. Chain(st, c) /\ GraphOK(st, c) /\ Echo(st, c) /\ News(st, c)
    BY <1>2, <1>3, <1>6, <1>13 DEF Current
  <2>2. Valid(m.sc, old) /\ c = d => c # n
    BY <1>3, <1>13
  <2>3. y.site[c].sc[c] = st.site[c].sc[c]
    BY <1>1, <1>2, <1>3, <2>2
  <2>4. Chain(y, c)
    BY <1>1, <1>10, <2>1, <2>3, KeepChain
  <2>5. \A p \in Pairs : st.wire[p] # <<>> /\ y.wire[p] # st.wire[p] => p = q /\ Head(st.wire[p]) = m
    BY <1>1, <1>8
  <2>6. st.boot[c] \in Nat /\ \A k \in Site : st.site[k].sc[c] \in Status(c) /\ st.site[k].sc[c].epoch <= st.boot[c]
    BY <1>6, SiteHeld DEF HeldOK, Shape
  <2>7. \A k \in Site : y.site[k].progress = st.site[k].progress /\ y.site[k].gen = st.site[k].gen
    BY <1>1, <1>2, <1>3
  <2>8. \A p \in Pairs : st.site[p[1]].unsent[p[2]] \subseteq y.site[p[1]].unsent[p[2]]
    BY <1>1, <1>2, <1>3, PairOf
  <2>9. CASE ~Valid(m.sc, old) \/ c # d
    <3>1. \A k \in Site : y.site[k].sc[c] = st.site[k].sc[c]
      BY <1>1, <1>2, <1>3, <2>9
    <3>2. GraphOK(y, c)
      <4>1. CASE ~Valid(m.sc, old)
        BY <4>1, <1>1, <1>2, <2>1, <3>1, KeepGraph
      <4>2. CASE Valid(m.sc, old) /\ c # d
        <5>1. \A j \in Adj(c) : y.site[n].graph[<<c, j>>] = st.site[n].graph[<<c, j>>]
          <6>1. SUFFICES ASSUME NEW j \in Adj(c)
                         PROVE  y.site[n].graph[<<c, j>>] = st.site[n].graph[<<c, j>>]
            OBVIOUS
          <6>2. <<c, j>> \in Pairs
            BY PairIs
          <6> QED
            BY <6>2, <4>2, <1>3 DEF ApplyAll
        <5> QED
          BY <5>1, <1>1, <2>1, <3>1, KeepGraph
      <4> QED
        BY <4>1, <4>2, <2>9
    <3>3. Echo(y, c)
      BY <1>1, <1>9, <2>1, <3>1, KeepEcho
    <3>4. ASSUME NEW p \in Pairs, p[2] # c, y.site[p[1]].sc[c].epoch = y.boot[c]
          PROVE  Pending(y, c, p[1], p[2])
      <4>1. p = <<p[1], p[2]>> /\ p[1] \in Site /\ p[2] \in Site /\ p[2] \in Adj(p[1])
        BY PairOf
      <4>2. Pending(st, c, p[1], p[2])
        BY <1>1, <2>1, <3>1, <3>4, <4>1 DEF News
      <4>3. CASE p # q \/ c # d
        BY <4>1, <4>2, <4>3, <1>1, <1>8, <2>5, <2>7, <2>8, <3>1 DEF Pending
      <4>4. CASE p = q /\ c = d
        <5>1. p[1] = i /\ p[2] = n
          BY <4>4
        <5>2. Tells(m.sc, st.site[i].sc[c]) => Tells(old, st.site[i].sc[c])
          <6>1. SUFFICES ASSUME Tells(m.sc, st.site[i].sc[c])
                         PROVE  Tells(old, st.site[i].sc[c])
            OBVIOUS
          <6>2. st.site[i].sc[c].epoch = st.boot[c] /\ m.sc.epoch <= st.boot[c] /\ old.epoch <= st.boot[c]
            BY <1>1, <1>6, <1>7, <3>1, <3>4, <4>1, <4>4, <5>1 DEF HeldOK
          <6>3. m.sc.epoch = st.boot[c] /\ m.sc.epoch > 0
            BY <1>6, <1>7, <2>6, <6>1, <6>2, <4>4, <1>4 DEF Tells, Status, Shape
          <6>4. CostsOK(m.sc)
            BY <1>6, <1>7, <6>3 DEF HeldOK
          <6>5. m.sc.epoch = old.epoch => Within(m.sc, old) \/ Within(old, m.sc)
            BY <1>7, <2>1, <4>4, <6>3 DEF Chain
          <6>6. m.sc.epoch >= old.epoch
            BY <1>7, <2>6, <6>2, <6>3 DEF Status
          <6>7. Tells(old, m.sc)
            BY <1>7, <2>9, <4>4, <6>4, <6>5, <6>6, Refused
          <6> QED
            BY <1>4, <1>7, <2>6, <4>4, <6>1, <6>7, TellsTrans
        <5>3. Tells(y.site[n].sc[c], st.site[i].sc[c]) \/ <<i, n>> \in st.new \/ c \in st.site[i].unsent[n]
                \/ (i = c /\ st.site[i].progress /\ st.site[i].gen)
          BY <1>8, <3>1, <4>2, <4>4, <5>1, <5>2 DEF Pending
        <5>4. c \in st.site[i].unsent[n] => c \in y.site[i].unsent[n]
          BY <1>1, <1>4
        <5> QED
          BY <1>1, <1>4, <2>7, <3>1, <5>1, <5>3, <5>4 DEF Pending
      <4> QED
        BY <4>3, <4>4
    <3> QED
      BY <2>4, <3>2, <3>3, <3>4 DEF News
  <2>10. CASE Valid(m.sc, old) /\ c = d
    <3>1. Tells(m.sc, old) /\ CostsOK(m.sc) /\ (m.sc.epoch = old.epoch => Within(old, m.sc))
      BY <1>7, <2>10, Accepted
    <3>2. /\ m.sc \in Status(c) /\ old \in Status(c) /\ old = st.site[n].sc[c] /\ y.site[n].sc[c] = m.sc
          /\ c # n
      BY <1>3, <1>7, <1>8, <2>2, <2>10
    <3>3. GraphOK(y, c)
      <4>1. SUFFICES ASSUME NEW k \in Site \ {c}, y.site[k].sc[c].epoch = y.boot[c], NEW j \in Adj(c)
                     PROVE  y.site[k].graph[<<c, j>>] = y.site[k].sc[c].cell[j].cost
        BY DEF GraphOK
      <4>2. CASE k # n
        BY <1>1, <2>1, <4>1, <4>2, SMTT(30) DEF GraphOK
      <4>3. CASE k = n
        <5>1. <<c, j>> \in Pairs /\ <<c, j>>[1] = c /\ <<c, j>>[2] = j /\ j \in DOMAIN m.sc.cell
              /\ j \in DOMAIN old.cell
          BY <3>2, PairIs DEF Status
        <5>2. SiteShape(n, st.site[n])
          BY <1>6 DEF Shape
        <5>3. Apply(st.site[n].graph, c, j, m.sc.cell[j].cost)[<<c, j>>] = m.sc.cell[j].cost
          <6>1. m.sc.cell[j].cost \in Int /\ (m.sc.cell[j].cost = -1 \/ m.sc.cell[j].cost >= 1)
            BY <3>1, <3>2, <5>1 DEF CostsOK, Status
          <6>2. Apply(st.site[n].graph, c, j, m.sc.cell[j].cost)
                  = [st.site[n].graph EXCEPT ![<<c, j>>] = m.sc.cell[j].cost]
            BY <6>1 DEF Apply
          <6> QED
            BY <5>1, <5>2, <6>2 DEF SiteShape
        <5>4. y.site[n].graph[<<c, j>>] =
                IF m.sc.epoch > old.epoch \/ m.sc.cell[j].seq > old.cell[j].seq
                THEN Apply(st.site[n].graph, c, j, m.sc.cell[j].cost)[<<c, j>>] ELSE st.site[n].graph[<<c, j>>]
          BY <1>3, <2>10, <5>1 DEF ApplyAll
        <5>5. CASE m.sc.epoch > old.epoch \/ m.sc.cell[j].seq > old.cell[j].seq
          BY <3>2, <4>3, <5>3, <5>4, <5>5
        <5>6. CASE ~(m.sc.epoch > old.epoch \/ m.sc.cell[j].seq > old.cell[j].seq)
          <6>1. m.sc.epoch = old.epoch /\ old.epoch = st.boot[c]
            BY <1>1, <3>1, <3>2, <4>1, <4>3, <5>6 DEF Tells, Status
          <6>2. m.sc.cell[j].seq = old.cell[j].seq
            <7>1. m.sc.cell[j].seq \in Nat /\ old.cell[j].seq \in Nat
              BY <3>2 DEF Status
            <7>2. old.cell[j].seq <= m.sc.cell[j].seq
              BY <3>1, <5>1, <6>1 DEF Within
            <7> QED
              BY <5>6, <7>1, <7>2
          <6>3. Same(m.sc, old)
            BY <1>7, <2>1, <2>10, <6>1 DEF Chain
          <6>4. m.sc.cell[j].cost = old.cell[j].cost
            BY <5>1, <6>2, <6>3 DEF Same
          <6>5. st.site[n].graph[<<c, j>>] = old.cell[j].cost
            BY <2>1, <3>2, <6>1 DEF GraphOK
          <6> QED
            BY <3>2, <4>3, <5>4, <5>6, <6>4, <6>5
        <5> QED
          BY <5>5, <5>6
      <4> QED
        BY <4>2, <4>3
    <3>4. ASSUME NEW s \in Status(c), Tells(old, s)
          PROVE  Tells(y.site[n].sc[c], s)
      BY <3>1, <3>2, <3>4, TellsTrans
    <3>5. ASSUME NEW p \in Pairs,
                 y.wire[p] # <<>>, Head(y.wire[p]).creator = c, Head(y.wire[p]).sc.epoch = y.boot[c],
                 <<p[2], p[1]>> \notin y.new
          PROVE  Tells(y.site[p[1]].sc[c], Head(y.wire[p]).sc)
      <4>1. y.wire[p] = st.wire[p] /\ p[1] \in Site
        BY <1>9, <3>5, PairOf
      <4>2. Tells(st.site[p[1]].sc[c], Head(y.wire[p]).sc)
        BY <1>1, <2>1, <3>5, <4>1 DEF Echo
      <4>3. Head(y.wire[p]).sc \in Status(c)
        BY <1>6, <3>5, <4>1, WireHeld DEF HeldOK
      <4> QED
        BY <1>1, <3>2, <3>4, <4>1, <4>2, <4>3
    <3>6. ASSUME NEW p \in Pairs, p[2] # c, y.site[p[1]].sc[c].epoch = y.boot[c]
          PROVE  Pending(y, c, p[1], p[2])
      <4>1. p = <<p[1], p[2]>> /\ p[1] \in Site /\ p[2] \in Site /\ p[2] \in Adj(p[1]) /\ p[1] # p[2]
        BY PairOf, PairIs
      <4>2. CASE p[1] = n /\ p[2] # i
        BY <1>3, <2>10, <4>1, <4>2 DEF Pending
      <4>3. CASE p[1] = n /\ p[2] = i
        <5>1. m.sc.epoch = st.boot[c]
          BY <1>1, <3>2, <3>6, <4>3
        <5>2. <<n, i>> \notin st.new => Tells(st.site[i].sc[c], m.sc)
          BY <1>1, <1>4, <1>8, <2>1, <2>10, <5>1 DEF Echo
        <5> QED
          BY <1>1, <1>4, <3>2, <4>3, <5>2 DEF Pending
      <4>4. CASE p[1] # n
        <5>1. Pending(st, c, p[1], p[2])
          BY <1>1, <2>1, <3>6, <4>1, <4>4 DEF News
        <5>2. y.site[p[1]] = st.site[p[1]] /\ st.site[p[1]].sc[c] \in Status(c)
          BY <1>1, <2>6, <4>1, <4>4
        <5>3. Tells(st.site[p[2]].sc[c], st.site[p[1]].sc[c]) => Tells(y.site[p[2]].sc[c], st.site[p[1]].sc[c])
          BY <1>1, <3>2, <3>4, <4>1, <5>2
        <5>4. CASE p = q
          BY <1>1, <1>8, <3>2, <4>1, <5>1, <5>2, <5>3, <5>4 DEF Pending
        <5>5. CASE p # q
          <6>1. y.wire[<<p[1], p[2]>>] = st.wire[<<p[1], p[2]>>]
            BY <1>1, <4>1, <5>5
          <6> QED
            BY <1>1, <5>1, <5>2, <5>3, <6>1 DEF Pending
        <5> QED
          BY <5>4, <5>5
      <4> QED
        BY <4>2, <4>3, <4>4
    <3> QED
      BY <2>4, <3>3, <3>5, <3>6 DEF News, Echo
  <2> QED
    BY <2>9, <2>10
<1> QED
  BY <1>12, <1>13 DEF Current

LEMMA TransferKeeps ==
  ASSUME StatusInv(st), NEW n \in Site, NEW i \in Adj(n), Neighbor_Transfer(n, i)
  PROVE  StatusInv(st')
<1> DEFINE y == st'
           q == <<i, n>>
<1>1. /\ Shape(y)
      /\ y.boot = st.boot /\ y.back = st.back
      /\ y.new = st.new \ {<<n, i>>}
      /\ \A k \in Site \ {n} : y.site[k] = st.site[k]
      /\ y.site[n].sc = st.site[n].sc /\ y.site[n].graph = st.site[n].graph
      /\ y.site[n].progress = st.site[n].progress /\ y.site[n].gen = st.site[n].gen
      /\ \A k \in Adj(n) \ {i} : y.site[n].unsent[k] = st.site[n].unsent[k]
      /\ y.site[n].unsent[i] = st.site[n].unsent[i] \cup {c \in Site \ {i} : st.site[n].sc[c].epoch > 0}
      /\ \A p \in Pairs \ {q} : y.wire[p] = st.wire[p]
      /\ y.wire[q] = <<>>
  <2>1. Shape(st)
    BY DEF StatusInv
  <2> QED
    BY <2>1, TransferDoes
<1>2. <<n, i>> \in st.new
  BY DEF Neighbor_Transfer
<1>3. q \in Pairs /\ <<n, i>> \in Pairs /\ i \in Site /\ i # n
  BY PairIs
<1> HIDE DEF y
<1>4. SUFFICES ASSUME NEW c \in Site
               PROVE  HeldOK(y, c) /\ Current(y, c)
  BY <1>1 DEF StatusInv, y
<1>5. HeldOK(st, c) /\ Current(st, c) /\ Shape(st)
  BY DEF StatusInv
<1>6. \A k \in Site : y.site[k].sc[c] = st.site[k].sc[c] /\ y.site[k].graph = st.site[k].graph
  BY <1>1
<1>7. \A p \in Pairs : y.wire[p] = <<>> \/ y.wire[p] = st.wire[p]
  BY <1>1
<1>8. Held(y, c) \subseteq Held(st, c)
  BY <1>6, <1>7, HeldIs, SiteHeld, WireHeld
<1>9. HeldOK(y, c)
  BY <1>1, <1>5, <1>6, <1>8, KeepHeld DEF HeldOK
<1>10. ASSUME c \notin y.back
       PROVE  Chain(y, c) /\ GraphOK(y, c) /\ Echo(y, c) /\ News(y, c)
  <2>1. Chain(st, c) /\ GraphOK(st, c) /\ Echo(st, c) /\ News(st, c)
    BY <1>1, <1>5, <1>10 DEF Current
  <2>2. Chain(y, c)
    BY <1>1, <1>6, <1>8, <2>1, KeepChain
  <2>3. GraphOK(y, c)
    BY <1>1, <1>6, <2>1, KeepGraph
  <2>4. ASSUME NEW p \in Pairs,
               y.wire[p] # <<>>, Head(y.wire[p]).creator = c, Head(y.wire[p]).sc.epoch = y.boot[c],
               <<p[2], p[1]>> \notin y.new
        PROVE  Tells(y.site[p[1]].sc[c], Head(y.wire[p]).sc)
    <3>1. p = <<p[1], p[2]>> /\ p[1] \in Site /\ p # q
      BY <1>1, <2>4, PairOf
    <3>2. <<p[2], p[1]>> # <<n, i>>
      BY <3>1
    <3> QED
      BY <1>1, <1>6, <1>7, <2>1, <2>4, <3>1, <3>2 DEF Echo
  <2>5. ASSUME NEW p \in Pairs, p[2] # c, y.site[p[1]].sc[c].epoch = y.boot[c]
        PROVE  Pending(y, c, p[1], p[2])
    <3>1. p = <<p[1], p[2]>> /\ p[1] \in Site /\ p[2] \in Site /\ p[2] \in Adj(p[1])
      BY PairOf
    <3>2. Pending(st, c, p[1], p[2])
      BY <1>1, <1>6, <2>1, <2>5, <3>1 DEF News
    <3>3. CASE p = <<n, i>>
      <4>1. p[1] = n /\ p[2] = i /\ st.site[n].sc[c].epoch = st.boot[c] /\ st.boot[c] > 0
        BY <1>1, <1>5, <1>6, <2>5, <3>3 DEF Shape
      <4>2. c \in y.site[n].unsent[i]
        BY <1>1, <2>5, <4>1
      <4> QED
        BY <4>1, <4>2 DEF Pending
    <3>4. CASE p # <<n, i>>
      <4>1. \A k \in Site : y.site[k].progress = st.site[k].progress /\ y.site[k].gen = st.site[k].gen
        BY <1>1
      <4>2. c \in st.site[p[1]].unsent[p[2]] => c \in y.site[p[1]].unsent[p[2]]
        BY <1>1, <3>1, <3>4
      <4>3. p \in st.new => p \in y.new
        BY <1>1, <3>4
      <4>4. CASE p = q
        BY <1>1, <1>2, <1>6, <3>1, <3>2, <4>1, <4>2, <4>3, <4>4 DEF Pending
      <4>5. CASE p # q
        <5>1. y.wire[<<p[1], p[2]>>] = st.wire[<<p[1], p[2]>>]
          BY <1>1, <3>1, <4>5
        <5> QED
          BY <1>1, <1>6, <3>1, <3>2, <4>1, <4>2, <4>3, <5>1 DEF Pending
      <4> QED
        BY <4>4, <4>5
    <3> QED
      BY <3>3, <3>4
  <2> QED
    BY <2>2, <2>3, <2>4, <2>5 DEF News, Echo
<1> QED
  BY <1>9, <1>10 DEF Current

LEMMA RestartKeeps ==
  ASSUME StatusInv(st), NEW n \in Site, RestartSite(n)
  PROVE  StatusInv(st')
<1> DEFINE y == st'
           new == [c \in Site |-> FreshSite(n).sc[c]]
<1>1. /\ Shape(y)
      /\ y.boot[n] = st.clock + 1
      /\ \A k \in Site \ {n} : y.boot[k] = st.boot[k]
      /\ y.site[n] = FreshSite(n)
      /\ \A k \in Site \ {n} : y.site[k] = st.site[k]
      /\ y.new = st.new \cup {p \in Pairs : n \in {p[1], p[2]}}
      /\ y.back = st.back \ {n}
      /\ \A p \in Pairs : y.wire[p] = IF p[2] = n THEN <<>> ELSE st.wire[p]
  <2>1. Shape(st)
    BY DEF StatusInv
  <2> QED
    BY <2>1, RestartDoes
<1> HIDE DEF y
<1>2. SUFFICES ASSUME NEW c \in Site
               PROVE  HeldOK(y, c) /\ Current(y, c)
  BY <1>1 DEF StatusInv, y
<1>3. HeldOK(st, c) /\ Current(st, c) /\ Shape(st)
  BY DEF StatusInv
<1>4. y.site[n].sc[c] = [epoch |-> 0, cell |-> [j \in Adj(c) |-> [seq |-> 0, cost |-> IF c = n THEN -1 ELSE 0]]]
  BY <1>1, FreshShape
<1>5. /\ y.site[n].sc[c] \in Status(c) /\ y.site[n].sc[c].epoch = 0
      /\ c = n => CostsOK(y.site[n].sc[c])
  BY <1>4 DEF Status, CostsOK
<1>6. \A p \in Pairs : y.wire[p] = <<>> \/ y.wire[p] = st.wire[p]
  BY <1>1
<1>7. \A t \in Held(y, c) : t = y.site[n].sc[c] \/ t \in Held(st, c)
  BY <1>1, <1>6, HeldIs, SiteHeld, WireHeld
<1>8. /\ st.boot[c] \in Nat \ {0} /\ st.boot[c] <= st.clock /\ st.clock \in Nat
      /\ y.boot[c] \in Nat \ {0} /\ st.boot[c] <= y.boot[c] /\ (c = n => st.boot[c] < y.boot[c])
  BY <1>1, <1>3 DEF Shape
<1>9. HeldOK(y, c)
  <2>1. CostsOK(y.site[c].sc[c])
    BY <1>1, <1>3, <1>5 DEF HeldOK
  <2>2. \A t \in Held(y, c) : t \in Status(c) /\ t.epoch <= y.boot[c] /\ (t.epoch > 0 => CostsOK(t))
    BY <1>3, <1>5, <1>7, <1>8 DEF HeldOK, Status
  <2> QED
    BY <2>1, <2>2 DEF HeldOK
<1>10. CASE c = n
  <2>1. \A t \in Held(y, c) : t.epoch # y.boot[c]
    BY <1>3, <1>5, <1>7, <1>8, <1>10 DEF HeldOK, Status
  <2>2. Chain(y, c)
    BY <1>5, <1>10, <2>1 DEF Chain
  <2>3. GraphOK(y, c)
    BY <2>1, SiteHeld DEF GraphOK
  <2>4. Echo(y, c)
    BY <2>1, WireHeld DEF Echo
  <2>5. News(y, c)
    BY <2>1, SiteHeld, PairOf DEF News
  <2> QED
    BY <1>9, <2>2, <2>3, <2>4, <2>5 DEF Current
<1>11. CASE c # n
  <2>1. ASSUME c \notin y.back
        PROVE  Chain(y, c) /\ GraphOK(y, c) /\ Echo(y, c) /\ News(y, c)
    <3>1. Chain(st, c) /\ GraphOK(st, c) /\ Echo(st, c) /\ News(st, c)
      BY <1>1, <1>3, <1>11, <2>1 DEF Current
    <3>2. y.boot[c] = st.boot[c] /\ y.site[n].sc[c].epoch # y.boot[c] /\ y.site[c] = st.site[c]
      BY <1>1, <1>5, <1>8, <1>11
    <3>3. \A t \in Held(y, c) : t.epoch = y.boot[c] => t \in Held(st, c)
      BY <1>7, <3>2
    <3>4. Chain(y, c)
      BY <3>1, <3>2, <3>3 DEF Chain
    <3>5. GraphOK(y, c)
      BY <1>1, <3>1, <3>2, SMTT(30) DEF GraphOK
    <3>6. ASSUME NEW p \in Pairs,
                 y.wire[p] # <<>>, Head(y.wire[p]).creator = c, Head(y.wire[p]).sc.epoch = y.boot[c],
                 <<p[2], p[1]>> \notin y.new
          PROVE  Tells(y.site[p[1]].sc[c], Head(y.wire[p]).sc)
      <4>1. p[1] \in Site /\ p[2] \in Site /\ <<p[2], p[1]>> \in Pairs
        BY PairOf, PairIs
      <4>2. p[1] # n /\ p[2] # n
        BY <1>1, <3>6, <4>1
      <4> QED
        BY <1>1, <3>1, <3>2, <3>6, <4>1, <4>2 DEF Echo
    <3>7. ASSUME NEW p \in Pairs, p[2] # c, y.site[p[1]].sc[c].epoch = y.boot[c]
          PROVE  Pending(y, c, p[1], p[2])
      <4>1. p = <<p[1], p[2]>> /\ p[1] \in Site /\ p[2] \in Site /\ <<p[2], p[1]>> \in Pairs
        BY PairOf, PairIs
      <4>2. p[1] # n
        BY <3>2, <3>7
      <4>3. CASE p[2] = n
        BY <1>1, <4>1, <4>3 DEF Pending
      <4>4. CASE p[2] # n
        <5>1. Pending(st, c, p[1], p[2])
          BY <1>1, <3>1, <3>2, <3>7, <4>1, <4>2 DEF News
        <5>2. /\ y.site[p[1]] = st.site[p[1]] /\ y.site[p[2]] = st.site[p[2]]
              /\ y.wire[<<p[1], p[2]>>] = st.wire[<<p[1], p[2]>>]
          BY <1>1, <4>1, <4>2, <4>4
        <5>3. p \in st.new => p \in y.new
          BY <1>1
        <5>4. <<p[2], p[1]>> \notin st.new => <<p[2], p[1]>> \notin y.new
          BY <1>1, <4>1, <4>2, <4>4
        <5> QED
          BY <4>1, <5>1, <5>2, <5>3, <5>4 DEF Pending
      <4> QED
        BY <4>3, <4>4
    <3> QED
      BY <3>4, <3>5, <3>6, <3>7 DEF News, Echo
  <2> QED
    BY <1>9, <2>1 DEF Current
<1> QED
  BY <1>10, <1>11

-----------------------------------------------------------------------------
LEMMA StatusStarts == StatusInit => StatusInv(st)
<1> SUFFICES ASSUME StatusInit
             PROVE  StatusInv(st)
  OBVIOUS
<1>1. /\ st = [site |-> [n \in Site |-> FreshSite(n)], wire |-> [p \in Pairs |-> <<>>], new |-> {},
               boot |-> [n \in Site |-> 1], clock |-> 1, changes |-> 0, back |-> {}]
  BY DEF StatusInit
<1>2. /\ st.site = [n \in Site |-> FreshSite(n)] /\ st.wire = [p \in Pairs |-> <<>>] /\ st.new = {}
      /\ st.boot = [n \in Site |-> 1] /\ st.clock = 1 /\ st.back = {}
      /\ st \in [site : {st.site}, wire : {st.wire}, new : {st.new}, boot : {st.boot}, clock : {st.clock},
            changes : {st.changes}, back : {st.back}]
  BY <1>1
<1>3. /\ \A n \in Site : st.site[n] = FreshSite(n) /\ st.boot[n] = 1
      /\ \A p \in Pairs : st.wire[p] = <<>>
  BY <1>2
<1>4. \A n \in Site : SiteShape(n, st.site[n])
  BY <1>3, FreshShape
<1>5. st.site = [n \in Site |-> st.site[n]] /\ st.wire = [p \in Pairs |-> st.wire[p]]
  BY <1>2, <1>3
<1>6. Shape(st)
  <2>1. st.boot \in [Site -> Nat \ {0}] /\ st.clock \in Nat /\ \A n \in Site : st.boot[n] <= st.clock
    BY <1>2
  <2>2. \A p \in Pairs : WireShape(st.wire[p])
    BY <1>3 DEF WireShape
  <2> QED
    BY <1>2, <1>4, <1>5, <2>1, <2>2 DEF Shape
<1>7. SUFFICES ASSUME NEW c \in Site
               PROVE  HeldOK(st, c) /\ Current(st, c)
  BY <1>6 DEF StatusInv
<1>8. ASSUME NEW t \in Held(st, c)
      PROVE  t \in Status(c) /\ t.epoch = 0
  <2>1. PICK n \in Site : t = st.site[n].sc[c]
    BY <1>3, <1>8, HeldIs
  <2>2. t = [epoch |-> 0, cell |-> [j \in Adj(c) |-> [seq |-> 0, cost |-> IF c = n THEN -1 ELSE 0]]]
    BY <1>3, <2>1, FreshShape
  <2> QED
    BY <2>2 DEF Status
<1>9. CostsOK(st.site[c].sc[c])
  <2>1. st.site[c].sc[c] = [epoch |-> 0, cell |-> [j \in Adj(c) |-> [seq |-> 0, cost |-> -1]]]
    BY <1>3, FreshShape
  <2> QED
    BY <2>1 DEF CostsOK
<1>10. HeldOK(st, c)
  BY <1>3, <1>8, <1>9 DEF HeldOK
<1>11. \A n \in Site : st.site[n].sc[c].epoch = 0
  BY <1>8, SiteHeld
<1>12. Chain(st, c)
  BY <1>3, <1>8, <1>11 DEF Chain
<1>13. GraphOK(st, c) /\ Echo(st, c) /\ News(st, c)
  BY <1>3, <1>11, PairOf DEF GraphOK, Echo, News
<1> QED
  BY <1>10, <1>12, <1>13 DEF Current

LEMMA StatusSteps ==
  ASSUME StatusInv(st), [StatusNext]_st
  PROVE  StatusInv(st')
<1>1. CASE UNCHANGED st
  BY <1>1
<1>2. ASSUME NEW p \in Pairs, Generate_Link_Status_Change(p[1], p[2])
      PROVE  StatusInv(st')
  BY <1>2, PairOf, GenerateKeeps
<1>3. ASSUME NEW p \in Pairs, Send_Status_Change(p[1], p[2])
      PROVE  StatusInv(st')
  BY <1>3, PairOf, SendKeeps
<1>4. ASSUME NEW p \in Pairs, Process_Status_Change(p[1], p[2])
      PROVE  StatusInv(st')
  BY <1>4, PairOf, ProcessKeeps
<1>5. ASSUME NEW p \in Pairs, Neighbor_Transfer(p[1], p[2])
      PROVE  StatusInv(st')
  BY <1>5, PairOf, TransferKeeps
<1>6. ASSUME NEW n \in Site, Gen_Status_Change(n)
      PROVE  StatusInv(st')
  BY <1>6, GenKeeps
<1>7. ASSUME NEW n \in Site, RestartSite(n)
      PROVE  StatusInv(st')
  BY <1>7, RestartKeeps
<1> QED
  BY <1>1, <1>2, <1>3, <1>4, <1>5, <1>6, <1>7 DEF StatusNext

(* At rest nothing is about to be told: what the creator has, all have. *)
LEMMA RestAgrees ==
  ASSUME StatusInv(st)
  PROVE  GraphsAgree
<1>1. SUFFICES ASSUME AtRest, NEW n \in Site, NEW c \in Site \ st.back, NEW j \in Adj(c),
                      st.site[c].sc[c].epoch > 0
               PROVE  /\ st.site[n].sc[c] = st.site[c].sc[c]
                      /\ n # c => st.site[n].graph[<<c, j>>] = st.site[c].sc[c].cell[j].cost
  BY DEF GraphsAgree
<1> DEFINE own == st.site[c].sc[c]
           S == {k \in Site : st.site[k].sc[c] = own}
<1>2. HeldOK(st, c) /\ Chain(st, c) /\ GraphOK(st, c) /\ News(st, c) /\ Shape(st)
  BY DEF StatusInv, Current
<1>3. own.epoch = st.boot[c] /\ own \in Status(c) /\ own \in Held(st, c)
  BY <1>1, <1>2, SiteHeld DEF Chain, HeldOK
<1>4. ASSUME NEW p \in Pairs, p[1] \in S, p[2] \notin S
      PROVE  FALSE
  <2>1. p[1] \in Site /\ p[2] \in Site /\ p[2] # c /\ st.site[p[1]].sc[c] = own
        /\ <<p[1], p[2]>> \in Pairs
    BY <1>4, PairOf
  <2> DEFINE t == st.site[p[2]].sc[c]
  <2>2. Pending(st, c, p[1], p[2])
    BY <1>2, <1>3, <2>1 DEF News
  <2>3. Tells(t, own)
    BY <1>1, <2>1, <2>2 DEF AtRest, Pending
  <2>4. t \in Held(st, c) /\ t \in Status(c) /\ t.epoch <= st.boot[c]
    BY <1>2, <2>1, SiteHeld DEF HeldOK
  <2> HIDE DEF t, own
  <2>5. t.epoch = own.epoch /\ Within(own, t)
    BY <1>2, <1>3, <2>3, <2>4 DEF Tells, Status, Shape
  <2>6. Within(t, own) /\ Same(t, own)
    BY <1>2, <1>3, <2>4, <2>5 DEF Chain, own
  <2>7. \A k \in Adj(c) : t.cell[k].seq = own.cell[k].seq
    <3>1. DOMAIN t.cell = Adj(c) /\ DOMAIN own.cell = Adj(c)
      BY <1>3, <2>4 DEF Status
    <3>2. \A k \in Adj(c) : t.cell[k].seq \in Nat /\ own.cell[k].seq \in Nat
      BY <1>3, <2>4 DEF Status
    <3>3. \A k \in Adj(c) : t.cell[k].seq <= own.cell[k].seq /\ own.cell[k].seq <= t.cell[k].seq
      BY <2>5, <2>6, <3>1 DEF Within
    <3> QED
      BY <3>2, <3>3
  <2>8. \A k \in Adj(c) : t.cell[k].cost = own.cell[k].cost
    BY <2>4, <2>6, <2>7 DEF Same, Status
  <2>9. \A k \in Adj(c) : t.cell[k] = own.cell[k]
    BY <1>3, <2>4, <2>7, <2>8 DEF Status
  <2>10. t.cell = own.cell
    BY <1>3, <2>4, <2>9 DEF Status
  <2>11. t = own
    BY <1>3, <2>4, <2>5, <2>10 DEF Status
  <2> QED
    BY <1>4, <2>1, <2>11 DEF t, own
<1>5. S = Site
  <2>1. S \in SUBSET Site /\ c \in S
    BY <1>1
  <2> QED
    BY <1>4, <2>1, OneOverlay
<1>6. st.site[n].sc[c] = own
  BY <1>5
<1> QED
  BY <1>1, <1>2, <1>3, <1>6 DEF GraphOK

(* At rest all daemons have the last status change of every creator and its  *)
(* costs in their graphs, for every connected overlay, any costs, changes    *)
(* and restarts, except for creators that got an old status change of their  *)
(* own back (Process_Status_Change).                                         *)
THEOREM StatusesAgree == StatusSpec => []GraphsAgree
<1>1. StatusInv(st) => GraphsAgree
  BY RestAgrees
<1>2. StatusInv(st) /\ [StatusNext]_st => StatusInv(st)'
  BY StatusSteps
<1> QED
  BY <1>1, <1>2, StatusStarts, PTL DEF StatusSpec

-----------------------------------------------------------------------------
(* The reliable flow.                                                        *)

(* A daemon's record: the fields, and the types of those that matter. *)
Parts ==
  {"epoch", "sow", "head", "next", "msg", "status", "e2e", "handshake", "flow_epoch", "flow_seq",
   "initial", "gen", "edge", "exit"}
Message == [seq : Nat, epoch : Nat, load : Nat, mask : SUBSET Wire]
E2ECell == [de : Nat, se : Nat, aru : Nat, known : BOOLEAN]

IsNode(v) ==
  /\ v = [f \in Parts |-> v[f]]
  /\ v.epoch \in Nat /\ v.sow \in Nat \ {0} /\ v.head \in Nat \ {0}
  /\ v.flow_epoch \in Nat /\ v.flow_seq \in Nat \ {0}
  /\ v.msg \in [Cells -> Message] /\ v.e2e \in [FlowEnds -> E2ECell]

(* What tells messages apart, and what tells acknowledgements apart. *)
Name(m) == <<m.epoch, m.seq, m.load>>
Says(c) == <<c.de, c.se, c.aru>>

(* M has the messages that were ever given, C the acknowledgements that the  *)
(* destination ever made, F is the present epoch of the source.              *)
Kept(m, M) == m.epoch = 0 \/ Name(m) \in M
Told(c, x, C, F) == IF x = Destination THEN Says(c) \in C ELSE c.de <= F /\ c.aru = 0

NodeOK(v, M, C, F) ==
  /\ IsNode(v)
  /\ \A c \in Cells : Kept(v.msg[c], M)
  /\ \A x \in FlowEnds : Told(v.e2e[x], x, C, F)

Acks == [epoch : Nat, aru : Int, sow : Nat]
PacketsOK(M, C, F) ==
  {p \in [type : {"DATA", "E2E", "SAA"}, who : Daemon, body : Message \cup E2ECell, ack : Acks] :
     /\ p.type = "DATA" => p.body \in Message /\ Kept(p.body, M)
     /\ p.type = "E2E" => p.who \in FlowEnds /\ p.body \in E2ECell /\ Told(p.body, p.who, C, F)}

(* Two records that differ in what is not in IsNode. *)
Alike(v, w) ==
  /\ w = [f \in Parts |-> w[f]]
  /\ w.epoch = v.epoch /\ w.sow = v.sow /\ w.head = v.head /\ w.msg = v.msg /\ w.e2e = v.e2e
  /\ w.flow_epoch = v.flow_epoch /\ w.flow_seq = v.flow_seq

LEMMA AlikeNode ==
  ASSUME NEW v, NEW w, IsNode(v), Alike(v, w)
  PROVE  IsNode(w)
  BY DEF IsNode, Alike

LEMMA AlikeRefl ==
  ASSUME NEW v, IsNode(v)
  PROVE  Alike(v, v)
  BY DEF IsNode, Alike

LEMMA AlikeTrans ==
  ASSUME NEW u, NEW v, NEW w, Alike(u, v), Alike(v, w)
  PROVE  Alike(u, w)
  BY DEF Alike

LEMMA AdvanceAlike ==
  ASSUME NEW v, NEW j, IsNode(v)
  PROVE  Alike(v, Advance(v, j))
<1> DEFINE open == {i \in v.next[j] .. v.head - 1 : v.status[Index(i)][j] \notin SENT}
           x == IF v.next[j] >= v.head THEN v.next[j]
                ELSE IF open = {} THEN v.head ELSE CHOOSE i \in open : \A k \in open : i <= k
<1>1. Advance(v, j) = [v EXCEPT !.next[j] = x]
  BY DEF Advance
<1> HIDE DEF x
<1> QED
  BY <1>1 DEF IsNode, Alike, Parts

LEMMA AdvanceAllAlike ==
  ASSUME NEW n, NEW v, IsNode(v)
  PROVE  Alike(v, AdvanceAll(n, v))
  BY DEF IsNode, Alike, AdvanceAll, Parts

LEMMA RequeueAlike ==
  ASSUME NEW n, NEW v, NEW j, IsNode(v)
  PROVE  Alike(v, Requeue(n, v, j))
  BY DEF IsNode, Alike, Requeue, Parts

LEMMA SpreadAlike ==
  ASSUME NEW n, NEW v, NEW j, NEW m, NEW b, IsNode(v)
  PROVE  Alike(v, Spread(n, v, j, m, b))
  BY DEF IsNode, Alike, Spread, Parts

LEMMA AgainAlike ==
  ASSUME NEW v, NEW j, NEW m, IsNode(v)
  PROVE  Alike(v, Again(v, j, m))
<1> DEFINE w == [v EXCEPT !.status[Index(m.seq)][j] =
                   IF @ = "NEW_UNSENT" THEN "NEW_SENT"
                   ELSE IF @ = "RESTAMPED_UNSENT" THEN "RESTAMPED_SENT" ELSE @]
<1>1. Alike(v, w)
  BY DEF IsNode, Alike, Parts
<1>2. Alike(w, Advance(w, j))
  <2> HIDE DEF w
  <2> QED
    BY <1>1, AlikeNode, AdvanceAlike
<1> QED
  BY <1>1, <1>2, AlikeTrans DEF Again

LEMMA AcksAlike ==
  ASSUME NEW n, NEW v, NEW j, NEW ack, IsNode(v)
  PROVE  Alike(v, Process_Acks(n, v, j, ack))
<1> DEFINE raised  == [v EXCEPT !.edge[j].sow = Larger(@, ack.sow), !.edge[j].aru = Larger(@, ack.aru)]
           covered == {i \in v.next[j] .. Smaller(ack.aru, v.head - 1) : v.status[Index(i)][j] = "NEW_UNSENT"
                         /\ \A k \in v.next[j] .. i : v.status[Index(k)][j] \in SENT \cup {"NEW_UNSENT"}}
           marks   == [c \in Cells |-> IF c \in {Index(i) : i \in covered}
                                       THEN [v.status[c] EXCEPT ![j] = "NEW_SENT"] ELSE v.status[c]]
           marked  == [raised EXCEPT !.status = marks]
           skipped == IF v.edge[j].aru < ack.aru /\ v.next[j] <= ack.aru THEN Advance(marked, j) ELSE raised
<1>1. Alike(v, raised)
  <2> DEFINE e == [v.edge EXCEPT ![j].sow = Larger(@, ack.sow), ![j].aru = Larger(@, ack.aru)]
  <2>1. raised = [v EXCEPT !.edge = e]
    BY DEF IsNode, Parts
  <2> HIDE DEF e
  <2> QED
    BY <2>1 DEF IsNode, Alike, Parts
<1> HIDE DEF raised, marks
<1>2. Alike(v, marked)
  BY <1>1 DEF IsNode, Alike, Parts
<1> HIDE DEF marked
<1>3. Alike(v, Advance(marked, j))
  BY <1>2, AlikeNode, AdvanceAlike, AlikeTrans
<1>4. Alike(v, skipped)
  BY <1>1, <1>3
<1> HIDE DEF skipped
<1>5. Alike(v, Requeue(n, skipped, j))
  BY <1>4, AlikeNode, RequeueAlike, AlikeTrans
<1>6. Process_Acks(n, v, j, ack) \in {v, skipped, Requeue(n, skipped, j)}
  BY DEF Process_Acks, skipped, marked, marks, raised
<1> QED
  BY <1>4, <1>5, <1>6, AlikeRefl

-----------------------------------------------------------------------------
(* What the functions do to a record. *)

LEMMA IndexIn ==
  ASSUME NEW i \in Nat
  PROVE  Index(i) \in Cells
  BY RoomAssumption DEF Index, Cells

LEMMA NoMsgIs == NoMsg \in Message
  BY DEF NoMsg, Message

(* Cleaning changes the cells of sow .. upto - 1 only. *)
LEMMA CleanDoes ==
  ASSUME NEW n, NEW v, NEW u, IsNode(v)
  PROVE  LET w == Clean(n, v, u)
         IN  /\ IsNode(w) /\ w.epoch = v.epoch /\ w.sow = v.sow /\ w.head = v.head /\ w.e2e = v.e2e
             /\ w.flow_epoch = v.flow_epoch /\ w.flow_seq = v.flow_seq
             /\ \A c \in Cells : w.msg[c] \in {v.msg[c], NoMsg}
             /\ \A c \in Cells : c \notin {Index(i) : i \in v.sow .. u - 1} => w.msg[c] = v.msg[c]
<1> DEFINE gone == {Index(i) : i \in v.sow .. u - 1}
           f == [c \in Cells |-> IF c \in gone THEN NoMsg ELSE v.msg[c]]
           g == [c \in Cells |-> IF c \in gone THEN [j \in Ngbrs(n) |-> "EMPTY"] ELSE v.status[c]]
           w == [v EXCEPT !.msg = f, !.status = g]
<1>1. Clean(n, v, u) = w
  BY DEF Clean
<1>2. /\ f \in [Cells -> Message] /\ \A c \in Cells : f[c] \in {v.msg[c], NoMsg}
      /\ \A c \in Cells : c \notin gone => f[c] = v.msg[c]
  BY NoMsgIs DEF IsNode
<1> HIDE DEF gone, f, g
<1>3. /\ IsNode(w) /\ w.epoch = v.epoch /\ w.sow = v.sow /\ w.head = v.head /\ w.e2e = v.e2e
      /\ w.flow_epoch = v.flow_epoch /\ w.flow_seq = v.flow_seq /\ w.msg = f
  BY <1>2 DEF IsNode, Parts
<1> QED
  BY <1>1, <1>2, <1>3 DEF gone

LEMMA StartOverDoes ==
  ASSUME NEW n, NEW v, NEW cell \in E2ECell, IsNode(v)
  PROVE  LET w == StartOver(n, v, cell)
         IN  /\ IsNode(w) /\ w.epoch = cell.se /\ w.sow = cell.aru + 1 /\ w.head = cell.aru + 1
             /\ w.msg = v.msg /\ w.e2e = v.e2e
             /\ w.flow_epoch = v.flow_epoch /\ w.flow_seq = v.flow_seq
<1> DEFINE e == [j \in Ngbrs(n) |-> [v.edge[j] EXCEPT !.aru = cell.aru, !.sow = cell.aru + 1]]
           x == [j \in Ngbrs(n) |-> cell.aru + 1]
           w == [v EXCEPT !.sow = cell.aru + 1, !.head = cell.aru + 1, !.next = x, !.epoch = cell.se,
                          !.edge = e]
<1>1. StartOver(n, v, cell) = w
  BY DEF StartOver
<1> HIDE DEF e, x
<1>2. cell.se \in Nat /\ cell.aru + 1 \in Nat \ {0}
  BY DEF E2ECell
<1>3. /\ IsNode(w) /\ w.epoch = cell.se /\ w.sow = cell.aru + 1 /\ w.head = cell.aru + 1
      /\ w.msg = v.msg /\ w.e2e = v.e2e /\ w.flow_epoch = v.flow_epoch /\ w.flow_seq = v.flow_seq
  BY <1>2 DEF IsNode, Parts
<1> QED
  BY <1>1, <1>3

LEMMA AcknowledgedDoes ==
  ASSUME NEW n, NEW v, NEW aru \in Nat, IsNode(v)
  PROVE  LET w == Acknowledged(n, v, aru)
         IN  /\ IsNode(w) /\ w.epoch = v.epoch /\ w.e2e = v.e2e
             /\ w.flow_epoch = v.flow_epoch /\ w.flow_seq = v.flow_seq
             /\ w.sow = Larger(v.sow, aru + 1) /\ w.head = Larger(v.head, w.sow)
             /\ \A c \in Cells : w.msg[c] \in {v.msg[c], NoMsg}
             /\ \A c \in Cells : c \notin {Index(i) : i \in v.sow .. Smaller(aru + 1, v.head) - 1}
                                 => w.msg[c] = v.msg[c]
<1> DEFINE k == Clean(n, v, Smaller(aru + 1, v.head))
           c == [k EXCEPT !.sow = Larger(@, aru + 1)]
           e == [j \in Ngbrs(n) |-> [c.edge[j] EXCEPT !.aru = Larger(@, aru), !.sow = Larger(@, aru + 1)]]
           x == [j \in Ngbrs(n) |-> Larger(c.next[j], c.sow)]
           h == [c EXCEPT !.head = Larger(@, c.sow), !.next = x, !.edge = e]
<1>1. Acknowledged(n, v, aru) = AdvanceAll(n, h)
  BY DEF Acknowledged
<1>2. /\ IsNode(k) /\ k.epoch = v.epoch /\ k.sow = v.sow /\ k.head = v.head /\ k.e2e = v.e2e
      /\ k.flow_epoch = v.flow_epoch /\ k.flow_seq = v.flow_seq
      /\ \A i \in Cells : k.msg[i] \in {v.msg[i], NoMsg}
      /\ \A i \in Cells : i \notin {Index(q) : q \in v.sow .. Smaller(aru + 1, v.head) - 1}
                          => k.msg[i] = v.msg[i]
  BY CleanDoes
<1> HIDE DEF k
<1>3. /\ IsNode(c) /\ c.epoch = k.epoch /\ c.sow = Larger(k.sow, aru + 1) /\ c.head = k.head /\ c.e2e = k.e2e
      /\ c.flow_epoch = k.flow_epoch /\ c.flow_seq = k.flow_seq /\ c.msg = k.msg
  BY <1>2 DEF IsNode, Parts, Larger
<1> HIDE DEF c, e, x
<1>4. /\ IsNode(h) /\ h.epoch = c.epoch /\ h.sow = c.sow /\ h.head = Larger(c.head, c.sow) /\ h.e2e = c.e2e
      /\ h.flow_epoch = c.flow_epoch /\ h.flow_seq = c.flow_seq /\ h.msg = c.msg
  BY <1>3 DEF IsNode, Parts, Larger
<1> HIDE DEF h
<1>5. Alike(h, AdvanceAll(n, h)) /\ IsNode(AdvanceAll(n, h))
  BY <1>4, AdvanceAllAlike, AlikeNode
<1> QED
  BY <1>1, <1>2, <1>3, <1>4, <1>5 DEF Alike

LEMMA StoreDoes ==
  ASSUME NEW n, NEW v, NEW j, NEW m \in Message, NEW b, IsNode(v)
  PROVE  LET w == Store(n, v, j, m, b)
         IN  /\ IsNode(w) /\ w.epoch = v.epoch /\ w.sow = v.sow /\ w.head = v.head /\ w.e2e = v.e2e
             /\ w.flow_epoch = v.flow_epoch /\ w.flow_seq = v.flow_seq
             /\ w.msg = [v.msg EXCEPT ![Index(m.seq)] = m]
<1> DEFINE status == [k \in Ngbrs(n) |->
                   IF k = j \/ k = Source
                   THEN IF b THEN "RESTAMPED_SENT" ELSE "NEW_SENT"
                   ELSE IF b THEN "RESTAMPED_UNSENT" ELSE "NEW_UNSENT"]
           x == [k \in Ngbrs(n) |-> IF b THEN Smaller(v.next[k], m.seq) ELSE v.next[k]]
           s == [v EXCEPT !.msg[Index(m.seq)] = m, !.status[Index(m.seq)] = status, !.next = x]
<1>1. Store(n, v, j, m, b) = AdvanceAll(n, s)
  BY DEF Store
<1>2. [v.msg EXCEPT ![Index(m.seq)] = m] \in [Cells -> Message]
  BY IndexIn DEF IsNode, Message
<1> HIDE DEF x, status
<1>3. /\ IsNode(s) /\ s.epoch = v.epoch /\ s.sow = v.sow /\ s.head = v.head /\ s.e2e = v.e2e
      /\ s.flow_epoch = v.flow_epoch /\ s.flow_seq = v.flow_seq
      /\ s.msg = [v.msg EXCEPT ![Index(m.seq)] = m]
  BY <1>2 DEF IsNode, Parts
<1> HIDE DEF s
<1>4. Alike(s, AdvanceAll(n, s)) /\ IsNode(AdvanceAll(n, s))
  BY <1>3, AdvanceAllAlike, AlikeNode
<1> QED
  BY <1>1, <1>3, <1>4 DEF Alike

LEMMA ProcessDataDoes ==
  ASSUME NEW n, NEW v, NEW j, NEW m \in Message, IsNode(v)
  PROVE  LET w == Process_Data(n, v, j, m)
             put == [v.msg EXCEPT ![Index(m.seq)] = m]
         IN  /\ IsNode(w) /\ w.epoch = v.epoch /\ w.e2e = v.e2e
             /\ w.flow_epoch = v.flow_epoch /\ w.flow_seq = v.flow_seq
             /\ w.head = IF Accepts(v, m) THEN v.head + 1 ELSE v.head
             /\ w.msg = v.msg \/ (w.msg = put /\ Acceptable(v, m))
             /\ n # Destination => w.sow = v.sow /\ (Accepts(v, m) => w.msg = put)
<1> DEFINE yes == TRUE
           restamped == m.seq # v.head
           stored == v.msg[Index(m.seq)]
           h == IF restamped THEN v ELSE [v EXCEPT !.head = @ + 1]
           x == [k \in Ngbrs(n) |-> h.head]
           atEnd == [h EXCEPT !.sow = @ + 1, !.next = x, !.gen = yes]
           s == IF n = Destination THEN atEnd ELSE Store(n, h, j, m, restamped)
           w == Process_Data(n, v, j, m)
           put == [v.msg EXCEPT ![Index(m.seq)] = m]
<1>1. /\ IsNode(h) /\ h.epoch = v.epoch /\ h.sow = v.sow /\ h.msg = v.msg /\ h.e2e = v.e2e
      /\ h.flow_epoch = v.flow_epoch /\ h.flow_seq = v.flow_seq
      /\ h.head = IF m.seq = v.head THEN v.head + 1 ELSE v.head
  BY DEF IsNode, Parts
<1> HIDE DEF h, x, yes
<1>2. /\ IsNode(atEnd) /\ atEnd.epoch = h.epoch /\ atEnd.msg = h.msg /\ atEnd.e2e = h.e2e
      /\ atEnd.flow_epoch = h.flow_epoch /\ atEnd.flow_seq = h.flow_seq /\ atEnd.head = h.head
  <2> DEFINE one == h.sow + 1
  <2>1. one \in Nat \ {0} /\ h = [f \in Parts |-> h[f]]
    BY <1>1 DEF IsNode
  <2>2. atEnd = [h EXCEPT !.sow = one, !.next = x, !.gen = yes]
    OBVIOUS
  <2> HIDE DEF one, atEnd
  <2>3. /\ atEnd = [f \in Parts |-> atEnd[f]]
        /\ \A f \in Parts : atEnd[f] = IF f = "sow" THEN one ELSE IF f = "next" THEN x
                                        ELSE IF f = "gen" THEN yes ELSE h[f]
    BY <2>1, <2>2
  <2>4. /\ atEnd.epoch = h.epoch /\ atEnd.msg = h.msg /\ atEnd.e2e = h.e2e /\ atEnd.sow = one
        /\ atEnd.flow_epoch = h.flow_epoch /\ atEnd.flow_seq = h.flow_seq /\ atEnd.head = h.head
    BY <2>3 DEF Parts
  <2> QED
    BY <1>1, <2>1, <2>3, <2>4 DEF IsNode
<1> HIDE DEF atEnd
<1>3. LET u == Store(n, h, j, m, restamped)
      IN  /\ IsNode(u) /\ u.epoch = h.epoch /\ u.sow = h.sow /\ u.head = h.head /\ u.e2e = h.e2e
          /\ u.flow_epoch = h.flow_epoch /\ u.flow_seq = h.flow_seq
          /\ u.msg = [h.msg EXCEPT ![Index(m.seq)] = m]
  BY <1>1, StoreDoes
<1>4. /\ IsNode(s) /\ s.epoch = v.epoch /\ s.e2e = v.e2e
      /\ s.flow_epoch = v.flow_epoch /\ s.flow_seq = v.flow_seq /\ s.head = h.head
      /\ n = Destination => s.msg = v.msg
      /\ n # Destination => s.sow = v.sow /\ s.msg = put
  BY <1>1, <1>2, <1>3
<1> HIDE DEF s
<1>5. Alike(s, Spread(n, s, j, m, restamped)) /\ IsNode(Spread(n, s, j, m, restamped))
  BY <1>4, SpreadAlike, AlikeNode
<1>6. Alike(v, [v EXCEPT !.exit = yes])
  BY DEF IsNode, Alike, Parts
<1>7. CASE ~Acceptable(v, m) \/ (restamped /\ (stored = NoMsg \/ m.mask = stored.mask \/ ~(stored.mask \subseteq m.mask)))
           \/ m.seq >= v.sow + MAX_MESS_PER_FLOW
  <2>1. w = v \/ w = [v EXCEPT !.exit = yes] \/ w = Again(v, j, m)
    BY <1>7 DEF Process_Data, yes
  <2>2. Alike(v, w)
    BY <2>1, <1>6, AlikeRefl, AgainAlike
  <2>3. ~Accepts(v, m)
    BY <1>7, RoomAssumption DEF Accepts, IsNode, Message
  <2>4. IsNode(w)
    BY <2>2, AlikeNode
  <2> QED
    BY <2>2, <2>3, <2>4 DEF Alike
<1>8. CASE /\ Acceptable(v, m) /\ ~(m.seq >= v.sow + MAX_MESS_PER_FLOW)
           /\ ~(restamped /\ (stored = NoMsg \/ m.mask = stored.mask \/ ~(stored.mask \subseteq m.mask)))
  <2>1. w = Spread(n, s, j, m, restamped)
    BY <1>8 DEF Process_Data, s, h, atEnd, x, yes
  <2>2. Accepts(v, m) <=> m.seq = v.head
    BY <1>8, RoomAssumption DEF Accepts, IsNode, Message
  <2>3. w.head = IF Accepts(v, m) THEN v.head + 1 ELSE v.head
    BY <1>1, <1>4, <1>5, <2>1, <2>2 DEF Alike
  <2> QED
    BY <1>4, <1>5, <1>8, <2>1, <2>3 DEF Alike
<1> QED
  BY <1>7, <1>8

Restarts(n, v, cell, now, w) ==
  /\ IsNode(w) /\ w.msg = v.msg /\ w.flow_seq = 1
  /\ w.flow_epoch = IF v.flow_seq > 1 THEN now ELSE v.flow_epoch
  /\ w.e2e[n].de = IF v.flow_seq > 1 THEN now ELSE v.e2e[n].de
  /\ w.e2e[n].se = cell.de /\ w.e2e[n].aru = 0
  /\ n = Destination => w.epoch = cell.de /\ w.head = 1

LEMMA NewPeerEpochDoes ==
  ASSUME NEW n \in FlowEnds, NEW v, NEW x, NEW cell \in E2ECell, IsNode(v), world.clock \in Nat
  PROVE  Restarts(n, v, cell, world.clock, NewPeerEpoch(n, v, x, cell))
<1> DEFINE yes == TRUE
           no == FALSE
           now == IF v.flow_seq > 1 THEN world.clock ELSE v.flow_epoch
           de == IF v.flow_seq > 1 THEN world.clock ELSE v.e2e[n].de
           e == [v.e2e EXCEPT ![n] = [@ EXCEPT !.de = de, !.se = cell.de, !.aru = 0]]
           y == [j \in Ngbrs(n) |-> 1]
           mine == [v EXCEPT !.handshake = no, !.flow_epoch = now, !.flow_seq = 1, !.e2e = e,
                             !.initial = yes, !.gen = yes]
           w == NewPeerEpoch(n, v, x, cell)
<1>1. /\ w = IF n # Destination THEN mine
              ELSE [mine EXCEPT !.sow = 1, !.head = 1, !.next = y, !.epoch = cell.de]
  <2>1. mine = [v EXCEPT !.handshake = FALSE, !.flow_epoch = now, !.flow_seq = 1,
                         !.e2e[n] = [@ EXCEPT !.de = de, !.se = cell.de, !.aru = 0],
                         !.initial = TRUE, !.gen = TRUE]
    <3> HIDE DEF now, de
    <3> QED
      BY Zenon DEF yes, no
  <2> HIDE DEF mine
  <2> QED
    BY <2>1 DEF NewPeerEpoch
<1>2. e \in [FlowEnds -> E2ECell] /\ now \in Nat /\ cell.de \in Nat
  BY DEF IsNode, E2ECell
<1> HIDE DEF e, now, y, w, yes, no
<1>3. /\ IsNode(mine) /\ mine.msg = v.msg /\ mine.flow_epoch = now /\ mine.flow_seq = 1 /\ mine.e2e = e
      /\ mine.epoch = v.epoch /\ mine.sow = v.sow /\ mine.head = v.head
  <2>1. v = [f \in Parts |-> v[f]]
    BY DEF IsNode
  <2>2. /\ mine = [f \in Parts |-> mine[f]]
        /\ \A f \in Parts : mine[f] = IF f = "handshake" THEN no ELSE IF f = "flow_epoch" THEN now
                                       ELSE IF f = "flow_seq" THEN 1 ELSE IF f = "e2e" THEN e
                                       ELSE IF f \in {"initial", "gen"} THEN yes ELSE v[f]
    BY <2>1
  <2> HIDE DEF mine
  <2>3. /\ mine.msg = v.msg /\ mine.flow_epoch = now /\ mine.flow_seq = 1 /\ mine.e2e = e
        /\ mine.epoch = v.epoch /\ mine.sow = v.sow /\ mine.head = v.head
    BY <2>2 DEF Parts
  <2> QED
    BY <1>2, <2>2, <2>3 DEF IsNode
<1> HIDE DEF mine
<1>4. LET u == [mine EXCEPT !.sow = 1, !.head = 1, !.next = y, !.epoch = cell.de]
      IN  /\ IsNode(u) /\ u.msg = mine.msg /\ u.flow_epoch = now /\ u.flow_seq = 1 /\ u.e2e = e
          /\ u.epoch = cell.de /\ u.head = 1
  BY <1>2, <1>3 DEF IsNode, Parts
<1>5. /\ IsNode(w) /\ w.msg = v.msg /\ w.flow_epoch = now /\ w.flow_seq = 1 /\ w.e2e = e
      /\ n = Destination => w.epoch = cell.de /\ w.head = 1
  BY <1>1, <1>3, <1>4
<1>6. e[n].de = de /\ e[n].se = cell.de /\ e[n].aru = 0
  <2>1. v.e2e \in [FlowEnds -> E2ECell]
    BY DEF IsNode
  <2> HIDE DEF de
  <2>2. e[n] = [v.e2e[n] EXCEPT !.de = de, !.se = cell.de, !.aru = 0]
    BY <2>1 DEF e
  <2> QED
    BY <2>1, <2>2 DEF E2ECell
<1>7. Restarts(n, v, cell, world.clock, w)
  BY <1>5, <1>6 DEF Restarts, now
<1> QED
  BY <1>7 DEF w

Over(old, cell) == cell.de > old.de \/ cell.se > old.se
Applies(v, old, cell, w) ==
  /\ IsNode(w) /\ w.e2e = v.e2e
  /\ w.flow_epoch = v.flow_epoch /\ w.flow_seq = v.flow_seq
  /\ \A c \in Cells : w.msg[c] \in {v.msg[c], NoMsg}
  /\ Over(old, cell) => w.epoch = cell.se /\ w.sow = cell.aru + 1 /\ w.head = cell.aru + 1
  /\ ~Over(old, cell) =>
       /\ w.epoch = v.epoch
       /\ w.sow = Larger(v.sow, cell.aru + 1) /\ w.head = Larger(v.head, w.sow)
       /\ \A c \in Cells : c \notin {Index(i) : i \in v.sow .. Smaller(cell.aru + 1, v.head) - 1}
                           => w.msg[c] = v.msg[c]

LEMMA ApplyE2EDoes ==
  ASSUME NEW n, NEW v, NEW j, NEW old \in E2ECell, NEW cell \in E2ECell, IsNode(v)
  PROVE  Applies(v, old, cell, ApplyE2E(n, v, j, old, cell))
<1> DEFINE w == IF cell.de > old.de THEN StartOver(n, Clean(n, v, v.head), cell)
                ELSE IF cell.se > old.se THEN StartOver(n, v, cell)
                ELSE Acknowledged(n, v, cell.aru)
           e == [k \in Ngbrs(n) |-> IF k = j THEN w.edge[k] ELSE [w.edge[k] EXCEPT !.block = TRUE]]
           u == [w EXCEPT !.edge = e]
<1>1. ApplyE2E(n, v, j, old, cell) = Requeue(n, u, j)
  BY DEF ApplyE2E
<1>2. cell.aru \in Nat
  BY DEF E2ECell
<1>3. Applies(v, old, cell, w)
  <2>1. CASE cell.de > old.de
    BY <2>1, CleanDoes, StartOverDoes DEF Applies, Over
  <2>2. CASE ~(cell.de > old.de) /\ cell.se > old.se
    BY <2>2, StartOverDoes DEF Applies, Over
  <2>3. CASE ~Over(old, cell)
    BY <2>3, <1>2, AcknowledgedDoes DEF Applies, Over
  <2> QED
    BY <2>1, <2>2, <2>3 DEF Over
<1> HIDE DEF w, e
<1>4. IsNode(w) /\ Alike(w, u)
  BY <1>3 DEF IsNode, Alike, Parts, Applies
<1> HIDE DEF u
<1>5. Alike(w, Requeue(n, u, j)) /\ IsNode(Requeue(n, u, j))
  BY <1>4, RequeueAlike, AlikeTrans, AlikeNode
<1> QED
  BY <1>1, <1>3, <1>5 DEF Alike, Applies

LEMMA OppositeIs == Opposite(Source) = Destination /\ Opposite(Destination) = Source
  BY FlowAssumption DEF Opposite, FlowEnds

(* What Process_E2E leaves of an acknowledgement. *)
Noted(cell) == [cell EXCEPT !.known = TRUE]

LEMMA NotedIs ==
  ASSUME NEW cell \in E2ECell
  PROVE  Noted(cell) \in E2ECell /\ Noted(cell).de = cell.de /\ Noted(cell).se = cell.se
         /\ Noted(cell).aru = cell.aru
  BY DEF Noted, E2ECell

Notes(c, x, cell, w) ==
  /\ IsNode(w) /\ w.epoch = c.epoch /\ w.sow = c.sow /\ w.head = c.head /\ w.msg = c.msg
  /\ w.e2e = [c.e2e EXCEPT ![x] = Noted(cell)]
  /\ w.flow_epoch = c.flow_epoch /\ w.flow_seq = c.flow_seq

LEMMA NotesOK ==
  ASSUME NEW c, NEW x \in FlowEnds, NEW cell \in E2ECell, NEW e, IsNode(c)
  PROVE  Notes(c, x, cell, [c EXCEPT !.edge = e, !.e2e[x] = [cell EXCEPT !.known = TRUE]])
<1> DEFINE f == [c.e2e EXCEPT ![x] = Noted(cell)]
           w == [c EXCEPT !.edge = e, !.e2e = f]
<1>1. [c EXCEPT !.edge = e, !.e2e[x] = [cell EXCEPT !.known = TRUE]] = w
  <2> DEFINE k == Noted(cell)
  <2>1. k = [cell EXCEPT !.known = TRUE]
    BY DEF Noted
  <2> HIDE DEF k
  <2> QED
    BY <2>1 DEF k, IsNode, Parts
<1>2. f \in [FlowEnds -> E2ECell]
  BY NotedIs DEF IsNode
<1> HIDE DEF f
<1>3. /\ IsNode(w) /\ w.epoch = c.epoch /\ w.sow = c.sow /\ w.head = c.head /\ w.msg = c.msg
      /\ w.e2e = f /\ w.flow_epoch = c.flow_epoch /\ w.flow_seq = c.flow_seq
  BY <1>2 DEF IsNode, Parts
<1> QED
  BY <1>1, <1>3 DEF Notes, f

LEMMA ShakenAlike ==
  ASSUME NEW v, IsNode(v)
  PROVE  Alike(v, [v EXCEPT !.handshake = TRUE])
<1> DEFINE yes == TRUE
<1> HIDE DEF yes
<1>1. Alike(v, [v EXCEPT !.handshake = yes])
  BY DEF IsNode, Alike, Parts
<1> QED
  BY <1>1 DEF yes

(* An acknowledgement at a daemon that is not the other end of its sender. *)
LEMMA OtherE2EDoes ==
  ASSUME NEW n, NEW v, NEW j, NEW x \in FlowEnds, NEW cell \in E2ECell, IsNode(v), n # Opposite(x)
  PROVE  LET w == Process_E2E(n, v, j, x, cell)
         IN  \/ w = v
             \/ /\ Later(cell, v.e2e[x])
                /\ IsNode(w) /\ w.e2e = [v.e2e EXCEPT ![x] = Noted(cell)]
                /\ w.flow_epoch = v.flow_epoch /\ w.flow_seq = v.flow_seq
                /\ \A k \in Cells : w.msg[k] \in {v.msg[k], NoMsg}
                /\ x = Source => w.msg = v.msg /\ w.epoch = v.epoch /\ w.sow = v.sow /\ w.head = v.head
<1> DEFINE c == IF x = Destination THEN ApplyE2E(n, v, j, v.e2e[x], cell) ELSE v
           e == [k \in Ngbrs(n) |-> IF k = j THEN c.edge[k] ELSE [c.edge[k] EXCEPT !.unsent = @ \cup {x}]]
           d == [c EXCEPT !.edge = e, !.e2e[x] = [cell EXCEPT !.known = TRUE]]
           w == Process_E2E(n, v, j, x, cell)
<1>1. w = IF ~Later(cell, v.e2e[x]) THEN v ELSE d
  BY DEF Process_E2E
<1>2. v.e2e[x] \in E2ECell
  BY DEF IsNode
<1>3. /\ IsNode(c) /\ c.e2e = v.e2e /\ c.flow_epoch = v.flow_epoch /\ c.flow_seq = v.flow_seq
      /\ \A k \in Cells : c.msg[k] \in {v.msg[k], NoMsg}
      /\ x = Source => c = v
  <2>1. Applies(v, v.e2e[x], cell, ApplyE2E(n, v, j, v.e2e[x], cell))
    BY <1>2, ApplyE2EDoes
  <2> QED
    BY <2>1, FlowAssumption DEF Applies
<1> HIDE DEF c, e
<1>4. Notes(c, x, cell, d)
  BY <1>3, NotesOK
<1> HIDE DEF d, w
<1>5. \/ w = v
      \/ /\ Later(cell, v.e2e[x])
         /\ IsNode(w) /\ w.e2e = [v.e2e EXCEPT ![x] = Noted(cell)]
         /\ w.flow_epoch = v.flow_epoch /\ w.flow_seq = v.flow_seq
         /\ \A k \in Cells : w.msg[k] \in {v.msg[k], NoMsg}
         /\ x = Source => w.msg = v.msg /\ w.epoch = v.epoch /\ w.sow = v.sow /\ w.head = v.head
  BY <1>1, <1>3, <1>4 DEF Notes
<1> QED
  BY <1>5 DEF w

(* At the other end: first a new epoch, then the flow. *)
Met(n, v, x, cell) == IF cell.de > v.e2e[x].de THEN NewPeerEpoch(n, v, x, cell) ELSE v

LEMMA MetIs ==
  ASSUME NEW n \in FlowEnds, NEW v, NEW x, NEW cell \in E2ECell, IsNode(v), world.clock \in Nat
  PROVE  IsNode(Met(n, v, x, cell))
  BY NewPeerEpochDoes DEF Met, Restarts

LEMMA PeerE2EDoes ==
  ASSUME NEW n, NEW v, NEW j, NEW x \in FlowEnds, NEW cell \in E2ECell, IsNode(v), n = Opposite(x),
         world.clock \in Nat
  PROVE  LET w == Process_E2E(n, v, j, x, cell)
             a == Met(n, v, x, cell)
         IN  \/ w = v
             \/ Later(cell, v.e2e[x]) /\ w = a /\ cell.se = a.flow_epoch /\ cell.aru # 0
             \/ /\ Later(cell, v.e2e[x])
                /\ IsNode(w) /\ w.e2e = [a.e2e EXCEPT ![x] = Noted(cell)]
                /\ w.flow_epoch = a.flow_epoch /\ w.flow_seq = a.flow_seq
                /\ x = Source => w.msg = a.msg /\ w.epoch = a.epoch /\ w.sow = a.sow /\ w.head = a.head
                /\ x = Destination => \E c : /\ Applies(a, v.e2e[x], cell, c) /\ w.msg = c.msg
                                             /\ w.epoch = c.epoch /\ w.sow = c.sow /\ w.head = c.head
<1> DEFINE a == Met(n, v, x, cell)
           old == v.e2e[x]
           completes == ~a.handshake /\ cell.se = a.flow_epoch
           b == IF completes THEN [a EXCEPT !.handshake = TRUE] ELSE a
           c == IF x = Destination THEN ApplyE2E(n, b, j, old, cell) ELSE b
           e == [k \in Ngbrs(n) |-> IF k = j THEN c.edge[k] ELSE [c.edge[k] EXCEPT !.unsent = @ \cup {x}]]
           d == [c EXCEPT !.edge = e, !.e2e[x] = [cell EXCEPT !.known = TRUE]]
           w == Process_E2E(n, v, j, x, cell)
<1>1. w = IF ~Later(cell, old) THEN v ELSE IF completes /\ cell.aru # 0 THEN a ELSE d
  BY DEF Process_E2E, Met
<1>2. old \in E2ECell /\ n \in FlowEnds
  BY OppositeIs DEF IsNode, FlowEnds
<1>3. IsNode(a)
  BY <1>2, MetIs
<1> HIDE DEF a
<1>4. Alike(a, b) /\ IsNode(b)
  BY <1>3, ShakenAlike, AlikeRefl, AlikeNode
<1> HIDE DEF b, old
<1>5. /\ IsNode(c) /\ c.e2e = a.e2e /\ c.flow_epoch = a.flow_epoch /\ c.flow_seq = a.flow_seq
      /\ x = Source => c = b
      /\ x = Destination => Applies(a, old, cell, c)
  <2>1. Applies(b, old, cell, ApplyE2E(n, b, j, old, cell))
    BY <1>2, <1>4, ApplyE2EDoes
  <2>2. Applies(a, old, cell, ApplyE2E(n, b, j, old, cell))
    BY <1>4, <2>1 DEF Applies, Alike
  <2> QED
    BY <1>4, <2>2, FlowAssumption DEF Applies, Alike, FlowEnds
<1> HIDE DEF c, e
<1>6. Notes(c, x, cell, d)
  BY <1>5, NotesOK
<1> HIDE DEF d, w
<1>7. /\ IsNode(d) /\ d.e2e = [a.e2e EXCEPT ![x] = Noted(cell)]
      /\ d.flow_epoch = a.flow_epoch /\ d.flow_seq = a.flow_seq
      /\ d.msg = c.msg /\ d.epoch = c.epoch /\ d.sow = c.sow /\ d.head = c.head
      /\ x = Source => d.msg = a.msg /\ d.epoch = a.epoch /\ d.sow = a.sow /\ d.head = a.head
  BY <1>4, <1>5, <1>6 DEF Alike, Notes
<1>8. CASE w = v
  BY <1>8 DEF w
<1>9. CASE Later(cell, old) /\ w = a /\ cell.se = a.flow_epoch /\ cell.aru # 0
  BY <1>9 DEF w, a, old
<1>10. CASE Later(cell, old) /\ w = d
  <2>1. x = Destination => \E c1 : /\ Applies(a, old, cell, c1) /\ w.msg = c1.msg
                                   /\ w.epoch = c1.epoch /\ w.sow = c1.sow /\ w.head = c1.head
    BY <1>5, <1>7, <1>10
  <2> QED
    BY <1>7, <1>10, <2>1 DEF w, a, old
<1> QED
  BY <1>1, <1>8, <1>9, <1>10

-----------------------------------------------------------------------------
(* The invariant, of the source's record s, the destination's d and world w. *)
(* Of the messages of the present epoch, number q has load FirstLoad + q.    *)

FirstLoad(s, w) == w.given - s.flow_seq + 1

MessagesOK(s, w, M) ==
  /\ M \subseteq Nat \X Nat \X Nat
  /\ \A m \in M :
       /\ m[1] <= s.flow_epoch
       /\ m[1] = s.flow_epoch => m[2] < s.flow_seq /\ m[3] = FirstLoad(s, w) + m[2]
       /\ m[1] < s.flow_epoch => m[3] <= FirstLoad(s, w)
  /\ \A m, o \in M :
       /\ m[1] = o[1] => m[3] - m[2] = o[3] - o[2]
       /\ m[1] < o[1] => m[3] < o[3]

AcksOK(s, d, C) ==
  /\ C \subseteq Nat \X Nat \X Nat /\ <<0, 0, 0>> \in C
  /\ \A c \in C :
       /\ c[1] <= d.e2e[Destination].de /\ c[2] <= s.flow_epoch
       /\ c[1] = d.e2e[Destination].de =>
            c[2] <= d.epoch /\ (c[2] = d.epoch => c[3] <= d.e2e[Destination].aru)
       /\ c[2] = s.flow_epoch => c[3] < s.flow_seq
  /\ \A b, c \in C : b[1] < c[1] => b[2] < c[1]

SourceOK(s, w) ==
  /\ 1 <= s.flow_epoch /\ s.flow_epoch <= w.clock
  /\ s.e2e[Source].de = s.flow_epoch
  /\ s.epoch = s.e2e[Destination].se /\ s.sow = s.e2e[Destination].aru + 1
  /\ s.flow_seq > 1 => s.epoch = s.flow_epoch
  /\ s.epoch = s.flow_epoch =>
       /\ s.head = s.flow_seq /\ s.sow <= s.head /\ s.head <= s.sow + MAX_MESS_PER_FLOW
       /\ \A i \in s.sow .. s.head - 1 : s.msg[Index(i)].load = FirstLoad(s, w) + i

DestinationOK(s, d, w) ==
  /\ 1 <= d.e2e[Destination].de /\ d.e2e[Destination].de <= w.clock
  /\ d.epoch = d.e2e[Destination].se /\ d.epoch = d.e2e[Source].de
  /\ d.flow_seq = 1 /\ d.e2e[Destination].aru < d.head
  /\ d.epoch = s.flow_epoch => d.head <= s.flow_seq

DeliveredOK(s, d, w, M) ==
  /\ Increasing(w.delivered)
  /\ \A i \in 1 .. Len(w.delivered) :
       /\ w.delivered[i] <= w.given
       /\ \A m \in M : m[1] > d.epoch \/ (m[1] = d.epoch /\ m[2] >= d.head) => w.delivered[i] < m[3]
  /\ d.epoch = s.flow_epoch =>
       \A q \in 1 .. d.head - 1 : \E i \in 1 .. Len(w.delivered) : w.delivered[i] = FirstLoad(s, w) + q

SeenOK(s, w) ==
  \A p \in DOMAIN w.seen :
    /\ p \in Nat /\ w.seen[p] \in Nat /\ p <= w.given
    /\ w.seen[p] <= s.e2e[Destination].de
    /\ w.seen[p] = s.e2e[Destination].de => FirstLoad(s, w) < p

History(s, d, w, M, C) ==
  /\ MessagesOK(s, w, M) /\ AcksOK(s, d, C) /\ SourceOK(s, w) /\ DestinationOK(s, d, w)
  /\ DeliveredOK(s, d, w, M) /\ SeenOK(s, w)

WorldOK(w) ==
  w \in [clock : Nat, route : 1 .. Len(Routings), given : Nat, delivered : Seq(Nat), seen : {w.seen}]

System(nd, lk, w, M, C) ==
  /\ WorldOK(w)
  /\ nd = [n \in Daemon |-> nd[n]]
  /\ \A n \in Daemon : NodeOK(nd[n], M, C, nd[Source].flow_epoch)
  /\ lk \in [Directed -> Seq(PacketsOK(M, C, nd[Source].flow_epoch))]
  /\ History(nd[Source], nd[Destination], w, M, C)

FlowInv == \E M, C : System(node, link, world, M, C)

-----------------------------------------------------------------------------
(* Steps that change the record of one daemon. *)

LEMMA ToldGrows ==
  ASSUME NEW c \in E2ECell, NEW x, NEW C, NEW C2, NEW F \in Nat, NEW F2 \in Nat,
         C \subseteq C2, F <= F2, Told(c, x, C, F)
  PROVE  Told(c, x, C2, F2)
  BY DEF Told, E2ECell

LEMMA NodeGrows ==
  ASSUME NEW v, NEW M, NEW M2, NEW C, NEW C2, NEW F \in Nat, NEW F2 \in Nat,
         M \subseteq M2, C \subseteq C2, F <= F2, NodeOK(v, M, C, F)
  PROVE  NodeOK(v, M2, C2, F2)
<1>1. IsNode(v) /\ \A c \in Cells : Kept(v.msg[c], M2)
  BY DEF NodeOK, Kept
<1>2. ASSUME NEW x \in FlowEnds PROVE Told(v.e2e[x], x, C2, F2)
  <2>1. v.e2e[x] \in E2ECell /\ Told(v.e2e[x], x, C, F)
    BY <1>1 DEF NodeOK, IsNode
  <2> QED
    BY <2>1, ToldGrows
<1> QED
  BY <1>1, <1>2 DEF NodeOK

LEMMA PacketsGrow ==
  ASSUME NEW M, NEW M2, NEW C, NEW C2, NEW F \in Nat, NEW F2 \in Nat,
         M \subseteq M2, C \subseteq C2, F <= F2
  PROVE  PacketsOK(M, C, F) \subseteq PacketsOK(M2, C2, F2)
<1> SUFFICES ASSUME NEW p \in PacketsOK(M, C, F) PROVE p \in PacketsOK(M2, C2, F2)
  OBVIOUS
<1>1. p.type = "E2E" => p.who \in FlowEnds /\ p.body \in E2ECell /\ Told(p.body, p.who, C2, F2)
  BY ToldGrows DEF PacketsOK
<1>2. p.type = "DATA" => p.body \in Message /\ Kept(p.body, M2)
  BY DEF PacketsOK, Kept
<1> QED
  BY <1>1, <1>2 DEF PacketsOK

LEMMA LinksGrow ==
  ASSUME NEW P, NEW Q, P \subseteq Q, NEW lk \in [Directed -> Seq(P)]
  PROVE  lk \in [Directed -> Seq(Q)]
<1>1. ASSUME NEW q \in Seq(P) PROVE q \in Seq(Q)
  OBVIOUS
<1> QED
  BY <1>1

LEMMA DirectedIs ==
  ASSUME NEW l \in Directed
  PROVE  l[1] \in Daemon /\ l[2] \in Daemon /\ l = <<l[1], l[2]>> /\ <<l[2], l[1]>> \in Directed
<1>1. l[1] \in Daemon /\ l[2] \in Daemon /\ l = <<l[1], l[2]>> /\ {l[1], l[2]} \in Wire
  BY DEF Directed
<1>2. {l[2], l[1]} = {l[1], l[2]}
  OBVIOUS
<1> QED
  BY <1>1, <1>2 DEF Directed

LEMMA Becoming ==
  ASSUME NEW nd, NEW lk, NEW w, NEW M, NEW C, System(nd, lk, w, M, C),
         NEW n \in Daemon, NEW v, NEW lk2, NEW w2, NEW M2, NEW C2, NEW F2 \in Nat,
         F2 = IF n = Source THEN v.flow_epoch ELSE nd[Source].flow_epoch,
         M \subseteq M2, C \subseteq C2, nd[Source].flow_epoch <= F2,
         NodeOK(v, M2, C2, F2), WorldOK(w2), lk2 \in [Directed -> Seq(PacketsOK(M2, C2, F2))],
         History(IF n = Source THEN v ELSE nd[Source],
                 IF n = Destination THEN v ELSE nd[Destination], w2, M2, C2)
  PROVE  System([nd EXCEPT ![n] = v], lk2, w2, M2, C2)
<1> DEFINE nd2 == [nd EXCEPT ![n] = v]
           F == nd[Source].flow_epoch
<1>1. nd = [i \in Daemon |-> nd[i]] /\ Source \in Daemon /\ Destination \in Daemon
  BY FlowAssumption DEF System
<1>2. nd2 = [i \in Daemon |-> nd2[i]] /\ \A i \in Daemon : nd2[i] = IF i = n THEN v ELSE nd[i]
  BY <1>1
<1>3. F \in Nat /\ \A i \in Daemon : NodeOK(nd[i], M, C, F)
  BY <1>1 DEF System, NodeOK, IsNode
<1>4. nd2[Source].flow_epoch = F2 /\ nd2[Source] = (IF n = Source THEN v ELSE nd[Source])
      /\ nd2[Destination] = (IF n = Destination THEN v ELSE nd[Destination])
  BY <1>1, <1>2
<1> HIDE DEF nd2, F
<1>5. \A i \in Daemon : NodeOK(nd2[i], M2, C2, F2)
  BY <1>2, <1>3, NodeGrows DEF F
<1> QED
  BY <1>2, <1>4, <1>5 DEF System, nd2

LEMMA HistoryAlike ==
  ASSUME NEW s, NEW d, NEW w, NEW M, NEW C, NEW s2, NEW d2, History(s, d, w, M, C),
         Alike(s, s2), Alike(d, d2)
  PROVE  History(s2, d2, w, M, C)
<1>1. FirstLoad(s2, w) = FirstLoad(s, w)
  BY DEF FirstLoad, Alike
<1>2. MessagesOK(s2, w, M)
  BY <1>1 DEF History, MessagesOK, Alike
<1>3. AcksOK(s2, d2, C) /\ DestinationOK(s2, d2, w)
  BY DEF History, AcksOK, DestinationOK, Alike
<1>4. SourceOK(s2, w) /\ SeenOK(s2, w)
  BY <1>1 DEF History, SourceOK, SeenOK, Alike
<1>5. DeliveredOK(s2, d2, w, M)
  BY <1>1 DEF History, DeliveredOK, Alike
<1> QED
  BY <1>2, <1>3, <1>4, <1>5 DEF History

(* A step that changes nothing that matters, and the links. *)
LEMMA QuietBecoming ==
  ASSUME NEW nd, NEW lk, NEW w, NEW M, NEW C, System(nd, lk, w, M, C),
         NEW n \in Daemon, NEW v, Alike(nd[n], v),
         NEW lk2 \in [Directed -> Seq(PacketsOK(M, C, nd[Source].flow_epoch))]
  PROVE  System([nd EXCEPT ![n] = v], lk2, w, M, C)
<1> DEFINE F == nd[Source].flow_epoch
           s == IF n = Source THEN v ELSE nd[Source]
           d == IF n = Destination THEN v ELSE nd[Destination]
<1>1. /\ \A i \in Daemon : NodeOK(nd[i], M, C, F) /\ IsNode(nd[i])
      /\ Source \in Daemon /\ Destination \in Daemon
  BY FlowAssumption DEF System, NodeOK
<1>2. F \in Nat
  BY <1>1 DEF IsNode
<1>3. NodeOK(v, M, C, F)
  BY <1>1, AlikeNode DEF NodeOK, Alike
<1>4. Alike(nd[Source], s) /\ Alike(nd[Destination], d)
  BY <1>1, AlikeRefl
<1>5. F = IF n = Source THEN v.flow_epoch ELSE nd[Source].flow_epoch
  BY DEF Alike
<1>6. History(nd[Source], nd[Destination], w, M, C) /\ WorldOK(w)
  BY DEF System
<1> HIDE DEF s, d
<1>7. History(s, d, w, M, C)
  BY <1>4, <1>6, HistoryAlike
<1> HIDE DEF F
<1>8. F <= F /\ M \subseteq M /\ C \subseteq C /\ nd[Source].flow_epoch <= F
  BY <1>2 DEF F
<1> QED
  BY <1>2, <1>3, <1>5, <1>6, <1>7, <1>8, Becoming DEF F, s, d

-----------------------------------------------------------------------------
(* What the daemons send. *)

LEMMA Sending ==
  ASSUME NEW P, NEW lk \in [Directed -> Seq(P)], NEW l \in Directed, NEW p \in P
  PROVE  [lk EXCEPT ![l] = Append(@, p)] \in [Directed -> Seq(P)]
<1>1. Append(lk[l], p) \in Seq(P)
  OBVIOUS
<1> DEFINE q == Append(lk[l], p)
<1>2. [lk EXCEPT ![l] = q] \in [Directed -> Seq(P)]
  <2> HIDE DEF q
  <2>1. q \in Seq(P)
    BY <1>1 DEF q
  <2> QED
    BY <2>1
<1> QED
  BY <1>2

LEMMA Taking ==
  ASSUME NEW P, NEW lk \in [Directed -> Seq(P)], NEW l \in Directed, lk[l] # <<>>
  PROVE  Head(lk[l]) \in P /\ [lk EXCEPT ![l] = Tail(@)] \in [Directed -> Seq(P)]
<1>1. lk[l] \in Seq(P)
  OBVIOUS
<1>2. Head(lk[l]) \in P /\ Tail(lk[l]) \in Seq(P)
  BY <1>1
<1> DEFINE q == Tail(lk[l])
<1>3. [lk EXCEPT ![l] = q] \in [Directed -> Seq(P)]
  <2> HIDE DEF q
  <2>1. q \in Seq(P)
    BY <1>2 DEF q
  <2> QED
    BY <2>1
<1> QED
  BY <1>2, <1>3

Cut(lk, n) == [l \in Directed |-> IF l[2] = n THEN <<>> ELSE lk[l]]

LEMMA Losing ==
  ASSUME NEW P, NEW lk \in [Directed -> Seq(P)]
  PROVE  /\ \A l \in Directed : [lk EXCEPT ![l] = <<>>] \in [Directed -> Seq(P)]
         /\ \A n : Cut(lk, n) \in [Directed -> Seq(P)]
<1>1. <<>> \in Seq(P) /\ \A l \in Directed : lk[l] \in Seq(P)
  OBVIOUS
<1> DEFINE none == <<>>
<1>2. none \in Seq(P)
  BY <1>1
<1> HIDE DEF none
<1>3. \A l \in Directed : [lk EXCEPT ![l] = none] \in [Directed -> Seq(P)]
  BY <1>2
<1>4. \A n : [l \in Directed |-> IF l[2] = n THEN none ELSE lk[l]] \in [Directed -> Seq(P)]
  BY <1>1, <1>2
<1> QED
  BY <1>3, <1>4 DEF none, Cut

LEMMA AckIs ==
  ASSUME NEW v, NEW j, IsNode(v)
  PROVE  Add_Acks(v, j) \in Acks
  BY DEF Add_Acks, Acks, NoAck, IsNode

LEMMA PacketIs ==
  ASSUME NEW v, NEW j, NEW M, NEW C, NEW F, NodeOK(v, M, C, F)
  PROVE  /\ \A x \in FlowEnds : Packet("E2E", x, v.e2e[x], Add_Acks(v, j)) \in PacketsOK(M, C, F)
         /\ \A i \in Cells : Packet("DATA", Source, v.msg[i], Add_Acks(v, j)) \in PacketsOK(M, C, F)
         /\ \A n \in Daemon : Packet("SAA", n, NoMsg, Add_Acks(v, j)) \in PacketsOK(M, C, F)
<1>1. IsNode(v) /\ Add_Acks(v, j) \in Acks
  BY AckIs DEF NodeOK
<1> DEFINE a == Add_Acks(v, j)
<1> HIDE DEF a
<1>2. a \in Acks /\ Source \in Daemon /\ FlowEnds \subseteq Daemon
  BY <1>1, FlowAssumption DEF a, FlowEnds
<1>3. ASSUME NEW x \in FlowEnds PROVE Packet("E2E", x, v.e2e[x], a) \in PacketsOK(M, C, F)
  <2>1. v.e2e[x] \in E2ECell /\ Told(v.e2e[x], x, C, F)
    BY <1>1 DEF NodeOK, IsNode
  <2> QED
    BY <1>2, <2>1 DEF Packet, PacketsOK
<1>4. ASSUME NEW i \in Cells PROVE Packet("DATA", Source, v.msg[i], a) \in PacketsOK(M, C, F)
  <2>1. v.msg[i] \in Message /\ Kept(v.msg[i], M)
    BY <1>1 DEF NodeOK, IsNode
  <2> QED
    BY <1>2, <2>1 DEF Packet, PacketsOK
<1>5. ASSUME NEW n \in Daemon PROVE Packet("SAA", n, NoMsg, a) \in PacketsOK(M, C, F)
  BY <1>2, NoMsgIs DEF Packet, PacketsOK
<1> QED
  BY <1>3, <1>4, <1>5 DEF a

LEMMA ForwardIs ==
  ASSUME NEW P, link \in [Directed -> Seq(P)], NEW l \in Directed, NEW p \in P,
         Forward_Data(l[1], l[2], p)
  PROVE  link' \in [Directed -> Seq(P)]
<1>1. <<l[1], l[2]>> = l
  BY DirectedIs
<1>2. [link EXCEPT ![l] = Append(@, p)] \in [Directed -> Seq(P)]
  BY Sending
<1> QED
  BY <1>1, <1>2 DEF Forward_Data

(* What one may use of the system. *)
LEMMA SystemIs ==
  ASSUME NEW nd, NEW lk, NEW w, NEW M, NEW C, System(nd, lk, w, M, C)
  PROVE  LET F == nd[Source].flow_epoch
         IN  /\ F \in Nat /\ Source \in Daemon /\ Destination \in Daemon /\ FlowEnds \subseteq Daemon
             /\ \A n \in Daemon : NodeOK(nd[n], M, C, F) /\ IsNode(nd[n])
             /\ lk \in [Directed -> Seq(PacketsOK(M, C, F))]
             /\ History(nd[Source], nd[Destination], w, M, C) /\ WorldOK(w)
             /\ w.clock \in Nat /\ w.given \in Nat /\ w.delivered \in Seq(Nat)
<1>1. Source \in Daemon /\ Destination \in Daemon /\ FlowEnds \subseteq Daemon
  BY FlowAssumption DEF FlowEnds
<1>2. \A n \in Daemon : NodeOK(nd[n], M, C, nd[Source].flow_epoch) /\ IsNode(nd[n])
  BY DEF System, NodeOK
<1> QED
  BY <1>1, <1>2 DEF System, IsNode, WorldOK

LEMMA EdgeAlike ==
  ASSUME NEW v, NEW j, NEW a, NEW b, NEW c, IsNode(v)
  PROVE  Alike(v, [v EXCEPT !.edge[j].unsent = a, !.edge[j].hbh = b, !.edge[j].block = c])
<1> DEFINE u == [v EXCEPT !.edge[j].unsent = a]
           w == [u EXCEPT !.edge[j].hbh = b]
           x == [w EXCEPT !.edge[j].block = c]
<1>1. x = [v EXCEPT !.edge[j].unsent = a, !.edge[j].hbh = b, !.edge[j].block = c]
  BY DEF IsNode, Parts
<1>2. Alike(v, u)
  BY DEF IsNode, Alike, Parts
<1> HIDE DEF u
<1>3. Alike(u, w)
  BY <1>2 DEF Alike, Parts
<1> HIDE DEF w
<1>4. Alike(w, x)
  BY <1>3 DEF Alike, Parts
<1> HIDE DEF x
<1>5. Alike(v, x)
  BY <1>2, <1>3, <1>4, AlikeTrans
<1> QED
  BY <1>1, <1>5 DEF x, w, u

(* A send that fails only loses the ack that was due. *)
LEMMA FailedStep ==
  ASSUME NEW M, NEW C, System(node, link, world, M, C), NEW l \in Directed,
         Failed_Send(l[1], l[2]), world' = world
  PROVE  System(node', link', world', M, C)
<1> DEFINE n == l[1]
           j == l[2]
           v == node[n]
           F == node[Source].flow_epoch
<1>1. n \in Daemon /\ IsNode(v) /\ NodeOK(v, M, C, F) /\ link \in [Directed -> Seq(PacketsOK(M, C, F))]
  BY DirectedIs, SystemIs
<1>2. node' = [node EXCEPT ![n] = [v EXCEPT !.edge[j].hbh = FALSE]] /\ link' = link /\ world' = world
  BY DEF Failed_Send
<1>3. Alike(v, [v EXCEPT !.edge[j].hbh = FALSE])
  BY <1>1 DEF IsNode, Alike, Parts
<1> QED
  BY <1>1, <1>2, <1>3, QuietBecoming

LEMMA Send_E2EStep ==
  ASSUME NEW M, NEW C, System(node, link, world, M, C), NEW l \in Directed, Send_E2E(l[1], l[2])
  PROVE  System(node', link', world', M, C)
<1> DEFINE n == l[1]
           j == l[2]
           v == node[n]
           F == node[Source].flow_epoch
<1>1. n \in Daemon /\ IsNode(v) /\ NodeOK(v, M, C, F)
  BY DirectedIs, SystemIs
<1> SUFFICES ASSUME ~Failed_Send(n, j) PROVE System(node', link', world', M, C)
  BY FailedStep DEF Send_E2E
<1>2. PICK x \in FlowEnds : /\ Forward_Data(n, j, Packet("E2E", x, v.e2e[x], Add_Acks(v, j)))
                            /\ node' = [node EXCEPT ![n] = Unblocked(n, v, j, x)] /\ world' = world
  BY DEF Send_E2E, Become
<1>3. link' \in [Directed -> Seq(PacketsOK(M, C, F))]
  BY <1>1, <1>2, PacketIs, ForwardIs, SystemIs
<1>4. Alike(v, Unblocked(n, v, j, x))
  <2> DEFINE w == [v EXCEPT !.edge[j].unsent = @ \ {x}, !.edge[j].hbh = FALSE,
                            !.edge[j].block = IF x = Destination THEN FALSE ELSE @]
  <2>1. Alike(v, w)
    BY <1>1, EdgeAlike
  <2> HIDE DEF w
  <2>2. Alike(v, Requeue(n, w, j))
    BY <1>1, <2>1, AlikeNode, RequeueAlike, AlikeTrans
  <2> QED
    BY <2>1, <2>2 DEF Unblocked, w
<1> HIDE DEF v, F
<1> QED
  BY <1>1, <1>2, <1>3, <1>4, QuietBecoming DEF v, F

LEMMA Send_DataStep ==
  ASSUME NEW M, NEW C, System(node, link, world, M, C), NEW l \in Directed, Send_Data(l[1], l[2])
  PROVE  System(node', link', world', M, C)
<1> DEFINE n == l[1]
           j == l[2]
           v == node[n]
           F == node[Source].flow_epoch
           after(i) == [v EXCEPT !.edge[j].hbh = FALSE,
                                 !.status[i][j] = IF @ = "NEW_UNSENT" THEN "NEW_SENT" ELSE "RESTAMPED_SENT"]
<1>1. n \in Daemon /\ IsNode(v) /\ NodeOK(v, M, C, F) /\ link \in [Directed -> Seq(PacketsOK(M, C, F))]
  BY DirectedIs, SystemIs
<1>2. CASE \E i \in Cells : /\ Forward_Data(n, j, Packet("DATA", Source, v.msg[i], Add_Acks(v, j)))
                            /\ node' = [node EXCEPT ![n] = Advance(after(i), j)] /\ world' = world
  <2>1. PICK i \in Cells : /\ Forward_Data(n, j, Packet("DATA", Source, v.msg[i], Add_Acks(v, j)))
                           /\ node' = [node EXCEPT ![n] = Advance(after(i), j)] /\ world' = world
    BY <1>2
  <2>2. link' \in [Directed -> Seq(PacketsOK(M, C, F))]
    BY <1>1, <2>1, PacketIs, ForwardIs
  <2>3. Alike(v, after(i))
    BY <1>1 DEF IsNode, Alike, Parts
  <2> HIDE DEF after, v, F
  <2>4. Alike(v, Advance(after(i), j))
    BY <1>1, <2>3, AlikeNode, AdvanceAlike, AlikeTrans
  <2> QED
    BY <1>1, <2>1, <2>2, <2>4, QuietBecoming DEF v, F
<1>3. CASE node' = [node EXCEPT ![n] = [v EXCEPT !.edge[j].queued = FALSE]] /\ link' = link /\ world' = world
  <2>1. Alike(v, [v EXCEPT !.edge[j].queued = FALSE])
    BY <1>1 DEF IsNode, Alike, Parts
  <2> QED
    BY <1>1, <1>3, <2>1, QuietBecoming
<1>4. CASE Failed_Send(n, j) /\ world' = world
  BY <1>4, FailedStep
<1> QED
  BY <1>2, <1>3, <1>4 DEF Send_Data, Become

LEMMA Send_SAAStep ==
  ASSUME NEW M, NEW C, System(node, link, world, M, C), NEW l \in Directed, Send_SAA(l[1], l[2])
  PROVE  System(node', link', world', M, C)
<1> DEFINE n == l[1]
           j == l[2]
           v == node[n]
           F == node[Source].flow_epoch
<1>1. n \in Daemon /\ IsNode(v) /\ NodeOK(v, M, C, F) /\ link \in [Directed -> Seq(PacketsOK(M, C, F))]
  BY DirectedIs, SystemIs
<1> SUFFICES ASSUME ~Failed_Send(n, j) PROVE System(node', link', world', M, C)
  BY FailedStep DEF Send_SAA
<1>2. /\ Forward_Data(n, j, Packet("SAA", n, NoMsg, Add_Acks(v, j)))
      /\ node' = [node EXCEPT ![n] = [v EXCEPT !.edge[j].hbh = FALSE]] /\ world' = world
  BY DEF Send_SAA, Become
<1>3. link' \in [Directed -> Seq(PacketsOK(M, C, F))]
  BY <1>1, <1>2, PacketIs, ForwardIs
<1>4. Alike(v, [v EXCEPT !.edge[j].hbh = FALSE])
  BY <1>1 DEF IsNode, Alike, Parts
<1> QED
  BY <1>1, <1>2, <1>3, <1>4, QuietBecoming

LEMMA TransferAlike ==
  ASSUME NEW v, NEW j, NEW a, NEW b, NEW c, NEW d, IsNode(v)
  PROVE  Alike(v, [v EXCEPT !.status = a, !.next[j] = b, !.edge[j].unsent = c, !.edge[j].block = d])
<1> DEFINE t == [v EXCEPT !.status = a, !.next[j] = b]
           u == [t EXCEPT !.edge[j].unsent = c]
           w == [u EXCEPT !.edge[j].block = d]
<1>1. w = [v EXCEPT !.status = a, !.next[j] = b, !.edge[j].unsent = c, !.edge[j].block = d]
  BY DEF IsNode, Parts
<1>2. Alike(v, t)
  BY DEF IsNode, Alike, Parts
<1> HIDE DEF t
<1>3. Alike(t, u)
  BY <1>2 DEF Alike, Parts
<1> HIDE DEF u
<1>4. Alike(u, w)
  BY <1>3 DEF Alike, Parts
<1> HIDE DEF w
<1>5. Alike(v, w)
  BY <1>2, <1>3, <1>4, AlikeTrans
<1> QED
  BY <1>1, <1>5 DEF w, u, t

LEMMA TransferStep ==
  ASSUME NEW M, NEW C, System(node, link, world, M, C), NEW l \in Directed,
         Reliable_Flood_Neighbor_Transfer(l[1], l[2])
  PROVE  System(node', link', world', M, C)
<1> DEFINE n == l[1]
           j == l[2]
           v == node[n]
           F == node[Source].flow_epoch
           x == {y \in FlowEnds \ {j} : v.e2e[y].known}
           blocks == Destination \in x \ v.edge[j].unsent
           resent == [c \in Cells |-> [v.status[c] EXCEPT ![j] =
                   IF c \in {Index(i) : i \in v.sow .. v.head - 1}
                   THEN CASE @ = "NEW_SENT" -> "NEW_UNSENT" [] @ = "RESTAMPED_SENT" -> "RESTAMPED_UNSENT" [] OTHER -> @
                   ELSE @]]
           s == [v EXCEPT !.status = resent, !.next[j] = v.sow,
                          !.edge[j].unsent = @ \cup x, !.edge[j].block = @ \/ blocks]
<1>1. n \in Daemon /\ IsNode(v) /\ link \in [Directed -> Seq(PacketsOK(M, C, F))] /\ <<j, n>> \in Directed
  BY DirectedIs, SystemIs
<1>2. /\ node' = [node EXCEPT ![n] = Requeue(n, s, j)] /\ world' = world
      /\ link' = [link EXCEPT ![<<j, n>>] = <<>>]
  BY DEF Reliable_Flood_Neighbor_Transfer, Become
<1>3. Alike(v, s)
  BY <1>1, TransferAlike
<1> HIDE DEF s, v, F
<1>4. Alike(v, Requeue(n, s, j))
  BY <1>1, <1>3, AlikeNode, RequeueAlike, AlikeTrans
<1>5. link' \in [Directed -> Seq(PacketsOK(M, C, F))]
  BY <1>1, <1>2, Losing
<1> QED
  BY <1>1, <1>2, <1>4, <1>5, QuietBecoming DEF v, F

LEMMA RestampStep ==
  ASSUME NEW M, NEW C, System(node, link, world, M, C), Restamp
  PROVE  System(node', link', world', M, C)
<1> DEFINE v == node[Source]
           d == node[Destination]
           F == v.flow_epoch
           mask == Routings[world.route + 1]
           held == {i \in v.sow .. v.head - 1 : ~(mask \subseteq v.msg[Index(i)].mask)}
           hit == {Index(i) : i \in held}
           f == [c \in Cells |-> IF c \in hit THEN [v.msg[c] EXCEPT !.mask = @ \cup mask] ELSE v.msg[c]]
           g == [c \in Cells |-> IF c \in hit THEN [j \in Ngbrs(Source) |-> "RESTAMPED_UNSENT"]
                                 ELSE v.status[c]]
           s == [v EXCEPT !.msg = f, !.status = g]
           back(j) == Advance([s EXCEPT !.next[j] = s.sow], j).next[j]
           h == [j \in Ngbrs(Source) |-> back(j)]
           t == [s EXCEPT !.next = h]
           b == \E j \in Ngbrs(Source) : back(j) > v.next[j]
           e == [j \in Ngbrs(Source) |-> Requeue(Source, t, j).edge[j]]
           u == [t EXCEPT !.exit = b, !.edge = e]
           w2 == [world EXCEPT !.route = @ + 1]
<1>1. /\ node' = [node EXCEPT ![Source] = IF held = {} THEN v ELSE u] /\ link' = link
      /\ world' = w2 /\ world.route < Len(Routings)
  BY DEF Restamp, Become
<1>2. /\ IsNode(v) /\ NodeOK(v, M, C, F) /\ Source \in Daemon /\ F \in Nat /\ F <= F
      /\ link \in [Directed -> Seq(PacketsOK(M, C, F))]
      /\ History(v, d, world, M, C) /\ WorldOK(world)
  BY SystemIs
<1>3. /\ WorldOK(w2) /\ mask \subseteq Wire
      /\ w2.clock = world.clock /\ w2.given = world.given /\ w2.delivered = world.delivered
      /\ w2.seen = world.seen
  <2> DEFINE r == world.route + 1
  <2>1. world.route \in 1 .. Len(Routings) /\ Len(Routings) \in Nat
    <3>1. world.route \in 1 .. Len(Routings)
      BY <1>2 DEF WorldOK
    <3>2. Len(Routings) \in Nat
      BY RoutingAssumption
    <3> QED
      BY <3>1, <3>2
  <2>2. r \in 1 .. Len(Routings)
    <3>1. world.route < Len(Routings)
      BY <1>1
    <3> QED
      BY <2>1, <3>1
  <2>3. mask \subseteq Wire
    BY <2>2, RoutingAssumption
  <2> HIDE DEF r
  <2>4. [world EXCEPT !.route = r] = w2
    BY DEF r
  <2> HIDE DEF w2
  <2> QED
    BY <1>2, <2>2, <2>3, <2>4 DEF WorldOK
<1>4. /\ f \in [Cells -> Message]
      /\ \A c \in Cells : Name(f[c]) = Name(v.msg[c]) /\ f[c].load = v.msg[c].load /\ f[c].epoch = v.msg[c].epoch
  <2> HIDE DEF hit, mask
  <2>1. ASSUME NEW c \in Cells
        PROVE  f[c] \in Message /\ f[c].epoch = v.msg[c].epoch /\ f[c].load = v.msg[c].load /\ f[c].seq = v.msg[c].seq
    <3>1. v.msg[c] \in Message
      BY <1>2 DEF IsNode
    <3> QED
      BY <3>1, <1>3 DEF Message
  <2> QED
    BY <2>1 DEF Name
<1> DEFINE z == IF held = {} THEN v ELSE u
<1> HIDE DEF f, g, h, b, e, held, hit, mask, w2, back
<1>5. /\ IsNode(u) /\ u.epoch = v.epoch /\ u.sow = v.sow /\ u.head = v.head /\ u.e2e = v.e2e
      /\ u.flow_epoch = v.flow_epoch /\ u.flow_seq = v.flow_seq /\ u.msg = f
  <2>1. /\ IsNode(s) /\ s.epoch = v.epoch /\ s.sow = v.sow /\ s.head = v.head /\ s.e2e = v.e2e
        /\ s.flow_epoch = v.flow_epoch /\ s.flow_seq = v.flow_seq /\ s.msg = f
    BY <1>2, <1>4 DEF IsNode, Parts
  <2> HIDE DEF s
  <2>2. Alike(s, t)
    BY <2>1 DEF IsNode, Alike, Parts
  <2> HIDE DEF t
  <2>3. Alike(t, u)
    BY <2>2 DEF Alike, Parts
  <2>4. IsNode(u)
    BY <2>1, <2>2, <2>3, AlikeNode
  <2> QED
    BY <2>1, <2>2, <2>3, <2>4 DEF Alike
<1> HIDE DEF u
<1>6. /\ IsNode(z) /\ z.epoch = v.epoch /\ z.sow = v.sow /\ z.head = v.head /\ z.e2e = v.e2e
      /\ z.flow_epoch = v.flow_epoch /\ z.flow_seq = v.flow_seq
      /\ \A c \in Cells : Name(z.msg[c]) = Name(v.msg[c]) /\ z.msg[c].load = v.msg[c].load /\ z.msg[c].epoch = v.msg[c].epoch
  BY <1>2, <1>4, <1>5
<1> HIDE DEF z, v, d, F
<1>7. NodeOK(z, M, C, F)
  BY <1>2, <1>6 DEF NodeOK, Kept
<1>8. History(z, d, w2, M, C)
  <2>1. FirstLoad(z, w2) = FirstLoad(v, world)
    BY <1>3, <1>6 DEF FirstLoad
  <2>2. MessagesOK(z, w2, M)
    BY <1>2, <1>6, <2>1 DEF History, MessagesOK
  <2>3. AcksOK(z, d, C) /\ DestinationOK(z, d, w2)
    BY <1>2, <1>3, <1>6 DEF History, AcksOK, DestinationOK
  <2>4. \A i \in z.sow .. z.head - 1 : z.msg[Index(i)].load = v.msg[Index(i)].load
    BY <1>6, IndexIn DEF IsNode
  <2>5. SourceOK(z, w2)
    <3>1. SourceOK(v, world)
      BY <1>2 DEF History
    <3> QED
      BY <1>3, <1>6, <2>1, <2>4, <3>1 DEF SourceOK
  <2>6. SeenOK(z, w2)
    BY <1>2, <1>3, <1>6, <2>1 DEF History, SeenOK
  <2>7. DeliveredOK(z, d, w2, M)
    BY <1>2, <1>3, <1>6, <2>1 DEF History, DeliveredOK
  <2> QED
    BY <2>2, <2>3, <2>5, <2>6, <2>7 DEF History
<1>9. System([node EXCEPT ![Source] = z], link, w2, M, C)
  <2>1. F = (IF Source = Source THEN z.flow_epoch ELSE node[Source].flow_epoch) /\ node[Source].flow_epoch <= F
    BY <1>2, <1>6 DEF F, v
  <2>2. Source # Destination /\ M \subseteq M /\ C \subseteq C
    BY FlowAssumption
  <2>3. History(IF Source = Source THEN z ELSE node[Source],
                IF Source = Destination THEN z ELSE node[Destination], w2, M, C)
    BY <1>8, <2>2 DEF d
  <2> QED
    BY <1>2, <1>3, <1>7, <2>1, <2>2, <2>3, Becoming
<1> QED
  BY <1>1, <1>9 DEF z

(* The destination acknowledges what it has. *)
Makes(v, n, cell, w) ==
  /\ IsNode(w) /\ w.epoch = v.epoch /\ w.sow = v.sow /\ w.head = v.head /\ w.msg = v.msg
  /\ w.flow_epoch = v.flow_epoch /\ w.flow_seq = v.flow_seq
  /\ w.e2e = [v.e2e EXCEPT ![n] = cell]

LEMMA MakingDoes ==
  ASSUME NEW v, NEW n \in FlowEnds, NEW cell \in E2ECell, NEW i, NEW e, IsNode(v)
  PROVE  Makes(v, n, cell, [v EXCEPT !.e2e[n] = cell, !.initial = i, !.edge = e])
<1> DEFINE f == [v.e2e EXCEPT ![n] = cell]
           w == [v EXCEPT !.e2e = f, !.initial = i, !.edge = e]
<1>1. f \in [FlowEnds -> E2ECell]
  BY DEF IsNode
<1>2. w = [v EXCEPT !.e2e[n] = cell, !.initial = i, !.edge = e]
  BY DEF IsNode, Parts
<1> HIDE DEF f
<1>3. /\ IsNode(w) /\ w.epoch = v.epoch /\ w.sow = v.sow /\ w.head = v.head /\ w.msg = v.msg
      /\ w.flow_epoch = v.flow_epoch /\ w.flow_seq = v.flow_seq /\ w.e2e = f
  BY <1>1 DEF IsNode, Parts
<1> HIDE DEF w
<1>4. Makes(v, n, cell, w)
  BY <1>3 DEF Makes, f
<1> QED
  BY <1>2, <1>4 DEF f

LEMMA AckHistory ==
  ASSUME NEW s, NEW d, NEW d2, NEW w, NEW M, NEW C, History(s, d, w, M, C),
         IsNode(s), IsNode(d), IsNode(d2), Says(d.e2e[Destination]) \in C,
         d2.epoch = d.epoch, d2.head = d.head, d2.flow_seq = d.flow_seq,
         d2.e2e[Source] = d.e2e[Source],
         d2.e2e[Destination].de = d.e2e[Destination].de, d2.e2e[Destination].se = d.e2e[Destination].se,
         d2.e2e[Destination].aru = d.head - 1
  PROVE  History(s, d2, w, M, C \cup {Says(d2.e2e[Destination])})
<1> DEFINE k == d.e2e[Destination]
           k2 == d2.e2e[Destination]
           new == Says(k2)
           C2 == C \cup {new}
<1>1. k \in E2ECell /\ k2 \in E2ECell
  BY FlowAssumption DEF IsNode, FlowEnds
<1>2. MessagesOK(s, w, M) /\ AcksOK(s, d, C) /\ SourceOK(s, w) /\ DestinationOK(s, d, w)
      /\ DeliveredOK(s, d, w, M) /\ SeenOK(s, w)
  BY DEF History
<1>3. DeliveredOK(s, d2, w, M)
  BY <1>2 DEF DeliveredOK
<1>4. DestinationOK(s, d2, w)
  BY <1>2 DEF DestinationOK, IsNode
<1>5. new[1] = k.de /\ new[2] = k.se /\ new[3] = d.head - 1 /\ new \in Nat \X Nat \X Nat
  BY <1>1 DEF Says, E2ECell
<1>6. Says(k) \in C /\ Says(k)[1] = k.de /\ Says(k)[2] = k.se /\ k.se = d.epoch
  BY <1>2 DEF Says, DestinationOK
<1> HIDE DEF new
<1>7. /\ new[1] = k.de /\ new[2] = d.epoch /\ new[2] <= s.flow_epoch
      /\ new[2] = s.flow_epoch => new[3] < s.flow_seq
  BY <1>2, <1>5, <1>6 DEF AcksOK, DestinationOK, IsNode
<1>8. /\ d.epoch \in Nat /\ k.de \in Nat /\ k.aru \in Nat /\ d.head \in Nat /\ k.aru < d.head
  BY <1>1, <1>2 DEF IsNode, E2ECell, DestinationOK
<1>9. AcksOK(s, d2, C2)
  <2>1. C2 \subseteq Nat \X Nat \X Nat /\ <<0, 0, 0>> \in C2
    BY <1>2, <1>5 DEF AcksOK
  <2>2. ASSUME NEW c \in C2
        PROVE  /\ c[1] <= k.de /\ c[2] <= s.flow_epoch
               /\ c[1] = k.de => c[2] <= d.epoch /\ (c[2] = d.epoch => c[3] <= d.head - 1)
               /\ c[2] = s.flow_epoch => c[3] < s.flow_seq
    <3>1. CASE c = new
      BY <1>5, <1>7, <1>8, <3>1
    <3>2. CASE c \in C
      <4>1. c[3] \in Nat
        BY <3>2, <1>2 DEF AcksOK
      <4>2. /\ c[1] <= k.de /\ c[2] <= s.flow_epoch
            /\ c[1] = k.de => c[2] <= d.epoch /\ (c[2] = d.epoch => c[3] <= k.aru)
            /\ c[2] = s.flow_epoch => c[3] < s.flow_seq
        BY <3>2, <1>2 DEF AcksOK
      <4> QED
        BY <4>1, <4>2, <1>8
    <3> QED
      BY <3>1, <3>2
  <2>3. \A b, c \in C2 : b[1] < c[1] => b[2] < c[1]
    <3>1. \A b \in C2 : \E a \in C : a[1] = b[1] /\ a[2] = b[2]
      BY <1>5, <1>6
    <3> QED
      BY <3>1, <1>2 DEF AcksOK
  <2> QED
    BY <2>1, <2>2, <2>3 DEF AcksOK
<1> QED
  BY <1>2, <1>3, <1>4, <1>9 DEF History, new

LEMMA Gen_E2EStep ==
  ASSUME NEW M, NEW C, System(node, link, world, M, C), NEW n \in Daemon, Gen_E2E(n)
  PROVE  \E C2 : System(node', link', world', M, C2)
<1> DEFINE v == node[n]
           old == v.e2e[n]
           s == node[Source]
           F == node[Source].flow_epoch
           grown == n = Destination /\ old.se = v.epoch /\ old.aru < v.head - 1
           cell == IF ~v.initial /\ grown THEN [old EXCEPT !.aru = v.head - 1] ELSE old
           e == [j \in Ngbrs(n) |-> [v.edge[j] EXCEPT !.unsent = @ \cup {n}]]
           no == FALSE
           w == [v EXCEPT !.e2e[n] = cell, !.initial = no, !.edge = e]
           u == [v EXCEPT !.gen = no]
<1>1. /\ n \in FlowEnds /\ link' = link /\ world' = world
      /\ node' = [node EXCEPT ![n] = IF v.initial \/ grown THEN w ELSE u]
  <2>1. w = [v EXCEPT !.e2e[n] = IF ~v.initial /\ grown THEN [@ EXCEPT !.aru = v.head - 1] ELSE @,
                     !.initial = FALSE,
                     !.edge = [j \in Ngbrs(n) |-> [v.edge[j] EXCEPT !.unsent = @ \cup {n}]]]
    BY Zenon
  <2>2. u = [v EXCEPT !.gen = FALSE]
    OBVIOUS
  <2> HIDE DEF w, u
  <2> QED
    BY <2>1, <2>2 DEF Gen_E2E, Become
<1>2. /\ IsNode(v) /\ NodeOK(v, M, C, F) /\ Source \in Daemon /\ Destination \in Daemon /\ F \in Nat /\ F <= F
      /\ link \in [Directed -> Seq(PacketsOK(M, C, F))]
      /\ History(s, node[Destination], world, M, C) /\ WorldOK(world) /\ IsNode(s)
  BY SystemIs
<1>3. old \in E2ECell /\ v.head - 1 \in Nat
  BY <1>1, <1>2 DEF IsNode
<1>4. /\ cell \in E2ECell /\ cell.de = old.de /\ cell.se = old.se
      /\ ~(~v.initial /\ grown) => cell = old
      /\ ~v.initial /\ grown => n = Destination /\ cell.aru = v.head - 1
  BY <1>3 DEF E2ECell
<1> HIDE DEF e, no
<1>5. Alike(v, u)
  BY <1>2 DEF IsNode, Alike, Parts
<1> HIDE DEF cell, grown, u
<1>6. /\ IsNode(w) /\ w.epoch = v.epoch /\ w.sow = v.sow /\ w.head = v.head /\ w.msg = v.msg
      /\ w.flow_epoch = v.flow_epoch /\ w.flow_seq = v.flow_seq
      /\ w.e2e = [v.e2e EXCEPT ![n] = cell]
  <2>1. n \in FlowEnds /\ IsNode(v) /\ cell \in E2ECell
    BY <1>1, <1>2, <1>4
  <2>2. Makes(v, n, cell, w)
    BY <2>1, MakingDoes
  <2> QED
    BY <2>2 DEF Makes
<1> HIDE DEF w
<1>7. CASE ~(v.initial \/ grown)
  BY <1>1, <1>2, <1>5, <1>7, QuietBecoming
<1>8. CASE (v.initial \/ grown) /\ cell = old
  <2>1. w.e2e = v.e2e
    BY <1>2, <1>6, <1>8 DEF IsNode
  <2>2. Alike(v, w)
    BY <1>6, <2>1 DEF Alike, IsNode
  <2> QED
    BY <1>1, <1>2, <1>8, <2>2, QuietBecoming
<1>9. CASE ~v.initial /\ grown
  <2> DEFINE D == node[Destination]
             C2 == C \cup {Says(w.e2e[Destination])}
  <2>1. n = Destination /\ Source # Destination /\ v = D /\ n # Source
    BY <1>4, <1>9, FlowAssumption
  <2>2. w.e2e[Destination] = cell /\ w.e2e[Source] = v.e2e[Source] /\ Says(old) \in C
    BY <1>1, <1>2, <1>6, <2>1 DEF IsNode, NodeOK, Told, FlowEnds
  <2>3. History(s, w, world, M, C2)
    <3>1. History(s, v, world, M, C) /\ Says(v.e2e[Destination]) \in C /\ v.e2e[Destination] = old
      BY <1>2, <2>1, <2>2
    <3> HIDE DEF v, s, old
    <3> QED
      BY <1>2, <1>4, <1>6, <1>9, <2>1, <2>2, <3>1, AckHistory
  <2>4. NodeOK(w, M, C2, F)
    <3>1. \A c \in Cells : Kept(w.msg[c], M)
      BY <1>2, <1>6 DEF NodeOK
    <3>2. Told(w.e2e[Destination], Destination, C2, F)
      BY DEF Told
    <3>3. Told(w.e2e[Source], Source, C2, F)
      BY <1>2, <2>1, <2>2 DEF NodeOK, Told, FlowEnds
    <3> QED
      BY <1>6, <3>1, <3>2, <3>3 DEF NodeOK, FlowEnds
  <2>5. link \in [Directed -> Seq(PacketsOK(M, C2, F))] /\ C \subseteq C2 /\ M \subseteq M
    BY <1>2, PacketsGrow, LinksGrow
  <2> HIDE DEF C2
  <2>6. System([node EXCEPT ![n] = w], link, world, M, C2)
    BY <1>2, <2>1, <2>3, <2>4, <2>5, Becoming
  <2> QED
    BY <1>1, <1>9, <2>6
<1> QED
  BY <1>4, <1>7, <1>8, <1>9

(* Two numbers of one window have cells of their own. *)
LEMMA QuotientsDiffer ==
  ASSUME NEW w \in Nat \ {0}, NEW a \in Int, NEW b \in Int, NEW x \in Int, NEW y \in Int,
         a = w * x + (a % w), b = w * y + (b % w), a % w = b % w, a < b, b < a + w
  PROVE  FALSE
<1>1. b - a = w * (y - x)
  OBVIOUS
<1>2. CASE y - x >= 1
  <2>1. w * (y - x) >= w
    BY <1>2
  <2> QED
    BY <1>1, <2>1
<1>3. CASE y - x <= 0
  <2>1. w * (y - x) <= 0
    BY <1>3
  <2> QED
    BY <1>1, <2>1
<1> QED
  BY <1>2, <1>3

LEMMA CellsDiffer ==
  ASSUME NEW a \in Nat, NEW b \in Nat, a < b, b < a + MAX_MESS_PER_FLOW
  PROVE  Index(a) # Index(b)
<1> DEFINE w == MAX_MESS_PER_FLOW
<1>1. w \in Nat \ {0}
  BY RoomAssumption
<1>2. a = w * (a \div w) + (a % w) /\ b = w * (b \div w) + (b % w) /\ a \div w \in Int /\ b \div w \in Int
  BY <1>1
<1>3. ASSUME a % w = b % w PROVE FALSE
  <2> DEFINE x == a \div w
             y == b \div w
  <2>1. a = w * x + (a % w) /\ b = w * y + (b % w) /\ x \in Int /\ y \in Int /\ a \in Int /\ b \in Int /\ b < a + w
    BY <1>2
  <2> HIDE DEF x, y, w
  <2> QED
    BY <1>1, <1>3, <2>1, QuotientsDiffer
<1> QED
  BY <1>3 DEF Index

(* The client gives the next message to the source. *)
Marked(seen, p, x) == [q \in DOMAIN seen \cup {p} |-> IF q = p THEN x ELSE seen[q]]

LEMMA NextLoad ==
  ASSUME NEW s, NEW z, NEW w, NEW w2, s.flow_seq \in Nat, w.given \in Nat,
         z.flow_seq = s.flow_seq + 1, w2.given = w.given + 1
  PROVE  /\ FirstLoad(s, w) \in Int /\ FirstLoad(s, w) + s.flow_seq = w.given + 1
         /\ FirstLoad(z, w2) = FirstLoad(s, w)
  BY DEF FirstLoad

LEMMA GivenHistory ==
  ASSUME NEW s, NEW d, NEW z, NEW w, NEW w2, NEW M, NEW C, History(s, d, w, M, C),
         IsNode(s), IsNode(d), IsNode(z), w.given \in Nat, w.clock \in Nat, w.delivered \in Seq(Nat),
         s.head < s.sow + MAX_MESS_PER_FLOW, s.epoch = s.flow_epoch,
         z.epoch = s.epoch, z.e2e = s.e2e, z.flow_epoch = s.flow_epoch, z.flow_seq = s.flow_seq + 1,
         z.sow = s.sow, z.head = s.head + 1,
         NEW m \in Message, m.load = w.given + 1, z.msg = [s.msg EXCEPT ![Index(s.head)] = m],
         w2.given = w.given + 1, w2.clock = w.clock, w2.delivered = w.delivered,
         w2.seen = Marked(w.seen, w.given + 1, s.e2e[Destination].de)
  PROVE  History(z, d, w2, M \cup {<<s.flow_epoch, s.flow_seq, w.given + 1>>}, C)
<1> DEFINE F == s.flow_epoch
           L == FirstLoad(s, w)
           new == <<F, s.flow_seq, w.given + 1>>
           M2 == M \cup {new}
<1>1. MessagesOK(s, w, M) /\ AcksOK(s, d, C) /\ SourceOK(s, w) /\ DestinationOK(s, d, w)
      /\ DeliveredOK(s, d, w, M) /\ SeenOK(s, w)
  BY DEF History
<1>2. /\ F \in Nat /\ s.flow_seq \in Nat \ {0} /\ s.sow \in Nat \ {0} /\ s.head \in Nat \ {0}
      /\ s.e2e[Destination] \in E2ECell
  BY FlowAssumption DEF IsNode, FlowEnds
<1>3. L \in Int /\ L + s.flow_seq = w.given + 1 /\ FirstLoad(z, w2) = L
  BY <1>2, NextLoad
<1>4. new[1] = F /\ new[2] = s.flow_seq /\ new[3] = L + s.flow_seq /\ new \in Nat \X Nat \X Nat
  BY <1>2, <1>3
<1> HIDE DEF L, new, F
<1>5. MessagesOK(z, w2, M2)
  <2>1. M2 \subseteq Nat \X Nat \X Nat
    BY <1>1, <1>4 DEF MessagesOK
  <2>2. ASSUME NEW a \in M
        PROVE  /\ a[1] <= F /\ (a[1] = F => a[2] < s.flow_seq /\ a[3] = L + a[2])
               /\ (a[1] < F => a[3] <= L) /\ a[1] \in Nat /\ a[2] \in Nat /\ a[3] \in Nat
    BY <1>1 DEF MessagesOK, F, L
  <2>3. ASSUME NEW a \in M2
        PROVE  /\ a[1] <= F /\ (a[1] = F => a[2] < s.flow_seq + 1 /\ a[3] = L + a[2])
               /\ (a[1] < F => a[3] <= L)
    <3>1. CASE a = new
      BY <1>2, <1>3, <1>4, <3>1, SMTT(30) DEF F
    <3>2. CASE a \in M
      BY <1>2, <2>2, <3>2
    <3> QED
      BY <3>1, <3>2
  <2>4. ASSUME NEW a \in M2, NEW b \in M2
        PROVE  /\ a[1] = b[1] => a[3] - a[2] = b[3] - b[2]
               /\ a[1] < b[1] => a[3] < b[3]
    <3>1. CASE a \in M /\ b \in M
      BY <1>1, <3>1 DEF MessagesOK
    <3>2. CASE a \in M /\ b = new
      <4>1. a[1] <= F /\ (a[1] = F => a[3] = L + a[2]) /\ (a[1] < F => a[3] <= L)
            /\ a[1] \in Nat /\ a[2] \in Nat /\ a[3] \in Nat
        BY <2>2, <3>2
      <4>2. b[1] = F /\ b[2] = s.flow_seq /\ b[3] = L + s.flow_seq
        BY <1>4, <3>2
      <4>3. L \in Int /\ F \in Nat /\ s.flow_seq \in Nat \ {0}
        BY <1>2, <1>3 DEF F
      <4> QED
        BY <4>1, <4>2, <4>3
    <3>3. CASE a = new /\ b \in M
      <4>1. b[1] <= F /\ (b[1] = F => b[3] = L + b[2]) /\ b[1] \in Nat /\ b[2] \in Nat /\ b[3] \in Nat
        BY <2>2, <3>3
      <4>2. a[1] = F /\ a[2] = s.flow_seq /\ a[3] = L + s.flow_seq
        BY <1>4, <3>3
      <4>3. L \in Int /\ F \in Nat /\ s.flow_seq \in Nat \ {0}
        BY <1>2, <1>3 DEF F
      <4> QED
        BY <4>1, <4>2, <4>3
    <3>4. CASE a = new /\ b = new
      BY <1>4, <3>4
    <3> QED
      BY <3>1, <3>2, <3>3, <3>4
  <2> QED
    BY <2>1, <2>3, <2>4, <1>3 DEF MessagesOK, F
<1>6. AcksOK(z, d, C)
  <2>1. ASSUME NEW c \in C PROVE c[3] \in Nat /\ (c[2] = F => c[3] < s.flow_seq + 1)
    BY <1>1, <1>2 DEF AcksOK, F
  <2> QED
    BY <1>1, <2>1 DEF AcksOK, F
<1>7. SourceOK(z, w2)
  <2>1. s.head = s.flow_seq /\ s.sow <= s.head
        /\ \A i \in s.sow .. s.head - 1 : s.msg[Index(i)].load = L + i
    BY <1>1 DEF SourceOK, L
  <2>2. s.msg \in [Cells -> Message] /\ MAX_MESS_PER_FLOW \in Nat
    BY RoomAssumption DEF IsNode
  <2>3. ASSUME NEW i \in z.sow .. z.head - 1 PROVE z.msg[Index(i)].load = L + i
    <3>1. i \in Nat /\ s.sow <= i /\ i <= s.head
      BY <1>2
    <3>2. Index(i) \in Cells /\ Index(s.head) \in Cells
      BY <1>2, <3>1, IndexIn
    <3>3. CASE i = s.head
      BY <1>3, <2>1, <2>2, <3>2, <3>3
    <3>4. CASE i < s.head
      <4>1. Index(i) # Index(s.head)
        <5>1. s.head < i + MAX_MESS_PER_FLOW
          BY <1>2, <2>2, <3>1
        <5> QED
          BY <1>2, <3>1, <3>4, <5>1, CellsDiffer
      <4>2. z.msg[Index(i)] = s.msg[Index(i)]
        BY <2>2, <3>2, <4>1
      <4>3. i \in s.sow .. s.head - 1
        BY <1>2, <3>1, <3>4
      <4> QED
        BY <2>1, <4>2, <4>3
    <3> QED
      BY <1>2, <3>1, <3>3, <3>4
  <2>4. z.head = z.flow_seq /\ z.sow <= z.head /\ z.head <= z.sow + MAX_MESS_PER_FLOW
    BY <1>2, <2>1, <2>2
  <2> QED
    BY <1>1, <1>3, <2>3, <2>4 DEF SourceOK
<1>8. DestinationOK(z, d, w2)
  BY <1>1, <1>2 DEF DestinationOK, IsNode
<1>9. DeliveredOK(z, d, w2, M2)
  <2>1. ASSUME NEW i \in 1 .. Len(w.delivered)
        PROVE  w.delivered[i] \in Nat /\ w.delivered[i] <= w.given + 1 /\ w.delivered[i] < new[3]
    <3>1. w.delivered[i] <= w.given /\ w.delivered[i] \in Nat
      BY <1>1 DEF DeliveredOK
    <3>2. new[3] = w.given + 1
      BY <1>3, <1>4
    <3> QED
      BY <3>1, <3>2
  <2>2. \A i \in 1 .. Len(w.delivered) : \A a \in M2 :
          a[1] > d.epoch \/ (a[1] = d.epoch /\ a[2] >= d.head) => w.delivered[i] < a[3]
    BY <1>1, <2>1 DEF DeliveredOK
  <2>3. Increasing(w.delivered) /\ \A i \in 1 .. Len(w.delivered) : w.delivered[i] <= w2.given
    BY <1>1, <2>1 DEF DeliveredOK
  <2>4. d.epoch = F => \A q \in 1 .. d.head - 1 : \E i \in 1 .. Len(w.delivered) : w.delivered[i] = L + q
    BY <1>1 DEF DeliveredOK, L, F
  <2> QED
    BY <1>3, <2>2, <2>3, <2>4 DEF DeliveredOK, F
<1>10. SeenOK(z, w2)
  <2> SUFFICES ASSUME NEW p \in DOMAIN w2.seen
               PROVE  /\ p \in Nat /\ w2.seen[p] \in Nat /\ p <= w2.given
                      /\ w2.seen[p] <= s.e2e[Destination].de
                      /\ w2.seen[p] = s.e2e[Destination].de => L < p
    BY <1>3 DEF SeenOK
  <2>1. CASE p = w.given + 1
    <3>1. w2.seen[p] = s.e2e[Destination].de
      BY <2>1 DEF Marked
    <3>2. s.e2e[Destination].de \in Nat
      BY <1>2 DEF E2ECell
    <3>3. p \in Nat /\ p <= w2.given /\ p = w.given + 1
      BY <2>1
    <3>4. L < p
      BY <1>2, <1>3, <3>3
    <3> QED
      BY <3>1, <3>2, <3>3, <3>4
  <2>2. CASE p # w.given + 1
    <3>1. p \in DOMAIN w.seen /\ w2.seen[p] = w.seen[p]
      BY <2>2 DEF Marked
    <3> QED
      BY <1>1, <1>2, <1>3, <3>1 DEF SeenOK, L, E2ECell
  <2> QED
    BY <2>1, <2>2
<1> QED
  BY <1>5, <1>6, <1>7, <1>8, <1>9, <1>10 DEF History, new, F

LEMMA NumberedDoes ==
  ASSUME NEW v, IsNode(v)
  PROVE  LET w == [v EXCEPT !.flow_seq = @ + 1]
         IN  /\ IsNode(w) /\ w.epoch = v.epoch /\ w.sow = v.sow /\ w.head = v.head /\ w.msg = v.msg
             /\ w.e2e = v.e2e /\ w.flow_epoch = v.flow_epoch /\ w.flow_seq = v.flow_seq + 1
  BY DEF IsNode, Parts

LEMMA Client_SendStep ==
  ASSUME NEW M, NEW C, System(node, link, world, M, C), Client_Send
  PROVE  \E M2 : System(node', link', world', M2, C)
<1> DEFINE v == node[Source]
           d == node[Destination]
           F == v.flow_epoch
           m == [seq |-> v.flow_seq, epoch |-> v.flow_epoch, load |-> world.given + 1,
                 mask |-> Routings[world.route]]
           v1 == [v EXCEPT !.flow_seq = @ + 1]
           z == Process_Data(Source, v1, Source, m)
           seen2 == [p \in DOMAIN world.seen \cup {m.load} |->
                       IF p = m.load THEN v.e2e[Destination].de ELSE world.seen[p]]
           w2 == [world EXCEPT !.given = @ + 1, !.seen = seen2]
           new == <<F, v.flow_seq, world.given + 1>>
           M2 == M \cup {new}
<1>1. node' = [node EXCEPT ![Source] = z] /\ link' = link /\ world' = w2 /\ Can_Flow_Send(v)
  BY DEF Client_Send, Become
<1>2. /\ IsNode(v) /\ IsNode(d) /\ NodeOK(v, M, C, F) /\ Source \in Daemon /\ F \in Nat /\ F <= F
      /\ link \in [Directed -> Seq(PacketsOK(M, C, F))]
      /\ History(v, d, world, M, C) /\ WorldOK(world)
      /\ world.clock \in Nat /\ world.given \in Nat /\ world.delivered \in Seq(Nat)
  BY SystemIs
<1>3. SourceOK(v, world) /\ v.head < v.sow + MAX_MESS_PER_FLOW /\ v.epoch = v.flow_epoch
  BY <1>1, <1>2 DEF History, Can_Flow_Send
<1>4. v.head = v.flow_seq /\ v.sow <= v.head /\ 1 <= v.flow_epoch
  BY <1>3 DEF SourceOK
<1>5. /\ m \in Message /\ m.seq = v.head /\ m.epoch = F /\ m.load = world.given + 1
      /\ Name(m) = new
  <2>1. Routings[world.route] \subseteq Wire
    BY <1>2, RoutingAssumption DEF WorldOK
  <2>2. v.flow_seq \in Nat /\ world.given + 1 \in Nat
    BY <1>2, SMTT(30) DEF IsNode
  <2> QED
    BY <1>2, <1>4, <2>1, <2>2 DEF Message, Name
<1>6. /\ IsNode(v1) /\ v1.epoch = v.epoch /\ v1.sow = v.sow /\ v1.head = v.head /\ v1.msg = v.msg
      /\ v1.e2e = v.e2e /\ v1.flow_epoch = v.flow_epoch /\ v1.flow_seq = v.flow_seq + 1
  BY <1>2, NumberedDoes
<1>7. w2.seen = Marked(world.seen, world.given + 1, v.e2e[Destination].de) /\ WorldOK(w2)
      /\ w2.given = world.given + 1 /\ w2.clock = world.clock /\ w2.delivered = world.delivered
  <2>1. seen2 = Marked(world.seen, world.given + 1, v.e2e[Destination].de)
    BY <1>5 DEF Marked
  <2> HIDE DEF seen2
  <2>2. w2.seen = seen2 /\ WorldOK(w2)
        /\ w2.given = world.given + 1 /\ w2.clock = world.clock /\ w2.delivered = world.delivered
    <3> DEFINE g == world.given + 1
    <3>1. g \in Nat /\ w2 = [world EXCEPT !.given = g, !.seen = seen2]
      BY <1>2
    <3> HIDE DEF g, w2
    <3>2. w2.seen = seen2 /\ WorldOK(w2)
          /\ w2.given = g /\ w2.clock = world.clock /\ w2.delivered = world.delivered
      BY <1>2, <3>1 DEF WorldOK
    <3> QED
      BY <3>2 DEF g
  <2> QED
    BY <2>1, <2>2
<1> HIDE DEF v, d, m, v1, w2, new
<1>8. Accepts(v1, m)
  <2>1. v1.sow \in Nat /\ v1.head \in Nat /\ v.flow_epoch \in Nat
    BY <1>2, <1>6 DEF IsNode
  <2>2. Acceptable(v1, m)
    BY <1>3, <1>4, <1>5, <1>6, <2>1 DEF Acceptable, F
  <2> QED
    BY <1>3, <1>5, <1>6, <2>2 DEF Accepts
<1>9. /\ IsNode(z) /\ z.epoch = v.epoch /\ z.e2e = v.e2e /\ z.flow_epoch = v.flow_epoch
      /\ z.flow_seq = v.flow_seq + 1 /\ z.head = v.head + 1 /\ z.sow = v.sow
      /\ z.msg = [v.msg EXCEPT ![Index(v.head)] = m]
  <2>1. Source # Destination
    BY FlowAssumption
  <2> QED
    BY <1>5, <1>6, <1>8, <2>1, ProcessDataDoes
<1> HIDE DEF z
<1>10. History(z, d, w2, M2, C)
  BY <1>2, <1>3, <1>5, <1>7, <1>9, GivenHistory DEF new, F
<1>11. NodeOK(z, M2, C, F)
  <2>1. ASSUME NEW c \in Cells PROVE Kept(z.msg[c], M2)
    <3>1. z.msg[c] = m \/ z.msg[c] = v.msg[c]
      BY <1>2, <1>9 DEF IsNode
    <3> QED
      BY <1>2, <1>5, <3>1 DEF NodeOK, Kept
  <2> QED
    BY <1>2, <1>9, <2>1 DEF NodeOK
<1>12. link \in [Directed -> Seq(PacketsOK(M2, C, F))] /\ C \subseteq C /\ M \subseteq M2
  BY <1>2, PacketsGrow, LinksGrow
<1>13. System([node EXCEPT ![Source] = z], link, w2, M2, C)
  <2>1. F = (IF Source = Source THEN z.flow_epoch ELSE node[Source].flow_epoch) /\ node[Source].flow_epoch <= F
    BY <1>2, <1>9 DEF F, v
  <2>2. History(IF Source = Source THEN z ELSE node[Source],
                IF Source = Destination THEN z ELSE node[Destination], w2, M2, C)
    BY <1>10, FlowAssumption DEF d
  <2> HIDE DEF M2, F
  <2> QED
    BY <1>2, <1>7, <1>11, <1>12, <2>1, <2>2, Becoming
<1> QED
  BY <1>1, <1>13

-----------------------------------------------------------------------------
(* A daemon restarts. *)

LEMMA FreshIs ==
  ASSUME NEW n \in Daemon, NEW now \in Nat
  PROVE  LET v == FreshNode(n, now)
         IN  /\ IsNode(v) /\ v.epoch = 0 /\ v.sow = 1 /\ v.head = 1 /\ v.flow_epoch = now /\ v.flow_seq = 1
             /\ \A c \in Cells : v.msg[c].epoch = 0
             /\ \A x \in FlowEnds : /\ v.e2e[x].de = IF x = n THEN now ELSE 0
                                    /\ v.e2e[x].se = 0 /\ v.e2e[x].aru = 0
<1> DEFINE msg == [c \in Cells |-> NoMsg]
           e2e == [x \in FlowEnds |-> [de |-> IF x = n THEN now ELSE 0, se |-> 0, aru |-> 0, known |-> x = n]]
           v == FreshNode(n, now)
<1>1. msg \in [Cells -> Message] /\ \A c \in Cells : msg[c].epoch = 0
  BY NoMsgIs DEF NoMsg
<1>2. e2e \in [FlowEnds -> E2ECell] /\ \A x \in FlowEnds : /\ e2e[x].de = IF x = n THEN now ELSE 0
                                                           /\ e2e[x].se = 0 /\ e2e[x].aru = 0
  BY DEF E2ECell
<1>3. v.msg = msg /\ v.e2e = e2e
  BY DEF FreshNode
<1>4. v = [f \in Parts |-> v[f]] /\ v.epoch = 0 /\ v.sow = 1 /\ v.head = 1 /\ v.flow_epoch = now /\ v.flow_seq = 1
  BY DEF FreshNode, Parts
<1> HIDE DEF v, msg, e2e
<1>5. IsNode(v)
  BY <1>1, <1>2, <1>3, <1>4 DEF IsNode
<1> QED
  BY <1>1, <1>2, <1>3, <1>4, <1>5 DEF v

LEMMA FreshOK ==
  ASSUME NEW n \in Daemon, NEW now \in Nat, NEW M, NEW C, NEW F \in Nat, <<0, 0, 0>> \in C,
         n = Source => now <= F, n = Destination => <<now, 0, 0>> \in C
  PROVE  NodeOK(FreshNode(n, now), M, C, F)
<1> DEFINE v == FreshNode(n, now)
<1>1. /\ IsNode(v) /\ \A c \in Cells : v.msg[c].epoch = 0
      /\ \A x \in FlowEnds : /\ v.e2e[x].de = IF x = n THEN now ELSE 0
                             /\ v.e2e[x].se = 0 /\ v.e2e[x].aru = 0
  BY FreshIs
<1> HIDE DEF v
<1>2. \A c \in Cells : Kept(v.msg[c], M)
  BY <1>1 DEF Kept
<1>3. ASSUME NEW x \in FlowEnds PROVE Told(v.e2e[x], x, C, F)
  <2>1. CASE x = Destination
    <3>1. Says(v.e2e[x]) = <<IF x = n THEN now ELSE 0, 0, 0>>
      BY <1>1 DEF Says
    <3> QED
      BY <2>1, <3>1 DEF Told
  <2>2. CASE x # Destination
    <3>1. x = Source
      BY <2>2 DEF FlowEnds
    <3> QED
      BY <1>1, <2>2, <3>1 DEF Told
  <2> QED
    BY <2>1, <2>2
<1> QED
  BY <1>1, <1>2, <1>3 DEF NodeOK, v

(* The destination's epoch is one that the source has had. *)
LEMMA EpochKnown ==
  ASSUME NEW s, NEW d, NEW w, NEW M, NEW C, History(s, d, w, M, C), IsNode(d),
         Says(d.e2e[Destination]) \in C
  PROVE  d.epoch <= s.flow_epoch
<1>1. Says(d.e2e[Destination])[2] <= s.flow_epoch /\ d.epoch = d.e2e[Destination].se
  BY DEF History, AcksOK, DestinationOK
<1> QED
  BY <1>1 DEF Says

LEMMA SourceRestarts ==
  ASSUME NEW s, NEW d, NEW z, NEW w, NEW w2, NEW M, NEW C, History(s, d, w, M, C),
         IsNode(s), IsNode(d), IsNode(z), w.clock \in Nat, w.given \in Nat, w.delivered \in Seq(Nat),
         Says(d.e2e[Destination]) \in C,
         z.epoch = 0, z.sow = 1, z.head = 1, z.flow_epoch = w.clock + 1, z.flow_seq = 1,
         z.e2e[Source].de = w.clock + 1,
         z.e2e[Destination].de = 0, z.e2e[Destination].se = 0, z.e2e[Destination].aru = 0,
         w2.clock = w.clock + 1, w2.given = w.given, w2.delivered = w.delivered, DOMAIN w2.seen = {}
  PROVE  History(z, d, w2, M, C) /\ s.flow_epoch <= z.flow_epoch
<1> DEFINE F == s.flow_epoch
           T == w.clock + 1
<1>1. MessagesOK(s, w, M) /\ AcksOK(s, d, C) /\ SourceOK(s, w) /\ DestinationOK(s, d, w)
      /\ DeliveredOK(s, d, w, M)
  BY DEF History
<1>2. /\ F \in Nat /\ s.flow_seq \in Nat \ {0} /\ d.epoch \in Nat
      /\ F < T /\ T \in Nat \ {0} /\ d.e2e[Destination].de <= T /\ d.e2e[Destination] \in E2ECell
  <2>1. F \in Nat /\ s.flow_seq \in Nat \ {0} /\ d.epoch \in Nat /\ d.e2e[Destination] \in E2ECell
    BY FlowAssumption DEF IsNode, FlowEnds
  <2>2. F <= w.clock /\ d.e2e[Destination].de <= w.clock /\ d.e2e[Destination].de \in Nat
    BY <1>1, <2>1 DEF SourceOK, DestinationOK, E2ECell
  <2> HIDE DEF F
  <2> QED
    BY <2>1, <2>2
<1>3. FirstLoad(s, w) \in Int /\ FirstLoad(s, w) + s.flow_seq = w.given + 1 /\ FirstLoad(z, w2) = w.given
  BY <1>2 DEF FirstLoad
<1>4. d.epoch # T
  BY <1>2, EpochKnown
<1> HIDE DEF T, F
<1>5. MessagesOK(z, w2, M)
  <2>1. ASSUME NEW m \in M PROVE m[1] < T /\ m[3] <= w.given
    <3>1. /\ m[1] <= F /\ (m[1] = F => m[2] < s.flow_seq /\ m[3] = FirstLoad(s, w) + m[2])
          /\ (m[1] < F => m[3] <= FirstLoad(s, w)) /\ m[1] \in Nat /\ m[2] \in Nat /\ m[3] \in Nat
      BY <1>1 DEF MessagesOK, F
    <3>2. /\ FirstLoad(s, w) \in Int /\ FirstLoad(s, w) + s.flow_seq = w.given + 1
          /\ s.flow_seq \in Nat \ {0} /\ F \in Nat /\ T \in Nat /\ F < T
      BY <1>2, <1>3
    <3> DEFINE L == FirstLoad(s, w)
               q == s.flow_seq
               g == w.given
    <3>3. L \in Int /\ q \in Nat \ {0} /\ L + q = g + 1 /\ g \in Nat
      BY <3>2
    <3>4. m[1] = F => m[2] < q /\ m[3] = L + m[2]
      BY <3>1
    <3>5. m[1] < F => m[3] <= L
      BY <3>1
    <3> HIDE DEF L, q, g
    <3>6. m[3] <= g
      BY <3>1, <3>3, <3>4, <3>5, <3>2, SMTT(30)
    <3> QED
      BY <3>1, <3>2, <3>6 DEF g
  <2>2. z.flow_epoch = T
    BY DEF T
  <2>3. \A m \in M : m[1] \in Nat
    BY <1>1 DEF MessagesOK
  <2> QED
    BY <1>1, <1>2, <1>3, <2>1, <2>2, <2>3 DEF MessagesOK
<1>6. AcksOK(z, d, C)
  <2>1. ASSUME NEW c \in C PROVE c[2] <= T /\ c[2] # T
    <3>1. c[2] <= F /\ c[2] \in Nat
      BY <1>1 DEF AcksOK, F
    <3> QED
      BY <1>2, <3>1
  <2> QED
    BY <1>1, <2>1 DEF AcksOK, T
<1>7. SourceOK(z, w2)
  BY <1>2 DEF SourceOK, T
<1>8. DestinationOK(z, d, w2)
  BY <1>1, <1>2, <1>4 DEF DestinationOK, T
<1>9. DeliveredOK(z, d, w2, M)
  BY <1>1, <1>4 DEF DeliveredOK, T
<1>10. SeenOK(z, w2)
  BY DEF SeenOK
<1> QED
  BY <1>2, <1>5, <1>6, <1>7, <1>8, <1>9, <1>10 DEF History, T, F

LEMMA DestinationRestarts ==
  ASSUME NEW s, NEW d, NEW z, NEW w, NEW w2, NEW M, NEW C, History(s, d, w, M, C),
         IsNode(s), IsNode(d), IsNode(z), w.clock \in Nat, w.given \in Nat,
         z.epoch = 0, z.head = 1, z.flow_seq = 1, z.e2e[Source].de = 0,
         z.e2e[Destination].de = w.clock + 1, z.e2e[Destination].se = 0, z.e2e[Destination].aru = 0,
         w2.clock = w.clock + 1, w2.given = w.given, w2.delivered = <<>>, w2.seen = w.seen
  PROVE  History(s, z, w2, M, C \cup {<<w.clock + 1, 0, 0>>})
<1> DEFINE T == w.clock + 1
           F == s.flow_epoch
           C2 == C \cup {<<T, 0, 0>>}
<1>1. MessagesOK(s, w, M) /\ AcksOK(s, d, C) /\ SourceOK(s, w) /\ DestinationOK(s, d, w) /\ SeenOK(s, w)
  BY DEF History
<1>2. /\ F \in Nat \ {0} /\ T \in Nat \ {0} /\ F < T /\ d.e2e[Destination].de < T /\ s.flow_seq \in Nat \ {0}
      /\ d.e2e[Destination].de \in Nat
  <2>1. F \in Nat /\ s.flow_seq \in Nat \ {0} /\ d.e2e[Destination] \in E2ECell
    BY FlowAssumption DEF IsNode, FlowEnds
  <2>2. 1 <= F /\ F <= w.clock /\ d.e2e[Destination].de <= w.clock /\ d.e2e[Destination].de \in Nat
    BY <1>1, <2>1 DEF SourceOK, DestinationOK, E2ECell
  <2> HIDE DEF F
  <2> QED
    BY <2>1, <2>2
<1>3. FirstLoad(s, w2) = FirstLoad(s, w)
  BY DEF FirstLoad
<1> HIDE DEF T, F
<1>4. MessagesOK(s, w2, M)
  BY <1>1, <1>3 DEF MessagesOK
<1>5. AcksOK(s, z, C2)
  <2>1. C2 \subseteq Nat \X Nat \X Nat /\ <<0, 0, 0>> \in C2
    BY <1>1, <1>2 DEF AcksOK
  <2>2. ASSUME NEW c \in C
        PROVE  /\ c[1] \in Nat /\ c[2] \in Nat /\ c[3] \in Nat /\ c[1] < T /\ c[2] < T /\ c[2] <= F
               /\ (c[2] = F => c[3] < s.flow_seq)
    <3>1. /\ c[1] \in Nat /\ c[2] \in Nat /\ c[3] \in Nat /\ c[1] <= d.e2e[Destination].de /\ c[2] <= F
          /\ (c[2] = F => c[3] < s.flow_seq)
      BY <1>1 DEF AcksOK, F
    <3> QED
      BY <1>2, <3>1, SMTT(30)
  <2>3. ASSUME NEW c \in C2
        PROVE  /\ c[1] <= T /\ c[2] <= F
               /\ c[1] = T => c[2] <= 0 /\ (c[2] = 0 => c[3] <= 0)
               /\ c[2] = F => c[3] < s.flow_seq
    <3>1. CASE c \in C
      BY <1>2, <2>2, <3>1
    <3>2. CASE c = <<T, 0, 0>>
      <4>1. c[1] = T /\ c[2] = 0 /\ c[3] = 0
        BY <3>2
      <4> QED
        BY <1>2, <4>1
    <3> QED
      BY <3>1, <3>2
  <2>4. ASSUME NEW b \in C2, NEW c \in C2, b[1] < c[1] PROVE b[2] < c[1]
    <3>1. CASE b \in C /\ c \in C
      BY <1>1, <2>4, <3>1 DEF AcksOK
    <3>2. CASE b \in C /\ c = <<T, 0, 0>>
      BY <2>2, <3>2
    <3>3. CASE b = <<T, 0, 0>>
      <4>1. b[1] = T
        BY <3>3
      <4>2. c[1] <= T /\ c[1] \in Nat
        BY <2>1, <2>3
      <4> QED
        BY <1>2, <2>4, <4>1, <4>2
    <3> QED
      BY <3>1, <3>2, <3>3
  <2> HIDE DEF C2
  <2> QED
    BY <2>1, <2>3, <2>4 DEF AcksOK, T, F
<1>6. SourceOK(s, w2)
  BY <1>1, <1>2, <1>3 DEF SourceOK, T, F
<1>7. DestinationOK(s, z, w2)
  BY <1>2 DEF DestinationOK, T, F
<1>8. DeliveredOK(s, z, w2, M)
  <2>1. Len(w2.delivered) = 0 /\ 1 .. 0 = {}
    OBVIOUS
  <2>2. Increasing(w2.delivered)
    BY <2>1 DEF Increasing
  <2> QED
    BY <1>2, <2>1, <2>2 DEF DeliveredOK, F
<1>9. SeenOK(s, w2)
  BY <1>1, <1>3 DEF SeenOK
<1> QED
  BY <1>4, <1>5, <1>6, <1>7, <1>8, <1>9 DEF History, T

LEMMA RelayRestarts ==
  ASSUME NEW s, NEW d, NEW w, NEW w2, NEW M, NEW C, History(s, d, w, M, C), IsNode(s), IsNode(d),
         w.clock \in Nat,
         w2.clock = w.clock + 1, w2.given = w.given, w2.delivered = w.delivered, w2.seen = w.seen
  PROVE  History(s, d, w2, M, C)
<1>1. MessagesOK(s, w, M) /\ AcksOK(s, d, C) /\ SourceOK(s, w) /\ DestinationOK(s, d, w)
      /\ DeliveredOK(s, d, w, M) /\ SeenOK(s, w)
  BY DEF History
<1>2. FirstLoad(s, w2) = FirstLoad(s, w)
  BY DEF FirstLoad
<1>3. MessagesOK(s, w2, M) /\ SeenOK(s, w2) /\ DeliveredOK(s, d, w2, M)
  BY <1>1, <1>2 DEF MessagesOK, SeenOK, DeliveredOK
<1>4. SourceOK(s, w2)
  BY <1>1, <1>2 DEF SourceOK, IsNode
<1>5. DestinationOK(s, d, w2)
  <2>1. d.e2e[Destination].de \in Nat
    BY FlowAssumption DEF IsNode, FlowEnds, E2ECell
  <2> QED
    BY <1>1, <2>1 DEF DestinationOK
<1> QED
  BY <1>1, <1>3, <1>4, <1>5 DEF History

LEMMA RestartStep ==
  ASSUME NEW M, NEW C, System(node, link, world, M, C), NEW n \in Daemon, RestartDaemon(n)
  PROVE  \E C2 : System(node', link', world', M, C2)
<1> DEFINE s == node[Source]
           d == node[Destination]
           F == s.flow_epoch
           T == world.clock + 1
           z == FreshNode(n, T)
           w2 == [world EXCEPT !.clock = @ + 1,
                            !.delivered = IF n = Destination THEN <<>> ELSE @,
                            !.seen = IF n = Source THEN [p \in {} |-> 0] ELSE @]
           C2 == IF n = Destination THEN C \cup {<<T, 0, 0>>} ELSE C
           lk2 == Cut(link, n)
<1>1. node' = [node EXCEPT ![n] = z] /\ link' = lk2 /\ world' = w2
  BY DEF RestartDaemon, Become, Cut
<1>2. /\ IsNode(s) /\ IsNode(d) /\ Source \in Daemon /\ F \in Nat /\ NodeOK(d, M, C, F)
      /\ link \in [Directed -> Seq(PacketsOK(M, C, F))]
      /\ History(s, d, world, M, C) /\ WorldOK(world) /\ Source # Destination
      /\ world.clock \in Nat /\ world.given \in Nat /\ world.delivered \in Seq(Nat)
  BY SystemIs, FlowAssumption
<1>3. /\ w2.clock = T /\ w2.given = world.given /\ WorldOK(w2)
      /\ w2.delivered = IF n = Destination THEN <<>> ELSE world.delivered
      /\ n = Source => DOMAIN w2.seen = {}
      /\ n # Source => w2.seen = world.seen
  <2> DEFINE dl == IF n = Destination THEN <<>> ELSE world.delivered
             sn == IF n = Source THEN [p \in {} |-> 0] ELSE world.seen
  <2>1. T \in Nat /\ dl \in Seq(Nat) /\ (n = Source => DOMAIN sn = {})
    BY <1>2
  <2>2. w2 = [world EXCEPT !.clock = T, !.delivered = dl, !.seen = sn]
    OBVIOUS
  <2> HIDE DEF dl, sn, w2, T
  <2>3. w2.clock = T /\ w2.given = world.given /\ WorldOK(w2) /\ w2.delivered = dl /\ w2.seen = sn
    BY <1>2, <2>1, <2>2 DEF WorldOK
  <2> QED
    BY <2>1, <2>3 DEF dl, sn
<1>4. T \in Nat /\ Says(d.e2e[Destination]) \in C /\ <<0, 0, 0>> \in C
  BY <1>2 DEF NodeOK, Told, FlowEnds, History, AcksOK
<1>5. /\ IsNode(z) /\ z.epoch = 0 /\ z.sow = 1 /\ z.head = 1 /\ z.flow_epoch = T /\ z.flow_seq = 1
      /\ \A x \in FlowEnds : /\ z.e2e[x].de = IF x = n THEN T ELSE 0
                             /\ z.e2e[x].se = 0 /\ z.e2e[x].aru = 0
  BY <1>4, FreshIs
<1>6. Source \in FlowEnds /\ Destination \in FlowEnds
  BY DEF FlowEnds
<1> HIDE DEF z, w2, s, d, lk2
<1>7. CASE n = Source
  <2>1. History(z, d, w2, M, C) /\ F <= T
    <3>1. /\ z.e2e[Source].de = T /\ z.e2e[Destination].de = 0
          /\ z.e2e[Destination].se = 0 /\ z.e2e[Destination].aru = 0
      BY <1>2, <1>5, <1>6, <1>7
    <3>2. w2.delivered = world.delivered /\ DOMAIN w2.seen = {}
      BY <1>2, <1>3, <1>7
    <3> QED
      BY <1>2, <1>3, <1>4, <1>5, <3>1, <3>2, SourceRestarts
  <2>2. NodeOK(z, M, C, T)
    <3>1. T <= T /\ n # Destination
      BY <1>2, <1>4, <1>7
    <3> HIDE DEF T
    <3> QED
      BY <1>4, <1>7, <3>1, FreshOK DEF z
  <2>3. lk2 \in [Directed -> Seq(PacketsOK(M, C, T))] /\ C \subseteq C /\ M \subseteq M
    <3>1. link \in [Directed -> Seq(PacketsOK(M, C, T))]
      BY <1>2, <1>4, <2>1, PacketsGrow, LinksGrow
    <3> QED
      BY <3>1, Losing DEF lk2
  <2>4. T = (IF n = Source THEN z.flow_epoch ELSE node[Source].flow_epoch) /\ node[Source].flow_epoch <= T
    BY <1>5, <1>7, <2>1 DEF s
  <2>5. History(IF n = Source THEN z ELSE node[Source],
                IF n = Destination THEN z ELSE node[Destination], w2, M, C)
    BY <1>2, <1>7, <2>1 DEF d
  <2> HIDE DEF T
  <2>6. System([node EXCEPT ![n] = z], lk2, w2, M, C)
    BY <1>3, <1>4, <2>2, <2>3, <2>4, <2>5, Becoming
  <2> QED
    BY <1>1, <2>6
<1>8. CASE n # Source
  <2>1. History(s, IF n = Destination THEN z ELSE d, w2, M, C2)
    <3>1. CASE n = Destination
      BY <1>2, <1>3, <1>4, <1>5, <1>6, <1>8, <3>1, DestinationRestarts
    <3>2. CASE n # Destination
      BY <1>2, <1>3, <1>8, <3>2, RelayRestarts
    <3> QED
      BY <3>1, <3>2
  <2>2. C \subseteq C2 /\ M \subseteq M /\ <<0, 0, 0>> \in C2 /\ (n = Destination => <<T, 0, 0>> \in C2) /\ F <= F
    BY <1>2, <1>4
  <2> HIDE DEF C2
  <2>3. NodeOK(z, M, C2, F)
    BY <1>2, <1>4, <1>8, <2>2, FreshOK DEF z
  <2>4. lk2 \in [Directed -> Seq(PacketsOK(M, C2, F))]
    <3>1. link \in [Directed -> Seq(PacketsOK(M, C2, F))]
      BY <1>2, <2>2, PacketsGrow, LinksGrow
    <3> QED
      BY <3>1, Losing DEF lk2
  <2>5. F = (IF n = Source THEN z.flow_epoch ELSE node[Source].flow_epoch) /\ node[Source].flow_epoch <= F
    BY <1>2, <1>8 DEF s
  <2>6. History(IF n = Source THEN z ELSE node[Source],
                IF n = Destination THEN z ELSE node[Destination], w2, M, C2)
    BY <1>8, <2>1 DEF s, d
  <2> HIDE DEF F
  <2>7. System([node EXCEPT ![n] = z], lk2, w2, M, C2)
    BY <1>2, <1>3, <2>2, <2>3, <2>4, <2>5, <2>6, Becoming
  <2> QED
    BY <1>1, <2>7
<1> QED
  BY <1>7, <1>8

-----------------------------------------------------------------------------
(* Messages arrive. *)

(* Every given message is at most the last. *)
LEMMA LoadBound ==
  ASSUME NEW s, NEW w, NEW M, MessagesOK(s, w, M), IsNode(s), w.given \in Nat
  PROVE  /\ FirstLoad(s, w) \in Int /\ FirstLoad(s, w) + s.flow_seq = w.given + 1
         /\ \A m \in M : m[3] <= w.given /\ m[1] \in Nat /\ m[2] \in Nat /\ m[3] \in Nat
<1> DEFINE L == FirstLoad(s, w)
           q == s.flow_seq
           g == w.given
           F == s.flow_epoch
<1>1. q \in Nat \ {0} /\ g \in Nat /\ F \in Nat
  BY DEF IsNode
<1>2. L \in Int /\ L + q = g + 1
  BY <1>1 DEF FirstLoad
<1>3. ASSUME NEW m \in M
      PROVE  /\ m[1] <= F /\ (m[1] = F => m[2] < q /\ m[3] = L + m[2])
             /\ (m[1] < F => m[3] <= L) /\ m[1] \in Nat /\ m[2] \in Nat /\ m[3] \in Nat
  BY DEF MessagesOK
<1> HIDE DEF L, q, g, F
<1>4. ASSUME NEW m \in M PROVE m[3] <= g /\ m[1] \in Nat /\ m[2] \in Nat /\ m[3] \in Nat
  <2>1. /\ m[1] <= F /\ (m[1] = F => m[2] < q /\ m[3] = L + m[2])
        /\ (m[1] < F => m[3] <= L) /\ m[1] \in Nat /\ m[2] \in Nat /\ m[3] \in Nat
    BY <1>3
  <2> QED
    BY <1>1, <1>2, <2>1
<1> QED
  BY <1>2, <1>4 DEF L, q, g

(* The source is given one of its own messages. *)
LEMMA SourceData ==
  ASSUME NEW s, NEW d, NEW z, NEW w, NEW M, NEW C, History(s, d, w, M, C), IsNode(s), IsNode(z),
         w.given \in Nat,
         NEW m \in Message, Kept(m, M),
         z.epoch = s.epoch, z.e2e = s.e2e, z.flow_epoch = s.flow_epoch, z.flow_seq = s.flow_seq, z.sow = s.sow,
         z.head = IF Accepts(s, m) THEN s.head + 1 ELSE s.head,
         z.msg = s.msg \/ (z.msg = [s.msg EXCEPT ![Index(m.seq)] = m] /\ Acceptable(s, m))
  PROVE  History(z, d, w, M, C)
<1> DEFINE L == FirstLoad(s, w)
<1>1. MessagesOK(s, w, M) /\ AcksOK(s, d, C) /\ SourceOK(s, w) /\ DestinationOK(s, d, w)
      /\ DeliveredOK(s, d, w, M) /\ SeenOK(s, w)
  BY DEF History
<1>2. FirstLoad(z, w) = L
  BY DEF FirstLoad
<1>3. MessagesOK(z, w, M) /\ AcksOK(z, d, C) /\ DestinationOK(z, d, w) /\ DeliveredOK(z, d, w, M) /\ SeenOK(z, w)
  BY <1>1, <1>2 DEF MessagesOK, AcksOK, DestinationOK, DeliveredOK, SeenOK
<1>4. ASSUME s.epoch = s.flow_epoch
      PROVE  z.head = s.head /\ \A i \in s.sow .. s.head - 1 : z.msg[Index(i)].load = L + i
  <2>1. /\ s.head = s.flow_seq /\ s.sow <= s.head /\ s.head <= s.sow + MAX_MESS_PER_FLOW
        /\ \A i \in s.sow .. s.head - 1 : s.msg[Index(i)].load = L + i
    BY <1>1, <1>4 DEF SourceOK
  <2>2. Acceptable(s, m) => m.seq < s.head /\ m.load = L + m.seq /\ s.sow <= m.seq
    <3> SUFFICES ASSUME Acceptable(s, m) PROVE m.seq < s.head /\ m.load = L + m.seq /\ s.sow <= m.seq
      OBVIOUS
    <3>1. Name(m) \in M /\ m.epoch = s.flow_epoch /\ m.seq >= s.sow
      BY <1>4 DEF Acceptable, Kept
    <3>2. Name(m)[1] = s.flow_epoch /\ Name(m)[2] = m.seq /\ Name(m)[3] = m.load
      BY <3>1 DEF Name
    <3>3. m.seq < s.flow_seq /\ m.load = L + m.seq
      BY <1>1, <3>1, <3>2 DEF MessagesOK
    <3> QED
      BY <2>1, <3>1, <3>3 DEF Message, IsNode
  <2>3. m.seq \in Nat /\ s.head \in Nat /\ s.sow \in Nat /\ s.msg \in [Cells -> Message] /\ MAX_MESS_PER_FLOW \in Nat
    BY RoomAssumption DEF Message, IsNode
  <2>4. z.head = s.head
    BY <2>2, <2>3 DEF Accepts
  <2>5. ASSUME NEW i \in s.sow .. s.head - 1 PROVE z.msg[Index(i)].load = L + i
    <3>1. i \in Nat /\ Index(i) \in Cells /\ Index(m.seq) \in Cells /\ s.sow <= i /\ i < s.head
      BY <2>3, IndexIn
    <3>2. CASE z.msg = s.msg
      BY <2>1, <3>2
    <3>3. CASE z.msg = [s.msg EXCEPT ![Index(m.seq)] = m] /\ Acceptable(s, m)
      <4>1. m.seq < s.head /\ m.load = L + m.seq /\ s.sow <= m.seq
        BY <2>2, <3>3
      <4>2. CASE i = m.seq
        BY <2>3, <3>1, <3>3, <4>1, <4>2
      <4>3. CASE i # m.seq
        <5>1. (i < m.seq /\ m.seq < i + MAX_MESS_PER_FLOW) \/ (m.seq < i /\ i < m.seq + MAX_MESS_PER_FLOW)
          BY <2>1, <2>3, <3>1, <4>1, <4>3
        <5>2. Index(i) # Index(m.seq)
          BY <2>3, <3>1, <5>1, CellsDiffer
        <5>3. z.msg[Index(i)] = s.msg[Index(i)]
          BY <2>3, <3>1, <3>3, <5>2
        <5> QED
          BY <2>1, <5>3
      <4> QED
        BY <4>2, <4>3
    <3> QED
      BY <3>2, <3>3
  <2> QED
    BY <2>4, <2>5
<1>5. SourceOK(z, w)
  <2> HIDE DEF L
  <2> QED
    BY <1>1, <1>2, <1>4 DEF SourceOK
<1> QED
  BY <1>3, <1>5 DEF History

(* The destination delivers the next message. *)
LEMMA Delivering ==
  ASSUME NEW s, NEW d, NEW z, NEW w, NEW w2, NEW M, NEW C, History(s, d, w, M, C),
         IsNode(s), IsNode(d), IsNode(z), w.given \in Nat, w.delivered \in Seq(Nat),
         NEW m \in Message, Kept(m, M), Accepts(d, m),
         z.epoch = d.epoch, z.e2e = d.e2e, z.flow_epoch = d.flow_epoch, z.flow_seq = d.flow_seq,
         z.head = d.head + 1,
         w2.clock = w.clock, w2.given = w.given, w2.seen = w.seen, w2.delivered = Append(w.delivered, m.load)
  PROVE  History(s, z, w2, M, C)
<1> DEFINE L == FirstLoad(s, w)
           D == w.delivered
           n == Len(D)
           D2 == Append(D, m.load)
<1>1. MessagesOK(s, w, M) /\ AcksOK(s, d, C) /\ SourceOK(s, w) /\ DestinationOK(s, d, w)
      /\ DeliveredOK(s, d, w, M) /\ SeenOK(s, w)
  BY DEF History
<1>2. FirstLoad(s, w2) = L
  BY DEF FirstLoad
<1>3. /\ Name(m) \in M /\ Name(m)[1] = d.epoch /\ Name(m)[2] = d.head /\ Name(m)[3] = m.load
      /\ m.load \in Nat /\ d.head \in Nat \ {0} /\ d.epoch \in Nat /\ m.load <= w.given
  <2>1. Name(m) \in M /\ m.epoch = d.epoch /\ m.seq = d.head
    BY DEF Accepts, Acceptable, Kept
  <2>2. Name(m)[1] = m.epoch /\ Name(m)[2] = m.seq /\ Name(m)[3] = m.load
    BY DEF Name
  <2>3. m.load \in Nat /\ d.head \in Nat \ {0} /\ d.epoch \in Nat
    BY DEF Message, IsNode
  <2>4. m.load <= w.given
    BY <1>1, <2>1, <2>2, LoadBound
  <2> QED
    BY <2>1, <2>2, <2>3, <2>4
<1>4. /\ n \in Nat /\ Len(D2) = n + 1 /\ D2[n + 1] = m.load
      /\ \A i \in 1 .. n : D2[i] = D[i] /\ D[i] \in Nat
      /\ 1 .. n + 1 = (1 .. n) \cup {n + 1}
  <2>1. D \in Seq(Nat) /\ m.load \in Nat
    BY <1>3
  <2> HIDE DEF D
  <2>2. n \in Nat /\ \A i \in 1 .. n : D[i] \in Nat
    BY <2>1
  <2>3. Len(D2) = n + 1 /\ D2[n + 1] = m.load
    BY <2>1
  <2>4. \A i \in 1 .. n : D2[i] = D[i]
    BY <2>1
  <2> HIDE DEF n, D2
  <2>5. 1 .. n + 1 = (1 .. n) \cup {n + 1}
    BY <2>2
  <2> QED
    BY <2>2, <2>3, <2>4, <2>5
<1> HIDE DEF L, D, n, D2
<1>5. DestinationOK(s, z, w2)
  <2>1. d.epoch = s.flow_epoch => d.head + 1 <= s.flow_seq
    <3> SUFFICES ASSUME d.epoch = s.flow_epoch PROVE d.head + 1 <= s.flow_seq
      OBVIOUS
    <3>1. d.head < s.flow_seq
      BY <1>1, <1>3 DEF MessagesOK
    <3> QED
      BY <1>3, <3>1 DEF IsNode
  <2>2. d.e2e[Destination].aru < d.head + 1
    <3>1. d.e2e[Destination].aru \in Nat
      BY FlowAssumption DEF IsNode, FlowEnds, E2ECell
    <3> QED
      BY <1>1, <1>3, <3>1 DEF DestinationOK
  <2> QED
    BY <1>1, <2>1, <2>2 DEF DestinationOK
<1>6. MessagesOK(s, w2, M) /\ AcksOK(s, z, C) /\ SourceOK(s, w2) /\ SeenOK(s, w2)
  BY <1>1, <1>2 DEF MessagesOK, AcksOK, SourceOK, SeenOK, L
<1>7. \A i \in 1 .. n : D[i] < m.load
  <2>1. \A i \in 1 .. n : \A a \in M : a[1] = d.epoch /\ a[2] >= d.head => D[i] < a[3]
    BY <1>1 DEF DeliveredOK, D, n
  <2>2. Name(m)[2] >= d.head
    BY <1>3
  <2> QED
    BY <1>3, <2>1, <2>2
<1>8. Increasing(D2)
  <2>1. \A i, j \in 1 .. n : i < j => D[i] < D[j]
    BY <1>1 DEF DeliveredOK, Increasing, D, n
  <2> SUFFICES ASSUME NEW i \in 1 .. n + 1, NEW j \in 1 .. n + 1, i < j PROVE D2[i] < D2[j]
    BY <1>4 DEF Increasing
  <2>2. i \in 1 .. n
    BY <1>4
  <2>3. CASE j = n + 1
    BY <1>4, <1>7, <2>2, <2>3
  <2>4. CASE j \in 1 .. n
    BY <1>4, <2>1, <2>2, <2>4
  <2> QED
    BY <1>4, <2>3, <2>4
<1>9. ASSUME NEW a \in M, a[1] > d.epoch \/ (a[1] = d.epoch /\ a[2] >= d.head + 1)
      PROVE  m.load < a[3] /\ \A i \in 1 .. n : D[i] < a[3]
  <2>1. a[1] \in Nat /\ a[2] \in Nat /\ a[3] \in Nat
    BY <1>1 DEF MessagesOK
  <2>2. a[1] > d.epoch \/ (a[1] = d.epoch /\ a[2] >= d.head)
    BY <1>3, <1>9, <2>1
  <2>3. \A i \in 1 .. n : D[i] < a[3]
    BY <1>1, <2>2 DEF DeliveredOK, D, n
  <2>4. CASE a[1] > d.epoch
    <3>1. Name(m)[1] < a[1]
      BY <1>3, <2>1, <2>4
    <3> QED
      BY <1>1, <1>3, <2>3, <3>1 DEF MessagesOK
  <2>5. CASE a[1] = d.epoch /\ a[2] >= d.head + 1
    <3>1. a[3] - a[2] = m.load - d.head
      BY <1>1, <1>3, <2>5 DEF MessagesOK
    <3> QED
      BY <1>3, <2>1, <2>3, <2>5, <3>1
  <2> QED
    BY <1>9, <2>4, <2>5
<1>10. ASSUME d.epoch = s.flow_epoch, NEW q \in 1 .. d.head
       PROVE  \E i \in 1 .. n + 1 : D2[i] = L + q
  <2>1. CASE q = d.head
    <3>1. m.load = L + q
      BY <1>1, <1>3, <1>10, <2>1 DEF MessagesOK, L
    <3> QED
      BY <1>4, <3>1
  <2>2. CASE q # d.head
    <3>1. q \in 1 .. d.head - 1
      BY <1>3, <2>2
    <3>2. PICK i \in 1 .. n : D[i] = L + q
      BY <1>1, <1>10, <3>1 DEF DeliveredOK, D, n, L
    <3> QED
      BY <1>4, <3>2
  <2> QED
    BY <2>1, <2>2
<1>11. DeliveredOK(s, z, w2, M)
  <2>1. w2.delivered = D2 /\ z.head - 1 = d.head /\ Len(D2) = n + 1
    BY <1>3, <1>4 DEF D2, D
  <2>2. ASSUME NEW i \in 1 .. n + 1
        PROVE  /\ D2[i] <= w.given
               /\ \A a \in M : a[1] > d.epoch \/ (a[1] = d.epoch /\ a[2] >= d.head + 1) => D2[i] < a[3]
    <3>1. CASE i = n + 1
      BY <1>3, <1>4, <1>9, <3>1
    <3>2. CASE i \in 1 .. n
      BY <1>1, <1>4, <1>9, <3>2 DEF DeliveredOK, D, n
    <3> QED
      BY <1>4, <3>1, <3>2
  <2> QED
    BY <1>2, <1>8, <1>10, <2>1, <2>2 DEF DeliveredOK
<1> QED
  BY <1>5, <1>6, <1>11 DEF History

LEMMA DataStep ==
  ASSUME NEW nd, NEW lk, NEW w, NEW M, NEW C, System(nd, lk, w, M, C), NEW n \in Daemon, NEW j,
         NEW m \in Message, Kept(m, M), NEW w2,
         w2 = IF n = Destination /\ Accepts(nd[n], m) THEN [w EXCEPT !.delivered = Append(@, m.load)] ELSE w
  PROVE  System([nd EXCEPT ![n] = Process_Data(n, nd[n], j, m)], lk, w2, M, C)
<1> DEFINE v == nd[n]
           s == nd[Source]
           d == nd[Destination]
           F == s.flow_epoch
           z == Process_Data(n, v, j, m)
<1>1. /\ IsNode(s) /\ IsNode(d) /\ IsNode(v) /\ F \in Nat /\ F <= F /\ NodeOK(v, M, C, F)
      /\ lk \in [Directed -> Seq(PacketsOK(M, C, F))]
      /\ History(s, d, w, M, C) /\ WorldOK(w) /\ Source # Destination
      /\ w.given \in Nat /\ w.delivered \in Seq(Nat)
  BY SystemIs, FlowAssumption
<1>2. /\ IsNode(z) /\ z.epoch = v.epoch /\ z.e2e = v.e2e
      /\ z.flow_epoch = v.flow_epoch /\ z.flow_seq = v.flow_seq
      /\ z.head = IF Accepts(v, m) THEN v.head + 1 ELSE v.head
      /\ z.msg = v.msg \/ (z.msg = [v.msg EXCEPT ![Index(m.seq)] = m] /\ Acceptable(v, m))
      /\ n # Destination => z.sow = v.sow
  <2>1. IsNode(v)
    BY <1>1
  <2> HIDE DEF v
  <2> QED
    BY <2>1, ProcessDataDoes
<1>3. WorldOK(w2)
  <2>1. CASE w2 = w
    BY <1>1, <2>1
  <2>2. CASE w2 = [w EXCEPT !.delivered = Append(@, m.load)]
    <3> DEFINE D2 == Append(w.delivered, m.load)
    <3>1. D2 \in Seq(Nat)
      BY <1>1 DEF Message
    <3>2. w2 = [w EXCEPT !.delivered = D2]
      BY <2>2
    <3> HIDE DEF D2
    <3> QED
      BY <1>1, <3>1, <3>2 DEF WorldOK
  <2> QED
    BY <2>1, <2>2
<1> HIDE DEF v, s, d, z, F
<1>4. NodeOK(z, M, C, F)
  <2>1. ASSUME NEW c \in Cells PROVE Kept(z.msg[c], M)
    <3>1. z.msg[c] = m \/ z.msg[c] = v.msg[c]
      BY <1>1, <1>2 DEF IsNode
    <3> QED
      BY <1>1, <3>1 DEF NodeOK
  <2> QED
    BY <1>1, <1>2, <2>1 DEF NodeOK
<1>5. F = (IF n = Source THEN z.flow_epoch ELSE nd[Source].flow_epoch) /\ nd[Source].flow_epoch <= F
  BY <1>1, <1>2 DEF F, s, v
<1>6. History(IF n = Source THEN z ELSE nd[Source], IF n = Destination THEN z ELSE nd[Destination], w2, M, C)
  <2>1. CASE n = Source
    <3>1. v = s /\ w2 = w /\ n # Destination
      BY <1>1, <2>1 DEF v, s
    <3>2. History(z, d, w, M, C)
      BY <1>1, <1>2, <3>1, SourceData
    <3> QED
      BY <2>1, <3>1, <3>2 DEF d
  <2>2. CASE n = Destination /\ Accepts(v, m)
    <3>1. v = d /\ n # Source
      BY <1>1, <2>2 DEF v, d
    <3>2. w2 = [w EXCEPT !.delivered = Append(@, m.load)]
      BY <2>2 DEF v
    <3>3. /\ w2.clock = w.clock /\ w2.given = w.given /\ w2.seen = w.seen
          /\ w2.delivered = Append(w.delivered, m.load)
      <4> DEFINE D2 == Append(w.delivered, m.load)
      <4>1. w2 = [w EXCEPT !.delivered = D2]
        BY <3>2
      <4> HIDE DEF D2
      <4>2. w2.clock = w.clock /\ w2.given = w.given /\ w2.seen = w.seen /\ w2.delivered = D2
        BY <1>1, <4>1 DEF WorldOK
      <4> QED
        BY <4>2 DEF D2
    <3>4. z.head = d.head + 1 /\ Accepts(d, m)
      BY <1>2, <2>2, <3>1
    <3>5. History(s, z, w2, M, C)
      BY <1>1, <1>2, <3>1, <3>3, <3>4, Delivering
    <3> QED
      BY <2>2, <3>1, <3>5 DEF s
  <2>3. CASE n = Destination /\ ~Accepts(v, m)
    <3>1. v = d /\ n # Source /\ w2 = w
      BY <1>1, <2>3 DEF v, d
    <3>2. z.head = d.head /\ z.epoch = d.epoch /\ z.e2e = d.e2e /\ z.flow_seq = d.flow_seq
      BY <1>2, <2>3, <3>1
    <3>3. History(s, z, w, M, C)
      BY <1>1, <3>2 DEF History, AcksOK, DestinationOK, DeliveredOK
    <3> QED
      BY <2>3, <3>1, <3>3 DEF s
  <2>4. CASE n # Source /\ n # Destination
    BY <1>1, <2>4 DEF s, d
  <2> QED
    BY <2>1, <2>2, <2>3, <2>4
<1>7. M \subseteq M /\ C \subseteq C
  OBVIOUS
<1> QED
  BY <1>1, <1>3, <1>4, <1>5, <1>6, <1>7, Becoming DEF z, v

-----------------------------------------------------------------------------
(* Acknowledgements arrive. *)

LEMMA CellSays ==
  ASSUME NEW c \in E2ECell
  PROVE  /\ Says(c)[1] = c.de /\ Says(c)[2] = c.se /\ Says(c)[3] = c.aru
         /\ c.de \in Nat /\ c.se \in Nat /\ c.aru \in Nat
  BY DEF Says, E2ECell

LEMMA NotedTold ==
  ASSUME NEW cell \in E2ECell, NEW x, NEW C, NEW F, Told(cell, x, C, F)
  PROVE  Told(Noted(cell), x, C, F)
  BY NotedIs DEF Told, Says

(* The destination has a new epoch: the source starts over, in an epoch of   *)
(* its own that nobody has acknowledged, if it has sent anything.            *)
LEMMA SourceMeets ==
  ASSUME NEW s, NEW d, NEW z, NEW w, NEW M, NEW C, NEW cell \in E2ECell, History(s, d, w, M, C),
         IsNode(s), IsNode(d), IsNode(z), w.clock \in Nat, w.given \in Nat,
         Says(d.e2e[Destination]) \in C, Says(s.e2e[Destination]) \in C, Says(cell) \in C,
         cell.de > s.e2e[Destination].de,
         z.flow_epoch = IF s.flow_seq > 1 THEN w.clock ELSE s.flow_epoch, z.flow_seq = 1,
         z.e2e[Source].de = IF s.flow_seq > 1 THEN w.clock ELSE s.e2e[Source].de,
         z.e2e[Destination].de = cell.de, z.e2e[Destination].se = cell.se, z.e2e[Destination].aru = cell.aru,
         z.epoch = cell.se, z.sow = cell.aru + 1, z.head = cell.aru + 1
  PROVE  History(z, d, w, M, C)
<1> DEFINE F == s.flow_epoch
           G == z.flow_epoch
           old == s.e2e[Destination]
           L == FirstLoad(s, w)
<1>1. MessagesOK(s, w, M) /\ AcksOK(s, d, C) /\ SourceOK(s, w) /\ DestinationOK(s, d, w)
      /\ DeliveredOK(s, d, w, M) /\ SeenOK(s, w)
  BY DEF History
<1>2. /\ F \in Nat /\ G \in Nat /\ s.flow_seq \in Nat \ {0} /\ d.epoch \in Nat /\ old \in E2ECell
      /\ d.e2e[Destination] \in E2ECell
  BY FlowAssumption DEF IsNode, FlowEnds
<1>3. /\ cell.de \in Nat /\ cell.se \in Nat /\ cell.aru \in Nat /\ old.de \in Nat /\ old.se \in Nat
      /\ cell.de <= w.clock /\ cell.se <= F /\ (cell.se = F => cell.aru < s.flow_seq) /\ old.se < cell.de
  <2>1. /\ Says(cell)[1] = cell.de /\ Says(cell)[2] = cell.se /\ Says(cell)[3] = cell.aru
        /\ Says(old)[1] = old.de /\ Says(old)[2] = old.se
        /\ cell.de \in Nat /\ cell.se \in Nat /\ cell.aru \in Nat /\ old.de \in Nat /\ old.se \in Nat
        /\ d.e2e[Destination].de \in Nat
    BY <1>2, CellSays
  <2>2. cell.de <= d.e2e[Destination].de /\ cell.se <= F /\ (cell.se = F => cell.aru < s.flow_seq)
    BY <1>1, <2>1 DEF AcksOK
  <2>3. old.se < cell.de
    <3>1. Says(old)[1] < Says(cell)[1]
      BY <2>1
    <3>2. Says(old)[2] < Says(cell)[1]
      BY <1>1, <3>1 DEF AcksOK
    <3> QED
      BY <2>1, <3>2
  <2>4. d.e2e[Destination].de <= w.clock
    BY <1>1 DEF DestinationOK
  <2> QED
    BY <2>1, <2>2, <2>3, <2>4
<1>4. \/ G > F
      \/ G = F /\ s.flow_seq = 1
  <2>1. CASE s.flow_seq > 1
    <3>1. old.se = F
      BY <1>1, <2>1 DEF SourceOK
    <3> QED
      BY <1>2, <1>3, <2>1, <3>1
  <2>2. CASE ~(s.flow_seq > 1)
    BY <1>2, <2>2
  <2> QED
    BY <2>1, <2>2
<1>5. /\ 1 <= F /\ F <= w.clock /\ 1 <= G /\ G <= w.clock /\ z.e2e[Source].de = G
  <2>1. 1 <= F /\ F <= w.clock /\ s.e2e[Source].de = F
    BY <1>1 DEF SourceOK
  <2> QED
    BY <1>2, <1>4, <2>1
<1>6. FirstLoad(z, w) = w.given /\ (G = F => L = w.given)
  BY <1>2, <1>4 DEF FirstLoad
<1>7. MessagesOK(z, w, M)
  <2>1. CASE G = F
    <3>1. FirstLoad(z, w) = L /\ z.flow_seq = s.flow_seq
      BY <1>2, <1>4, <1>6, <2>1
    <3> QED
      BY <1>1, <2>1, <3>1 DEF MessagesOK
  <2>2. CASE G > F
    <3>1. ASSUME NEW m \in M PROVE m[1] < G /\ m[1] <= G /\ m[1] # G /\ m[3] <= w.given
      <4>1. m[1] <= F
        BY <1>1 DEF MessagesOK
      <4>2. m[1] \in Nat /\ m[3] <= w.given
        BY <1>1, LoadBound
      <4> QED
        BY <1>2, <2>2, <4>1, <4>2
    <3> QED
      BY <1>1, <1>6, <3>1 DEF MessagesOK
  <2> QED
    BY <1>4, <2>1, <2>2
<1>8. AcksOK(z, d, C)
  <2>1. ASSUME NEW c \in C PROVE c[2] <= G /\ (c[2] = G => c[3] < z.flow_seq)
    <3>1. c[2] <= F /\ (c[2] = F => c[3] < s.flow_seq) /\ c[2] \in Nat
      BY <1>1 DEF AcksOK
    <3> QED
      BY <1>2, <1>4, <3>1
  <2> QED
    BY <1>1, <2>1 DEF AcksOK
<1>9. SourceOK(z, w)
  <2>1. ASSUME z.epoch = G
        PROVE  z.head = z.flow_seq /\ z.sow <= z.head /\ z.head <= z.sow + MAX_MESS_PER_FLOW /\ z.sow .. z.head - 1 = {}
    <3>1. cell.aru = 0
      BY <1>2, <1>3, <1>4, <2>1
    <3> QED
      BY <3>1, RoomAssumption
  <2> QED
    BY <1>5, <2>1 DEF SourceOK
<1>10. d.epoch <= F
  BY EpochKnown
<1>11. d.epoch = G => G = F /\ s.flow_seq = 1 /\ FirstLoad(z, w) = L
  BY <1>2, <1>4, <1>6, <1>10
<1>12. DestinationOK(z, d, w)
  BY <1>1, <1>11 DEF DestinationOK
<1>13. DeliveredOK(z, d, w, M)
  <2> HIDE DEF L
  <2>1. d.epoch = G => \A q \in 1 .. d.head - 1 : \E i \in 1 .. Len(w.delivered) : w.delivered[i] = FirstLoad(z, w) + q
    BY <1>1, <1>11 DEF DeliveredOK, L
  <2> QED
    BY <1>1, <2>1 DEF DeliveredOK
<1>14. SeenOK(z, w)
  <2>1. ASSUME NEW p \in DOMAIN w.seen
        PROVE  p \in Nat /\ w.seen[p] \in Nat /\ p <= w.given /\ w.seen[p] < cell.de
    <3>1. p \in Nat /\ w.seen[p] \in Nat /\ p <= w.given /\ w.seen[p] <= old.de
      BY <1>1 DEF SeenOK
    <3> QED
      BY <1>3, <3>1
  <2> QED
    BY <1>3, <2>1 DEF SeenOK
<1> QED
  BY <1>7, <1>8, <1>9, <1>12, <1>13, <1>14 DEF History

(* In the same epoch of the destination an acknowledgement moves the window. *)
LEMMA SourceHears ==
  ASSUME NEW s, NEW d, NEW z, NEW w, NEW M, NEW C, NEW cell \in E2ECell, History(s, d, w, M, C),
         IsNode(s), IsNode(z), w.given \in Nat, Says(cell) \in C,
         cell.de = s.e2e[Destination].de, Later(cell, s.e2e[Destination]),
         z.flow_epoch = s.flow_epoch, z.flow_seq = s.flow_seq, z.e2e[Source] = s.e2e[Source],
         z.e2e[Destination].de = cell.de, z.e2e[Destination].se = cell.se, z.e2e[Destination].aru = cell.aru,
         NEW c, Applies(s, s.e2e[Destination], cell, c),
         z.epoch = c.epoch, z.sow = c.sow, z.head = c.head, z.msg = c.msg
  PROVE  History(z, d, w, M, C)
<1> DEFINE F == s.flow_epoch
           old == s.e2e[Destination]
           L == FirstLoad(s, w)
<1>1. MessagesOK(s, w, M) /\ AcksOK(s, d, C) /\ SourceOK(s, w) /\ DestinationOK(s, d, w)
      /\ DeliveredOK(s, d, w, M) /\ SeenOK(s, w)
  BY DEF History
<1>2. /\ F \in Nat /\ s.flow_seq \in Nat \ {0} /\ s.head \in Nat \ {0} /\ old \in E2ECell
      /\ old.se \in Nat /\ old.aru \in Nat /\ cell.se \in Nat /\ cell.aru \in Nat /\ cell.de \in Nat
      /\ MAX_MESS_PER_FLOW \in Nat
  BY FlowAssumption, RoomAssumption DEF IsNode, FlowEnds, E2ECell
<1>3. cell.se <= F /\ (cell.se = F => cell.aru < s.flow_seq)
  <2>1. Says(cell)[2] = cell.se /\ Says(cell)[3] = cell.aru
    BY CellSays
  <2> QED
    BY <1>1, <2>1 DEF AcksOK
<1>4. FirstLoad(z, w) = L
  BY DEF FirstLoad
<1>5. /\ 1 <= F /\ F <= w.clock /\ s.e2e[Source].de = F /\ s.epoch = old.se /\ s.sow = old.aru + 1
      /\ (s.flow_seq > 1 => s.epoch = F)
  BY <1>1 DEF SourceOK
<1> HIDE DEF L, F, old
<1>6. MessagesOK(z, w, M) /\ AcksOK(z, d, C) /\ DestinationOK(z, d, w) /\ DeliveredOK(z, d, w, M) /\ SeenOK(z, w)
  BY <1>1, <1>4 DEF MessagesOK, AcksOK, DestinationOK, DeliveredOK, SeenOK, L
<1>7. CASE cell.se > old.se
  <2>1. z.epoch = cell.se /\ z.sow = cell.aru + 1 /\ z.head = cell.aru + 1
    BY <1>7 DEF Applies, Over, old
  <2>2. s.flow_seq = 1
    BY <1>2, <1>3, <1>5, <1>7
  <2>3. ASSUME z.epoch = F
        PROVE  z.head = z.flow_seq /\ z.sow <= z.head /\ z.head <= z.sow + MAX_MESS_PER_FLOW /\ z.sow .. z.head - 1 = {}
    <3>1. cell.aru = 0
      BY <1>2, <1>3, <2>1, <2>2, <2>3
    <3> QED
      BY <1>2, <2>1, <2>2, <3>1
  <2>4. SourceOK(z, w)
    BY <1>5, <2>1, <2>2, <2>3 DEF SourceOK, F
  <2> QED
    BY <1>6, <2>4 DEF History
<1>8. CASE ~(cell.se > old.se)
  <2>1. cell.se = old.se /\ cell.aru > old.aru
    BY <1>2, <1>8 DEF Later, old
  <2>2. /\ z.epoch = s.epoch /\ z.sow = Larger(s.sow, cell.aru + 1) /\ z.head = Larger(s.head, z.sow)
        /\ \A i \in Cells : i \notin {Index(k) : k \in s.sow .. Smaller(cell.aru + 1, s.head) - 1}
                            => z.msg[i] = s.msg[i]
    <3>1. ~Over(old, cell)
      BY <1>2, <1>8 DEF Over, old
    <3> QED
      BY <3>1 DEF Applies, old
  <2>3. z.sow = cell.aru + 1 /\ z.epoch = cell.se
    BY <1>2, <1>5, <2>1, <2>2 DEF Larger
  <2>4. ASSUME z.epoch = F
        PROVE  /\ z.head = z.flow_seq /\ z.sow <= z.head /\ z.head <= z.sow + MAX_MESS_PER_FLOW
               /\ \A i \in z.sow .. z.head - 1 : z.msg[Index(i)].load = L + i
    <3>1. /\ s.head = s.flow_seq /\ s.sow <= s.head /\ s.head <= s.sow + MAX_MESS_PER_FLOW
          /\ \A i \in s.sow .. s.head - 1 : s.msg[Index(i)].load = L + i
      BY <1>1, <2>2, <2>4 DEF SourceOK, L, F
    <3>2. cell.aru < s.flow_seq /\ s.sow = old.aru + 1
      BY <1>3, <1>5, <2>3, <2>4
    <3>3. z.head = s.head /\ z.sow <= z.head /\ s.sow <= z.sow /\ z.head <= z.sow + MAX_MESS_PER_FLOW
          /\ Smaller(cell.aru + 1, s.head) - 1 = cell.aru
      BY <1>2, <2>1, <2>2, <2>3, <3>1, <3>2 DEF Larger, Smaller
    <3>4. ASSUME NEW i \in z.sow .. z.head - 1 PROVE z.msg[Index(i)].load = L + i
      <4>1. i \in Nat /\ cell.aru < i /\ i < s.head /\ s.sow <= i
        BY <1>2, <2>1, <2>3, <3>2, <3>3
      <4>2. ASSUME NEW k \in s.sow .. cell.aru PROVE Index(i) # Index(k)
        <5>1. k \in Nat /\ k < i /\ i < k + MAX_MESS_PER_FLOW
          BY <1>2, <3>1, <3>2, <4>1
        <5> QED
          BY <4>1, <5>1, CellsDiffer
      <4>3. z.msg[Index(i)] = s.msg[Index(i)]
        BY <2>2, <3>3, <4>1, <4>2, IndexIn
      <4>4. i \in s.sow .. s.head - 1
        BY <1>2, <3>2, <4>1
      <4> QED
        BY <3>1, <4>3, <4>4
    <3> QED
      BY <3>1, <3>3, <3>4
  <2>5. SourceOK(z, w)
    BY <1>4, <1>5, <2>2, <2>3, <2>4 DEF SourceOK, F
  <2> QED
    BY <1>6, <2>5 DEF History
<1> QED
  BY <1>7, <1>8

(* The source has a new epoch, and the destination starts over with it. *)
LEMMA DestinationMeets ==
  ASSUME NEW s, NEW d, NEW z, NEW w, NEW M, NEW C, NEW cell \in E2ECell, History(s, d, w, M, C),
         IsNode(s), IsNode(d), IsNode(z), Says(d.e2e[Destination]) \in C,
         cell.de > d.e2e[Source].de, cell.de <= s.flow_epoch,
         z.epoch = cell.de, z.head = 1, z.flow_seq = 1, z.e2e[Source].de = cell.de,
         z.e2e[Destination].de = d.e2e[Destination].de, z.e2e[Destination].se = cell.de,
         z.e2e[Destination].aru = 0
  PROVE  History(s, z, w, M, C \cup {Says(z.e2e[Destination])})
<1> DEFINE k == d.e2e[Destination]
           new == Says(z.e2e[Destination])
           C2 == C \cup {new}
           F == s.flow_epoch
<1>1. MessagesOK(s, w, M) /\ AcksOK(s, d, C) /\ SourceOK(s, w) /\ DestinationOK(s, d, w)
      /\ DeliveredOK(s, d, w, M) /\ SeenOK(s, w)
  BY DEF History
<1>2. /\ F \in Nat /\ s.flow_seq \in Nat \ {0} /\ d.epoch \in Nat /\ k \in E2ECell
      /\ z.e2e[Destination] \in E2ECell
  BY FlowAssumption DEF IsNode, FlowEnds
<1>3. /\ new[1] = k.de /\ new[2] = cell.de /\ new[3] = 0 /\ new \in Nat \X Nat \X Nat
      /\ Says(k)[1] = k.de /\ Says(k) \in C /\ k.de \in Nat /\ cell.de \in Nat
  BY <1>2, CellSays DEF Says, E2ECell
<1>4. d.epoch < cell.de
  BY <1>1, <1>2, <1>3 DEF DestinationOK
<1> HIDE DEF new, F, k
<1>5. AcksOK(s, z, C2)
  <2>1. C2 \subseteq Nat \X Nat \X Nat /\ <<0, 0, 0>> \in C2
    BY <1>1, <1>3 DEF AcksOK
  <2>2. ASSUME NEW c \in C
        PROVE  /\ c[1] \in Nat /\ c[2] \in Nat /\ c[3] \in Nat /\ c[1] <= k.de /\ c[2] <= F
               /\ (c[1] = k.de => c[2] <= d.epoch) /\ (c[2] = F => c[3] < s.flow_seq)
    BY <1>1 DEF AcksOK, F, k
  <2>3. ASSUME NEW c \in C2
        PROVE  /\ c[1] <= k.de /\ c[2] <= F
               /\ c[1] = k.de => c[2] <= cell.de /\ (c[2] = cell.de => c[3] <= 0)
               /\ c[2] = F => c[3] < s.flow_seq
    <3>1. CASE c \in C
      BY <1>2, <1>3, <1>4, <2>2, <3>1
    <3>2. CASE c = new
      BY <1>2, <1>3, <3>2 DEF F
    <3> QED
      BY <3>1, <3>2
  <2>4. ASSUME NEW b \in C2, NEW c \in C2, b[1] < c[1] PROVE b[2] < c[1]
    <3>1. CASE b \in C /\ c \in C
      BY <1>1, <2>4, <3>1 DEF AcksOK
    <3>2. CASE b \in C /\ c = new
      <4>1. b[1] < Says(k)[1]
        BY <1>3, <2>4, <3>2
      <4>2. b[2] < Says(k)[1]
        BY <1>1, <1>3, <3>2, <4>1 DEF AcksOK
      <4> QED
        BY <1>3, <3>2, <4>2
    <3>3. CASE b = new
      <4>1. c[1] <= k.de /\ c[1] \in Nat
        BY <2>1, <2>3
      <4> QED
        BY <1>3, <2>4, <3>3, <4>1
    <3> QED
      BY <3>1, <3>2, <3>3
  <2> HIDE DEF C2
  <2> QED
    BY <2>1, <2>3, <2>4 DEF AcksOK, F, k
<1>6. DestinationOK(s, z, w)
  BY <1>1, <1>2 DEF DestinationOK
<1>7. DeliveredOK(s, z, w, M)
  <2>1. z.head - 1 = 0 /\ 1 .. 0 = {}
    OBVIOUS
  <2>2. ASSUME NEW m \in M, m[1] > cell.de \/ (m[1] = cell.de /\ m[2] >= 1)
        PROVE  m[1] > d.epoch
    <3>1. m[1] \in Nat
      BY <1>1 DEF MessagesOK
    <3> QED
      BY <1>2, <1>3, <1>4, <2>2, <3>1
  <2> QED
    BY <1>1, <2>1, <2>2 DEF DeliveredOK
<1> QED
  BY <1>1, <1>5, <1>6, <1>7 DEF History, new

(* An acknowledgement at a daemon between the ends, or at its own sender. *)
LEMMA OtherE2EStep ==
  ASSUME NEW nd, NEW lk, NEW w, NEW M, NEW C, System(nd, lk, w, M, C), NEW n \in Daemon, NEW j,
         NEW x \in FlowEnds, NEW cell \in E2ECell, Told(cell, x, C, nd[Source].flow_epoch), n # Opposite(x)
  PROVE  System([nd EXCEPT ![n] = Process_E2E(n, nd[n], j, x, cell)], lk, w, M, C)
<1> DEFINE v == nd[n]
           s == nd[Source]
           d == nd[Destination]
           F == s.flow_epoch
           z == Process_E2E(n, v, j, x, cell)
<1>1. /\ IsNode(s) /\ IsNode(d) /\ IsNode(v) /\ F \in Nat /\ F <= F /\ NodeOK(v, M, C, F)
      /\ lk \in [Directed -> Seq(PacketsOK(M, C, F))]
      /\ History(s, d, w, M, C) /\ WorldOK(w) /\ Source # Destination
      /\ Source \in FlowEnds /\ Destination \in FlowEnds
  BY SystemIs, FlowAssumption DEF FlowEnds
<1>2. \/ z = v
      \/ /\ Later(cell, v.e2e[x])
         /\ IsNode(z) /\ z.e2e = [v.e2e EXCEPT ![x] = Noted(cell)]
         /\ z.flow_epoch = v.flow_epoch /\ z.flow_seq = v.flow_seq
         /\ \A k \in Cells : z.msg[k] \in {v.msg[k], NoMsg}
         /\ x = Source => z.msg = v.msg /\ z.epoch = v.epoch /\ z.sow = v.sow /\ z.head = v.head
  <2>1. IsNode(v)
    BY <1>1
  <2> HIDE DEF v
  <2> QED
    BY <2>1, OtherE2EDoes
<1>3. CASE z = v
  <2>1. Alike(v, z)
    BY <1>1, <1>3, AlikeRefl
  <2> HIDE DEF z
  <2>2. System([nd EXCEPT ![n] = z], lk, w, M, C)
    BY <1>1, <2>1, QuietBecoming
  <2> QED
    BY <2>2 DEF z
<1> HIDE DEF z, v, s, d, F
<1>4. CASE z # v
  <2>1. /\ Later(cell, v.e2e[x])
        /\ IsNode(z) /\ z.e2e = [v.e2e EXCEPT ![x] = Noted(cell)]
        /\ z.flow_epoch = v.flow_epoch /\ z.flow_seq = v.flow_seq
        /\ \A k \in Cells : z.msg[k] \in {v.msg[k], NoMsg}
        /\ x = Source => z.msg = v.msg /\ z.epoch = v.epoch /\ z.sow = v.sow /\ z.head = v.head
    BY <1>2, <1>4
  <2>2. NodeOK(z, M, C, F)
    <3>1. ASSUME NEW c \in Cells PROVE Kept(z.msg[c], M)
      <4>1. z.msg[c] = v.msg[c] \/ z.msg[c] = NoMsg
        BY <2>1
      <4>2. Kept(NoMsg, M)
        BY DEF Kept, NoMsg
      <4> QED
        BY <1>1, <4>1, <4>2 DEF NodeOK
    <3>2. ASSUME NEW y \in FlowEnds PROVE Told(z.e2e[y], y, C, F)
      <4>1. CASE y = x
        BY <1>1, <2>1, <4>1, NotedTold DEF IsNode, F, s
      <4>2. CASE y # x
        BY <1>1, <2>1, <4>2 DEF NodeOK, IsNode
      <4> QED
        BY <4>1, <4>2
    <3> QED
      BY <2>1, <3>1, <3>2 DEF NodeOK
  <2>3. F = (IF n = Source THEN z.flow_epoch ELSE nd[Source].flow_epoch) /\ nd[Source].flow_epoch <= F
    BY <1>1, <2>1 DEF F, s, v
  <2>4. History(IF n = Source THEN z ELSE nd[Source], IF n = Destination THEN z ELSE nd[Destination], w, M, C)
    <3>1. CASE n = Source
      <4>1. v = s /\ x = Source /\ n # Destination
        BY <1>1, <3>1, OppositeIs DEF v, s, FlowEnds
      <4>2. /\ z.e2e[Source].de = cell.de /\ z.e2e[Destination] = s.e2e[Destination]
            /\ z.msg = s.msg /\ z.epoch = s.epoch /\ z.sow = s.sow /\ z.head = s.head
            /\ z.flow_epoch = s.flow_epoch /\ z.flow_seq = s.flow_seq
        BY <1>1, <2>1, <4>1, NotedIs DEF IsNode
      <4>3. cell.de = s.e2e[Source].de
        <5>1. cell.de <= F /\ s.e2e[Source].de = F /\ Later(cell, s.e2e[Source]) /\ cell.de \in Nat
          BY <1>1, <2>1, <4>1 DEF Told, History, SourceOK, F, s, E2ECell
        <5> QED
          BY <1>1, <5>1 DEF Later
      <4>4. FirstLoad(z, w) = FirstLoad(s, w)
        BY <4>2 DEF FirstLoad
      <4>5. History(z, d, w, M, C)
        BY <1>1, <4>2, <4>3, <4>4 DEF History, MessagesOK, AcksOK, SourceOK, DestinationOK, DeliveredOK, SeenOK
      <4> QED
        BY <3>1, <4>1, <4>5 DEF d
    <3>2. CASE n = Destination
      <4>1. v = d /\ x = Destination
        BY <1>1, <3>2, OppositeIs DEF v, d, FlowEnds
      <4>2. Says(cell) \in C /\ d.e2e[Destination] \in E2ECell
        BY <1>1, <4>1 DEF Told, IsNode
      <4>3. /\ cell.de <= d.e2e[Destination].de
            /\ cell.de = d.e2e[Destination].de => cell.se <= d.e2e[Destination].se
            /\ cell.de = d.e2e[Destination].de /\ cell.se = d.e2e[Destination].se
                 => cell.aru <= d.e2e[Destination].aru
        <5>1. Says(cell)[1] = cell.de /\ Says(cell)[2] = cell.se /\ Says(cell)[3] = cell.aru
          BY CellSays
        <5> QED
          BY <1>1, <4>2, <5>1 DEF History, AcksOK, DestinationOK
      <4>4. ~Later(cell, d.e2e[Destination])
        BY <4>2, <4>3 DEF Later, E2ECell
      <4> QED
        BY <2>1, <4>1, <4>4
    <3>3. CASE n # Source /\ n # Destination
      BY <1>1, <3>3 DEF s, d
    <3> QED
      BY <3>1, <3>2, <3>3
  <2>5. M \subseteq M /\ C \subseteq C /\ lk \in [Directed -> Seq(PacketsOK(M, C, F))]
    BY <1>1
  <2>6. System([nd EXCEPT ![n] = z], lk, w, M, C)
    BY <1>1, <2>2, <2>3, <2>4, <2>5, Becoming
  <2> QED
    BY <2>6 DEF z, v
<1> QED
  BY <1>3, <1>4 DEF z

Answers(v, x, cell, a, w) ==
  \/ w = v
  \/ Later(cell, v.e2e[x]) /\ w = a /\ cell.se = a.flow_epoch /\ cell.aru # 0
  \/ /\ Later(cell, v.e2e[x])
     /\ IsNode(w) /\ w.e2e = [a.e2e EXCEPT ![x] = Noted(cell)]
     /\ w.flow_epoch = a.flow_epoch /\ w.flow_seq = a.flow_seq
     /\ x = Source => w.msg = a.msg /\ w.epoch = a.epoch /\ w.sow = a.sow /\ w.head = a.head
     /\ x = Destination => \E c : /\ Applies(a, v.e2e[x], cell, c) /\ w.msg = c.msg
                                  /\ w.epoch = c.epoch /\ w.sow = c.sow /\ w.head = c.head

LEMMA PeerAnswers ==
  ASSUME NEW n, NEW v, NEW j, NEW x \in FlowEnds, NEW cell \in E2ECell, IsNode(v), n = Opposite(x),
         world.clock \in Nat
  PROVE  Answers(v, x, cell, Met(n, v, x, cell), Process_E2E(n, v, j, x, cell))
  BY PeerE2EDoes DEF Answers

(* The source's acknowledgement at the destination. *)
LEMMA DestinationE2EStep ==
  ASSUME NEW nd, NEW lk, NEW M, NEW C, System(nd, lk, world, M, C), NEW j,
         NEW cell \in E2ECell, Told(cell, Source, C, nd[Source].flow_epoch)
  PROVE  \E C2 : System([nd EXCEPT ![Destination] = Process_E2E(Destination, nd[Destination], j, Source, cell)],
                        lk, world, M, C2)
<1> DEFINE s == nd[Source]
           d == nd[Destination]
           F == s.flow_epoch
           a == Met(Destination, d, Source, cell)
           z == Process_E2E(Destination, d, j, Source, cell)
<1>1. /\ IsNode(s) /\ IsNode(d) /\ F \in Nat /\ F <= F /\ NodeOK(d, M, C, F)
      /\ lk \in [Directed -> Seq(PacketsOK(M, C, F))]
      /\ History(s, d, world, M, C) /\ WorldOK(world) /\ Source # Destination
      /\ Source \in FlowEnds /\ Destination \in FlowEnds /\ world.clock \in Nat
      /\ Destination \in Daemon /\ Source \in Daemon
  BY SystemIs, FlowAssumption DEF FlowEnds
<1>2. cell.aru = 0 /\ cell.de <= F /\ cell.de \in Nat
  BY <1>1 DEF Told, E2ECell
<1>3. \/ z = d
      \/ /\ Later(cell, d.e2e[Source])
         /\ IsNode(z) /\ z.e2e = [a.e2e EXCEPT ![Source] = Noted(cell)]
         /\ z.flow_epoch = a.flow_epoch /\ z.flow_seq = a.flow_seq
         /\ z.msg = a.msg /\ z.epoch = a.epoch /\ z.sow = a.sow /\ z.head = a.head
  <2>1. Destination = Opposite(Source) /\ IsNode(d)
    BY <1>1, OppositeIs
  <2>2. Answers(d, Source, cell, a, z)
    <3> HIDE DEF d
    <3> QED
      BY <1>1, <2>1, PeerAnswers
  <2> HIDE DEF d, a, z
  <2> QED
    BY <1>2, <2>2 DEF Answers
<1>4. CASE z = d
  <2>1. Alike(d, z)
    BY <1>1, <1>4, AlikeRefl
  <2> HIDE DEF z
  <2>2. System([nd EXCEPT ![Destination] = z], lk, world, M, C)
    BY <1>1, <2>1, QuietBecoming
  <2> QED
    BY <2>2 DEF z
<1> HIDE DEF z
<1>5. CASE z # d
  <2>1. /\ Later(cell, d.e2e[Source])
        /\ IsNode(z) /\ z.e2e = [a.e2e EXCEPT ![Source] = Noted(cell)]
        /\ z.flow_epoch = a.flow_epoch /\ z.flow_seq = a.flow_seq
        /\ z.msg = a.msg /\ z.epoch = a.epoch /\ z.sow = a.sow /\ z.head = a.head
    BY <1>3, <1>5
  <2>2. DestinationOK(s, d, world) /\ d.flow_seq = 1 /\ Says(d.e2e[Destination]) \in C
        /\ d.e2e \in [FlowEnds -> E2ECell]
    BY <1>1 DEF History, DestinationOK, NodeOK, Told, IsNode
  <2>3. /\ z.e2e[Source].de = cell.de /\ z.e2e[Source] = Noted(cell) /\ z.e2e[Destination] = a.e2e[Destination]
        /\ z.msg = d.msg
    <3>1. IsNode(a) /\ a.msg = d.msg
      <4> HIDE DEF d
      <4>1. IsNode(a)
        BY <1>1, MetIs
      <4>2. Restarts(Destination, d, cell, world.clock, NewPeerEpoch(Destination, d, Source, cell))
        BY <1>1, NewPeerEpochDoes
      <4>3. a = d \/ a = NewPeerEpoch(Destination, d, Source, cell)
        BY DEF Met
      <4> HIDE DEF a
      <4> QED
        BY <4>1, <4>2, <4>3 DEF Restarts
    <3> HIDE DEF a
    <3> QED
      BY <1>1, <2>1, <3>1, NotedIs DEF IsNode
  <2> DEFINE new == Says(z.e2e[Destination])
             C2 == C \cup {new}
  <2>4. History(s, z, world, M, C2)
    <3>1. CASE cell.de > d.e2e[Source].de
      <4>1. Restarts(Destination, d, cell, world.clock, a)
        <5>1. a = NewPeerEpoch(Destination, d, Source, cell)
          BY <3>1 DEF Met
        <5> HIDE DEF d, a
        <5> QED
          BY <1>1, <5>1, NewPeerEpochDoes
      <4> HIDE DEF a, d, s
      <4>2. /\ a.flow_seq = 1 /\ a.epoch = cell.de /\ a.head = 1
            /\ z.e2e[Destination].de = d.e2e[Destination].de /\ z.e2e[Destination].se = cell.de
            /\ z.e2e[Destination].aru = 0
        BY <2>2, <2>3, <4>1 DEF Restarts
      <4>3. cell.de <= s.flow_epoch
        BY <1>2 DEF F
      <4> HIDE DEF F
      <4> QED
        <5>1. /\ cell \in E2ECell /\ IsNode(s) /\ IsNode(d) /\ IsNode(z) /\ Says(d.e2e[Destination]) \in C
              /\ History(s, d, world, M, C)
          BY <1>1, <2>1, <2>2, <2>3
        <5>2. /\ z.epoch = cell.de /\ z.head = 1 /\ z.flow_seq = 1 /\ z.e2e[Source].de = cell.de
          BY <2>1, <2>3, <4>2
        <5> HIDE DEF z
        <5> QED
          BY <3>1, <4>2, <4>3, <5>1, <5>2, DestinationMeets
    <3>2. CASE ~(cell.de > d.e2e[Source].de)
      <4>1. a = d
        BY <3>2 DEF Met
      <4> HIDE DEF a
      <4>2. cell.de = d.e2e[Source].de /\ C2 = C
        <5>1. d.e2e[Source].de \in Nat
          BY <1>1, <2>2 DEF E2ECell
        <5>2. cell.de = d.e2e[Source].de
          BY <1>2, <2>1, <3>2, <5>1 DEF Later
        <5> QED
          BY <2>2, <2>3, <4>1, <5>2
      <4> HIDE DEF d, s, C2
      <4>3. History(s, z, world, M, C)
        BY <1>1, <2>1, <2>3, <4>1, <4>2 DEF History, AcksOK, DestinationOK, DeliveredOK
      <4> QED
        BY <4>2, <4>3
    <3> QED
      BY <3>1, <3>2
  <2> HIDE DEF a
  <2>5. NodeOK(z, M, C2, F)
    <3>1. \A c \in Cells : Kept(z.msg[c], M)
      BY <1>1, <2>3 DEF NodeOK
    <3>2. Told(z.e2e[Destination], Destination, C2, F)
      BY DEF Told
    <3>3. Told(z.e2e[Source], Source, C2, F)
      <4>1. Told(cell, Source, C2, F)
        BY <1>1, <1>2 DEF Told
      <4> QED
        BY <2>3, <4>1, NotedTold
    <3> QED
      BY <2>1, <3>1, <3>2, <3>3 DEF NodeOK, FlowEnds
  <2>6. lk \in [Directed -> Seq(PacketsOK(M, C2, F))] /\ C \subseteq C2 /\ M \subseteq M
    BY <1>1, PacketsGrow, LinksGrow
  <2> HIDE DEF C2
  <2>7. System([nd EXCEPT ![Destination] = z], lk, world, M, C2)
    BY <1>1, <2>4, <2>5, <2>6, Becoming
  <2> QED
    BY <2>7 DEF z
<1> QED
  BY <1>4, <1>5

(* The destination's acknowledgement at the source. *)
LEMMA SourceE2EStep ==
  ASSUME NEW nd, NEW lk, NEW M, NEW C, System(nd, lk, world, M, C), NEW j,
         NEW cell \in E2ECell, Told(cell, Destination, C, nd[Source].flow_epoch)
  PROVE  System([nd EXCEPT ![Source] = Process_E2E(Source, nd[Source], j, Destination, cell)],
                lk, world, M, C)
<1> DEFINE s == nd[Source]
           d == nd[Destination]
           F == s.flow_epoch
           old == s.e2e[Destination]
           a == Met(Source, s, Destination, cell)
           z == Process_E2E(Source, s, j, Destination, cell)
<1>1. /\ IsNode(s) /\ IsNode(d) /\ F \in Nat /\ F <= F /\ NodeOK(s, M, C, F) /\ NodeOK(d, M, C, F)
      /\ lk \in [Directed -> Seq(PacketsOK(M, C, F))]
      /\ History(s, d, world, M, C) /\ WorldOK(world) /\ Source # Destination
      /\ Source \in FlowEnds /\ Destination \in FlowEnds /\ world.clock \in Nat /\ world.given \in Nat
      /\ Destination \in Daemon /\ Source \in Daemon
  BY SystemIs, FlowAssumption DEF FlowEnds
<1>2. /\ Says(cell) \in C /\ Says(old) \in C /\ Says(d.e2e[Destination]) \in C
      /\ s.e2e \in [FlowEnds -> E2ECell] /\ old \in E2ECell
  BY <1>1 DEF Told, NodeOK, IsNode
<1>3. SourceOK(s, world) /\ AcksOK(s, d, C) /\ DestinationOK(s, d, world)
  BY <1>1 DEF History
<1>4. /\ cell.de \in Nat /\ cell.se \in Nat /\ cell.aru \in Nat /\ old.de \in Nat /\ old.se \in Nat
      /\ cell.se <= F /\ (cell.se = F => cell.aru < s.flow_seq) /\ cell.de <= world.clock
      /\ cell.de > old.de => old.se < cell.de
  <2>1. /\ Says(cell)[1] = cell.de /\ Says(cell)[2] = cell.se /\ Says(cell)[3] = cell.aru
        /\ Says(old)[1] = old.de /\ Says(old)[2] = old.se
        /\ cell.de \in Nat /\ cell.se \in Nat /\ cell.aru \in Nat /\ old.de \in Nat /\ old.se \in Nat
    BY <1>2, CellSays
  <2>2. cell.se <= F /\ (cell.se = F => cell.aru < s.flow_seq) /\ cell.de <= d.e2e[Destination].de
    BY <1>2, <1>3, <2>1 DEF AcksOK
  <2>3. cell.de > old.de => old.se < cell.de
    <3> HIDE DEF old
    <3> QED
      BY <1>2, <1>3, <2>1 DEF AcksOK
  <2>4. d.e2e[Destination].de <= world.clock /\ d.e2e[Destination].de \in Nat
    BY <1>1, <1>3 DEF DestinationOK, IsNode, E2ECell
  <2> QED
    BY <1>1, <2>1, <2>2, <2>3, <2>4
<1>5. \/ z = s
      \/ Later(cell, old) /\ z = a /\ cell.se = a.flow_epoch /\ cell.aru # 0
      \/ /\ Later(cell, old)
         /\ IsNode(z) /\ z.e2e = [a.e2e EXCEPT ![Destination] = Noted(cell)]
         /\ z.flow_epoch = a.flow_epoch /\ z.flow_seq = a.flow_seq
         /\ \E c : /\ Applies(a, old, cell, c) /\ z.msg = c.msg
                   /\ z.epoch = c.epoch /\ z.sow = c.sow /\ z.head = c.head
  <2>1. Source = Opposite(Destination) /\ IsNode(s)
    BY <1>1, OppositeIs
  <2>2. Answers(s, Destination, cell, a, z)
    <3> HIDE DEF s
    <3> QED
      BY <1>1, <2>1, PeerAnswers
  <2> HIDE DEF s, a, z
  <2> QED
    BY <2>2 DEF Answers, old
<1>6. CASE z = s
  <2>1. Alike(s, z)
    BY <1>1, <1>6, AlikeRefl
  <2> HIDE DEF z
  <2>2. System([nd EXCEPT ![Source] = z], lk, world, M, C)
    BY <1>1, <2>1, QuietBecoming
  <2> QED
    BY <2>2 DEF z
<1> DEFINE now == IF s.flow_seq > 1 THEN world.clock ELSE F
           de == IF s.flow_seq > 1 THEN world.clock ELSE s.e2e[Source].de
<1>7. s.flow_seq \in Nat \ {0} /\ now \in Nat /\ s.e2e[Source].de = F
  BY <1>1, <1>3 DEF IsNode, SourceOK
<1> HIDE DEF s, d, F, old
<1>8. cell.de > old.de => now > F \/ (now = F /\ s.flow_seq = 1)
  <2>1. s.flow_seq > 1 => old.se = F
    BY <1>3 DEF SourceOK, old, F
  <2> QED
    BY <1>1, <1>4, <1>7, <2>1
<1>9. IsNode(a)
  BY <1>1, MetIs
<1>10. cell.de > old.de =>
         /\ a.msg = s.msg /\ a.flow_epoch = now /\ a.flow_seq = 1
         /\ a.e2e[Source].de = de /\ a.e2e[Source].aru = 0
  <2> SUFFICES ASSUME cell.de > old.de
               PROVE  /\ a.msg = s.msg /\ a.flow_epoch = now /\ a.flow_seq = 1
                      /\ a.e2e[Source].de = de /\ a.e2e[Source].aru = 0
    OBVIOUS
  <2>1. a = NewPeerEpoch(Source, s, Destination, cell)
    BY DEF Met, old
  <2>2. Restarts(Source, s, cell, world.clock, a)
    BY <1>1, <2>1, NewPeerEpochDoes
  <2> HIDE DEF a
  <2> QED
    BY <2>2 DEF Restarts, F
<1>11. ~(cell.de > old.de) => a = s
  BY DEF Met, old
<1> HIDE DEF a, z, now, de
<1>12. CASE z # s
  <2>1. /\ Later(cell, old)
        /\ IsNode(z) /\ z.e2e = [a.e2e EXCEPT ![Destination] = Noted(cell)]
        /\ z.flow_epoch = a.flow_epoch /\ z.flow_seq = a.flow_seq
        /\ \E c : /\ Applies(a, old, cell, c) /\ z.msg = c.msg
                  /\ z.epoch = c.epoch /\ z.sow = c.sow /\ z.head = c.head
    <3>1. ASSUME z = a, cell.se = a.flow_epoch, cell.aru # 0 PROVE FALSE
      <4>1. cell.de > old.de
        BY <1>11, <1>12, <3>1
      <4>2. a.flow_epoch = now /\ (now > F \/ (now = F /\ s.flow_seq = 1))
        BY <1>8, <1>10, <4>1
      <4>3. now = F /\ s.flow_seq = 1
        BY <1>1, <1>4, <1>7, <3>1, <4>2
      <4> QED
        BY <1>4, <3>1, <4>2, <4>3
    <3> QED
      BY <1>5, <1>12, <3>1
  <2>2. PICK c : /\ Applies(a, old, cell, c) /\ z.msg = c.msg
                 /\ z.epoch = c.epoch /\ z.sow = c.sow /\ z.head = c.head
    BY <2>1
  <2>3. /\ z.e2e[Destination] = Noted(cell) /\ z.e2e[Source] = a.e2e[Source]
        /\ z.e2e[Destination].de = cell.de /\ z.e2e[Destination].se = cell.se
        /\ z.e2e[Destination].aru = cell.aru
        /\ \A k \in Cells : z.msg[k] \in {a.msg[k], NoMsg}
    <3>1. \A k \in Cells : z.msg[k] \in {a.msg[k], NoMsg}
      BY <2>2 DEF Applies
    <3>2. a.e2e \in [FlowEnds -> E2ECell]
      BY <1>9 DEF IsNode
    <3>3. z.e2e[Destination] = Noted(cell) /\ z.e2e[Source] = a.e2e[Source]
      BY <1>1, <2>1, <3>2
    <3> QED
      BY <3>1, <3>3, NotedIs
  <2>4. /\ History(z, d, world, M, C) /\ F <= z.flow_epoch
        /\ \A k \in Cells : z.msg[k] \in {s.msg[k], NoMsg}
        /\ z.e2e[Source].de <= z.flow_epoch /\ z.e2e[Source].aru = 0
    <3>1. CASE cell.de > old.de
      <4>1. z.epoch = cell.se /\ z.sow = cell.aru + 1 /\ z.head = cell.aru + 1
        BY <2>2, <3>1 DEF Applies, Over
      <4>2. z.e2e[Source].de = de /\ z.e2e[Source].aru = 0
        BY <1>10, <2>3, <3>1
      <4>3. z.flow_epoch = now /\ z.flow_seq = 1 /\ a.msg = s.msg
        BY <1>10, <2>1, <3>1
      <4>4. History(z, d, world, M, C)
        BY <1>1, <1>2, <2>1, <2>3, <3>1, <4>1, <4>2, <4>3, SourceMeets DEF now, de, F, old
      <4>5. de = now /\ F <= now
        BY <1>1, <1>7, <1>8, <3>1 DEF de, now
      <4> QED
        BY <1>7, <2>3, <4>2, <4>3, <4>4, <4>5
    <3>2. CASE ~(cell.de > old.de)
      <4>1. a = s /\ cell.de = old.de
        BY <1>4, <1>11, <2>1, <3>2 DEF Later
      <4>2. History(z, d, world, M, C)
        BY <1>1, <1>2, <2>1, <2>2, <2>3, <4>1, SourceHears DEF old
      <4>3. s.e2e[Source].de <= F /\ s.e2e[Source].aru = 0
        BY <1>1, <1>7 DEF NodeOK, Told
      <4> QED
        BY <1>1, <2>1, <2>3, <4>1, <4>2, <4>3 DEF F
    <3> QED
      BY <3>1, <3>2
  <2> DEFINE G == z.flow_epoch
  <2>5. G \in Nat
    BY <2>1 DEF IsNode
  <2>6. NodeOK(z, M, C, G)
    <3>1. ASSUME NEW k \in Cells PROVE Kept(z.msg[k], M)
      <4>1. Kept(NoMsg, M)
        BY DEF Kept, NoMsg
      <4> QED
        BY <1>1, <2>4, <4>1 DEF NodeOK
    <3>2. Told(z.e2e[Destination], Destination, C, G)
      <4>1. Told(cell, Destination, C, G)
        BY <1>2 DEF Told
      <4> QED
        BY <2>3, <4>1, NotedTold
    <3>3. Told(z.e2e[Source], Source, C, G)
      BY <1>1, <2>4 DEF Told
    <3> QED
      BY <2>1, <3>1, <3>2, <3>3 DEF NodeOK, FlowEnds
  <2>7. lk \in [Directed -> Seq(PacketsOK(M, C, G))] /\ C \subseteq C /\ M \subseteq M
    BY <1>1, <2>4, <2>5, PacketsGrow, LinksGrow
  <2>8. G = (IF Source = Source THEN z.flow_epoch ELSE nd[Source].flow_epoch) /\ nd[Source].flow_epoch <= G
    BY <2>4 DEF F, s
  <2>9. History(IF Source = Source THEN z ELSE nd[Source],
                IF Source = Destination THEN z ELSE nd[Destination], world, M, C)
    BY <1>1, <2>4 DEF d
  <2> HIDE DEF G
  <2>10. System([nd EXCEPT ![Source] = z], lk, world, M, C)
    BY <1>1, <2>5, <2>6, <2>7, <2>8, <2>9, Becoming
  <2> QED
    BY <2>10 DEF z, s
<1> QED
  BY <1>6, <1>12

LEMMA E2EStep ==
  ASSUME NEW nd, NEW lk, NEW M, NEW C, System(nd, lk, world, M, C), NEW n \in Daemon, NEW j,
         NEW x \in FlowEnds, NEW cell \in E2ECell, Told(cell, x, C, nd[Source].flow_epoch)
  PROVE  \E C2 : System([nd EXCEPT ![n] = Process_E2E(n, nd[n], j, x, cell)], lk, world, M, C2)
<1>1. CASE n # Opposite(x)
  BY <1>1, OtherE2EStep
<1>2. CASE n = Opposite(x) /\ x = Source
  <2>1. n = Destination
    BY <1>2, OppositeIs
  <2> QED
    BY <1>2, <2>1, DestinationE2EStep
<1>3. CASE n = Opposite(x) /\ x = Destination
  <2>1. n = Source
    BY <1>3, OppositeIs
  <2> QED
    BY <1>3, <2>1, SourceE2EStep
<1> QED
  BY <1>1, <1>2, <1>3 DEF FlowEnds

LEMMA DisseminateStep ==
  ASSUME NEW M, NEW C, System(node, link, world, M, C), NEW l \in Directed, Disseminate(l[1], l[2])
  PROVE  \E C2 : System(node', link', world', M, C2)
<1> DEFINE n == l[1]
           j == l[2]
           F == node[Source].flow_epoch
           p == Head(link[<<j, n>>])
           a == Process_Acks(n, node[n], j, p.ack)
           gets == p.type = "DATA" /\ n = Destination /\ Accepts(a, p.body)
           z == CASE p.type = "E2E"  -> Process_E2E(n, a, j, p.who, p.body)
                  [] p.type = "DATA" -> Process_Data(n, a, j, p.body)
                  [] OTHER           -> a
           nd == [node EXCEPT ![n] = a]
           w2 == IF gets THEN [world EXCEPT !.delivered = Append(@, p.body.load)] ELSE world
<1>1. /\ link[<<j, n>>] # <<>> /\ link' = [link EXCEPT ![<<j, n>>] = Tail(@)]
      /\ node' = [node EXCEPT ![n] = z] /\ world' = w2
  BY DEF Disseminate, Become
<1>2. /\ n \in Daemon /\ <<j, n>> \in Directed /\ IsNode(node[n])
      /\ link \in [Directed -> Seq(PacketsOK(M, C, F))] /\ Source \in Daemon
      /\ node = [i \in Daemon |-> node[i]]
  BY DirectedIs, SystemIs DEF System
<1>3. p \in PacketsOK(M, C, F) /\ link' \in [Directed -> Seq(PacketsOK(M, C, F))]
  BY <1>1, <1>2, Taking
<1> HIDE DEF p
<1>4. Alike(node[n], a)
  BY <1>2, AcksAlike
<1> HIDE DEF a
<1>5. System(nd, link', world, M, C)
  BY <1>2, <1>3, <1>4, QuietBecoming
<1>6. nd[n] = a /\ nd[Source].flow_epoch = F
  BY <1>2, <1>4 DEF Alike
<1>7. \A v : [nd EXCEPT ![n] = v] = [node EXCEPT ![n] = v]
  BY <1>2
<1> HIDE DEF nd, F
<1>8. CASE p.type = "E2E"
  <2>1. p.who \in FlowEnds /\ p.body \in E2ECell /\ Told(p.body, p.who, C, F)
    BY <1>3, <1>8 DEF PacketsOK
  <2>2. z = Process_E2E(n, a, j, p.who, p.body) /\ w2 = world
    BY <1>8
  <2> HIDE DEF z, w2
  <2>3. \E C2 : System([nd EXCEPT ![n] = Process_E2E(n, nd[n], j, p.who, p.body)], link', world, M, C2)
    BY <1>2, <1>5, <1>6, <2>1, E2EStep
  <2> QED
    BY <1>1, <1>6, <1>7, <2>2, <2>3
<1>9. CASE p.type = "DATA"
  <2>1. p.body \in Message /\ Kept(p.body, M)
    BY <1>3, <1>9 DEF PacketsOK
  <2>2. z = Process_Data(n, a, j, p.body)
    BY <1>9
  <2>3. w2 = IF n = Destination /\ Accepts(nd[n], p.body)
             THEN [world EXCEPT !.delivered = Append(@, p.body.load)] ELSE world
    BY <1>6, <1>9
  <2> HIDE DEF z, w2
  <2>4. System([nd EXCEPT ![n] = Process_Data(n, nd[n], j, p.body)], link', w2, M, C)
    BY <1>2, <1>5, <2>1, <2>3, DataStep
  <2> QED
    BY <1>1, <1>6, <1>7, <2>2, <2>4
<1>10. CASE p.type # "E2E" /\ p.type # "DATA"
  <2>1. z = a /\ w2 = world
    BY <1>10
  <2> HIDE DEF z, w2
  <2> QED
    BY <1>1, <1>5, <2>1 DEF nd
<1> QED
  BY <1>8, <1>9, <1>10

LEMMA FlowStep ==
  ASSUME FlowInv, [FlowNext]_relvars
  PROVE  FlowInv'
<1>1. PICK M, C : System(node, link, world, M, C)
  BY DEF FlowInv
<1> SUFFICES \E M2, C2 : System(node', link', world', M2, C2)
  BY DEF FlowInv
<1>2. ASSUME NEW l \in Directed,
             Send_E2E(l[1], l[2]) \/ Send_Data(l[1], l[2]) \/ Send_SAA(l[1], l[2])
             \/ Reliable_Flood_Neighbor_Transfer(l[1], l[2])
      PROVE  System(node', link', world', M, C)
  BY <1>1, <1>2, Send_E2EStep, Send_DataStep, Send_SAAStep, TransferStep
<1>3. ASSUME NEW l \in Directed, Disseminate(l[1], l[2])
      PROVE  \E C2 : System(node', link', world', M, C2)
  BY <1>1, <1>3, DisseminateStep
<1>4. ASSUME NEW n \in Daemon, Gen_E2E(n) \/ RestartDaemon(n)
      PROVE  \E C2 : System(node', link', world', M, C2)
  BY <1>1, <1>4, Gen_E2EStep, RestartStep
<1>5. ASSUME Client_Send PROVE \E M2 : System(node', link', world', M2, C)
  BY <1>1, <1>5, Client_SendStep
<1>6. ASSUME Restamp PROVE System(node', link', world', M, C)
  BY <1>1, <1>6, RestampStep
<1>7. ASSUME UNCHANGED relvars PROVE System(node', link', world', M, C)
  BY <1>1, <1>7 DEF relvars
<1> QED
  BY <1>2, <1>3, <1>4, <1>5, <1>6, <1>7 DEF FlowNext

-----------------------------------------------------------------------------
(* The initial states. *)

LEMMA StartWorld ==
  /\ WorldOK(World) /\ World.clock = 1 /\ World.given = 0 /\ World.delivered = <<>> /\ DOMAIN World.seen = {}
<1> DEFINE none == <<>>
           unseen == [p \in {} |-> 0]
<1>1. World = [clock |-> 1, route |-> 1, given |-> 0, delivered |-> none, seen |-> unseen]
  BY DEF World
<1>2. none \in Seq(Nat) /\ DOMAIN unseen = {} /\ 1 \in 1 .. Len(Routings)
  <2>1. Len(Routings) \in Nat /\ Len(Routings) # 0
    BY RoutingAssumption
  <2> QED
    BY <2>1
<1> HIDE DEF none, unseen
<1> QED
  BY <1>1, <1>2 DEF WorldOK, none

(* What the records of the two ends are at the start; e is the epoch that    *)
(* the destination knows of the source.                                      *)
LEMMA StartHistory ==
  ASSUME NEW s, NEW d, NEW e \in {0, 1}, NEW k \in {0, 1},
         s.flow_epoch = 1, s.flow_seq = 1, s.epoch = e, s.sow = 1, s.head = 1, s.e2e[Source].de = 1,
         s.e2e[Destination].de = k, s.e2e[Destination].se = e, s.e2e[Destination].aru = 0,
         d.flow_seq = 1, d.epoch = e, d.head = 1, d.e2e[Source].de = e,
         d.e2e[Destination].de = 1, d.e2e[Destination].se = e, d.e2e[Destination].aru = 0
  PROVE  History(s, d, World, {}, {<<0, 0, 0>>, <<1, e, 0>>})
<1> DEFINE C == {<<0, 0, 0>>, <<1, e, 0>>}
<1>1. MessagesOK(s, World, {})
  BY DEF MessagesOK
<1>2. AcksOK(s, d, C)
  <2>1. C \subseteq Nat \X Nat \X Nat
    OBVIOUS
  <2>2. \A c \in C : (c[1] = 0 /\ c[2] = 0 /\ c[3] = 0) \/ (c[1] = 1 /\ c[2] = e /\ c[3] = 0)
    OBVIOUS
  <2>3. <<0, 0, 0>> \in C
    OBVIOUS
  <2> HIDE DEF C
  <2> QED
    BY <2>1, <2>2, <2>3 DEF AcksOK
<1>3. SourceOK(s, World)
  BY StartWorld, RoomAssumption DEF SourceOK
<1>4. DestinationOK(s, d, World)
  BY StartWorld DEF DestinationOK
<1>5. DeliveredOK(s, d, World, {})
  <2>1. Len(World.delivered) = 0 /\ 1 .. 0 = {} /\ d.head - 1 = 0
    BY StartWorld
  <2> QED
    BY <2>1 DEF DeliveredOK, Increasing
<1>6. SeenOK(s, World)
  BY StartWorld DEF SeenOK
<1> QED
  BY <1>1, <1>2, <1>3, <1>4, <1>5, <1>6 DEF History

LEMMA NoLinks ==
  ASSUME NEW P
  PROVE  [l \in Directed |-> <<>>] \in [Directed -> Seq(P)]
<1> DEFINE none == <<>>
<1>1. none \in Seq(P)
  OBVIOUS
<1> HIDE DEF none
<1>2. [l \in Directed |-> none] \in [Directed -> Seq(P)]
  BY <1>1
<1> QED
  BY <1>2 DEF none

LEMMA FlowStarts ==
  ASSUME FlowInit
  PROVE  FlowInv
<1> DEFINE C == {<<0, 0, 0>>, <<1, 0, 0>>}
           M == {}
<1>1. Source \in Daemon /\ Destination \in Daemon /\ Source # Destination
      /\ Source \in FlowEnds /\ Destination \in FlowEnds
  BY FlowAssumption DEF FlowEnds
<1>2. node = [n \in Daemon |-> node[n]] /\ (\A n \in Daemon : node[n] = FreshNode(n, 1)) /\ world = World
      /\ link = [l \in Directed |-> <<>>]
  BY DEF FlowInit
<1>3. \A n \in Daemon :
        /\ node[n].epoch = 0 /\ node[n].sow = 1 /\ node[n].head = 1 /\ node[n].flow_epoch = 1
        /\ node[n].flow_seq = 1
        /\ \A x \in FlowEnds : /\ node[n].e2e[x].de = IF x = n THEN 1 ELSE 0
                               /\ node[n].e2e[x].se = 0 /\ node[n].e2e[x].aru = 0
  BY <1>2, FreshIs
<1>4. \A n \in Daemon : NodeOK(node[n], M, C, 1)
  <2>1. <<0, 0, 0>> \in C /\ <<1, 0, 0>> \in C
    OBVIOUS
  <2> HIDE DEF M, C
  <2> QED
    BY <1>2, <2>1, FreshOK
<1>5. History(node[Source], node[Destination], world, M, C)
  BY <1>1, <1>2, <1>3, StartHistory
<1>6. link \in [Directed -> Seq(PacketsOK(M, C, 1))]
  BY <1>2, NoLinks
<1> HIDE DEF M, C
<1>7. System(node, link, world, M, C)
  BY <1>1, <1>2, <1>3, <1>4, <1>5, <1>6, StartWorld DEF System
<1> QED
  BY <1>7 DEF FlowInv

LEMMA SettledStarts ==
  ASSUME Settled
  PROVE  FlowInv
<1> DEFINE C == {<<0, 0, 0>>, <<1, 1, 0>>}
           M == {}
           yes == TRUE
           at == [x \in FlowEnds |-> [de |-> 1, se |-> 1, aru |-> 0, known |-> yes]]
<1>1. Source \in Daemon /\ Destination \in Daemon /\ Source # Destination
      /\ Source \in FlowEnds /\ Destination \in FlowEnds
  BY FlowAssumption DEF FlowEnds
<1>2. node = [n \in Daemon |-> node[n]] /\ world = World /\ link = [l \in Directed |-> <<>>]
      /\ \A n \in Daemon : node[n] = [FreshNode(n, 1) EXCEPT !.epoch = 1, !.handshake = n \in FlowEnds, !.e2e = at]
  BY DEF Settled
<1>3. at \in [FlowEnds -> E2ECell] /\ \A x \in FlowEnds : at[x].de = 1 /\ at[x].se = 1 /\ at[x].aru = 0
  BY DEF E2ECell
<1> HIDE DEF at
<1>4. ASSUME NEW n \in Daemon
      PROVE  LET v == node[n]
             IN  /\ IsNode(v) /\ v.epoch = 1 /\ v.sow = 1 /\ v.head = 1 /\ v.flow_epoch = 1 /\ v.flow_seq = 1
                 /\ v.e2e = at /\ \A c \in Cells : v.msg[c].epoch = 0
  <2> DEFINE f == FreshNode(n, 1)
             h == n \in FlowEnds
             v == [f EXCEPT !.epoch = 1, !.handshake = h, !.e2e = at]
  <2>1. /\ IsNode(f) /\ f.sow = 1 /\ f.head = 1 /\ f.flow_epoch = 1 /\ f.flow_seq = 1
        /\ \A c \in Cells : f.msg[c].epoch = 0
    BY FreshIs
  <2>2. node[n] = v
    BY <1>2
  <2> HIDE DEF f, h
  <2>3. /\ IsNode(v) /\ v.epoch = 1 /\ v.sow = f.sow /\ v.head = f.head /\ v.flow_epoch = f.flow_epoch
        /\ v.flow_seq = f.flow_seq /\ v.e2e = at /\ v.msg = f.msg
    BY <1>3, <2>1 DEF IsNode, Parts
  <2> HIDE DEF v
  <2> QED
    BY <2>1, <2>2, <2>3
<1>5. ASSUME NEW n \in Daemon PROVE NodeOK(node[n], M, C, 1)
  <2> DEFINE v == node[n]
  <2>1. IsNode(v) /\ v.e2e = at /\ \A c \in Cells : v.msg[c].epoch = 0
    BY <1>4
  <2> HIDE DEF v
  <2>2. \A c \in Cells : Kept(v.msg[c], M)
    BY <2>1 DEF Kept
  <2>3. ASSUME NEW x \in FlowEnds PROVE Told(v.e2e[x], x, C, 1)
    <3>1. Says(at[x]) = <<1, 1, 0>>
      BY <1>3 DEF Says
    <3> QED
      BY <1>3, <2>1, <3>1 DEF Told
  <2> QED
    BY <2>1, <2>2, <2>3 DEF NodeOK, v
<1>6. History(node[Source], node[Destination], world, M, C)
  <2> DEFINE s == node[Source]
             d == node[Destination]
  <2>1. /\ s.flow_epoch = 1 /\ s.flow_seq = 1 /\ s.epoch = 1 /\ s.sow = 1 /\ s.head = 1 /\ s.e2e = at
        /\ d.flow_seq = 1 /\ d.epoch = 1 /\ d.head = 1 /\ d.e2e = at
    BY <1>1, <1>4
  <2>2. /\ at[Source].de = 1 /\ at[Destination].de = 1 /\ at[Destination].se = 1 /\ at[Destination].aru = 0
    BY <1>1, <1>3
  <2>3. 1 \in {0, 1}
    OBVIOUS
  <2> HIDE DEF s, d
  <2>4. History(s, d, World, M, C)
    BY <2>1, <2>2, <2>3, StartHistory
  <2> QED
    BY <1>2, <2>4 DEF s, d
<1>7. link \in [Directed -> Seq(PacketsOK(M, C, 1))]
  BY <1>2, NoLinks
<1>8. node[Source].flow_epoch = 1
  BY <1>1, <1>4
<1> HIDE DEF M, C
<1>9. System(node, link, world, M, C)
  BY <1>1, <1>2, <1>5, <1>6, <1>7, <1>8, StartWorld DEF System
<1> QED
  BY <1>9 DEF FlowInv

LEMMA FlowKeeps ==
  ASSUME FlowInv
  PROVE  KeptUntilDelivered
<1> DEFINE s == node[Source]
           d == node[Destination]
           held == {s.msg[Index(i)].load : i \in s.sow .. s.head - 1}
           D == world.delivered
           got == {D[i] : i \in 1 .. Len(D)}
           F == s.flow_epoch
           L == FirstLoad(s, world)
           k == s.e2e[Destination]
<1>1. PICK M, C : System(node, link, world, M, C)
  BY DEF FlowInv
<1>2. /\ IsNode(s) /\ IsNode(d) /\ NodeOK(s, M, C, F) /\ NodeOK(d, M, C, F)
      /\ History(s, d, world, M, C) /\ world.given \in Nat
  BY <1>1, SystemIs
<1>3. MessagesOK(s, world, M) /\ AcksOK(s, d, C) /\ SourceOK(s, world) /\ DestinationOK(s, d, world)
      /\ DeliveredOK(s, d, world, M) /\ SeenOK(s, world)
  BY <1>2 DEF History
<1>4. /\ s.flow_seq \in Nat \ {0} /\ s.sow \in Nat \ {0} /\ s.head \in Nat \ {0} /\ d.head \in Nat \ {0}
      /\ F \in Nat /\ d.epoch \in Nat /\ k \in E2ECell /\ d.e2e[Destination] \in E2ECell
      /\ Says(k) \in C /\ Says(d.e2e[Destination]) \in C
  BY <1>2, FlowAssumption DEF IsNode, NodeOK, Told, FlowEnds
<1>5. L \in Int /\ L + s.flow_seq = world.given + 1
  BY <1>2, <1>3, LoadBound
<1>6. d.epoch <= F
  BY <1>2, <1>4, EpochKnown
<1> HIDE DEF s, d, F, L, k, D
<1>7. ASSUME NEW p \in DOMAIN world.seen, world.seen[p] = d.e2e[Destination].de,
             k.de = d.e2e[Destination].de
      PROVE  p \in held \cup got
  <2> DEFINE q == p - L
  <2>1. L < p /\ p <= world.given /\ p \in Nat
    BY <1>3, <1>7 DEF SeenOK, L, k
  <2>2. q \in Nat \ {0} /\ q < s.flow_seq /\ L + q = p
    BY <1>2, <1>4, <1>5, <2>1
  <2> HIDE DEF q
  <2>3. s.epoch = F
    BY <1>3, <1>4, <2>2 DEF SourceOK, F
  <2>4. s.head = s.flow_seq /\ s.epoch = k.se /\ s.sow = k.aru + 1
        /\ \A i \in s.sow .. s.head - 1 : s.msg[Index(i)].load = L + i
    BY <1>3, <2>3 DEF SourceOK, F, L, k
  <2>5. CASE q >= s.sow
    <3>1. q \in s.sow .. s.head - 1
      BY <1>4, <2>2, <2>4, <2>5
    <3>2. s.msg[Index(q)].load = p
      BY <2>2, <2>4, <3>1
    <3> QED
      BY <3>1, <3>2
  <2>6. CASE q < s.sow
    <3>1. /\ Says(k)[1] = k.de /\ Says(k)[2] = k.se /\ Says(k)[3] = k.aru /\ k.aru \in Nat
          /\ d.e2e[Destination].aru \in Nat
      BY <1>4, CellSays
    <3>2. /\ k.se <= d.epoch /\ (k.se = d.epoch => k.aru <= d.e2e[Destination].aru)
      BY <1>3, <1>4, <1>7, <3>1 DEF AcksOK
    <3>3. d.epoch = F
      BY <1>4, <1>6, <2>3, <2>4, <3>2
    <3>4. q \in 1 .. d.head - 1
      <4>1. d.e2e[Destination].aru < d.head
        BY <1>3 DEF DestinationOK
      <4>2. k.aru <= d.e2e[Destination].aru /\ s.sow = k.aru + 1
        BY <2>3, <2>4, <3>2, <3>3
      <4>3. q \in Nat \ {0} /\ q <= k.aru
        BY <2>2, <2>6, <3>1, <4>2
      <4> QED
        BY <1>4, <3>1, <4>1, <4>2, <4>3
    <3>5. \E i \in 1 .. Len(D) : D[i] = L + q
      BY <1>3, <3>3, <3>4 DEF DeliveredOK, F, L, D
    <3> QED
      BY <2>2, <3>5
  <2> QED
    BY <1>4, <2>2, <2>5, <2>6
<1>8. Increasing(D)
  BY <1>3 DEF DeliveredOK, D
<1> QED
  BY <1>7, <1>8 DEF KeptUntilDelivered, s, d, k, D

(* For every overlay, any number of messages, restarts, routings and packets *)
(* on a link: what the client gave to the present incarnations of both ends  *)
(* is delivered or still held by the source, and the destination delivers    *)
(* in order and nothing twice (Reliable_Flood_Process_E2E frees a message    *)
(* only for an acknowledgement of the destination's present incarnation).    *)
THEOREM FreedOnlyWhenDelivered == FlowSpec => []KeptUntilDelivered
<1>1. FlowInit => FlowInv
  BY FlowStarts
<1>2. FlowInv /\ [FlowNext]_relvars => FlowInv'
  BY FlowStep
<1>3. FlowInv => KeptUntilDelivered
  BY FlowKeeps
<1> QED
  BY <1>1, <1>2, <1>3, PTL DEF FlowSpec

(* The same from the state at rest, where the larger instances of the run    *)
(* begin: the handshake of the two ends is complete.                         *)
THEOREM FreedOnlyWhenDeliveredAtRest == SettledSpec => []KeptUntilDelivered
<1>1. Settled => FlowInv
  BY SettledStarts
<1>2. FlowInv /\ [FlowNext]_relvars => FlowInv'
  BY FlowStep
<1>3. FlowInv => KeptUntilDelivered
  BY FlowKeeps
<1> QED
  BY <1>1, <1>2, <1>3, PTL DEF SettledSpec
=============================================================================
