-------------------------- MODULE IntrusionTolKeys -------------------------
(***************************************************************************)
(* Key exchange and link status of the intrusion-tolerant link             *)
(* (daemon/intrusion_tol_udp.c with Crypto and Intrusion_Tolerance_Mode).  *)
(* Each end repeats its Diffie-Hellman packet until it has decrypted a     *)
(* packet of the other one; everything else is encrypted.  Pings and pongs *)
(* are the encrypted packets here, and decide whether the link is live.    *)
(*                                                                         *)
(* A daemon has one pair of keys in an incarnation, so a public key is its *)
(* owner and the incarnation; the key computed from two public keys is     *)
(* their set.  Signatures verify: packets come from the two ends.          *)
(***************************************************************************)
EXTENDS Integers, FiniteSets

CONSTANTS Peer,              \* the two daemons
          Ping_Threshold,    \* pings without a pong before the link is dead
          MaxStarts,         \* bound: sum of the incarnations of the two daemons
          MaxFlight          \* bound: packets in the network, what exceeds it is lost

ASSUME TwoPeers == \E a, b \in Peer : a # b /\ Peer = {a, b}

VARIABLES party,             \* party[n]: Int_Tol_Data of daemon n
          flight             \* packets in the network

keyvars == <<party, flight>>

Across(n) == CHOOSE m \in Peer : m # n
NoKey == {}

(* Key_Exchange_IT: DH_generate_key makes a pair of keys the first time and  *)
(* then keeps it.  The packet with the public key is built here, with the    *)
(* incarnation of the neighbor that is known now, and sent until the key is  *)
(* established.  Without the common key there are no pings.                  *)
Key_Exchange_IT(d) ==
  [d EXCEPT !.established = FALSE, !.computed = 1, !.dh_aru = d.ngbr_inc,
            !.timers = (@ \ {"Ping"}) \cup {"DH"}]

(* Create_Link with Crypto.  "missed" is the number of pings since the last  *)
(* one that was answered, "exit" notes an Alarm(EXIT).                       *)
NewLink(inc) ==
  Key_Exchange_IT([my_inc |-> inc, ngbr_inc |-> 0, dh_aru |-> 0, computed |-> 0, key |-> NoKey,
                   established |-> FALSE, exit |-> FALSE, timers |-> {},
                   status |-> "DEAD", missed |-> 1])

KeysInit == party = [n \in Peer |-> NewLink(1)] /\ flight = {}

DHPacket(n) ==
  [to |-> Across(n), type |-> "DH", inc |-> party[n].my_inc, aru_inc |-> party[n].dh_aru,
   public |-> <<n, party[n].my_inc>>]

(* IT_Link_Send locks a packet with the key, if there is one. *)
Locked(n, d, type) ==
  [to |-> Across(n), type |-> type, inc |-> d.my_inc, aru_inc |-> d.ngbr_inc, key |-> d.key]

Carry(rest, out) == flight' = IF Cardinality(rest \cup out) <= MaxFlight THEN rest \cup out ELSE rest
Becomes(n, d) == party' = [party EXCEPT ![n] = d]

(* Send_IT_DH repeats itself until the key is established. *)
Send_IT_DH(n) ==
  /\ "DH" \in party[n].timers
  /\ IF party[n].established
     THEN Becomes(n, [party[n] EXCEPT !.timers = @ \ {"DH"}]) /\ UNCHANGED flight
     ELSE UNCHANGED party /\ Carry(flight, {DHPacket(n)})

(* Process_DH_IT: only a later incarnation of the neighbor is heard.  A      *)
(* daemon whose own packet waits for an answer lets it be, and exits if it is*)
(* not being sent; otherwise it starts another exchange with the same keys.  *)
Process_DH_IT(n, p) ==
  LET d == party[n]
      k == IF d.computed # 1 THEN Key_Exchange_IT(d)
           ELSE [d EXCEPT !.exit = @ \/ "DH" \notin d.timers]
  IN  IF p.inc <= d.ngbr_inc \/ p.aru_inc > d.my_inc THEN d
      ELSE [k EXCEPT !.key = {p.public, <<n, d.my_inc>>}, !.computed = 2,
                     !.ngbr_inc = p.inc, !.timers = @ \cup {"Ping"}]

(* Mutant: a packet is taken whatever key it was made with. *)
OpensAnything(d, p) == d.computed = 2

(* Preprocess_intru_tol_packet calls DH_established for what it can decrypt. *)
Opens(d, p) == d.computed = 2 /\ p.key = d.key
DH_established(d) == [d EXCEPT !.established = TRUE]

(* A pong answers some ping after the last one answered, or an earlier one.  *)
(* A dead link becomes a lossy one with it.                                  *)
Pong(d, missed) ==
  [d EXCEPT !.missed = missed,
            !.status = IF missed < d.missed /\ @ = "DEAD" THEN "LOSSY" ELSE @]

(* Incarnation_Change, as far as the incarnation goes. *)
Heard(d, p) == [DH_established(d) EXCEPT !.ngbr_inc = IF p.inc > @ THEN p.inc ELSE @]

ReceiveLocked(n, p) ==
  \E rest \in {flight, flight \ {p}} :
    /\ p \in flight /\ p.to = n
    /\ \/ /\ p.type = "DH"
          /\ Becomes(n, Process_DH_IT(n, p)) /\ Carry(rest, {})
       \/ /\ p.type = "PING" /\ Opens(party[n], p)
          /\ IF p.inc < party[n].ngbr_inc \/ p.aru_inc > party[n].my_inc
             THEN Becomes(n, DH_established(party[n])) /\ Carry(rest, {})
             ELSE LET d == Heard(party[n], p)
                  IN  Becomes(n, d) /\ Carry(rest, {Locked(n, d, "PONG")})
       \/ /\ p.type = "PONG" /\ Opens(party[n], p)
          /\ \E m \in 1 .. party[n].missed :
                IF p.inc < party[n].ngbr_inc \/ p.aru_inc > party[n].my_inc
                THEN Becomes(n, DH_established(party[n]))
                ELSE Becomes(n, Pong(Heard(party[n], p), m))
          /\ Carry(rest, {})

Vanish(p) == flight' = flight \ {p} /\ UNCHANGED party

(* PingLocked_IT_Timeout.  "missed" only matters up to the threshold. *)
PingLocked_IT_Timeout(n) ==
  LET d    == party[n]
      m    == IF d.missed > Ping_Threshold THEN d.missed ELSE d.missed + 1
      dead == d.status # "DEAD" /\ m > Ping_Threshold
  IN  /\ "Ping" \in d.timers /\ d.computed = 2
      /\ Becomes(n, [d EXCEPT !.missed = m, !.status = IF dead THEN "DEAD" ELSE @])
      /\ Carry(flight, {Locked(n, d, "PING")})

(* Loss_Calculation_Event: the loss rate over its history may be below or    *)
(* above the threshold; a dead link stays dead.                              *)
Loss_Calculation_Event(n) ==
  /\ party[n].status # "DEAD"
  /\ \E s \in {"LIVE", "LOSSY"} : Becomes(n, [party[n] EXCEPT !.status = s])
  /\ UNCHANGED flight

RestartLocked(n) ==
  /\ party[n].my_inc + party[Across(n)].my_inc < MaxStarts
  /\ Becomes(n, NewLink(party[n].my_inc + 1)) /\ UNCHANGED flight

KeysNext ==
  \/ \E p \in flight : Vanish(p) \/ ReceiveLocked(p.to, p)
  \/ \E n \in Peer :
       Send_IT_DH(n) \/ PingLocked_IT_Timeout(n) \/ Loss_Calculation_Event(n) \/ RestartLocked(n)

KeysSpec == KeysInit /\ [][KeysNext]_keyvars

-----------------------------------------------------------------------------
(* A daemon repeats its Diffie-Hellman packet until it decrypted one of its  *)
(* neighbor's packets.  Once it stops, the neighbor, as long as it does not  *)
(* restart, has computed the same key, whatever restarts and old packets came*)
(* before: else the two would never understand each other again.  And no     *)
(* daemon finds its packet not being sent (the Alarm(EXIT) of Process_DH_IT).*)
EstablishedMeansShared ==
  \A n \in Peer :
     LET d == party[n]
         o == party[Across(n)]
     IN  /\ ~d.exit
         /\ d.established \/ "DH" \in d.timers
         /\ d.established /\ o.my_inc = d.ngbr_inc => o.computed = 2 /\ o.key = d.key
=============================================================================
