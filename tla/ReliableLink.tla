---------------------------- MODULE ReliableLink ----------------------------
(***************************************************************************)
(* What a reliable link promises the two overlay neighbours that share it, *)
(* whatever the network below does to its packets: a message handed to the *)
(* link is delivered to the neighbour at most once, and the sender forgets *)
(* a message only when that message and all the earlier ones have been     *)
(* delivered.  Delivery is not ordered: order is restored end to end, by   *)
(* the sessions.  Either side may close the link for good at any time.     *)
(***************************************************************************)
EXTENDS Integers

CONSTANTS Endpoint,    \* the two ends of the link
          MaxMsgs      \* bound: messages each end hands to the link

VARIABLES open,        \* open[p]: end p has not closed the link
          sent,        \* sent[p]: number of messages p handed to the link
          released,    \* released[p]: messages 0..released[p]-1 are forgotten
          delivered    \* delivered[p][k]: times message k was delivered to p

lvars == <<open, sent, released, delivered>>

Peer(p) == CHOOSE q \in Endpoint : q # p

LInit ==
  /\ open = [p \in Endpoint |-> TRUE]
  /\ sent = [p \in Endpoint |-> 0]
  /\ released = [p \in Endpoint |-> 0]
  /\ delivered = [p \in Endpoint |-> [k \in 0 .. MaxMsgs - 1 |-> 0]]

Submit(p) ==
  /\ open[p]
  /\ sent[p] < MaxMsgs
  /\ sent' = [sent EXCEPT ![p] = @ + 1]
  /\ UNCHANGED <<open, released, delivered>>

(* A message of the peer is delivered to p, for the first time. *)
Deliver(p, k) ==
  /\ open[p]
  /\ k < sent[Peer(p)]
  /\ delivered[p][k] = 0
  /\ delivered' = [delivered EXCEPT ![p][k] = 1]

(* p forgets its messages up to n: the peer has had all of them. *)
Release(p, n) ==
  /\ open[p]
  /\ released[p] < n
  /\ n <= sent[p]
  /\ \A k \in 0 .. n - 1 : delivered[Peer(p)][k] = 1
  /\ released' = [released EXCEPT ![p] = n]

(* One packet of the peer may carry both a message and an acknowledgement. *)
Receive(p) ==
  /\ \/ \E k \in 0 .. MaxMsgs - 1 : Deliver(p, k)
     \/ UNCHANGED delivered
  /\ \/ \E n \in 1 .. MaxMsgs : Release(p, n)
     \/ UNCHANGED released
  /\ UNCHANGED <<open, sent>>

Close(p) ==
  /\ open[p]
  /\ open' = [open EXCEPT ![p] = FALSE]
  /\ UNCHANGED <<sent, released, delivered>>

LNext == \E p \in Endpoint : Submit(p) \/ Receive(p) \/ Close(p)

LSpec == LInit /\ [][LNext]_lvars
=============================================================================
