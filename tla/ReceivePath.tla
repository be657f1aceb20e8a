---------------------------- MODULE ReceivePath -----------------------------
(***************************************************************************)
(* From the socket to the handlers (Read_UDP and Proc_Delayed_Pkt of       *)
(* daemon/network.c, Prot_process_scat of daemon/protocol.c): the buffer a *)
(* packet is received into, who keeps it, and the links with loss, delay   *)
(* and bandwidth that spines_setlink emulates.  A handler of a packet is   *)
(* reduced to whether it keeps a reference to the body of the packet; a    *)
(* packet is its number, and bandwidth is counted in packets.              *)
(***************************************************************************)
EXTENDS Integers, Sequences, FiniteSetsExt

CONSTANTS Buffer,               \* the PACK_BODY_OBJ objects: 1, 2, ...
          Params,               \* what SETLINK_TYPE_MSG sets: [bandwidth, delay, loss_rate, burst_rate]
          BWTH_BUCKET,
          MaxPackets, MaxTime   \* bounds: packets received, clock

VARIABLE rp

NoParams == [bandwidth |-> 0, delay |-> 0, loss_rate |-> 0, burst_rate |-> 0,
             was_loss |-> FALSE, bucket |-> 0, last_time_add |-> 0]

(* Init_Network.  held has the references that handlers kept; processed,     *)
(* dropped and delays, the order of the delayed packets, are history.        *)
Init ==
  rp = [ref |-> [b \in Buffer |-> IF b = 1 THEN 1 ELSE 0], content |-> [b \in Buffer |-> 0],
        scat |-> 1, held |-> {}, Delay_Queue |-> {}, Delay_Index |-> 0,
        lkp |-> NoParams, network_flag |-> TRUE, now |-> 0, next |-> 1,
        processed |-> {}, dropped |-> {}, delays |-> <<>>]

(* new_ref_cnt(PACK_BODY_OBJ) and dec_ref_cnt. *)
Free(r) == {b \in Buffer : r.ref[b] = 0}
NewBuffer(r) == Min(Free(r))
Taken(r, b) == [r EXCEPT !.ref[b] = 1, !.content[b] = 0]
dec_ref_cnt(r, b) == [r EXCEPT !.ref[b] = @ - 1]

(* Prot_process_scat with the body in b, and the body its scatter has then:  *)
(* another one if a handler kept b.                                          *)
Processed(r, b, keeps) ==
  LET p == [r EXCEPT !.processed = @ \cup {r.content[b]}]
      k == [p EXCEPT !.ref[b] = @ + 1, !.held = @ \cup {[buf |-> b, pkt |-> r.content[b]]}]
  IN  IF ~keeps THEN [r |-> p, body |-> b]
      ELSE LET d == dec_ref_cnt(k, b) IN [r |-> Taken(d, NewBuffer(d)), body |-> NewBuffer(d)]

Prot_process_scat(r, keeps) ==
  LET done == Processed(r, r.scat, keeps) IN [done.r EXCEPT !.scat = done.body]

-----------------------------------------------------------------------------
(* Read_UDP: what the emulated bandwidth adds since the last packet. *)
Refilled(l, now) ==
  [l EXCEPT !.bucket = Min({BWTH_BUCKET, @ + l.bandwidth * (now - l.last_time_add)}),
            !.last_time_add = now]

(* It may be lost: the chance after a packet that got through, p01, or after *)
(* a lost one, p11, is not zero; a burst_rate is below 100 % here.  At any   *)
(* chance a packet may get through.                                          *)
MayLose(l) ==
  IF l.burst_rate = 0 \/ ~l.was_loss THEN l.loss_rate > 0 ELSE TRUE

(* The packet waits in its own buffer, and the scatter gets another one. *)
Delayed(r) ==
  LET d == [r EXCEPT !.Delay_Queue = @ \cup {[index |-> r.Delay_Index, buf |-> r.scat,
                                              pkt |-> r.content[r.scat],
                                              due |-> r.now + r.lkp.delay]},
                     !.Delay_Index = @ + 1]
  IN  [Taken(d, NewBuffer(d)) EXCEPT !.scat = NewBuffer(d)]

Dropped(r) == [r EXCEPT !.dropped = @ \cup {r.content[r.scat]}]

(* Read_UDP of the next packet: good is that its sizes, port and type are;   *)
(* through, that the chance is above the one of a loss.                      *)
Read_UDP(good, through, keeps) ==
  /\ rp.next <= MaxPackets /\ Free(rp) # {}
  /\ LET r == [rp EXCEPT !.content[rp.scat] = rp.next, !.next = @ + 1]
         f == IF r.lkp.bandwidth > 0 THEN [r EXCEPT !.lkp = Refilled(@, r.now)] ELSE r
         s == IF r.lkp.bandwidth > 0 THEN [f EXCEPT !.lkp.bucket = @ - 1] ELSE f
         passed == IF s.lkp.delay = 0 THEN Prot_process_scat(s, keeps) ELSE Delayed(s)
     IN  \/ ~good /\ rp' = Dropped(r)
         \/ good /\ r.lkp.bandwidth > 0 /\ f.lkp.bucket <= 0 /\ rp' = Dropped(f)
         \/ /\ good /\ (r.lkp.bandwidth > 0 => f.lkp.bucket > 0)
            /\ ~through => MayLose(s.lkp)
            /\ rp' = IF s.network_flag /\ through
                     THEN [passed EXCEPT !.lkp.was_loss = FALSE]
                     ELSE [Dropped(s) EXCEPT !.lkp.was_loss = s.lkp # NoParams]

(* The event loop calls it for the packets that are due in their order. *)
FirstDue(d) == \A e \in rp.Delay_Queue : d.due < e.due \/ (d.due = e.due /\ d.index <= e.index)

Proc_Delayed_Pkt(d, keeps) ==
  /\ d.due <= rp.now /\ FirstDue(d)
  /\ keeps => Free(rp) # {}
  /\ LET done == Processed(rp, d.buf, keeps)
     IN  rp' = [dec_ref_cnt(done.r, done.body)
                  EXCEPT !.Delay_Queue = @ \ {d}, !.delays = Append(@, d)]

(* A session or a link is done with a packet it kept. *)
Release(h) == rp' = [dec_ref_cnt(rp, h.buf) EXCEPT !.held = @ \ {h}]

(* SETLINK_TYPE_MSG replaces the parameters of the leg, or removes them if   *)
(* none but a burst rate is set.                                             *)
SetLink(p) ==
  rp' = [rp EXCEPT !.lkp =
           IF p.bandwidth > 0 \/ p.delay > 0 \/ p.loss_rate > 0
           THEN [bandwidth |-> p.bandwidth, delay |-> p.delay, loss_rate |-> p.loss_rate,
                 burst_rate |-> p.burst_rate, was_loss |-> FALSE, bucket |-> BWTH_BUCKET,
                 last_time_add |-> rp.now]
           ELSE NoParams]

Up_Down_Net == rp' = [rp EXCEPT !.network_flag = ~@]
Tick == rp.now < MaxTime /\ rp' = [rp EXCEPT !.now = @ + 1]

Next ==
  \/ \E good, through, keeps \in BOOLEAN : Read_UDP(good, through, keeps)
  \/ \E d \in rp.Delay_Queue, keeps \in BOOLEAN : Proc_Delayed_Pkt(d, keeps)
  \/ \E h \in rp.held : Release(h)
  \/ \E p \in Params : SetLink(p)
  \/ Up_Down_Net \/ Tick

-----------------------------------------------------------------------------
Holders(b) == {x \in rp.held \cup rp.Delay_Queue : x.buf = b}

(* A buffer belongs to whoever refers to it: the next packet is not received *)
(* into one that a session, a link or the queue of delayed packets still     *)
(* needs, none is freed that is in use and none is lost.  Each packet is     *)
(* processed once or dropped or waits, and equal delays keep the order.      *)
BuffersOwned ==
  /\ rp.ref[rp.scat] = 1 /\ Holders(rp.scat) = {}
  /\ \A b \in Buffer \ {rp.scat} : rp.ref[b] = Cardinality(Holders(b))
  /\ \A x \in rp.held \cup rp.Delay_Queue : rp.content[x.buf] = x.pkt
  /\ rp.processed \cup rp.dropped \cup {d.pkt : d \in rp.Delay_Queue} = 1 .. rp.next - 1
  /\ Cardinality(rp.processed) + Cardinality(rp.dropped) + Cardinality(rp.Delay_Queue) = rp.next - 1
  /\ \A i, j \in DOMAIN rp.delays :
       i < j /\ rp.delays[j].due = rp.delays[i].due => rp.delays[i].pkt < rp.delays[j].pkt
=============================================================================
