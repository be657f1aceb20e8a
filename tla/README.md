# Spines: TLA+ models, checks and proofs

Spines is an overlay network. A daemon (`daemon/`) runs on every overlay node, keeps *legs*
(point-to-point connections between an interface of its own and one of a neighbour), floods the
state of its edges and of the groups its clients joined, computes routes from it, and forwards the
messages of its clients over the links of its legs. This directory models the daemon's protocols
in TLA+, checks them with TLC on small instances, and proves the central properties of its links,
legs, floods, sessions and intrusion-tolerant links with TLAPS for every value of the constants.

Names of variables, constants and actions are the names of the C code wherever TLA+ allows it;
`PROJECT.json` maps every definition to its source lines.

## Inventory

| Component | Source | State | Operations | What is hard, and what must hold |
|---|---|---|---|---|
| Reliable link | `reliable_datagram.c`, `reliable_udp.c` | `Reliable_Data` of a link: send window (`head`, `tail`, `window[]`), backlog `msg_buff`, congestion window, receive window (`recv_head`, `recv_tail`, `recv_window[]`), `nack_buff`, timer flags | `Reliable_Send_Msg`, `Send_Much`, `Send_Ack`, `Reliable_timeout`, `Send_Nack_Retransm`, `Process_Ack`, the two packet handlers | loss, duplication and reordering; slots reused modulo `MAX_WINDOW`; timers and acks that cancel each other; blocking of sessions. At most once, no loss, nothing stuck, no alarm exit |
| Links and legs | `link.c`, `network.c`, `hello.c` | `Links[]`, legs, `Control_Data`: control link ids, `hello_seq`, `hellos_out`, `connect_cnter`, leg status and cost | `Create_Link`, `Destroy_Link`, `Send_Hello`, `Process_hello_packet`, `Process_hello_ping`, `Dead_Leg`, `Disconnect_Network_Leg` | the two ends connect, die and restart independently; packets of an old session arrive in a new one; timers of a destroyed link |
| State flooding | `state_flood.c`, `link_state.c`, `multicast.c` | per node: known states with time stamps, `Changed_States` with a mask of the neighbours that need not hear of them, `Neighbor_Nodes` | `Net_Send_State_All`, `Send_State_Updates`, `Process_state_packet`, `Add_to_changed_states`, `Resend_States`, `Join_Group`, `Leave_Group`, `Network_Leg_Set_Cost` | out-of-order updates, restarts, slots of neighbours reused, convergence |
| Leg measurements | `link.c`, `network.c`, `hello.c` | rate bucket and buffer, packet numbers per link type, round trip time and loss, the last report, receive buffers and delayed packets | `Link_Send`, `Fill_Leg_Bucket`, `Check_Link_Loss`, `Network_Leg_Update_Cost`, `Read_UDP`, `Proc_Delayed_Pkt` | numbers that wrap, thresholds with hysteresis and a stable time, buffers that outlive a handler |
| Routing | `route.c` | all-pairs next hops and distances, cached multicast neighbours | `Set_Routes`, `RR_Get_Next_Hop`, `Deliver_and_Forward_Data` | daemons that recompute at different times, stale caches; shortest paths, each destination once |
| Source-based routing | `multipath.c`, `dissem_graphs.c` | cached masks of k disjoint paths, dissemination graphs, problems per destination | `MultiPath_Stamp_Bitmask`, `DG_Process_Edge_Update`, `Source_Based_Disseminate` | masks that outlive the costs they were made from; transitions that depend on the order of problems |
| Reliable sessions | `reliable_session.c` | `Reliable_Data` of a connection, connect state, flow control | connect, accept, send, acks, nacks, timeouts, deliver, close | lost and reordered packets, a slow client, closing while data is under way, pooled state. The client reads a prefix, and the end only after all |
| Client sessions, library | `session.c`, `udp.c`, `libspines/spines_lib.c` | sessions, ports, groups, block flags; table of sockets | socket, bind, listen, connect, join, send, flood, block and resume, close | requests in flight while the daemon closes; several reasons to block. Tables agree, nobody stays blocked |
| Real-time link | `realtime_udp.c` | window of recent packets, one NACK per loss | send, NACK, retransmit | deadline instead of reliability |
| Intrusion-tolerant link | `intrusion_tol_udp.c` | Diffie-Hellman epochs, incarnations, nonces, acknowledged window | key exchange, data, ack, ping, flow queues | restarts between key exchange and data |
| Intrusion-tolerant dissemination | `priority_flood.c`, `reliable_flood.c` | per source or flow queues, end-to-end acks, epochs, link statuses | send, process, E2E acks, status changes, neighbour transfer | restarts of source, relay and destination; full queues; messages freed while they are queued; statuses that overtake each other |
| Dispatch | `protocol.c`, `spines.c`, `udp.c` | packet in reassembly | `Prot_process_scat`, `Deliver_and_Forward_Data` | filtering by control link id |
| Runtime | `libspread-util/src/events.c`, `memory.c`, `alarm.c`, `data_link.c`, `stdutil/` | event queue, object pools, containers | `E_queue`, `E_dequeue`, `E_handle_events`, `new`, `dispose`, container calls | handlers that change the lists they are called from, reference counts, in-place moves that wrap around |
| Security, configuration, kernel routing, wireless | `security.c`, `configuration.c`, `kernel_routing.c`, `wireless.c` | keys, configuration | | I/O and cryptography, not modelled |

A daemon is one thread: the event loop (`E_handle_events`) runs one handler to completion, then
the next. What interleaves is therefore whole handlers: those of different daemons, timers, and
packets in flight. Components interact through function calls inside one handler (the hello
protocol creates and destroys links; a delivered packet is forwarded on another link), through the
event queue (functions queued for a link id), and through UDP packets.

## Modules

| Module | Models | Status |
|---|---|---|
| `ReliableLink` | what a reliable link promises: a message is delivered at most once, in any order, and forgotten by its sender only after it was delivered, until an end closes the link | abstract specification |
| `ReliableDatagram` | `reliable_datagram.c` with the receive handlers of `reliable_udp.c` and `state_flood.c` and the parts of `link.c` that create and destroy `Reliable_Data` | complete; shown to implement `ReliableLink` |
| `HelloLeg` | `hello.c` with `Create_Link`, `Destroy_Link`, `Disconnect_Network_Leg`, `Network_Leg_Set_Cost` and the session filter of `Prot_process_scat` | one leg, two daemons |
| `HelloSettle` | the legs of `HelloLeg` first among faults, then in calm conditions | |
| `StateFlood` | `state_flood.c` with the edge and the group protocol | sessions as the two modules above promise |
| `ReliableSession` | `reliable_session.c` with `Session_Close` and `Session_Write`: one stream connection | |
| `ClientSessions` | `session.c`, the local part of `multicast.c`, and the calls of `spines_lib.c` | two applications, one daemon |
| `IntrusionTolLink` | the window, acks, timers and incarnations of `intrusion_tol_udp.c` | |
| `IntrusionTolKeys` | its key exchange, pings and loss calculation | |
| `ReliableFlood` | one flow of `reliable_flood.c` | links as `IntrusionTolLink` promises |
| `LinkStatus` | link status changes of `reliable_flood.c` | same links |
| `PriorityFlood` | `priority_flood.c` at one daemon | |
| `RealtimeLink` | `realtime_udp.c`, one direction | complete |
| `LegBucket`, `LinkLoss`, `LegCost`, `ReceivePath` | rate limit, loss measurement, cost and receive buffers of a leg (`link.c`, `network.c`, `hello.c`) | |
| `Routing` | `route.c` on up to four daemons | states already flooded |
| `SourceRouting` | `multipath.c`, `dissem_graphs.c`, `Source_Based_Disseminate` | |
| `EventQueue`, `Memory` | `events.c`, `memory.c` | |
| `CircularArray`, `HashTable`, `SkipList` | `stdcarr.c`, `stdhash.c`, `stdskl.c` | |
| `MC...` | the instances for TLC | |
| `..._proofs` | theorems about `ReliableDatagram`, `HelloLeg`, `StateFlood`, `ReliableSession`, `ClientSessions`, `IntrusionTolLink` and `LinkLoss`; `IntrusionTolerance_proofs` is about `IntrusionTolKeys`, `LinkStatus` and `ReliableFlood` | proved |

### ReliableDatagram

State: the fields of `Reliable_Data` at both ends `"A"` and `"B"` (every variable but `net`,
`delivered`, `exited` and `blocked` is a field of that name; `events` holds the functions that the
event queue holds for the link). Actions: one per handler: `Reliable_Send_Msg`, `Try_to_Send`,
`Send_Ack`, `Reliable_timeout`, `Send_Nack_Retransm`, the receipt of a data and of an ack packet
(`Process_Ack` with what its callers do around it), the connection and the destruction of the
link. `Send_Much` is part of the handlers that call it.

Abstractions. A message is its sequence number. `net` is a set of packets from which any packet may
be taken, taken and left (a duplicate), or dropped. Timers fire at any time, so the length of a
timeout, the RTT estimate and the congestion-avoidance increment within one window size are left
out; `window_size` is the ceiling of the code's float. The acks carry what the code puts in the
`reliable_tail`: the cumulative ack and the list of holes.

### HelloLeg and HelloSettle

A *session* is the pair of control link ids that the two ends of a leg have drawn. State per
daemon: status and cost of the leg, both ids, `hellos_out`, `connect_cnter`, the neighbour slot, the
queued timers, and whether `last_connected` is so recent that the leg refuses hellos
(`stable_delay`). Actions: `Send_Hello`, `Send_Hello_Request`, `Send_Hello_Request_Cnt`, `Dead_Leg`,
`Send_Hello_Ping`, `Process_hello_packet`, `Process_hello_ping`, the sending and the filtering of
data, crash and restart. `rand()` returns an id that is not in use: two equal ids need the same
32-bit number in overlapping sessions.

What the model taught about this code:

* While only one end has adopted the session of the other, data of an older session can still be
  accepted by that end: `Prot_process_scat` compares the sender's id only. `AgreedSessionsAreClean`
  is what holds: once both ends agree on the session, nothing foreign was taken in it.
* A delayed hello of an old session tears down a healthy one; the ends then agree on a new session.
* `Dead_Leg` is the one timer that `Destroy_Link` does not dequeue. It may fire for a later control
  link, and the check of `hellos_out` it makes keeps it harmless.
* `stable_timeout` is longer than the time after which the other end gives up, so two ends can refuse
  each other in turn. Whether they do depends on the lengths of the timers; `HelloSettle` starts
  after the delay and does not answer it.
* Two ends can restart each other for ever when a round trip is not shorter than the hello interval
  (`hl_crossing`, see the findings).

`HelloSettle` has time in its calm phase: `Interval` ticks between hellos and `Delay` ticks for every packet,
with any phase of the two hello timers, so that hellos of the two ends cross on the way. The calm begins
in any state that the faults left behind, with whatever packets are under way, in which no leg is held back by the
stable delay and none is about to be declared dead.

### StateFlood

State per daemon: the copies it has (`known`, a time stamp and a value), `Changed_States` with the
masks, the slots in `Neighbor_Nodes`, the queued functions, the joined groups; and per leg how far
each end is in the session and the cells under way. Actions: the connection and the loss of a leg
(`Network_Leg_Set_Cost` with what the hello protocol does around it), `Join_Group`, `Leave_Group`,
`Resend_States`, `Net_Send_State_All`, `Send_State_Updates`, `Set_Routes`, `Process_state_packet`, a
restart.

Abstractions. The control link is not modelled again: what is sent in a session arrives once, in
any order, unless an end leaves the session (`ReliableDatagram` implements `ReliableLink`); an end
that left connects again only when the other one has left too (`HelloLeg`, whose caveat about a
session that only one end has adopted is not carried over). A packet of several
cells is several cells. Where `Net_Send_State_Updates` stops after six packets the model sends any
non-empty part of what is needed. A cost is "has one" or "has none". A slot is given at the time of
`Connect` rather than in the `Create_Link` before it. Edges of other daemons that are in the
configuration exist in the code with time stamp 0; they are the same as unknown ones here, because a
cell with time stamp 0 changes nothing at a daemon with the same configuration. Ages are left out:
garbage collection is disabled in the code (`network.c:221`). The clock of a source is later than every time stamp it has used
(`Now`), that is, it is not set back.

### ReliableSession and ClientSessions

`ReliableSession` is one connection of two stream sockets, from `connect` through data to `close`. A
side is a record with the fields of `Session` and `Reliable_Data`; each handler is an operator on that
record and leaves the packets it sends in `out`. Actions: the calls of the client (`Connect`,
`Accept`, `ClientSend`, `ClientClose`, `ClientReads`), the timers (`Hello_Event`, `Ses_Delay_Close`,
`Ses_Try_to_Send`, `Ses_Send_One`, `Ses_Send_Ack`, `Ses_Reliable_Timeout`,
`Ses_Send_Nack_Retransm`), and the receipt, loss and duplication of packets. `Stale` lets a side start with
the `last_seq_sent` and the disconnected state that an earlier connection left in the pooled
`Reliable_Data`: `Init_Reliable_Session` does not reset them (`reliable_session.c:137`). Such a session may end
before all data was read, which is why `EndsComplete` speaks of sessions whose structure is new.

`ClientSessions` has the library's table of sockets, the requests in flight per socket, and the
daemon's record of sessions, ports, groups and block flags. A library call is one action up to the
point where it waits; `Session_Read` is one action per request. Links, flows and reliable sessions block
and resume sessions in any order. Payloads, partial reads and fragments are left out. `spines_get_client` is the code's search
for the first slot with the descriptor, and descriptors that were closed are given out again: a `spines_socket`
that fails to receive its session's id closes the descriptor and leaves it in the table (`spines_lib.c:779`),
and the next socket with that descriptor is found at the stale slot. `SlotsVisible` makes that one
exception. A flood (`Session_Flooder_Send`) sends its packets like data of the session and may find it blocked at any of
them; a message that a full flow drops under `NO_BACKPRESSURE` leaves the session as one that was sent does. That `Session_Read`
goes on with a session that a flood has closed is left out.

### Intrusion-tolerant messaging

`IntrusionTolLink` keeps both ends as records with the fields of `Int_Tol_Data`. A nonce is the triple
that identifies it, an XOR of nonces is a symmetric difference of sets, so an ack passes exactly when the
acknowledged nonces are the ones that were sent. A restart gives a new incarnation and the other end
renumbers its window (`Incarnation_Change`). With crypto nothing but Diffie-Hellman packets leaves an end before there is a
common key, and the reliable timer that `Process_DH_IT` does not queue is queued by `DH_established`. Any `Link_Send` of
a data packet may fail: the packet has its number all the same, the loop that fills the window stops there, and no
timer is queued for it (`intrusion_tol_udp.c:1808`, and the comment at 1822). The failed send of the only outstanding packet
therefore leaves it without a timer until the next message is sent; `NothingForgotten` says that this is the only case. The
test option behind `network_flag` and a control link that vanishes are left out. `IntrusionTolKeys` models a public key as its owner
and the owner's incarnation (`DH_generate_key` makes a pair once and `Key_Exchange_IT` reuses it, `intrusion_tol_udp.c:2957`) and a
shared key as the set of both. `ReliableFlood` and `LinkStatus` use links that deliver in order, once,
from the moment the sender has seen the incarnation of the receiver: what `IntrusionTolLink` is proved
to do. A daemon in `Failing` may fail to forward a packet; the hop-by-hop acknowledgement that was to ride on it is then gone
(`reliable_flood.c:2592`), and that the link asks the flow again is assumed. `PriorityFlood` is one daemon whose neighbours offer, need and return messages, and whose links take
bursts that end when the link is full or a send fails; time is a small
clock and lengths are packets.

What the models taught about this code: `Process_Status_Change` does not ask whether the daemon is itself the
creator of what it takes (`reliable_flood.c:3475`), and `Reliable_Flood_Neighbor_Transfer` leaves out only the vector of the
neighbour it is for (`reliable_flood.c:1870`). A daemon c that restarted has epoch 0 in its own vector until it
makes a change. A neighbour's transfer leaves c's vector out, but in a row b-c-d-e, where d restarted
as well, e gives d the old vector of c, d passes it on, and c takes it: c goes on with the old epoch, possibly below numbers that b has,
which then refuses its changes. In practice the first PONG at a new link makes c generate a change early (`intrusion_tol_udp.c:783`), so
this is a race of the transfer with that change. The history field `st.back` holds the creators that took a vector of
their own since their last restart, and `GraphsAgree` makes the exception for them.

### Legs

`LegBucket` has the bucket and the buffer of `Link_Send`; `LinkLoss` the packet numbers and the receiver's
count, with `PACK_MAX_SEQ` = 6; `LegCost` computes with scaled integers the costs that the code computes
in floats, for all five values of `Route_Weight`; `ReceivePath` follows the buffers of `Recv_Pack` through
`Prot_process_scat` and the queue of delayed packets.

What the models taught about this code:

* A bucket that is full returns early from `Fill_Leg_Bucket` and keeps its old `bucket_last_filled`, so
  the time it stayed full is paid out at the first filling after a packet was sent. Over all time the
  rate is kept (`RateKept`); over a short window nearly two buckets may leave.
* With problem-type routing a new problem that comes with a *lower* expected latency than the one last
  reported is held back like an improvement, up to 30 s (`network.c:804`), although the comments at `network.c:737`
  and 770 say that a new problem changes the cost at once; `CostTrue` makes the exception.
* At connection `reported_rtt` is the measured one while the cost is `MAX_LATENCY`. The true cost is
  announced because the smoothed time keeps falling after the connection, not because the cost is off.

### Routing

In `Routing` each daemon has its own tables, computed from the same costs at times of its own, and one
packet at a time is under way; the property compares with shortest paths defined by quantification.
`SourceRouting` is the daemon that stamps masks; the flow algorithm (Bellman-Ford on the split graph) is
executed as written and compared with the cheapest node-disjoint paths by enumeration, the current
dissemination graph with the problems present.

### Runtime

`EventQueue` compares the list of events and the arrays of descriptors with the sets that were asked
for, while handlers change them and may end the loop (`E_exit_events`); descriptors have the three priorities. Which handlers a walk
calls with the mask of the last `select` after a handler changed the arrays is modelled and is not the subject of a
property. `Memory` is the build with `NDEBUG`, which has no statistics and pools objects up to the threshold; it follows the
first word of each object, which is a header or a link of the pool. The containers execute the copying and linking of the code on small memories and
compare with the sequence, bag or order that the calls mean.

### Composite instances

`MCIntrusionTolerance` and `MCSubstrate` check several parts in one run: the variable `unit` is chosen in
the initial state and never changes, and the behaviour is that of the chosen part alone. The parts share no state; each
is the same as in a run of its own. `MCIntrusionTolerance` extends `IntrusionTolLink`, `IntrusionTolKeys`, `LinkStatus` and
`ReliableFlood` (on two daemons), whose properties the run checks as they stand (a part that is not chosen stays in an initial
state); it instantiates `ReliableFlood` twice more, on a triangle and on a line. The three overlays have the same
source, destination and window, so that `KeptUntilDelivered` is one formula for all of them; `NothingStalls` speaks of
all daemons, and `FlowsDoNotStall` has it for each overlay. There, and in `MCSubstrate`, a property is an implication from `unit`.
`MCHelloSettle` has two units: the calm after the faults, and a crash (`HelloLeg` with smaller counts).

## Runs

| Run | Instance | Shows |
|---|---|---|
| `rd_link` | window 2, 6 messages one way and 1 back, congestion control on | at most once, no loss, no alarm exit, back pressure only behind a backlog, nothing stuck, no function outlives its link, the inductive invariant of the proofs, refinement of `ReliableLink` |
| `rd_delivery` | window 2, 3 messages, fair | every message is delivered unless the link is closed |
| `hl_sessions` | 2 ids for each end, 2 packets, 2 hellos to connect, a crash, after which 1 packet | sessions stay apart, no alarm exit, hello timers are where they must be |
| `hl_live` | two units: 1 packet, 1 crash, 4 ids; and 5 ids, faults with 1 packet, then calm with a delay of a third of the hello interval; fair | sessions stay apart through a crash; a dead neighbour is noticed; after the faults both ends connect and stay connected |
| `hl_crossing` | the calm with a delay of two thirds of the interval, fair | **violated**: the ends restart each other for ever |
| `sf_edges` | 2 daemons, the edges between them; a loss of the leg, a refresh, a crash | no assertion fails, no news is forgotten, equal time stamps mean equal values, also when updates go out in parts |
| `sf_rejoin` | 3 daemons in a row, a group of the first one; two joins, leaves or losses of a leg, a crash, fair | memberships of a former life disappear everywhere, and all daemons end up with the true membership |
| `sf_ghost` | a group of the middle one, a refresh before the crash | **violated**: two values with one time stamp |
| `rs_stream` | window 3, 2 messages, 1 packet in flight, 1 fault (full client socket, no route, early close), new and reused structures | the client reads a prefix of the stream, no alarm exit, the end of the connection comes after all data |
| `cs_sessions` | 2 sockets (stream and datagram), 2 groups, 2 ports, 3 calls | ports lead to their sessions, groups agree with the sessions, nobody stays blocked without reason, a call finds the slot of its socket |
| `it_units` | the link with window 2, a restart and failing sends, with and without crypto; keys with 3 starts; a flow on two daemons, a triangle and a line; link status on a line of 3 | in order and once, honest acks pass, nothing is forgotten, established keys are shared, messages are kept until delivered and do not stall, graphs agree at rest |
| `substrate` | fourteen units, see `MCSubstrate` | legs carry and measure faithfully; the event loop, memory and containers do; routes and masks are those of the present costs; the queues of priority flooding agree with its messages |

Bounds. Window 2 is the least in which slots are reused (message 2 uses the slot of message 0) while
another message is outstanding; 6 messages use each slot three times, so that a late duplicate meets
a slot two generations on, and reach a backlog over `MAX_BUFF_LINK` = 4 so that sessions block. Two
packets in flight are what one needs for one to overtake another; with one the network still loses
and duplicates. Two control link ids for each end are its current session and an old one whose packets are
still under way, four leave room for the ids that the other end and a packet remember across crashes,
five for the packets that cross in the calm of `HelloSettle`;
an id is drawn only when no packet and no leg holds it, so ids are reused and the runs do not stop for
lack of them. `DEAD_LINK_CNT` and `CONNECT_LINK_CNT` are 1 to 3
instead of 10 and 6: the handlers compare with them and do nothing else, and two hellos to connect give the leg
a time in which it knows its peer and must still refuse its data. Two daemons with an edge each
have two changes to send at a time; three in a row have a source, a relay with two neighbours whose
slots are given up and taken again, and an end that hears everything second-hand.
In `rs_stream` three slots are the least with a hole and a message on each side of it. `rs_stream` runs without
congestion control, which only narrows the window. In `cs_sessions` two sockets suffice for the slots of
one to move behind the other's and for two sessions to compete for a port. A flood has one or two packets. Link status in `it_units` has epochs up to 3, that is,
two restarts after the start, on a row of three; `GraphsAgree` was also checked on the row of four of the remark above. The flows of `it_units` have one
message on the line and the triangle and two on two daemons: a second message needs the
acknowledgement of the first (`MAX_MESS_PER_FLOW` = 1). Four routers with one chord have equal-cost and
disjoint paths. In one step of the intrusion-tolerant link no send fails, packet 2 alone, or all (`SomeFail`); forwarding fails at both daemons of the
direct flow and at the relay of the triangle (`Failing`); a burst of priority flooding has room for none, one that fails, or two
(`ThreeBursts`). Array and table sizes are such that growing, shrinking and wrapping around all occur.
`CHECK_DEADLOCK FALSE` is in every configuration because the bounds, and a closed link, stop the
system.

Fairness. Functions that are in the event queue run (`E_handle_events` runs every function whose time
has come). In `rd_delivery` a packet that is sent again and again arrives at last
(strong fairness of receipt), which is what a lossy but working network gives. In `hl_live` and `hl_crossing` the
calm part has a network without loss, in which time passes only when nothing is due, and goes on (weak fairness of
`InTime`); in the crash unit the functions in the event queue run, and packets that are under way arrive or are lost.
In `sf_rejoin` the link delivers what is sent in a session, which `rd_delivery`
shows, and the hello protocol connects legs and notices an end that left, which `hl_live`
shows for a round trip within the hello interval. Changes, losses of legs and crashes are never fair.

## Findings

`hl_crossing`. A hello with another control link id than the one known makes `Process_hello_packet` disconnect the leg and
start a session of its own, which knows no id of the other end (`hello.c:506`). If the other end sends one more hello before it hears
of this, that hello is taken for its current session; but the other end restarts in answer, and its next hello is a
mismatch again. A session that lasts one round trip has two hellos of an end in it when a round trip is as long as the hello interval
(100 ms by default), and then the ends restart each other for ever, on a network that loses and reorders nothing. This is the trouble that
`docs/spines_5.3_changes.txt:246` reports; the stable delay that it introduces does not apply to this branch. With shorter round trips
`hl_live` shows that the ends settle.

`sf_ghost`. A daemon that hears a copy of one of its own states answers with that time stamp plus
one (`multicast.c:222`, and `link_state.c:324` for an edge it does not know yet). After a restart it
may have used that time stamp before: it joined a group (time stamp 2) and refreshed the membership
(3), one neighbour heard of 2 only and the other one of 3; it crashes, hears of 2, and publishes "not
a member" as 3. The neighbour with the old 3 and the new 3 of the source are swallowed by each other
(`state_flood.c:557`), and the neighbour keeps the membership until the next change. A time stamp
from the clock, as for a state that the daemon creates itself, would not collide.

## Proofs

Every proof is about the module that TLC runs, with the same `Spec`, and holds for every value of the
constants that satisfies the named `ASSUME`s of that module. The bounds that keep the runs small (numbers of
messages, packets in flight, crashes, calls) are constants like the others: a theorem holds for any of them.

| Theorem | States | Module |
|---|---|---|
| `Invariance`, `TypeCorrect`, `NeverExits`, `DeliveredAtMostOnce`, `NothingLost`, `NeverStuck`, `NoOrphans`, `BlockedOnlyWithReason` | `IInv`, `TypeOK`, `NoAlarmExit`, `AtMostOnce`, `NoLoss`, `NothingStuck`, `NoOrphanEvents`, `BlockedOnlyBehindBacklog` | `ReliableDatagram_proofs` |
| `Refines` | every behaviour implements `ReliableLink` | `ReliableDatagram_proofs` |
| `LegsNeverExit`, `HelloTimersRun`, `SessionsStayApart` | `NoAlarmExit`, `HellosRun`, `AgreedSessionsAreClean` | `HelloLeg_proofs` |
| `FloodAssertionsHold`, `NewsTravels`, `SourcesTellTheTruth`, `StampsTellCopiesApart` | `NoAssertFails`, `NewsOnItsWay`, `OwnStatesTrue`, `EqualStampsAgree` | `StateFlood_proofs` |
| `StreamInOrder`, `SessionsNeverExit`, `EndsAreComplete` | `Sequenced`, `NoAlarmExit`, `EndsComplete` | `ReliableSession_proofs` |
| `PortsAlwaysFind`, `MembershipAgrees`, `NobodyForgotten`, `SlotsStayVisible` | `PortsFindSessions`, `GroupsAgree`, `NobodyLeftBlocked`, `SlotsVisible` | `ClientSessions_proofs` |
| `DeliveredInOrderOnce`, `AcksOfHonestPass`, `NothingIsForgotten` | `InOrderOnce`, `HonestAcksPass`, `NothingForgotten` | `IntrusionTolLink_proofs` |
| `KeysAreShared`, `StatusesAgree`, `FreedOnlyWhenDelivered` (and `...AtRest`, from `Settled`) | `EstablishedMeansShared`, `GraphsAgree`, `KeptUntilDelivered` | `IntrusionTolerance_proofs` |
| `LossIsCounted` | `LossCounted` | `LinkLoss_proofs` |

All of them follow one plan: an inductive invariant in named parts, a lemma per function of the code on what
it does to a record, a lemma per action, `NextOK` (or `NextIInv`, `NextGood`) that joins them, and short theorems
that read the properties off the invariant.

### The reliable link

Assumptions: a window of at least one slot, a minimum window within it, a backlog limit of at least 4,
without which the code's quarter of it is zero.

The argument. None of the properties is inductive by itself: at-most-once depends on what the slots of
`recv_window` mean, which depends on how far the two ends' windows can be apart, which depends on
what the acks in flight say. `IInv` is the conjunction of named parts: `WindowsAligned` relates the
indices of the two ends (the tail of a sender is at most the receive tail of the peer, the receive
head at most the sender's head, each window at most `MAX_WINDOW` long); `SlotsFilled` says that
exactly the slots of `tail .. head-1` hold their message; `BacklogContiguous` that the backlog
continues the window; `PacketsGenuine` that a data packet carries a message that was put in the
window and an ack no more than the peer has received; `CellsRecordDeliveries` that the flags in
`recv_window` say which messages of the receive window were delivered; `TimersTracked` that the flags
and the event queue agree. `SlotInjective` and its relatives (two numbers less than `MAX_WINDOW`
apart have different slots) are proved from `%` and carry the window arguments. There is one lemma
per handler, under it one step per conjunct, and `NextIInv` joins them. The refinement maps what a
sender submitted, what was delivered and which ends are closed to the variables of `ReliableLink`;
each handler is one of its steps or a stuttering step.

That blocked sessions are resumed follows from `BlockedOnlyBehindBacklog` (they are blocked only behind a
backlog) and `EventuallyDelivered` (the backlog drains).

### The sessions of a leg

Assumptions: the leg has two ends, 0 is no control link id, and the counts are at least 1.

`AgreedSessionsAreClean` speaks of both ends and of what they did earlier, so it needs two relations that
no single handler shows. `DataOfSession`: as long as the sender of a data packet still has the control link of that
packet, it still knows the peer session it addressed: learning of another one destroys the link.
`ForeignSession`: an end that took data of another session knows a peer session, and should the peer still be in
it, the peer has a different session of this end in mind. If both ends agreed, the second would be
contradicted. `LegOK` has the rest: status and cost agree, a control link has a queued `Send_Hello` and a
neighbour slot, a leg without one has at most a `Dead_Leg` left.

### Flooding

Assumptions: finitely many daemons and groups; every leg is seen from both ends.

`NewsOnItsWay` is nearly inductive: it needs `UpdatesQueued` (changed states always have their sending
queued) and `CellsKnown` (a daemon in a session knows at least what it sent in it), with `Base` for the types and the
slots of neighbours, which a mask bit is worth nothing without. `OwnStatesTrue` is proved with the invariant known.
`StampsTellCopiesApart` has one more hypothesis, `SourcesRemember`: a daemon that may crash is the source of
configured edges only. That hypothesis is needed, as `sf_ghost` shows: a daemon that comes back without memory of a
group may use a time stamp twice (see the finding). `StampsOK`, its invariant, says that no copy is newer than that of its source
and that equal stamps mean equal values, absent copies counted as stamp 0.

### Reliable sessions

Assumptions: `MAX_WINDOW` and `MAX_CG_WINDOW` of at least 2 and half of the second within the first
(both are 20000, `link.h:41`), positive buffers. `Stale` is any nonempty set of numbers that an
earlier connection may have left behind.

The invariant is stated of one `Session` record and of the two numbers it must know of its peer, so that it holds of
each intermediate record inside a handler. `SendOK`: the backlog continues the window and the window holds exactly the
messages between `tail` and `head`. `RecvOK`: a full slot of `recv_window` holds a message of the present
window, in the slot of its number. `StreamOK`: what was read and what waits in `rel_deliver_buff` are the messages
below `recv_tail`, in order. `StatesOK`: which events and descriptors the states allow. `EndsOK`: a disconnecting
session has the final number of its peer, which is orphaned and numbers no more. `NetOK`: a `DISCNCT` under way
carries that final number. The step from packet to stream needs no fact about acks: the receiver accepts
by number and slot alone, and two numbers less than `MAX_WINDOW` apart have different slots.

### Client sessions

Assumptions: finitely many sockets and groups, at least two ports to assign.

The daemon is a record, and the lemmas are about records: `DaemonOK` says that ports and sessions point
at each other (`PortsOK`), memberships agree (`GroupsOK`), and a session that is not read has a reason (`ReadOK`);
`Handled` says what a request may do to its session and that it leaves all others alone. `InboxOK` counts the answers a
socket waits for, `TableOK` says that slots in use are below `Max_Client`, that
the slot of a socket holds its descriptor, and that descriptors in use differ; the search of `spines_get_client` then ends at
the socket's slot or before it, at a slot with the same descriptor, which only a failed socket leaves.

### The intrusion-tolerant link

Assumptions: two ends; windows, `Msg_Per_SAA` and the bucket are positive; a message has at most as many packets as the window has
slots (`MAX_PKTS_PER_MESSAGE` is less than `MAX_SEND_ON_LINK`).

The difficulty is that numbers mean different things in different pairs of incarnations: a restart of either end makes
`Incarnation_Change` renumber what is left of the window from 1. The proof gives every packet a *place* in the
stream of all packets (`Before[m - 1] + i` for packet i of message m). Within one pair of incarnations
numbers and places differ by a constant k, the packets of the messages that were finished before the pair
began. `PairInv` says, for each pair (i, j), that one k fits the sender's window (`Sender`), the receiver's window,
partly built message and list of deliveries (`Receiver`) and all packets of the pair that are under way (`PacketOK`, with
the digest of nonces that an ack must have). That k is the same at both ends is not a fact about
numbers but about time: `Older` says that no packet of an incarnation that is still to come is in the network, `Heard` that an end that the
other one has not heard of yet has an empty receive window; so a pair is entered with empty windows and nothing
under way, and may have any k. A failed send changes none of this, since the packet has its number. In order and once then follows because the places of the delivered messages increase without
gaps, and the ack test because both ends build the digest over the same numbers. `Timers` is the part for
`NothingForgotten`: `Alarmed`, `Answers`, `Filled` and `Served`; `Alarmed` speaks of the set `unsent` of the numbers whose sends have failed so
far, and a packet that does leave queues the timer for all.

The loops of the handlers (filling the window, advancing both tails, answering nacks, handing out fragments) are
recursive functions in the model. A lemma per loop says what it preserves, by the least counterexample: `LeastExists`
is proved from the well-foundedness of `<` and is cited with the set of indices at which the claim fails.

### Keys, link status and loss

`KeysAreShared` assumes that the link has two ends (`TwoPeers`). A key is `Common(n, inc, m, minc)`, the public keys of two
incarnations, so a packet that opens names the incarnations it was locked in (`OpensIs`). `Maker(o, inc, ngbr)` says that whoever locked a packet in its
incarnation inc for incarnation ngbr of its neighbour has restarted since, or holds a key for ngbr or a later one; and no daemon knows an incarnation of its
neighbour that is yet to come, so the later one is ngbr itself. A daemon that could unlock a packet therefore shares the key with
the incarnation it knows. Numbers of incarnations are not reused (they are the second of the start, `link.c:378`).

`StatusesAgree` assumes a connected overlay (`OneOverlay`), that no daemon is its own neighbour, and costs that the code accepts. `StatusInv` has, for
every creator c that did not take its own vector back: `Chain`, the vectors of c's present incarnation, wherever they are, are ordered cell
by cell, equal numbers mean equal costs, and c has the last one; `GraphOK`, a daemon's graph has the costs of
the vector it holds; `Echo`, a daemon still knows what it has sent in this session; `News`, of two neighbours the one that knows less
is about to be told (a transfer is due, the vector is marked unsent, or it is on the wire). At rest `News` makes the vectors of neighbours
equal, and by connectedness all of them. TLC checked `StatusInv` on the row of three before it was proved; the attempt to prove
the property without the exception for `st.back` is what led to the remark on restarted creators above.

`LossIsCounted` assumes `UnderHalfARound`: neither a packet nor the receiver is half a round of
`PACK_MAX_SEQ` or more behind the sender, which is what `Check_Link_Loss` takes for granted when it decides by the nearer way
around. From it `NumbersTell` follows, the lemma about `%` that the comparison of the code orders any two such packets correctly and that its
loop counts what lies between. `substrate` checks its formula through `MCSubstrate`, as a part of `LegsFaithful`.

### The reliable flow

Assumptions: two different ends among the daemons (`FlowAssumption`), room for at least one message (`RoomAssumption`), a list of routings
over the overlay (`RoutingAssumption`). The overlay need not be connected, links may hold any number of packets, and any daemon may
restart at any time.

What makes the flow hard is that a message and an acknowledgement are told apart by epochs that both ends renew: the destination's
restart makes the source start a new epoch, the source's restart makes the destination follow it, and
copies of old messages and old acknowledgements wander through relays in between. The records do not hold
enough to say that this works. `FlowInv` therefore says that there are two histories, the set M of all messages ever given (epoch, number,
load) and the set C of all acknowledgements that the destination ever made (its epoch, the source's epoch, aru), such that

* every message in a cell or on a link is in M (`Kept`), every acknowledgement of the destination at a daemon or on a link is in C
  (`Told`); this is all that the relays contribute (`NodeOK`, `PacketsOK`);
* `MessagesOK`: within an epoch number and load differ by a constant, a later epoch has later loads, and for the present
  epoch the constant is `FirstLoad`;
* `AcksOK`: no acknowledgement is ahead of the destination, and an epoch that was acknowledged under one incarnation of the destination
  is smaller than the next incarnation. So the source, which takes a fresh clock value when it meets a new incarnation after having sent
  something, never sees its present epoch acknowledged by an older one;
* `SourceOK` and `DestinationOK`: the window is the one that the acknowledgement on record describes, and its cells hold the loads that
  their numbers say; `DeliveredOK`: what was delivered increases, and is smaller than everything the destination
  may still accept; `SeenOK`: a message given under the incarnation of the destination that the source knows belongs to the present epoch.

A message of the present epoch is then either in the window or below `sow`; below `sow` it is covered by an acknowledgement in C of
the destination's present incarnation, and was delivered. An action that gives a message or makes an acknowledgement
extends a history (`GivenHistory`, `AckHistory`, `DestinationMeets`, `DestinationRestarts`), every other one keeps them; most functions of the relays change only what `Alike` leaves open.

### Only model-checked

* Liveness (`EventuallyDelivered`, `DeadPeerNoticed`, `Settles`, `Converges`): outside the prover.
* The recursive algorithms (`Routing`, `SourceRouting`, `PriorityFlood`, `RealtimeLink`, `HashTable`, `SkipList`), the
  folds of `CircularArray` and the sum in `LegBucket`: what they compute for every input needs an induction over
  data, which the prover cannot do. This covers `QueuesAgree`, `RoutesWork`, `MasksSound` and most of `LegsFaithful` and
  `PlatformFaithful`.
* `NothingStalls` of `ReliableFlood` (a statement about all relays at rest, of which the proof above says little) and the parts `LegCost`,
  `ReceivePath`, `EventQueue` and `Memory` of `MCSubstrate`: not proved.

## Plan

1. *Done*: models of the reliable link; sessions of a leg; state flooding; reliable and client sessions;
   intrusion-tolerant link and dissemination; real-time link; measurements of a leg; routing; runtime.
2. *Done*: proofs of the safety properties of the reliable link, the legs, the flooding, the reliable and the client
   sessions, the intrusion-tolerant link, its keys, the link statuses, the reliable flow and the loss measurement.
3. Proofs: `NothingStalls`; the parts of `MCSubstrate` that have no recursion.
4. Models: two links of a daemon under one `Link_Sessions_Blocked_On`; several flows over one
   intrusion-tolerant link; `Link_State_LTS_cmp` with a small word.

## Not modelled

Cryptography, configuration parsing, kernel routing, wireless, sockets and logging: I/O or library
code. The doubly-linked list and the plain array of `stdutil`. Lengths of timers are not modelled but for
the stable time of `LegCost`; what depends on them (two ends that refuse each other in turn through
`stable_timeout`, the random offset computed at `link.c:300`) is outside the models. Sequence numbers and
time stamps do not wrap around in the models, except the packet numbers of `LinkLoss` and the
numbers of `SourceRouting`. `Edge_Is_state_relevant` refreshes only costs of 0 and more, so the negative costs of
problem-type routing are never refreshed.
