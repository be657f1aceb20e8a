----------------------------- MODULE StateFlood -----------------------------
(***************************************************************************)
(* State flooding (daemon/state_flood.c) with its two protocols: the edges *)
(* of the overlay (link_state.c, network.c) and the groups that the        *)
(* clients of a daemon have joined (multicast.c).  A state belongs to its  *)
(* source; every other daemon keeps the newest copy it has heard of and    *)
(* passes it on, once, to the neighbors that may not know it.              *)
(*                                                                         *)
(* The control links are as ReliableLink promises: what is sent in a       *)
(* session arrives once, in any order, unless an end leaves the session.   *)
(* An end that has left connects again only after the other one has left,  *)
(* which is what HelloLeg shows.  A packet is one cell here: a packet of   *)
(* several cells handles them one by one, and how many fit is left open.   *)
(***************************************************************************)
EXTENDS Integers, FiniteSets, FiniteSetsExt

CONSTANTS Node,        \* the daemons
          Leg,         \* <<n, m>>: n has a leg to its neighbor m
          Edges,       \* the edge states that are followed, a subset of Leg
          Groups,      \* the group states <<n, group>> that are followed
          Configured,  \* the edges that a daemon knows when it starts
          MaxChanges,  \* bound: losses of a leg, changes of a group
          MaxResends,  \* bound: refreshes
          Faulty,      \* the daemons that may crash
          MaxRestarts  \* bound: crashes

State == Edges \cup Groups

ASSUME LegAssumption ==
  /\ Leg \subseteq Node \X Node
  /\ \A l \in Leg : l[1] # l[2] /\ <<l[2], l[1]>> \in Leg
ASSUME FiniteAssumption == IsFiniteSet(Node) /\ IsFiniteSet(Groups)
ASSUME StateAssumption ==
  /\ Edges \subseteq Leg
  /\ Groups \cap Leg = {}
  /\ \A s \in Groups : s[1] \in Node
  /\ Configured \subseteq Edges
  /\ Faulty \subseteq Node
ASSUME FloodBoundAssumption == {MaxChanges, MaxResends, MaxRestarts} \subseteq Nat

VARIABLES known,     \* known[n][s]: what n knows of state s
          changed,   \* changed[n]: Changed_States, the states to pass on
          mask,      \* mask[n][s]: the slots of the neighbors that need not hear of s
          slot,      \* slot[<<n, m>>]: the place of m in Neighbor_Nodes of n, or None
          sess,      \* sess[<<n, m>>]: how far n is in the session of this leg
          queued,    \* queued[n]: functions in the event queue of n
          joined,    \* the groups <<n, group>> that a session at n has joined
          chan,      \* chan[<<n, m>>]: cells on their way from n to m
          changes,   \* losses and changes so far
          resends,   \* refreshes so far
          restarts   \* restarts so far

vars == <<known, changed, mask, slot, sess, queued, joined, chan, changes, resends, restarts>>

StatesOf(prot) == IF prot = "Edge_Prot_Def" THEN Edges ELSE Groups
Protocol == {prot \in {"Edge_Prot_Def", "Groups_Prot_Def"} : StatesOf(prot) # {}}
ProtOf(s) == IF s \in Edges THEN "Edge_Prot_Def" ELSE "Groups_Prot_Def"
Source(s) == s[1]

Neighbors(n) == {m \in Node : <<n, m>> \in Leg}
Slot == 0 .. Cardinality(Node) - 1
None == -1

(* The functions that are queued: Send_State_Updates for a protocol,          *)
(* Net_Send_State_All for a link and one, Set_Routes.                        *)
Send_State_UpdatesOf(prot) == <<"Send_State_Updates", prot>>
Send_State_AllTo(m, prot) == <<"Net_Send_State_All", m, prot>>
Function(n) ==
  {Send_State_UpdatesOf(prot) : prot \in Protocol}
    \cup {Send_State_AllTo(m, prot) : m \in Neighbors(n), prot \in Protocol}
    \cup {<<"Set_Routes">>}

(* A copy of a state: the time stamp, 0 if there is no copy, and the value:  *)
(* the edge has a cost, or the group is active.                              *)
Unknown == [timestamp |-> 0, value |-> FALSE]

(* "no": not connected yet, "left": connected and disconnected again, while  *)
(* the other end is still there.                                             *)
Progress == {"no", "up", "left"}

(* Is_Connected_Neighbor2 *)
Connected(n, m) == sess[<<n, m>>] = "up"

(* Every copy of s there is, and a time stamp that is later than all: what   *)
(* the clock gives when a source creates s.                                  *)
Copies(s) ==
  {known[n][s] : n \in Node}
    \cup UNION {{[timestamp |-> c.timestamp, value |-> c.value] :
                   c \in {d \in chan[l] : d.state = s}} : l \in Leg}
Now(s) == 1 + Max({c.timestamp : c \in Copies(s)})

(* Init_Nodes: the configured edges are created without a cost. *)
Started(n, stamp) ==
  [s \in State |-> IF s \in Configured /\ Source(s) = n
                   THEN [timestamp |-> stamp[s], value |-> FALSE] ELSE Unknown]

Init ==
  /\ known = [n \in Node |-> Started(n, [s \in State |-> 1])]
  /\ changed = [n \in Node |-> {}]
  /\ mask = [n \in Node |-> [s \in State |-> {}]]
  /\ slot = [l \in Leg |-> None]
  /\ sess = [l \in Leg |-> "no"]
  /\ queued = [n \in Node |-> {}]
  /\ joined = {}
  /\ chan = [l \in Leg |-> {}]
  /\ changes = 0
  /\ resends = 0
  /\ restarts = 0
-----------------------------------------------------------------------------
(* Changed states. *)

UpdatesFor(n, S) ==
  {Send_State_UpdatesOf(prot) :
     prot \in {p \in Protocol : S \cap StatesOf(p) # {} /\ changed[n] \cap StatesOf(p) = {}}}

(* Mutant: the neighbors that heard of an earlier change are not told of     *)
(* this one.                                                                 *)
Add_to_changed_statesKeepMask(n, S, aware, functions) ==
  /\ changed' = [changed EXCEPT ![n] = @ \cup S]
  /\ mask' = [mask EXCEPT ![n] = [s \in State |-> IF s \in S THEN @[s] \cup aware ELSE @[s]]]
  /\ queued' = [queued EXCEPT ![n] = functions \cup UpdatesFor(n, S)]

(* Add_to_changed_states, for the states in S: everybody is to hear of the   *)
(* new copies, but for the neighbors in the slots `aware'; `functions' are   *)
(* those already queued.                                                     *)
Add_to_changed_states(n, S, aware, functions) ==
  /\ changed' = [changed EXCEPT ![n] = @ \cup S]
  /\ mask' = [mask EXCEPT ![n] = [s \in State |-> IF s \in S THEN aware ELSE @[s]]]
  /\ queued' = [queued EXCEPT ![n] = functions \cup UpdatesFor(n, S)]

(* The copy that the source of s has, created if there is none. *)
Own(n, s) ==
  IF known[n][s] = Unknown THEN [timestamp |-> Now(s), value |-> FALSE] ELSE known[n][s]

(* Mutant: the time stamp stays. *)
PublishSameStamp(n, S, value, functions) ==
  /\ known' = [known EXCEPT ![n] =
                 [s \in State |-> IF s \in S THEN [Own(n, s) EXCEPT !.value = value] ELSE @[s]]]
  /\ Add_to_changed_states(n, S, {}, functions)

(* The source gives the states in S a value: the time stamps grow, and the   *)
(* states are flooded.                                                       *)
Publish(n, S, value, functions) ==
  /\ known' = [known EXCEPT ![n] =
                 [s \in State |-> IF s \in S
                                  THEN [timestamp |-> Own(n, s).timestamp + 1, value |-> value]
                                  ELSE @[s]]]
  /\ Add_to_changed_states(n, S, {}, functions)

Spontaneous == changes < MaxChanges /\ changes' = changes + 1 /\ UNCHANGED <<resends, restarts>>

-----------------------------------------------------------------------------
(* Legs: Network_Leg_Set_Cost, called by the hello protocol. *)

FreeSlots(n) == Slot \ {slot[<<n, m>>] : m \in Neighbors(n)}

(* The cost of the edge is set, if its state is followed, and the routes are *)
(* to be computed: all that they have to do with the flooding is that they   *)
(* send the updates of the edges first.                                      *)
SetCost(n, m, value, functions) ==
  IF <<n, m>> \in Edges
  THEN Publish(n, {<<n, m>>}, value, functions \cup {<<"Set_Routes">>})
  ELSE queued' = [queued EXCEPT ![n] = functions] /\ UNCHANGED <<known, changed, mask>>

(* Create_Link has given m the first free slot; the control link is new, and *)
(* all states are to be sent over it.                                        *)
Connect(n, m) ==
  /\ sess[<<n, m>>] = "no"
  /\ sess' = [sess EXCEPT ![<<n, m>>] = "up"]
  /\ slot' = [slot EXCEPT ![<<n, m>>] = Min(FreeSlots(n))]
  /\ SetCost(n, m, TRUE, queued[n] \cup {Send_State_AllTo(m, prot) : prot \in Protocol})
  /\ UNCHANGED <<joined, chan, changes, resends, restarts>>

(* n leaves the sessions with the neighbors in S: nothing sent to n arrives  *)
(* any more; what n has sent may, while the other end is still there.        *)
LeaveSessions(n, S) ==
  /\ sess' = [l \in Leg |->
                CASE l[1] = n /\ l[2] \in S -> IF sess[<<l[2], n>>] = "up" THEN "left" ELSE "no"
                  [] l[2] = n /\ l[1] \in S /\ sess[l] = "left" -> "no"
                  [] OTHER -> sess[l]]
  /\ chan' = [l \in Leg |->
                IF \/ l[2] = n /\ l[1] \in S
                   \/ l[1] = n /\ l[2] \in S /\ sess[<<l[2], n>>] # "up"
                THEN {} ELSE chan[l]]

(* Mutant: Net_Send_State_All stays queued for the link that is gone. *)
DisconnectKeepQueue(n, m) ==
  /\ sess[<<n, m>>] = "up"
  /\ LeaveSessions(n, {m})
  /\ slot' = [slot EXCEPT ![<<n, m>>] = None]
  /\ SetCost(n, m, FALSE, queued[n])

(* Destroy_Link dequeues Net_Send_State_All, and the slot is free again. *)
Disconnect(n, m) ==
  /\ sess[<<n, m>>] = "up"
  /\ LeaveSessions(n, {m})
  /\ slot' = [slot EXCEPT ![<<n, m>>] = None]
  /\ SetCost(n, m, FALSE, queued[n] \ {Send_State_AllTo(m, prot) : prot \in Protocol})

(* The other end has left: the hello protocol will notice. *)
DisconnectAfterPeer(n, m) ==
  /\ sess[<<m, n>>] = "left"
  /\ Disconnect(n, m)
  /\ UNCHANGED <<joined, changes, resends, restarts>>

DisconnectFirst(n, m) ==
  /\ sess[<<m, n>>] # "left"
  /\ Disconnect(n, m)
  /\ Spontaneous
  /\ UNCHANGED joined

-----------------------------------------------------------------------------
(* Groups: multicast.c. *)

(* The first local session joins. *)
Join_Group(n, s) ==
  /\ s \in Groups \ joined /\ Source(s) = n
  /\ joined' = joined \cup {s}
  /\ IF known[n][s].value
     THEN UNCHANGED <<known, changed, mask, queued>>
     ELSE Publish(n, {s}, TRUE, queued[n])
  /\ Spontaneous
  /\ UNCHANGED <<slot, sess, chan>>

(* The last local session leaves. *)
Leave_Group(n, s) ==
  /\ s \in joined /\ Source(s) = n
  /\ joined' = joined \ {s}
  /\ Publish(n, {s}, FALSE, queued[n])
  /\ Spontaneous
  /\ UNCHANGED <<slot, sess, chan>>

(* Resend_States: the source refreshes those of its states that still have a *)
(* value and whose time has come.                                            *)
Resend_States(n, prot) ==
  /\ \E S \in SUBSET {s \in StatesOf(prot) : Source(s) = n /\ known[n][s].value} \ {{}} :
       Publish(n, S, TRUE, queued[n])
  /\ resends < MaxResends
  /\ resends' = resends + 1
  /\ UNCHANGED <<slot, sess, joined, chan, changes, restarts>>

-----------------------------------------------------------------------------
(* Sending. *)

Cell(n, s) == [state |-> s, timestamp |-> known[n][s].timestamp, value |-> known[n][s].value]

(* sent[m]: what n sends to m; nothing arrives at an end that has left. *)
SendTo(n, sent) ==
  chan' = [l \in Leg |->
             IF l[1] = n /\ l[2] \in DOMAIN sent /\ sess[<<l[2], n>>] # "left"
             THEN chan[l] \cup {Cell(n, s) : s \in sent[l[2]]} ELSE chan[l]]

(* Net_Send_State_All: all states of a protocol go to a new neighbor. *)
Net_Send_State_All(n, m, prot) ==
  /\ Send_State_AllTo(m, prot) \in queued[n]
  /\ queued' = [queued EXCEPT ![n] = @ \ {Send_State_AllTo(m, prot)}]
  /\ SendTo(n, [q \in {m} |-> {s \in StatesOf(prot) : known[n][s] # Unknown}])
  /\ UNCHANGED <<known, changed, mask, slot, sess, joined, changes, resends, restarts>>

(* The changes that the connected neighbor m still needs. *)
Needed(n, m, prot) ==
  {s \in changed[n] \cap StatesOf(prot) : slot[<<n, m>>] \notin mask[n][s]}

(* Mutant: the limit on packets is reached before the first one. *)
PortionsNone(n, m, prot) == {{}}

(* What one call of Net_Send_State_Updates may send: it stops early after    *)
(* some packets.                                                             *)
Portions(n, m, prot) ==
  {S \in SUBSET Needed(n, m, prot) : S = {} => Needed(n, m, prot) = {}}

(* Net_Send_State_Updates for every connected neighbor; the masks note what  *)
(* has been sent.  Changed states are forgotten when all of them have been   *)
(* sent to everybody.                                                        *)
SendUpdates(n, prot, functions) ==
  LET nbrs == {m \in Neighbors(n) : Connected(n, m)} IN
  \E sent \in [nbrs -> SUBSET (changed[n] \cap StatesOf(prot))] :
    /\ \A m \in nbrs : sent[m] \in Portions(n, m, prot)
    /\ SendTo(n, sent)
    /\ IF \A m \in nbrs : sent[m] = Needed(n, m, prot)
       THEN /\ changed' = [changed EXCEPT ![n] = @ \ StatesOf(prot)]
            /\ mask' = [mask EXCEPT ![n] =
                          [s \in State |-> IF s \in StatesOf(prot) THEN {} ELSE @[s]]]
            /\ queued' = [queued EXCEPT ![n] = functions]
       ELSE /\ mask' = [mask EXCEPT ![n] =
                          [s \in State |->
                             @[s] \cup {slot[<<n, m>>] : m \in {q \in nbrs : s \in sent[q]}}]]
            /\ queued' = [queued EXCEPT ![n] = functions \cup {Send_State_UpdatesOf(prot)}]
            /\ UNCHANGED changed
    /\ UNCHANGED <<known, slot, sess, joined, changes, resends, restarts>>

Send_State_Updates(n, prot) ==
  /\ Send_State_UpdatesOf(prot) \in queued[n]
  /\ SendUpdates(n, prot, queued[n] \ {Send_State_UpdatesOf(prot)})

(* Set_Routes sends the updates of edges before it computes the routes. *)
Set_Routes(n) ==
  /\ <<"Set_Routes">> \in queued[n]
  /\ SendUpdates(n, "Edge_Prot_Def", queued[n] \ {<<"Set_Routes">>})

-----------------------------------------------------------------------------
(* Receiving. *)

Newer(n, c) == known[n][c.state].timestamp < c.timestamp

(* Mutant: a daemon takes over what others say of its own states. *)
Process_state_cellOfAll(n, m, c) ==
  /\ known' = [known EXCEPT ![n][c.state] = [timestamp |-> c.timestamp, value |-> c.value]]
  /\ Add_to_changed_states(n, {c.state}, {slot[<<n, m>>]}, queued[n])

(* Process_state_cell of either protocol: a copy is taken over and passed    *)
(* on, with the routes to be computed for an edge; the source itself does    *)
(* not take it, but publishes its own value with a later time stamp.         *)
Process_state_cell(n, m, c) ==
  LET s == c.state IN
  IF Source(s) # n
  THEN /\ known' = [known EXCEPT ![n][s] = [timestamp |-> c.timestamp, value |-> c.value]]
       /\ Add_to_changed_states(n, {s}, {slot[<<n, m>>]},
                                queued[n] \cup (IF s \in Edges THEN {<<"Set_Routes">>} ELSE {}))
  ELSE /\ known' = [known EXCEPT ![n][s].timestamp = c.timestamp + 1]
       /\ Add_to_changed_states(n, {s}, {}, queued[n])

(* Process_state_packet: n takes cell c from m. *)
Process_state_packet(n, m, c) ==
  /\ Connected(n, m)
  /\ c \in chan[<<m, n>>]
  /\ chan' = [chan EXCEPT ![<<m, n>>] = @ \ {c}]
  /\ \/ /\ Newer(n, c)
        /\ Process_state_cell(n, m, c)
     \/ /\ known[n][c.state].timestamp = c.timestamp
        /\ mask' = [mask EXCEPT ![n][c.state] =
                      @ \cup (IF c.state \in changed[n] THEN {slot[<<n, m>>]} ELSE {})]
        /\ UNCHANGED <<known, changed, queued>>
     \/ /\ known[n][c.state].timestamp > c.timestamp
        /\ UNCHANGED <<known, changed, mask, queued>>
  /\ UNCHANGED <<slot, sess, joined, changes, resends, restarts>>

-----------------------------------------------------------------------------
(* The daemon n crashes and starts again; it has forgotten everything. *)
Restart(n) ==
  /\ n \in Faulty
  /\ restarts < MaxRestarts
  /\ restarts' = restarts + 1
  /\ LeaveSessions(n, Neighbors(n))
  /\ known' = [known EXCEPT ![n] = Started(n, [s \in State |-> Now(s)])]
  /\ changed' = [changed EXCEPT ![n] = {}]
  /\ mask' = [mask EXCEPT ![n] = [s \in State |-> {}]]
  /\ slot' = [l \in Leg |-> IF l[1] = n THEN None ELSE slot[l]]
  /\ queued' = [queued EXCEPT ![n] = {}]
  /\ joined' = {s \in joined : Source(s) # n}
  /\ UNCHANGED <<changes, resends>>

Handler(n, m) ==
  \/ \E prot \in Protocol : Net_Send_State_All(n, m, prot)
  \/ \E c \in chan[<<m, n>>] : Process_state_packet(n, m, c)

Next ==
  \/ \E l \in Leg : \/ Connect(l[1], l[2])
                    \/ DisconnectFirst(l[1], l[2])
                    \/ DisconnectAfterPeer(l[1], l[2])
                    \/ Handler(l[1], l[2])
  \/ \E n \in Node : \/ \E prot \in Protocol : Send_State_Updates(n, prot)
                     \/ \E prot \in Protocol : Resend_States(n, prot)
                     \/ Set_Routes(n)
                     \/ Restart(n)
  \/ \E s \in State : \/ Join_Group(Source(s), s)
                      \/ Leave_Group(Source(s), s)

Spec == Init /\ [][Next]_vars

(* The event loop runs what is queued, the reliable link delivers, and the   *)
(* hello protocol connects legs and notices that the other end has left.     *)
Fairness ==
  /\ \A l \in Leg : /\ WF_vars(Connect(l[1], l[2]))
                    /\ WF_vars(DisconnectAfterPeer(l[1], l[2]))
                    /\ WF_vars(Handler(l[1], l[2]))
  /\ \A n \in Node, prot \in Protocol : WF_vars(Send_State_Updates(n, prot))

FairSpec == Spec /\ Fairness

-----------------------------------------------------------------------------
(* Properties. *)

Copy == [timestamp : Nat, value : BOOLEAN]
CellType == [state : State, timestamp : Nat, value : BOOLEAN]

(* The variables stay in their ranges. *)
TypeOK ==
  /\ known \in [Node -> [State -> Copy]]
  /\ changed \in [Node -> SUBSET State]
  /\ mask \in [Node -> [State -> SUBSET Slot]]
  /\ slot \in [Leg -> Slot \cup {None}]
  /\ sess \in [Leg -> Progress]
  /\ \A n \in Node : queued[n] \subseteq Function(n)
  /\ joined \subseteq Groups
  /\ chan \in [Leg -> SUBSET CellType]
  /\ changes \in 0 .. MaxChanges
  /\ resends \in 0 .. MaxResends
  /\ restarts \in 0 .. MaxRestarts

(* The assertions of state_flood.c and node.c: all states are sent only to a *)
(* connected neighbor, a connected neighbor has a slot, and no two have the  *)
(* same one; masks, time stamps and queues keep their types.                 *)
NoAssertFails ==
  /\ TypeOK
  /\ \A l \in Leg :
       /\ \A prot \in Protocol : Send_State_AllTo(l[2], prot) \in queued[l[1]] => sess[l] = "up"
       /\ (sess[l] = "up") <=> (slot[l] # None)
       /\ \A k \in Leg : l[1] = k[1] /\ l # k /\ slot[l] # None => slot[l] # slot[k]

(* While a session lasts, a neighbor that knows less than n will hear of it: *)
(* all states are about to be sent to it, or the change is still among the   *)
(* changed states with the neighbor's bit cleared and the sending queued, or *)
(* a cell as new as the copy of n is on its way.                             *)
NewsOnItsWay ==
  \A l \in Leg, s \in State :
    LET n == l[1]
        m == l[2]
        prot == ProtOf(s)
    IN sess[l] = "up" /\ sess[<<m, n>>] # "left" /\ known[n][s].timestamp > known[m][s].timestamp =>
         \/ Send_State_AllTo(m, prot) \in queued[n]
         \/ s \in changed[n] /\ slot[l] \notin mask[n][s] /\ Send_State_UpdatesOf(prot) \in queued[n]
         \/ \E c \in chan[l] : c.state = s /\ c.timestamp >= known[n][s].timestamp

(* Two daemons that have the same time stamp of a state have the same value: *)
(* Process_state_packet takes this for granted when it swallows a cell that  *)
(* carries the time stamp it knows.                                          *)
EqualStampsAgree ==
  \A n, m \in Node, s \in State :
    known[n][s].timestamp = known[m][s].timestamp => known[n][s].value = known[m][s].value

(* What a source says of its own state is so: the leg is connected, or a     *)
(* session has joined the group, whatever copies from before a crash come    *)
(* back to it.                                                               *)
Holds(s) == IF s \in Edges THEN sess[s] = "up" ELSE s \in joined
OwnStatesTrue ==
  \A s \in State : known[Source(s)][s].value = Holds(s)

(* When changes and faults come to an end, all the daemons end up with the   *)
(* same copies of all states, and the copies are true.                       *)
Converges ==
  <>[](\A n \in Node, s \in State :
         known[n][s] = known[Source(s)][s] /\ known[n][s].value = Holds(s))
=============================================================================
