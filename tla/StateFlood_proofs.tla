-------------------------- MODULE StateFlood_proofs --------------------------
(***************************************************************************)
(* Proofs of the safety properties of StateFlood, for any overlay, any     *)
(* states and any number of changes, refreshes and crashes.                *)
(***************************************************************************)
EXTENDS StateFlood, FiniteSetTheorems, WellFoundedInduction, TLAPS

-----------------------------------------------------------------------------
(* Least and greatest elements. *)

(* A nonempty set of naturals has a smallest element. *)
LEMMA SmallestExists ==
  ASSUME NEW T, T \subseteq Nat, T # {}
  PROVE  \E x \in T : \A y \in T : x <= y
<1> DEFINE R == {ss \in Nat \X Nat : ss[1] < ss[2]}
<1>1. IsWellFoundedOn(R, Nat)
  BY NatLessThanWellFounded, Zenon DEF OpToRel
<1> HIDE DEF R
<1>2. PICK x \in T : \A y \in T : ~ (<<y, x>> \in R)
  BY <1>1, WFMin
<1>3. ASSUME NEW y \in T PROVE x <= y
  <2>1. y < x => <<y, x>> \in R
    BY DEF R
  <2> QED
    BY <1>2, <2>1
<1> QED
  BY <1>3

LEMMA MinIn ==
  ASSUME NEW T, T \subseteq Nat, T # {}
  PROVE  Min(T) \in T
  BY SmallestExists DEF Min

(* The upper bounds of a finite set: the smallest cardinality of a set       *)
(* without one would have to be 0.                                           *)
LEMMA BoundExists ==
  ASSUME NEW T, T \subseteq Nat, IsFiniteSet(T)
  PROVE  \E b \in Nat : \A y \in T : y <= b
<1> DEFINE Bad == {n \in Nat : \E U \in SUBSET T : IsFiniteSet(U) /\ Cardinality(U) = n
                                  /\ ~ \E b \in Nat : \A y \in U : y <= b}
<1>1. SUFFICES ASSUME Bad # {} PROVE FALSE
  <2>1. Cardinality(T) \in Nat
    BY FS_CardinalityType
  <2> QED
    BY <1>1, <2>1
<1>2. PICK n \in Bad : \A k \in Bad : n <= k
  BY <1>1, SmallestExists
<1>3. PICK U \in SUBSET T : IsFiniteSet(U) /\ Cardinality(U) = n
                              /\ ~ \E b \in Nat : \A y \in U : y <= b
  BY <1>2
<1>4. PICK x \in U : TRUE
  BY <1>3
<1> DEFINE V == U \ {x}
<1>5. IsFiniteSet(V) /\ Cardinality(V) = n - 1 /\ V \in SUBSET T
  BY <1>3, FS_RemoveElement
<1>6. Cardinality(V) \in Nat
  BY <1>5, FS_CardinalityType
<1>7. n - 1 \notin Bad
  BY <1>2, <1>5, <1>6
<1>8. PICK b \in Nat : \A y \in V : y <= b
  BY <1>5, <1>6, <1>7
<1>9. x \in Nat /\ \A y \in U : y \in Nat /\ y <= b + x
  BY <1>8
<1> QED
  BY <1>3, <1>8, <1>9

(* A nonempty finite set of naturals has a greatest element. *)
LEMMA MaxIsGreatest ==
  ASSUME NEW T, T \subseteq Nat, T # {}, IsFiniteSet(T)
  PROVE  Max(T) \in T /\ \A y \in T : y <= Max(T)
<1> DEFINE B == {b \in Nat : \A y \in T : y <= b}
<1>1. B # {} /\ B \subseteq Nat
  BY BoundExists
<1>2. PICK b \in B : \A k \in B : b <= k
  BY <1>1, SmallestExists
<1>3. b \in T
  <2> SUFFICES ASSUME b \notin T PROVE FALSE
    OBVIOUS
  <2>1. \A y \in T : y \in Nat /\ y < b
    BY <1>2
  <2>2. b - 1 \in Nat /\ \A y \in T : y <= b - 1
    <3>1. b \in Nat
      BY <1>2
    <3>2. PICK y \in T : TRUE
      OBVIOUS
    <3> HIDE DEF B
    <3> QED
      BY <2>1, <3>1, <3>2
  <2> QED
    BY <1>2, <2>2
<1>4. \A y \in T : y <= b /\ b >= y /\ y \in Nat
  BY <1>2
<1>5. \A y \in T : Max(T) >= y /\ Max(T) \in T
  BY <1>3, <1>4, Zenon DEF Max
<1> QED
  BY <1>3, <1>5

-----------------------------------------------------------------------------
(* The functions that are queued are told apart. *)
LEMMA QueueDistinct ==
  ASSUME NEW m, NEW k, NEW prot, NEW q
  PROVE  /\ Send_State_AllTo(m, prot) # <<"Set_Routes">>
         /\ Send_State_UpdatesOf(prot) # <<"Set_Routes">>
         /\ Send_State_AllTo(m, prot) # Send_State_UpdatesOf(q)
         /\ Send_State_UpdatesOf(prot) = Send_State_UpdatesOf(q) => prot = q
         /\ Send_State_AllTo(m, prot) = Send_State_AllTo(k, q) => m = k /\ prot = q
  BY DEF Send_State_AllTo, Send_State_UpdatesOf

-----------------------------------------------------------------------------
(* Legs, states and protocols. *)

LEMMA LegFacts ==
  ASSUME NEW l \in Leg
  PROVE  /\ l = <<l[1], l[2]>>
         /\ l[1] \in Node /\ l[2] \in Node /\ l[1] # l[2]
         /\ <<l[2], l[1]>> \in Leg
         /\ l[2] \in Neighbors(l[1]) /\ l[1] \in Neighbors(l[2])
  BY LegAssumption DEF Neighbors

LEMMA NeighborFacts ==
  ASSUME NEW n \in Node, NEW m \in Neighbors(n)
  PROVE  m \in Node /\ n # m /\ <<n, m>> \in Leg /\ <<m, n>> \in Leg
  BY LegAssumption DEF Neighbors

LEMMA StateFacts ==
  ASSUME NEW s \in State
  PROVE  /\ ProtOf(s) \in Protocol
         /\ s \in StatesOf(ProtOf(s))
         /\ \A prot \in Protocol : s \in StatesOf(prot) => prot = ProtOf(s)
         /\ Source(s) \in Node
<1>1. Source(s) \in Node
  BY LegFacts, StateAssumption DEF State, Source
<1>2. ~ (s \in Edges /\ s \in Groups)
  BY StateAssumption
<1> QED
  BY <1>1, <1>2 DEF State, ProtOf, Protocol, StatesOf

LEMMA ProtocolStates ==
  ASSUME NEW prot
  PROVE  StatesOf(prot) \subseteq State
  BY DEF StatesOf, State

LEMMA ConstantsFinite == IsFiniteSet(Leg) /\ IsFiniteSet(State)
<1>1. IsFiniteSet(Node \X Node)
  BY FiniteAssumption, FS_Product
<1>2. IsFiniteSet(Leg)
  BY <1>1, LegAssumption, FS_Subset
<1>3. IsFiniteSet(Edges)
  BY <1>2, StateAssumption, FS_Subset
<1> QED
  BY <1>2, <1>3, FiniteAssumption, FS_Union DEF State

LEMMA NoneNoSlot == None \notin Slot /\ Slot \subseteq Nat
<1>1. Cardinality(Node) \in Nat
  BY FiniteAssumption, FS_CardinalityType
<1> QED
  BY <1>1 DEF None, Slot

-----------------------------------------------------------------------------
(* The first part of the inductive invariant: types and assertions. *)

FiniteChannels == \A l \in Leg : IsFiniteSet(chan[l])
Base == NoAssertFails /\ DOMAIN queued = Node /\ FiniteChannels

LEMMA BaseInit ==
  ASSUME Init
  PROVE  Base
<1> USE DEF Init
<1>1. known \in [Node -> [State -> Copy]]
  BY DEF Started, Unknown, Copy
<1>2. TypeOK
  BY <1>1, FloodBoundAssumption, NoneNoSlot DEF TypeOK, Progress
<1>3. FiniteChannels
  BY FS_EmptySet DEF FiniteChannels
<1> QED
  BY <1>2, <1>3, LegFacts DEF Base, NoAssertFails

-----------------------------------------------------------------------------
(* The clock: a new state has a time stamp later than any copy. *)

LEMMA ImageFinite ==
  ASSUME NEW S, IsFiniteSet(S), NEW f, DOMAIN f = S, f = [x \in S |-> f[x]]
  PROVE  IsFiniteSet({f[x] : x \in S})
<1> DEFINE T == {f[x] : x \in S}
<1>1. f \in Surjection(S, T)
  BY DEF Surjection
<1> HIDE DEF T
<1>2. IsFiniteSet(T)
  BY <1>1, FS_Surjection
<1> QED
  BY <1>2 DEF T

LEMMA CopiesFinite ==
  ASSUME TypeOK, FiniteChannels, NEW s \in State
  PROVE  IsFiniteSet(Copies(s)) /\ Copies(s) \subseteq Copy
<1> DEFINE K == {known[n][s] : n \in Node}
           Of(l) == {d \in chan[l] : d.state = s}
           Sent(l) == {[timestamp |-> c.timestamp, value |-> c.value] : c \in Of(l)}
           All == {Sent(l) : l \in Leg}
<1>1. IsFiniteSet(K)
  <2> DEFINE f == [n \in Node |-> known[n][s]]
  <2>1. IsFiniteSet({f[n] : n \in Node})
    <3> HIDE DEF f
    <3>1. DOMAIN f = Node /\ f = [n \in Node |-> f[n]]
      BY DEF f
    <3> QED
      BY <3>1, FiniteAssumption, ImageFinite
  <2>2. {f[n] : n \in Node} = K
    OBVIOUS
  <2> QED
    BY <2>1, <2>2
<1>2. ASSUME NEW l \in Leg PROVE IsFiniteSet(Sent(l))
  <2> DEFINE D == Of(l)
             f == [c \in D |-> [timestamp |-> c.timestamp, value |-> c.value]]
  <2>1. IsFiniteSet(D)
    BY FS_Subset DEF FiniteChannels
  <2>2. IsFiniteSet({f[c] : c \in D})
    <3>1. DOMAIN f = D /\ f = [c \in D |-> f[c]]
      OBVIOUS
    <3> HIDE DEF f, D
    <3> QED
      BY <2>1, <3>1, ImageFinite
  <2>3. {f[c] : c \in D} = Sent(l)
    OBVIOUS
  <2> QED
    BY <2>2, <2>3
<1>3. IsFiniteSet(All)
  <2> DEFINE f == [l \in Leg |-> Sent(l)]
  <2> HIDE DEF Sent
  <2>1. IsFiniteSet({f[l] : l \in Leg})
    <3>1. DOMAIN f = Leg /\ f = [l \in Leg |-> f[l]]
      OBVIOUS
    <3> HIDE DEF f
    <3> QED
      BY <3>1, ConstantsFinite, ImageFinite
  <2>2. {f[l] : l \in Leg} = All
    OBVIOUS
  <2> QED
    BY <2>1, <2>2
<1>4. IsFiniteSet(UNION All)
  <2>1. \A T \in All : IsFiniteSet(T)
    BY <1>2
  <2> HIDE DEF All
  <2> QED
    BY <1>3, <2>1, FS_UNION
<1>5. Copies(s) = K \cup UNION All
  BY DEF Copies
<1>6. K \subseteq Copy
  BY DEF TypeOK
<1>7. ASSUME NEW l \in Leg PROVE Sent(l) \subseteq Copy
  <2>1. \A c \in chan[l] : c.timestamp \in Nat /\ c.value \in BOOLEAN
    BY DEF TypeOK, CellType
  <2> QED
    BY <2>1 DEF Copy
<1>8. UNION All \subseteq Copy
  BY <1>7
<1> HIDE DEF K, All
<1> QED
  BY <1>1, <1>4, <1>5, <1>6, <1>8, FS_Union

LEMMA NowIsLater ==
  ASSUME TypeOK, FiniteChannels, NEW s \in State
  PROVE  Now(s) \in Nat /\ \A c \in Copies(s) : c.timestamp < Now(s)
<1> DEFINE T == {c.timestamp : c \in Copies(s)}
           f == [c \in Copies(s) |-> c.timestamp]
<1>1. IsFiniteSet(Copies(s)) /\ Copies(s) \subseteq Copy
  BY CopiesFinite
<1>2. IsFiniteSet({f[c] : c \in Copies(s)})
  <2>1. DOMAIN f = Copies(s) /\ f = [c \in Copies(s) |-> f[c]]
    OBVIOUS
  <2> HIDE DEF f
  <2> QED
    BY <1>1, <2>1, ImageFinite
<1>3. T = {f[c] : c \in Copies(s)}
  OBVIOUS
<1>4. IsFiniteSet(T) /\ T \subseteq Nat
  BY <1>1, <1>2, <1>3 DEF Copy
<1>5. \A n \in Node : known[n][s] \in Copies(s)
  BY DEF Copies
<1>6. Source(s) \in Node
  BY StateFacts
<1>7. T # {}
  BY <1>5, <1>6
<1> HIDE DEF T
<1>8. Max(T) \in Nat /\ \A y \in T : y <= Max(T) /\ y \in Nat
  BY <1>4, <1>7, MaxIsGreatest
<1>9. Now(s) = 1 + Max(T)
  BY DEF Now, T
<1>10. \A c \in Copies(s) : c.timestamp \in T
  BY DEF T
<1> QED
  BY <1>8, <1>9, <1>10

(* Connect finds a free slot: a daemon has fewer neighbors than there are    *)
(* slots.                                                                    *)
LEMMA FreeSlotExists ==
  ASSUME NEW n \in Node
  PROVE  Min(FreeSlots(n)) \in FreeSlots(n)
<1>1. FreeSlots(n) \subseteq Nat
  BY NoneNoSlot DEF FreeSlots
<1>2. FreeSlots(n) # {}
  <2> SUFFICES ASSUME FreeSlots(n) = {} PROVE FALSE
    OBVIOUS
  <2> DEFINE g == [i \in Slot |-> CHOOSE m \in Neighbors(n) : slot[<<n, m>>] = i]
             T == Node \ {n}
  <2>1. \A i \in Slot : g[i] \in T /\ slot[<<n, g[i]>>] = i
    <3>1. \A i \in Slot : \E m \in Neighbors(n) : slot[<<n, m>>] = i
      BY DEF FreeSlots
    <3>2. \A i \in Slot : g[i] \in Neighbors(n) /\ slot[<<n, g[i]>>] = i
      BY <3>1
    <3> QED
      BY <3>2, NeighborFacts
  <2>2. g \in [Slot -> T]
    BY <2>1
  <2>3. Cardinality(Node) \in Nat /\ Cardinality(Node) # 0
    BY FiniteAssumption, FS_CardinalityType, FS_EmptySet
  <2>4. IsFiniteSet(Slot) /\ Cardinality(Slot) = Cardinality(Node)
    BY <2>3, FS_Interval, SMTT(60) DEF Slot
  <2>5. IsFiniteSet(T) /\ Cardinality(T) = Cardinality(Node) - 1
    BY FiniteAssumption, FS_RemoveElement
  <2> HIDE DEF T, g
  <2>6. \E x, y \in Slot : x # y /\ g[x] = g[y]
    BY <2>2, <2>3, <2>4, <2>5, FS_PigeonHole
  <2> QED
    BY <2>1, <2>6
<1> QED
  BY <1>1, <1>2, MinIn

-----------------------------------------------------------------------------
(* What the steps do to the states of a daemon.                              *)

(* Flooded: the states in S are among the changed states of n, only the      *)
(* slots `aware' need not hear of them, and their updates are queued.        *)
Flooded(n, S, aware, functions) ==
  /\ changed' \in [Node -> SUBSET State]
  /\ mask' \in [Node -> [State -> SUBSET Slot]]
  /\ DOMAIN queued' = Node
  /\ \A k \in Node : queued'[k] \subseteq Function(k)
  /\ \A k \in Node \ {n} :
       changed'[k] = changed[k] /\ mask'[k] = mask[k] /\ queued'[k] = queued[k]
  /\ changed'[n] = changed[n] \cup S
  /\ \A s \in S : mask'[n][s] = aware
  /\ \A s \in State \ S : mask'[n][s] = mask[n][s]
  /\ queued'[n] = functions \cup UpdatesFor(n, S)

(* Grown: the copies that n has of the states in S are newer, nothing else   *)
(* that is known changes.                                                    *)
Grown(n, S) ==
  /\ known' \in [Node -> [State -> Copy]]
  /\ \A k \in Node \ {n} : known'[k] = known[k]
  /\ \A s \in State \ S : known'[n][s] = known[n][s]
  /\ \A s \in S : known'[n][s].timestamp > known[n][s].timestamp

LEMMA AddEffect ==
  ASSUME TypeOK, DOMAIN queued = Node, NEW n \in Node, NEW S \in SUBSET State,
         NEW aware \in SUBSET Slot, NEW functions \in SUBSET Function(n),
         Add_to_changed_states(n, S, aware, functions)
  PROVE  Flooded(n, S, aware, functions)
<1>1. changed' \in [Node -> SUBSET State] /\ changed'[n] = changed[n] \cup S
        /\ \A k \in Node \ {n} : changed'[k] = changed[k]
  BY DEF TypeOK, Add_to_changed_states
<1> DEFINE M == [s \in State |-> IF s \in S THEN aware ELSE mask[n][s]]
<1>2. M \in [State -> SUBSET Slot]
  BY DEF TypeOK
<1>3. mask' = [mask EXCEPT ![n] = M]
  BY DEF Add_to_changed_states
<1>4. \A s \in S : M[s] = aware
  OBVIOUS
<1>5. \A s \in State \ S : M[s] = mask[n][s]
  OBVIOUS
<1> HIDE DEF M
<1>6. mask' \in [Node -> [State -> SUBSET Slot]] /\ mask'[n] = M
        /\ \A k \in Node \ {n} : mask'[k] = mask[k]
  BY <1>2, <1>3 DEF TypeOK
<1>7. DOMAIN queued' = Node /\ queued'[n] = functions \cup UpdatesFor(n, S)
        /\ \A k \in Node \ {n} : queued'[k] = queued[k]
  BY DEF Add_to_changed_states
<1>8. UpdatesFor(n, S) \subseteq Function(n)
  BY DEF UpdatesFor, Function
<1>9. \A k \in Node : queued'[k] \subseteq Function(k)
  BY <1>7, <1>8 DEF TypeOK
<1> QED
  BY <1>1, <1>4, <1>5, <1>6, <1>7, <1>9 DEF Flooded

(* Nothing changes but what is queued: no states are added. *)
LEMMA NothingAdded ==
  ASSUME TypeOK, DOMAIN queued = Node, NEW n \in Node, NEW functions \in SUBSET Function(n),
         queued' = [queued EXCEPT ![n] = functions], UNCHANGED <<known, changed, mask>>
  PROVE  Flooded(n, {}, {}, functions) /\ Grown(n, {})
<1>1. UpdatesFor(n, {}) = {}
  BY DEF UpdatesFor
<1> QED
  BY <1>1 DEF Flooded, Grown, TypeOK

LEMMA OwnStamp ==
  ASSUME TypeOK, FiniteChannels, NEW n \in Node, NEW s \in State
  PROVE  Own(n, s).timestamp \in Nat /\ Own(n, s).timestamp >= known[n][s].timestamp
<1>1. Now(s) \in Nat
  BY NowIsLater
<1>2. known[n][s] \in Copy
  BY DEF TypeOK
<1> QED
  BY <1>1, <1>2 DEF Own, Copy, Unknown

LEMMA PublishEffect ==
  ASSUME TypeOK, FiniteChannels, DOMAIN queued = Node,
         NEW n \in Node, NEW S \in SUBSET State, NEW v \in BOOLEAN,
         NEW functions \in SUBSET Function(n), Publish(n, S, v, functions)
  PROVE  /\ Flooded(n, S, {}, functions)
         /\ Grown(n, S)
         /\ \A s \in S : known'[n][s].timestamp = Own(n, s).timestamp + 1 /\ known'[n][s].value = v
<1>1. Flooded(n, S, {}, functions)
  BY AddEffect DEF Publish
<1> DEFINE K == [s \in State |-> IF s \in S
                                 THEN [timestamp |-> Own(n, s).timestamp + 1, value |-> v]
                                 ELSE known[n][s]]
<1>2. K \in [State -> Copy]
  BY OwnStamp DEF TypeOK, Copy
<1>3. known' = [known EXCEPT ![n] = K]
  BY DEF Publish
<1>4. \A s \in S : K[s].timestamp = Own(n, s).timestamp + 1 /\ K[s].value = v
  OBVIOUS
<1>5. \A s \in State \ S : K[s] = known[n][s]
  OBVIOUS
<1> HIDE DEF K
<1>6. known' \in [Node -> [State -> Copy]] /\ known'[n] = K
        /\ \A k \in Node \ {n} : known'[k] = known[k]
  BY <1>2, <1>3 DEF TypeOK
<1>7. \A s \in S : known'[n][s].timestamp > known[n][s].timestamp
  <2> SUFFICES ASSUME NEW s \in S PROVE known'[n][s].timestamp > known[n][s].timestamp
    OBVIOUS
  <2>1. known[n][s].timestamp \in Nat
    BY DEF TypeOK, Copy
  <2>2. known'[n][s].timestamp = Own(n, s).timestamp + 1
    BY <1>4, <1>6
  <2>3. Own(n, s).timestamp \in Nat /\ Own(n, s).timestamp >= known[n][s].timestamp
    BY OwnStamp
  <2> QED
    BY <2>1, <2>2, <2>3
<1> QED
  BY <1>1, <1>4, <1>5, <1>6, <1>7 DEF Grown

(* The states whose copies SetCost changes. *)
CostStates(n, m) == IF <<n, m>> \in Edges THEN {<<n, m>>} ELSE {}
CostFunctions(n, m, functions) ==
  IF <<n, m>> \in Edges THEN functions \cup {<<"Set_Routes">>} ELSE functions

LEMMA SetCostEffect ==
  ASSUME TypeOK, FiniteChannels, DOMAIN queued = Node,
         NEW n \in Node, NEW m \in Node, NEW v \in BOOLEAN,
         NEW functions \in SUBSET Function(n), SetCost(n, m, v, functions)
  PROVE  /\ Flooded(n, CostStates(n, m), {}, CostFunctions(n, m, functions))
         /\ Grown(n, CostStates(n, m))
         /\ \A s \in CostStates(n, m) :
              known'[n][s].timestamp = Own(n, s).timestamp + 1 /\ known'[n][s].value = v
<1>1. CASE <<n, m>> \in Edges
  <2>1. {<<n, m>>} \in SUBSET State
    BY <1>1 DEF State
  <2>2. functions \cup {<<"Set_Routes">>} \in SUBSET Function(n)
    BY DEF Function
  <2>3. Publish(n, {<<n, m>>}, v, functions \cup {<<"Set_Routes">>})
    BY <1>1 DEF SetCost
  <2>4. /\ CostStates(n, m) = {<<n, m>>}
        /\ CostFunctions(n, m, functions) = functions \cup {<<"Set_Routes">>}
    BY <1>1 DEF CostStates, CostFunctions
  <2>5. /\ Flooded(n, {<<n, m>>}, {}, functions \cup {<<"Set_Routes">>})
        /\ Grown(n, {<<n, m>>})
        /\ \A s \in {<<n, m>>} :
             known'[n][s].timestamp = Own(n, s).timestamp + 1 /\ known'[n][s].value = v
    BY <2>1, <2>2, <2>3, PublishEffect
  <2> QED
    BY <2>4, <2>5
<1>2. CASE <<n, m>> \notin Edges
  <2>1. CostStates(n, m) = {} /\ CostFunctions(n, m, functions) = functions
    BY <1>2 DEF CostStates, CostFunctions
  <2>2. Flooded(n, {}, {}, functions) /\ Grown(n, {})
    BY <1>2, NothingAdded DEF SetCost
  <2> QED
    BY <2>1, <2>2
<1> QED
  BY <1>1, <1>2

-----------------------------------------------------------------------------
(* The inductive invariant. *)

(* While a daemon has changed states of a protocol, their sending is queued. *)
UpdatesQueued ==
  \A n \in Node, prot \in Protocol :
    changed[n] \cap StatesOf(prot) # {} => Send_State_UpdatesOf(prot) \in queued[n]

(* A daemon that has not left the session knows what it has sent in it, and  *)
(* before a session there is nothing on its way.                             *)
CellsKnown ==
  \A l \in Leg :
    /\ sess[l] # "left" =>
         \A c \in chan[l] : c.timestamp <= known[l[1]][c.state].timestamp
    /\ sess[l] = "no" => chan[l] = {}

IInv == Base /\ UpdatesQueued /\ CellsKnown /\ NewsOnItsWay

(* NewsOnItsWay for one leg and one state. *)
NewsFor(l, s) ==
  (sess[l] = "up" /\ sess[<<l[2], l[1]>>] # "left"
     /\ known[l[1]][s].timestamp > known[l[2]][s].timestamp) =>
   \/ Send_State_AllTo(l[2], ProtOf(s)) \in queued[l[1]]
   \/ /\ s \in changed[l[1]]
      /\ slot[l] \notin mask[l[1]][s]
      /\ Send_State_UpdatesOf(ProtOf(s)) \in queued[l[1]]
   \/ \E c \in chan[l] : c.state = s /\ c.timestamp >= known[l[1]][s].timestamp

LEMMA NewsForAll ==
  NewsOnItsWay <=> \A l \in Leg, s \in State : NewsFor(l, s)
  BY DEF NewsOnItsWay, NewsFor

(* What a step of n that leaves it with the queue `functions' may do to the  *)
(* sessions: the other daemons stay where they are; a connected end has been *)
(* so, with the same slot, or is to be sent all states; what is still        *)
(* wanted stays queued; cells only vanish when they are known or have nobody *)
(* to take them.                                                             *)
Sessions(n, functions) ==
  /\ slot' \in [Leg -> Slot \cup {None}]
  /\ sess' \in [Leg -> Progress]
  /\ chan' \in [Leg -> SUBSET CellType]
  /\ \A l \in Leg : chan'[l] \subseteq chan[l]
  /\ \A l \in Leg : l[1] # n => slot'[l] = slot[l] /\ (sess'[l] = "up" <=> sess[l] = "up")
  /\ \A l \in Leg : (sess'[l] = "up") <=> (slot'[l] # None)
  /\ \A l, k \in Leg : l[1] = k[1] /\ l # k /\ slot'[l] # None => slot'[l] # slot'[k]
  /\ \A l \in Leg, prot \in Protocol :
       l[1] = n /\ Send_State_AllTo(l[2], prot) \in functions => sess'[l] = "up"
  /\ \A l \in Leg, prot \in Protocol :
       l[1] = n /\ sess'[l] = "up" /\ Send_State_AllTo(l[2], prot) \in queued[n]
         => Send_State_AllTo(l[2], prot) \in functions
  /\ \A prot \in Protocol :
       Send_State_UpdatesOf(prot) \in queued[n] => Send_State_UpdatesOf(prot) \in functions
  /\ \A l \in Leg : sess'[l] = "up" =>
       \/ /\ sess[l] = "up"
          /\ slot'[l] = slot[l]
          /\ sess'[<<l[2], l[1]>>] # "left" => sess[<<l[2], l[1]>>] # "left"
       \/ l[1] = n /\ \A prot \in Protocol : Send_State_AllTo(l[2], prot) \in functions
  /\ \A l \in Leg : sess'[l] = "up" /\ sess'[<<l[2], l[1]>>] # "left" =>
       \A c \in chan[l] \ chan'[l] : c.timestamp <= known'[l[2]][c.state].timestamp
  /\ \A l \in Leg : sess'[l] # "left" => sess[l] # "left" \/ chan'[l] = {}
  /\ \A l \in Leg : sess'[l] = "no" => chan'[l] = {}

(* The neighbors that need not hear of the states in S know them. *)
AwareKnow(n, S, aware) ==
  \A l \in Leg, s \in S :
    l[1] = n /\ sess'[l] = "up" /\ sess'[<<l[2], n>>] # "left" /\ slot'[l] \in aware
      => known'[n][s].timestamp <= known'[l[2]][s].timestamp

LEMMA StampsNat ==
  ASSUME TypeOK
  PROVE  /\ \A n \in Node, s \in State : known[n][s].timestamp \in Nat
         /\ \A l \in Leg : \A c \in chan[l] : c.timestamp \in Nat /\ c.state \in State
                                                /\ c.value \in BOOLEAN
  BY DEF TypeOK, Copy, CellType

LEMMA GrownStamps ==
  ASSUME TypeOK, NEW n \in Node, NEW S \in SUBSET State, Grown(n, S)
  PROVE  \A k \in Node, s \in State :
           /\ known'[k][s].timestamp \in Nat
           /\ known[k][s].timestamp \in Nat
           /\ known'[k][s].timestamp >= known[k][s].timestamp
           /\ ~ (k = n /\ s \in S) => known'[k][s] = known[k][s]
<1> SUFFICES ASSUME NEW k \in Node, NEW s \in State
             PROVE  /\ known'[k][s].timestamp \in Nat
                    /\ known[k][s].timestamp \in Nat
                    /\ known'[k][s].timestamp >= known[k][s].timestamp
                    /\ ~ (k = n /\ s \in S) => known'[k][s] = known[k][s]
  OBVIOUS
<1>1. known'[k][s].timestamp \in Nat /\ known[k][s].timestamp \in Nat
  BY DEF Grown, TypeOK, Copy
<1>2. CASE k # n
  BY <1>1, <1>2 DEF Grown
<1>3. CASE k = n /\ s \notin S
  BY <1>1, <1>3 DEF Grown
<1>4. CASE k = n /\ s \in S
  BY <1>1, <1>4 DEF Grown
<1> QED
  BY <1>2, <1>3, <1>4

(* The updates of new changed states are queued. *)
LEMMA FloodedQueued ==
  ASSUME UpdatesQueued, NEW n \in Node, NEW S \in SUBSET State, NEW aware, NEW functions,
         Flooded(n, S, aware, functions),
         \A prot \in Protocol :
           Send_State_UpdatesOf(prot) \in queued[n] => Send_State_UpdatesOf(prot) \in functions
  PROVE  UpdatesQueued'
<1> SUFFICES ASSUME NEW k \in Node, NEW prot \in Protocol,
                    changed'[k] \cap StatesOf(prot) # {}
             PROVE  Send_State_UpdatesOf(prot) \in queued'[k]
  BY DEF UpdatesQueued
<1>1. CASE k # n
  BY <1>1 DEF Flooded, UpdatesQueued
<1>2. CASE k = n
  <2>1. changed'[n] = changed[n] \cup S /\ queued'[n] = functions \cup UpdatesFor(n, S)
    BY DEF Flooded
  <2>2. CASE changed[n] \cap StatesOf(prot) # {}
    BY <1>2, <2>1, <2>2 DEF UpdatesQueued
  <2>3. CASE changed[n] \cap StatesOf(prot) = {}
    <3>1. S \cap StatesOf(prot) # {}
      BY <1>2, <2>1, <2>3
    <3>2. Send_State_UpdatesOf(prot) \in UpdatesFor(n, S)
      BY <2>3, <3>1 DEF UpdatesFor
    <3> QED
      BY <1>2, <2>1, <3>2
  <2> QED
    BY <2>2, <2>3
<1> QED
  BY <1>1, <1>2

-----------------------------------------------------------------------------
(* A step that changes the copies of some states of one daemon, and its      *)
(* sessions, keeps the invariant.                                            *)

LEMMA ChangeKeepsBase ==
  ASSUME Base, NEW n \in Node, NEW S \in SUBSET State,
         NEW aware \in SUBSET Slot, NEW functions \in SUBSET Function(n),
         Flooded(n, S, aware, functions), Grown(n, S), Sessions(n, functions),
         joined' \subseteq Groups, changes' \in 0 .. MaxChanges,
         resends' \in 0 .. MaxResends, restarts' \in 0 .. MaxRestarts
  PROVE  Base'
<1>1. TypeOK'
  BY DEF TypeOK, Flooded, Grown, Sessions
<1>2. ASSUME NEW l \in Leg, NEW prot \in Protocol,
             Send_State_AllTo(l[2], prot) \in queued'[l[1]]
      PROVE  sess'[l] = "up"
  <2>0. l[1] \in Node
    BY LegFacts
  <2>1. CASE l[1] # n
    <3>1. queued'[l[1]] = queued[l[1]]
      BY <2>0, <2>1 DEF Flooded
    <3>2. sess[l] = "up"
      BY <1>2, <3>1 DEF Base, NoAssertFails
    <3> QED
      BY <2>1, <3>2 DEF Sessions
  <2>2. CASE l[1] = n
    <3>1. queued'[n] = functions \cup UpdatesFor(n, S)
      BY DEF Flooded
    <3>2. Send_State_AllTo(l[2], prot) \notin UpdatesFor(n, S)
      BY QueueDistinct DEF UpdatesFor
    <3>3. Send_State_AllTo(l[2], prot) \in functions
      BY <1>2, <2>2, <3>1, <3>2
    <3> QED
      BY <2>2, <3>3 DEF Sessions
  <2> QED
    BY <2>1, <2>2
<1>3. \A l \in Leg : (sess'[l] = "up") <=> (slot'[l] # None)
  BY DEF Sessions
<1>4. \A l, k \in Leg : l[1] = k[1] /\ l # k /\ slot'[l] # None => slot'[l] # slot'[k]
  BY DEF Sessions
<1>5. NoAssertFails'
  BY <1>1, <1>2, <1>3, <1>4 DEF NoAssertFails
<1>6. FiniteChannels'
  <2> SUFFICES ASSUME NEW l \in Leg PROVE IsFiniteSet(chan'[l])
    BY DEF FiniteChannels
  <2>1. chan'[l] \in SUBSET chan[l]
    BY DEF Sessions
  <2> QED
    BY <2>1, FS_Subset DEF Base, FiniteChannels
<1> QED
  BY <1>5, <1>6 DEF Base, Flooded

LEMMA ChangeKeepsCells ==
  ASSUME Base, CellsKnown, NEW n \in Node, NEW S \in SUBSET State, NEW functions,
         Grown(n, S), Sessions(n, functions)
  PROVE  CellsKnown'
<1> SUFFICES ASSUME NEW l \in Leg
             PROVE  /\ sess'[l] # "left" =>
                        \A c \in chan'[l] : c.timestamp <= known'[l[1]][c.state].timestamp
                    /\ sess'[l] = "no" => chan'[l] = {}
  BY DEF CellsKnown
<1>1. sess'[l] = "no" => chan'[l] = {}
  BY DEF Sessions
<1>2. ASSUME sess'[l] # "left", NEW c \in chan'[l]
      PROVE  c.timestamp <= known'[l[1]][c.state].timestamp
  <2>1. c \in chan[l] /\ sess[l] # "left"
    BY <1>2 DEF Sessions
  <2>2. c.timestamp <= known[l[1]][c.state].timestamp
    BY <2>1 DEF CellsKnown
  <2>3. TypeOK /\ l[1] \in Node
    BY LegFacts DEF Base, NoAssertFails
  <2>4. c.timestamp \in Nat /\ c.state \in State
    BY <2>1, <2>3, StampsNat
  <2> DEFINE old == known[l[1]][c.state].timestamp
             new == known'[l[1]][c.state].timestamp
  <2>5. new \in Nat /\ old \in Nat /\ new >= old
    BY <2>3, <2>4, GrownStamps
  <2> HIDE DEF new
  <2> QED
    BY <2>2, <2>4, <2>5 DEF new
<1> QED
  BY <1>1, <1>2

LEMMA ChangeKeepsNews ==
  ASSUME IInv, NEW n \in Node, NEW S \in SUBSET State,
         NEW aware \in SUBSET Slot, NEW functions \in SUBSET Function(n),
         Flooded(n, S, aware, functions), Grown(n, S), Sessions(n, functions),
         AwareKnow(n, S, aware), UpdatesQueued'
  PROVE  NewsOnItsWay'
<1> SUFFICES ASSUME NEW l \in Leg, NEW s \in State PROVE NewsFor(l, s)'
  BY DEF NewsOnItsWay, NewsFor
<1> DEFINE x == l[1]
           y == l[2]
           prot == ProtOf(s)
<1>1. TypeOK /\ NewsFor(l, s)
  BY NewsForAll DEF IInv, Base, NoAssertFails
<1>2. x \in Node /\ y \in Node /\ x # y /\ <<y, x>> \in Leg /\ l = <<x, y>>
  BY LegFacts
<1>3. prot \in Protocol /\ s \in StatesOf(prot)
  BY StateFacts
<1>4. \A k \in Node, t \in State :
         /\ known'[k][t].timestamp \in Nat
         /\ known[k][t].timestamp \in Nat
         /\ known'[k][t].timestamp >= known[k][t].timestamp
         /\ ~ (k = n /\ t \in S) => known'[k][t] = known[k][t]
  BY <1>1, GrownStamps
<1> SUFFICES ASSUME sess'[l] = "up", sess'[<<y, x>>] # "left",
                    known'[x][s].timestamp > known'[y][s].timestamp
             PROVE  \/ Send_State_AllTo(y, prot) \in queued'[x]
                    \/ /\ s \in changed'[x]
                       /\ slot'[l] \notin mask'[x][s]
                       /\ Send_State_UpdatesOf(prot) \in queued'[x]
                    \/ \E c \in chan'[l] :
                         c.state = s /\ c.timestamp >= known'[x][s].timestamp
  BY DEF NewsFor
<1> HIDE DEF prot
<1>5. CASE x = n /\ s \in S
  <2>1. s \in changed'[n] /\ mask'[n][s] = aware
    BY <1>5 DEF Flooded
  <2>2. Send_State_UpdatesOf(prot) \in queued'[n]
    BY <1>3, <2>1 DEF UpdatesQueued
  <2>3. slot'[l] \notin aware
    <3> DEFINE p == known'[x][s].timestamp
               q == known'[y][s].timestamp
    <3>1. p \in Nat /\ q \in Nat /\ p > q
      BY <1>2, <1>4
    <3>2. slot'[l] \in aware => p <= q
      BY <1>5 DEF AwareKnow
    <3> HIDE DEF p, q
    <3> QED
      BY <3>1, <3>2
  <2> QED
    BY <1>5, <2>1, <2>2, <2>3
<1>6. CASE ~ (x = n /\ s \in S)
  <2>1. known'[x][s] = known[x][s]
    BY <1>2, <1>4, <1>6
  <2>2. known[x][s].timestamp > known[y][s].timestamp
    <3> DEFINE p == known'[y][s].timestamp
               q == known[y][s].timestamp
               r == known[x][s].timestamp
    <3>1. p \in Nat /\ q \in Nat /\ r \in Nat /\ p >= q /\ r > p
      BY <1>2, <1>4, <2>1
    <3> HIDE DEF p, q, r
    <3>2. r > q
      BY <3>1
    <3> QED
      BY <3>2 DEF r, q
  <2>3. CASE x = n /\ \A p \in Protocol : Send_State_AllTo(y, p) \in functions
    BY <1>3, <2>3 DEF Flooded
  <2>4. CASE ~ (x = n /\ \A p \in Protocol : Send_State_AllTo(y, p) \in functions)
    <3>1. sess[l] = "up" /\ slot'[l] = slot[l] /\ sess[<<y, x>>] # "left"
      BY <2>4 DEF Sessions
    <3>2. \/ Send_State_AllTo(y, prot) \in queued[x]
          \/ s \in changed[x] /\ slot[l] \notin mask[x][s]
               /\ Send_State_UpdatesOf(prot) \in queued[x]
          \/ \E c \in chan[l] : c.state = s /\ c.timestamp >= known[x][s].timestamp
      BY <1>1, <2>2, <3>1 DEF NewsFor, prot
    <3>3. CASE Send_State_AllTo(y, prot) \in queued[x]
      BY <1>2, <1>3, <3>3 DEF Sessions, Flooded
    <3>4. CASE s \in changed[x] /\ slot[l] \notin mask[x][s]
                 /\ Send_State_UpdatesOf(prot) \in queued[x]
      <4>1. s \in changed'[x] /\ mask'[x][s] = mask[x][s]
        BY <1>2, <1>6, <3>4 DEF Flooded
      <4>2. Send_State_UpdatesOf(prot) \in queued'[x]
        BY <1>2, <1>3, <4>1 DEF UpdatesQueued
      <4> QED
        BY <3>1, <3>4, <4>1, <4>2
    <3>5. CASE \E c \in chan[l] : c.state = s /\ c.timestamp >= known[x][s].timestamp
      <4>1. PICK c \in chan[l] : c.state = s /\ c.timestamp >= known[x][s].timestamp
        BY <3>5
      <4>2. c \in chan'[l]
        <5> SUFFICES ASSUME c \notin chan'[l] PROVE FALSE
          OBVIOUS
        <5>1. c.timestamp <= known'[y][s].timestamp
          BY <4>1 DEF Sessions
        <5> DEFINE p == known'[y][s].timestamp
                   r == known[x][s].timestamp
        <5>2. p \in Nat /\ r \in Nat /\ r > p /\ c.timestamp \in Nat
          BY <1>1, <1>2, <1>4, <2>1, StampsNat
        <5> HIDE DEF p, r
        <5>3. c.timestamp <= p /\ c.timestamp >= r
          BY <4>1, <5>1 DEF p, r
        <5> QED
          BY <5>2, <5>3
      <4> QED
        BY <2>1, <4>1, <4>2
    <3> QED
      BY <3>2, <3>3, <3>4, <3>5
  <2> QED
    BY <2>3, <2>4
<1> QED
  BY <1>5, <1>6

LEMMA ChangeKeeps ==
  ASSUME IInv, NEW n \in Node, NEW S \in SUBSET State,
         NEW aware \in SUBSET Slot, NEW functions \in SUBSET Function(n),
         Flooded(n, S, aware, functions), Grown(n, S), Sessions(n, functions),
         AwareKnow(n, S, aware),
         joined' \subseteq Groups, changes' \in 0 .. MaxChanges,
         resends' \in 0 .. MaxResends, restarts' \in 0 .. MaxRestarts
  PROVE  IInv'
<1>1. Base /\ UpdatesQueued /\ CellsKnown
  BY DEF IInv
<1>2. Base'
  BY <1>1, ChangeKeepsBase
<1>3. CellsKnown'
  BY <1>1, ChangeKeepsCells
<1>4. UpdatesQueued'
  BY <1>1, FloodedQueued DEF Sessions
<1>5. NewsOnItsWay'
  BY <1>4, ChangeKeepsNews
<1> QED
  BY <1>2, <1>3, <1>4, <1>5 DEF IInv

-----------------------------------------------------------------------------
(* The sessions stay as they are; at most, cells are taken that are known.   *)
LEMMA SessionsQuiet ==
  ASSUME IInv, NEW n \in Node, NEW functions,
         UNCHANGED <<slot, sess>>, chan' \in [Leg -> SUBSET CellType],
         \A l \in Leg : chan'[l] \subseteq chan[l],
         \A l \in Leg : \A c \in chan[l] \ chan'[l] :
           c.timestamp <= known'[l[2]][c.state].timestamp,
         queued[n] \subseteq functions,
         functions \subseteq queued[n] \cup {<<"Set_Routes">>}
  PROVE  Sessions(n, functions)
<1>1. NoAssertFails
  BY DEF IInv, Base
<1>2. \A l \in Leg, prot \in Protocol :
        l[1] = n /\ Send_State_AllTo(l[2], prot) \in functions => sess'[l] = "up"
  <2> SUFFICES ASSUME NEW l \in Leg, NEW prot \in Protocol,
                      l[1] = n, Send_State_AllTo(l[2], prot) \in functions
               PROVE  sess'[l] = "up"
    OBVIOUS
  <2>1. Send_State_AllTo(l[2], prot) # <<"Set_Routes">>
    BY QueueDistinct
  <2>2. Send_State_AllTo(l[2], prot) \in queued[n]
    BY <2>1
  <2> QED
    BY <1>1, <2>2 DEF NoAssertFails
<1>3. \A l \in Leg : sess'[l] = "no" => chan'[l] = {}
  BY DEF IInv, CellsKnown
<1>4. /\ slot' \in [Leg -> Slot \cup {None}]
      /\ sess' \in [Leg -> Progress]
  BY <1>1 DEF NoAssertFails, TypeOK
<1>5. \A l \in Leg : (sess'[l] = "up") <=> (slot'[l] # None)
  BY <1>1 DEF NoAssertFails
<1>6. \A l, k \in Leg : l[1] = k[1] /\ l # k /\ slot'[l] # None => slot'[l] # slot'[k]
  BY <1>1 DEF NoAssertFails
<1> QED
  BY <1>2, <1>3, <1>4, <1>5, <1>6 DEF Sessions

LEMMA NobodyAware ==
  ASSUME NEW n, NEW S
  PROVE  AwareKnow(n, S, {})
  BY DEF AwareKnow

(* The counters of a step that a fault or a client starts. *)
LEMMA SpontaneousCounts ==
  ASSUME TypeOK, Spontaneous
  PROVE  /\ changes' \in 0 .. MaxChanges
         /\ resends' \in 0 .. MaxResends
         /\ restarts' \in 0 .. MaxRestarts
<1>1. MaxChanges \in Nat
  BY FloodBoundAssumption
<1> QED
  BY <1>1 DEF TypeOK, Spontaneous

(* A source publishes states of its own, its sessions stay. *)
LEMMA PublishOK ==
  ASSUME IInv, NEW n \in Node, NEW S \in SUBSET State, NEW v \in BOOLEAN,
         Publish(n, S, v, queued[n]), UNCHANGED <<slot, sess, chan>>,
         joined' \subseteq Groups, changes' \in 0 .. MaxChanges,
         resends' \in 0 .. MaxResends, restarts' \in 0 .. MaxRestarts
  PROVE  IInv'
<1>1. TypeOK /\ FiniteChannels /\ DOMAIN queued = Node
  BY DEF IInv, Base, NoAssertFails
<1>2. queued[n] \in SUBSET Function(n)
  BY <1>1 DEF TypeOK
<1>3. Flooded(n, S, {}, queued[n]) /\ Grown(n, S)
  BY <1>1, <1>2, PublishEffect
<1>4. Sessions(n, queued[n])
  <2>1. chan' \in [Leg -> SUBSET CellType]
    BY <1>1 DEF TypeOK
  <2> QED
    BY <2>1, SessionsQuiet
<1>5. AwareKnow(n, S, {})
  BY NobodyAware
<1>6. {} \in SUBSET Slot
  OBVIOUS
<1> QED
  BY <1>2, <1>3, <1>4, <1>5, <1>6, ChangeKeeps

LEMMA Join_GroupOK ==
  ASSUME IInv, NEW s \in State, Join_Group(Source(s), s)
  PROVE  IInv'
<1> DEFINE n == Source(s)
<1>1. n \in Node
  BY StateFacts
<1>2. TypeOK /\ DOMAIN queued = Node
  BY DEF IInv, Base, NoAssertFails
<1>3. joined' \subseteq Groups
  BY <1>2 DEF Join_Group, TypeOK
<1>4. /\ changes' \in 0 .. MaxChanges
      /\ resends' \in 0 .. MaxResends
      /\ restarts' \in 0 .. MaxRestarts
  BY <1>2, SpontaneousCounts DEF Join_Group
<1>5. UNCHANGED <<slot, sess, chan>>
  BY DEF Join_Group
<1>6. CASE known[n][s].value
  <2>1. UNCHANGED <<known, changed, mask, queued>>
    BY <1>6 DEF Join_Group
  <2>2. Flooded(n, {}, {}, queued[n]) /\ Grown(n, {})
    <3>1. UpdatesFor(n, {}) = {}
      BY DEF UpdatesFor
    <3> HIDE DEF n
    <3> QED
      BY <1>1, <1>2, <2>1, <3>1 DEF Flooded, Grown, TypeOK
  <2>3. Sessions(n, queued[n])
    <3>1. chan' \in [Leg -> SUBSET CellType]
      BY <1>2, <1>5 DEF TypeOK
    <3> HIDE DEF n
    <3> QED
      BY <1>1, <1>5, <3>1, SessionsQuiet
  <2>4. AwareKnow(n, {}, {}) /\ {} \in SUBSET Slot /\ {} \in SUBSET State
    BY NobodyAware
  <2>5. queued[n] \in SUBSET Function(n)
    BY <1>1, <1>2 DEF TypeOK
  <2> HIDE DEF n
  <2> QED
    BY <1>1, <1>3, <1>4, <2>2, <2>3, <2>4, <2>5, ChangeKeeps
<1>7. CASE ~ known[n][s].value
  <2>1. Publish(n, {s}, TRUE, queued[n])
    BY <1>7 DEF Join_Group
  <2> HIDE DEF n
  <2> QED
    BY <1>1, <1>3, <1>4, <1>5, <2>1, PublishOK
<1> QED
  BY <1>6, <1>7

LEMMA Leave_GroupOK ==
  ASSUME IInv, NEW s \in State, Leave_Group(Source(s), s)
  PROVE  IInv'
<1> DEFINE n == Source(s)
<1>1. n \in Node
  BY StateFacts
<1>2. TypeOK
  BY DEF IInv, Base, NoAssertFails
<1>3. joined' \subseteq Groups
  BY <1>2 DEF Leave_Group, TypeOK
<1>4. /\ changes' \in 0 .. MaxChanges
      /\ resends' \in 0 .. MaxResends
      /\ restarts' \in 0 .. MaxRestarts
  BY <1>2, SpontaneousCounts DEF Leave_Group
<1>5. UNCHANGED <<slot, sess, chan>> /\ Publish(n, {s}, FALSE, queued[n])
  BY DEF Leave_Group
<1> HIDE DEF n
<1> QED
  BY <1>1, <1>3, <1>4, <1>5, PublishOK

LEMMA Resend_StatesOK ==
  ASSUME IInv, NEW n \in Node, NEW prot \in Protocol, Resend_States(n, prot)
  PROVE  IInv'
<1>1. PICK S \in SUBSET {s \in StatesOf(prot) : Source(s) = n /\ known[n][s].value} \ {{}} :
        Publish(n, S, TRUE, queued[n])
  BY DEF Resend_States
<1>2. S \in SUBSET State
  BY <1>1, ProtocolStates
<1>3. TypeOK /\ MaxResends \in Nat
  BY FloodBoundAssumption DEF IInv, Base, NoAssertFails
<1>4. /\ joined' \subseteq Groups
      /\ changes' \in 0 .. MaxChanges
      /\ resends' \in 0 .. MaxResends
      /\ restarts' \in 0 .. MaxRestarts
  BY <1>3 DEF Resend_States, TypeOK
<1>5. UNCHANGED <<slot, sess, chan>>
  BY DEF Resend_States
<1> QED
  BY <1>1, <1>2, <1>4, <1>5, PublishOK

-----------------------------------------------------------------------------
(* Legs come and go. *)

LEMMA CostQueue ==
  ASSUME NEW n, NEW m, NEW functions
  PROVE  /\ functions \subseteq CostFunctions(n, m, functions)
         /\ CostFunctions(n, m, functions) \subseteq functions \cup {<<"Set_Routes">>}
         /\ \A k, prot : Send_State_AllTo(k, prot) \in CostFunctions(n, m, functions)
                           => Send_State_AllTo(k, prot) \in functions
  BY QueueDistinct DEF CostFunctions

LEMMA CostTypes ==
  ASSUME NEW n \in Node, NEW m \in Node, NEW functions \in SUBSET Function(n)
  PROVE  /\ CostStates(n, m) \in SUBSET State
         /\ CostFunctions(n, m, functions) \in SUBSET Function(n)
  BY DEF CostStates, CostFunctions, State, Function

LEMMA ConnectSessions ==
  ASSUME IInv, NEW l \in Leg, Connect(l[1], l[2]), NEW functions,
         queued[l[1]] \cup {Send_State_AllTo(l[2], prot) : prot \in Protocol} \subseteq functions,
         functions \subseteq queued[l[1]] \cup {<<"Set_Routes">>}
                       \cup {Send_State_AllTo(l[2], prot) : prot \in Protocol}
  PROVE  Sessions(l[1], functions)
<1> DEFINE n == l[1]
           m == l[2]
           i == Min(FreeSlots(n))
<1>0. n \in Node /\ m \in Node /\ l = <<n, m>> /\ <<m, n>> \in Leg /\ n # m
  BY LegFacts
<1>1. NoAssertFails /\ TypeOK /\ CellsKnown
  BY DEF IInv, Base, NoAssertFails
<1>2. sess[l] = "no" /\ sess' = [sess EXCEPT ![l] = "up"] /\ slot' = [slot EXCEPT ![l] = i]
        /\ chan' = chan
  BY <1>0 DEF Connect
<1>3. i \in FreeSlots(n)
  BY <1>0, FreeSlotExists
<1>4. i \in Slot /\ i # None /\ \A k \in Leg : k[1] = n => slot[k] # i
  <2>1. i \in Slot /\ i # None
    BY <1>3, NoneNoSlot DEF FreeSlots
  <2>2. ASSUME NEW k \in Leg, k[1] = n PROVE slot[k] # i
    <3>1. k = <<n, k[2]>> /\ k[2] \in Neighbors(n)
      BY <2>2, LegFacts
    <3> HIDE DEF i
    <3> QED
      BY <1>3, <3>1 DEF FreeSlots
  <2> QED
    BY <2>1, <2>2
<1> HIDE DEF i
<1>5. /\ slot' \in [Leg -> Slot \cup {None}]
      /\ sess' \in [Leg -> Progress]
      /\ chan' \in [Leg -> SUBSET CellType]
  BY <1>1, <1>2, <1>4 DEF TypeOK, Progress
<1>6. sess'[l] = "up" /\ slot'[l] = i /\ \A k \in Leg \ {l} : sess'[k] = sess[k] /\ slot'[k] = slot[k]
  BY <1>1, <1>2 DEF TypeOK
<1>7. \A k \in Leg : (sess'[k] = "up") <=> (slot'[k] # None)
  BY <1>1, <1>4, <1>6 DEF NoAssertFails
<1>8. \A k, j \in Leg : k[1] = j[1] /\ k # j /\ slot'[k] # None => slot'[k] # slot'[j]
  BY <1>1, <1>4, <1>6 DEF NoAssertFails
<1>9. ASSUME NEW k \in Leg, NEW prot \in Protocol, k[1] = n,
             Send_State_AllTo(k[2], prot) \in functions
      PROVE  sess'[k] = "up"
  <2>1. CASE k = l
    BY <1>6, <2>1
  <2>2. CASE k # l
    <3>1. k[2] # m
      BY <1>0, <1>9, <2>2, LegFacts
    <3>2. Send_State_AllTo(k[2], prot) \in queued[n]
      BY <1>9, <3>1, QueueDistinct
    <3> QED
      BY <1>1, <1>6, <1>9, <2>2, <3>2 DEF NoAssertFails
  <2> QED
    BY <2>1, <2>2
<1>10. \A k \in Leg : k[1] # n => slot'[k] = slot[k] /\ (sess'[k] = "up" <=> sess[k] = "up")
  BY <1>6
<1>11. ASSUME NEW k \in Leg, sess'[k] = "up"
       PROVE  \/ /\ sess[k] = "up"
                 /\ slot'[k] = slot[k]
                 /\ sess'[<<k[2], k[1]>>] # "left" => sess[<<k[2], k[1]>>] # "left"
              \/ k[1] = n /\ \A prot \in Protocol : Send_State_AllTo(k[2], prot) \in functions
  <2>1. CASE k = l
    BY <2>1
  <2>2. CASE k # l
    <3>1. <<k[2], k[1]>> \in Leg
      BY LegFacts
    <3> QED
      BY <1>2, <1>6, <1>11, <2>2, <3>1
  <2> QED
    BY <2>1, <2>2
<1>12. \A k \in Leg : sess'[k] # "left" => sess[k] # "left" \/ chan'[k] = {}
  BY <1>2, <1>6
<1>13. \A k \in Leg : sess'[k] = "no" => chan'[k] = {}
  BY <1>1, <1>2, <1>6 DEF CellsKnown
<1>14. \A k \in Leg : chan'[k] = chan[k]
  BY <1>2
<1>15. \A k \in Leg, prot \in Protocol :
         k[1] = n /\ Send_State_AllTo(k[2], prot) \in functions => sess'[k] = "up"
  BY <1>9
<1>16. /\ \A k \in Leg, prot \in Protocol :
            k[1] = n /\ sess'[k] = "up" /\ Send_State_AllTo(k[2], prot) \in queued[n]
              => Send_State_AllTo(k[2], prot) \in functions
       /\ \A prot \in Protocol :
            Send_State_UpdatesOf(prot) \in queued[n] => Send_State_UpdatesOf(prot) \in functions
  OBVIOUS
<1> QED
  BY <1>5, <1>7, <1>8, <1>10, <1>11, <1>12, <1>13, <1>14, <1>15, <1>16 DEF Sessions

LEMMA ConnectOK ==
  ASSUME IInv, NEW l \in Leg, Connect(l[1], l[2])
  PROVE  IInv'
<1> DEFINE n == l[1]
           m == l[2]
           F == queued[n] \cup {Send_State_AllTo(m, prot) : prot \in Protocol}
<1>1. n \in Node /\ m \in Node /\ m \in Neighbors(n)
  BY LegFacts
<1>2. TypeOK /\ FiniteChannels /\ DOMAIN queued = Node
  BY DEF IInv, Base, NoAssertFails
<1>3. F \in SUBSET Function(n)
  <2>1. queued[n] \subseteq Function(n)
    BY <1>1, <1>2 DEF TypeOK
  <2> QED
    BY <1>1, <2>1 DEF Function
<1>4. SetCost(n, m, TRUE, F)
  BY DEF Connect
<1> DEFINE G == CostFunctions(n, m, F)
           S == CostStates(n, m)
<1>5. Sessions(n, G)
  <2>1. F \subseteq G /\ G \subseteq F \cup {<<"Set_Routes">>}
    <3> HIDE DEF F
    <3> QED
      BY CostQueue
  <2> HIDE DEF G
  <2> QED
    BY <2>1, ConnectSessions
<1> HIDE DEF F
<1>6. Flooded(n, S, {}, G) /\ Grown(n, S)
  <2> HIDE DEF n, m
  <2> QED
    BY <1>1, <1>2, <1>3, <1>4, SetCostEffect
<1>7. S \in SUBSET State /\ G \in SUBSET Function(n)
  BY <1>1, <1>3, CostTypes
<1>8. /\ joined' \subseteq Groups
      /\ changes' \in 0 .. MaxChanges
      /\ resends' \in 0 .. MaxResends
      /\ restarts' \in 0 .. MaxRestarts
  BY <1>2 DEF Connect, TypeOK
<1>9. AwareKnow(n, S, {}) /\ {} \in SUBSET Slot
  BY NobodyAware
<1> HIDE DEF n, S, G
<1> QED
  BY <1>1, <1>5, <1>6, <1>7, <1>8, <1>9, ChangeKeeps

(* What LeaveSessions does to each session. *)
LEMMA LeaveEffect ==
  ASSUME TypeOK, CellsKnown, NEW n \in Node, NEW T \in SUBSET Node, LeaveSessions(n, T)
  PROVE  /\ sess' \in [Leg -> Progress]
         /\ chan' \in [Leg -> SUBSET CellType]
         /\ \A l \in Leg : chan'[l] \subseteq chan[l]
         /\ \A l \in Leg : l[1] = n /\ l[2] \in T => sess'[l] # "up"
         /\ \A l \in Leg : ~ (l[1] = n /\ l[2] \in T) => (sess'[l] = "up" <=> sess[l] = "up")
         /\ \A l \in Leg : l[1] # n /\ l[2] # n => sess'[l] = sess[l] /\ chan'[l] = chan[l]
         /\ \A l \in Leg : l[1] \notin T /\ l[2] \notin T => sess'[l] = sess[l] /\ chan'[l] = chan[l]
         /\ \A l \in Leg : l[2] = n /\ l[1] \in T => chan'[l] = {}
         /\ \A l \in Leg : l[2] = n /\ l[1] \in T /\ sess[l] = "up"
                             => sess'[<<n, l[1]>>] = "left"
         /\ \A l \in Leg : sess'[l] # "left" => sess[l] # "left" \/ chan'[l] = {}
         /\ \A l \in Leg : sess'[l] = "no" => chan'[l] = {}
         /\ \A l \in Leg : l[1] # n /\ sess'[l] = "left" => sess[l] = "left"
<1>1. \A l \in Leg :
        /\ sess'[l] = CASE l[1] = n /\ l[2] \in T ->
                             IF sess[<<l[2], n>>] = "up" THEN "left" ELSE "no"
                        [] l[2] = n /\ l[1] \in T /\ sess[l] = "left" -> "no"
                        [] OTHER -> sess[l]
        /\ chan'[l] = IF \/ l[2] = n /\ l[1] \in T
                         \/ l[1] = n /\ l[2] \in T /\ sess[<<l[2], n>>] # "up"
                      THEN {} ELSE chan[l]
  BY DEF LeaveSessions
<1>2. DOMAIN sess' = Leg /\ DOMAIN chan' = Leg
        /\ sess' = [l \in Leg |-> sess'[l]] /\ chan' = [l \in Leg |-> chan'[l]]
  BY DEF LeaveSessions
<1>3. \A l \in Leg : /\ sess[l] \in Progress /\ chan[l] \subseteq CellType
                     /\ l[1] # l[2] /\ l = <<l[1], l[2]>> /\ <<l[2], l[1]>> \in Leg
                     /\ sess[l] = "no" => chan[l] = {}
  BY LegFacts DEF TypeOK, CellsKnown
<1>4. ASSUME NEW l \in Leg, l[1] = n, l[2] \in T
      PROVE  /\ sess'[l] = IF sess[<<l[2], n>>] = "up" THEN "left" ELSE "no"
             /\ chan'[l] = IF sess[<<l[2], n>>] = "up" THEN chan[l] ELSE {}
  BY <1>1, <1>3, <1>4
<1>5. ASSUME NEW l \in Leg, l[2] = n, l[1] \in T
      PROVE  /\ sess'[l] = IF sess[l] = "left" THEN "no" ELSE sess[l]
             /\ chan'[l] = {}
  BY <1>1, <1>3, <1>5
<1>6. ASSUME NEW l \in Leg, ~ (l[1] = n /\ l[2] \in T), ~ (l[2] = n /\ l[1] \in T)
      PROVE  sess'[l] = sess[l] /\ chan'[l] = chan[l]
  BY <1>1, <1>6
<1>7. ASSUME NEW l \in Leg
      PROVE  /\ sess'[l] \in Progress
             /\ chan'[l] \subseteq CellType
             /\ chan'[l] \subseteq chan[l]
             /\ l[1] = n /\ l[2] \in T => sess'[l] # "up"
             /\ ~ (l[1] = n /\ l[2] \in T) => (sess'[l] = "up" <=> sess[l] = "up")
             /\ sess'[l] # "left" => sess[l] # "left" \/ chan'[l] = {}
             /\ sess'[l] = "no" => chan'[l] = {}
             /\ l[1] # n /\ sess'[l] = "left" => sess[l] = "left"
  <2>1. CASE l[1] = n /\ l[2] \in T
    BY <1>3, <1>4, <2>1 DEF Progress
  <2>2. CASE l[2] = n /\ l[1] \in T
    BY <1>3, <1>5, <2>2 DEF Progress
  <2>3. CASE ~ (l[1] = n /\ l[2] \in T) /\ ~ (l[2] = n /\ l[1] \in T)
    BY <1>3, <1>6, <2>3 DEF Progress
  <2> QED
    BY <2>1, <2>2, <2>3
<1>8. ASSUME NEW l \in Leg, l[2] = n, l[1] \in T, sess[l] = "up"
      PROVE  sess'[<<n, l[1]>>] = "left"
  <2> DEFINE k == <<n, l[1]>>
  <2>1. k \in Leg /\ k[1] = n /\ k[2] = l[1] /\ <<k[2], n>> = l
    BY <1>3, <1>8
  <2> HIDE DEF k
  <2>2. sess'[k] = "left"
    BY <1>4, <1>8, <2>1
  <2> QED
    BY <2>2 DEF k
<1>9. sess' \in [Leg -> Progress] /\ chan' \in [Leg -> SUBSET CellType]
  BY <1>2, <1>7
<1> QED
  BY <1>5, <1>6, <1>7, <1>8, <1>9

LEMMA DisconnectOK ==
  ASSUME IInv, NEW l \in Leg, Disconnect(l[1], l[2]),
         joined' \subseteq Groups, changes' \in 0 .. MaxChanges,
         resends' \in 0 .. MaxResends, restarts' \in 0 .. MaxRestarts
  PROVE  IInv'
<1> DEFINE n == l[1]
           m == l[2]
           F == queued[n] \ {Send_State_AllTo(m, prot) : prot \in Protocol}
           G == CostFunctions(n, m, F)
           S == CostStates(n, m)
<1>1. n \in Node /\ m \in Node /\ l = <<n, m>> /\ <<m, n>> \in Leg /\ n # m
  BY LegFacts
<1>2. TypeOK /\ FiniteChannels /\ DOMAIN queued = Node /\ CellsKnown /\ NoAssertFails
  BY DEF IInv, Base, NoAssertFails
<1>3. F \in SUBSET Function(n)
  BY <1>1, <1>2 DEF TypeOK
<1>4. SetCost(n, m, FALSE, F) /\ LeaveSessions(n, {m}) /\ slot' = [slot EXCEPT ![l] = None]
  BY <1>1 DEF Disconnect
<1>5. /\ sess' \in [Leg -> Progress]
      /\ chan' \in [Leg -> SUBSET CellType]
      /\ \A k \in Leg : chan'[k] \subseteq chan[k]
      /\ \A k \in Leg : k[1] = n /\ k[2] = m => sess'[k] # "up"
      /\ \A k \in Leg : ~ (k[1] = n /\ k[2] = m) => (sess'[k] = "up" <=> sess[k] = "up")
      /\ \A k \in Leg : k[1] # n /\ k[2] # n => sess'[k] = sess[k] /\ chan'[k] = chan[k]
      /\ \A k \in Leg : k[1] # m /\ k[2] # m => sess'[k] = sess[k] /\ chan'[k] = chan[k]
      /\ \A k \in Leg : k[2] = n /\ k[1] = m /\ sess[k] = "up" => sess'[<<n, k[1]>>] = "left"
      /\ \A k \in Leg : sess'[k] # "left" => sess[k] # "left" \/ chan'[k] = {}
      /\ \A k \in Leg : sess'[k] = "no" => chan'[k] = {}
  <2>1. {m} \in SUBSET Node
    BY <1>1
  <2> HIDE DEF n, m
  <2> QED
    BY <1>1, <1>2, <1>4, <2>1, LeaveEffect
<1>6. \A k \in Leg : k # l <=> ~ (k[1] = n /\ k[2] = m)
  BY LegFacts
<1>7. slot'[l] = None /\ \A k \in Leg \ {l} : slot'[k] = slot[k]
  BY <1>2, <1>4 DEF TypeOK
<1>8. slot' \in [Leg -> Slot \cup {None}]
  BY <1>2, <1>4 DEF TypeOK
<1>9. \A k \in Leg : (sess'[k] = "up") <=> (slot'[k] # None)
  BY <1>2, <1>5, <1>6, <1>7 DEF NoAssertFails
<1>10. \A k, j \in Leg : k[1] = j[1] /\ k # j /\ slot'[k] # None => slot'[k] # slot'[j]
  BY <1>2, <1>7 DEF NoAssertFails
<1>11. ASSUME NEW k \in Leg, NEW prot \in Protocol, k[1] = n,
              Send_State_AllTo(k[2], prot) \in G
       PROVE  sess'[k] = "up"
  <2>1. Send_State_AllTo(k[2], prot) \in F
    <3> HIDE DEF F
    <3> QED
      BY <1>11, CostQueue
  <2>2. k[2] # m /\ Send_State_AllTo(k[2], prot) \in queued[n]
    BY <2>1
  <2>3. sess[k] = "up"
    BY <1>2, <1>11, <2>2 DEF NoAssertFails
  <2> QED
    BY <1>5, <2>2, <2>3
<1>12. ASSUME NEW k \in Leg, NEW prot \in Protocol, k[1] = n, sess'[k] = "up",
              Send_State_AllTo(k[2], prot) \in queued[n]
       PROVE  Send_State_AllTo(k[2], prot) \in G
  <2>1. k[2] # m
    BY <1>5, <1>12
  <2>2. Send_State_AllTo(k[2], prot) \in F
    BY <1>12, <2>1, QueueDistinct
  <2> HIDE DEF F
  <2> QED
    BY <2>2, CostQueue
<1>13. ASSUME NEW prot \in Protocol, Send_State_UpdatesOf(prot) \in queued[n]
       PROVE  Send_State_UpdatesOf(prot) \in G
  <2>1. Send_State_UpdatesOf(prot) \in F
    BY <1>13, QueueDistinct
  <2> HIDE DEF F
  <2> QED
    BY <2>1, CostQueue
<1>14. ASSUME NEW k \in Leg, sess'[k] = "up"
       PROVE  /\ sess[k] = "up"
              /\ slot'[k] = slot[k]
              /\ sess'[<<k[2], k[1]>>] # "left" => sess[<<k[2], k[1]>>] # "left"
              /\ sess'[<<k[2], k[1]>>] # "left" => chan'[k] = chan[k]
  <2>1. k # l /\ sess[k] = "up" /\ slot'[k] = slot[k]
    BY <1>5, <1>6, <1>7, <1>14
  <2> DEFINE j == <<k[2], k[1]>>
  <2>2. j \in Leg /\ j[1] = k[2] /\ j[2] = k[1] /\ k[1] # k[2]
    BY LegFacts
  <2>3. CASE k[1] = m /\ k[2] = n
    <3>1. sess'[<<n, k[1]>>] = "left"
      BY <1>5, <2>1, <2>3
    <3> QED
      BY <2>1, <2>3, <3>1
  <2>4. CASE ~ (k[1] = m /\ k[2] = n)
    <3>0. ~ (k[1] = n /\ k[2] = m)
      BY <1>6, <2>1
    <3>1. \/ k[1] # n /\ k[2] # n
          \/ k[1] # m /\ k[2] # m
      BY <1>1, <2>2, <2>4, <3>0
    <3>2. sess'[j] = sess[j] /\ chan'[k] = chan[k]
      <4> HIDE DEF j, n, m
      <4> QED
        BY <1>5, <2>2, <3>1
    <3> QED
      BY <2>1, <3>2
  <2> QED
    BY <2>3, <2>4
<1>15. Sessions(n, G)
  <2> HIDE DEF n, m, F, G
  <2>1. \A k \in Leg : k[1] # n => slot'[k] = slot[k] /\ (sess'[k] = "up" <=> sess[k] = "up")
    BY <1>5, <1>6, <1>7
  <2>2. \A k \in Leg : sess'[k] = "up" /\ sess'[<<k[2], k[1]>>] # "left" => chan[k] \ chan'[k] = {}
    BY <1>14
  <2> QED
    BY <1>5, <1>8, <1>9, <1>10, <1>11, <1>12, <1>13, <1>14, <2>1, <2>2 DEF Sessions
<1> HIDE DEF F
<1>16. Flooded(n, S, {}, G) /\ Grown(n, S)
  <2> HIDE DEF n, m
  <2> QED
    BY <1>1, <1>2, <1>3, <1>4, SetCostEffect
<1>17. S \in SUBSET State /\ G \in SUBSET Function(n)
  BY <1>1, <1>3, CostTypes
<1>18. AwareKnow(n, S, {}) /\ {} \in SUBSET Slot
  BY NobodyAware
<1> HIDE DEF n, S, G
<1> QED
  BY <1>1, <1>15, <1>16, <1>17, <1>18, ChangeKeeps

LEMMA DisconnectFirstOK ==
  ASSUME IInv, NEW l \in Leg, DisconnectFirst(l[1], l[2])
  PROVE  IInv'
<1>1. TypeOK
  BY DEF IInv, Base, NoAssertFails
<1>2. /\ joined' \subseteq Groups
      /\ changes' \in 0 .. MaxChanges
      /\ resends' \in 0 .. MaxResends
      /\ restarts' \in 0 .. MaxRestarts
  BY <1>1, SpontaneousCounts DEF DisconnectFirst, TypeOK
<1> QED
  BY <1>2, DisconnectOK DEF DisconnectFirst

LEMMA DisconnectAfterPeerOK ==
  ASSUME IInv, NEW l \in Leg, DisconnectAfterPeer(l[1], l[2])
  PROVE  IInv'
<1>1. TypeOK
  BY DEF IInv, Base, NoAssertFails
<1>2. /\ joined' \subseteq Groups
      /\ changes' \in 0 .. MaxChanges
      /\ resends' \in 0 .. MaxResends
      /\ restarts' \in 0 .. MaxRestarts
  BY <1>1 DEF DisconnectAfterPeer, TypeOK
<1> QED
  BY <1>2, DisconnectOK DEF DisconnectAfterPeer

-----------------------------------------------------------------------------
(* Receiving. *)

(* A new cell: n takes the copy over, or publishes its own. *)
LEMMA NewCellEffect ==
  ASSUME IInv, NEW l \in Leg, NEW c \in chan[<<l[2], l[1]>>],
         Newer(l[1], c), Process_state_cell(l[1], l[2], c), slot[l] \in Slot
  PROVE  \E aware \in SUBSET {slot[l]}, functions \in SUBSET Function(l[1]) :
           /\ Flooded(l[1], {c.state}, aware, functions)
           /\ Grown(l[1], {c.state})
           /\ known'[l[1]][c.state].timestamp \in {c.timestamp, c.timestamp + 1}
           /\ known'[l[1]][c.state].timestamp = c.timestamp \/ aware = {}
           /\ queued[l[1]] \subseteq functions
           /\ functions \subseteq queued[l[1]] \cup {<<"Set_Routes">>}
<1> DEFINE n == l[1]
           m == l[2]
           s == c.state
           extra == IF s \in Edges THEN {<<"Set_Routes">>} ELSE {}
<1>1. n \in Node /\ l = <<n, m>> /\ <<m, n>> \in Leg
  BY LegFacts
<1>2. TypeOK /\ DOMAIN queued = Node
  BY DEF IInv, Base, NoAssertFails
<1>3. c.timestamp \in Nat /\ s \in State /\ c.value \in BOOLEAN
  BY <1>1, <1>2, StampsNat
<1>4. queued[n] \in SUBSET Function(n)
  BY <1>1, <1>2 DEF TypeOK
<1>5. known \in [Node -> [State -> Copy]] /\ known[n][s] \in Copy
        /\ known[n][s].timestamp \in Nat /\ known[n][s].timestamp < c.timestamp
        /\ known[n][s].value \in BOOLEAN
  BY <1>1, <1>2, <1>3 DEF TypeOK, Copy, Newer
<1>6. CASE Source(s) # n
  <2> DEFINE copy == [timestamp |-> c.timestamp, value |-> c.value]
             F == queued[n] \cup extra
  <2>1. known' = [known EXCEPT ![n][s] = copy]
    BY <1>6 DEF Process_state_cell
  <2>2. copy \in Copy /\ copy.timestamp = c.timestamp
    BY <1>3 DEF Copy
  <2>3. F \in SUBSET Function(n) /\ {s} \in SUBSET State /\ {slot[l]} \in SUBSET Slot
    BY <1>3, <1>4 DEF Function
  <2>4. Add_to_changed_states(n, {s}, {slot[l]}, F)
    BY <1>1, <1>6 DEF Process_state_cell
  <2> HIDE DEF F, copy, n, s
  <2>5. Grown(n, {s}) /\ known'[n][s] = copy
    BY <1>1, <1>3, <1>5, <2>1, <2>2 DEF Grown
  <2>6. Flooded(n, {s}, {slot[l]}, F)
    BY <1>1, <1>2, <2>3, <2>4, AddEffect
  <2>7. queued[n] \subseteq F /\ F \subseteq queued[n] \cup {<<"Set_Routes">>}
    BY DEF F
  <2>8. known'[n][s].timestamp = c.timestamp
    BY <2>2, <2>5
  <2> QED
    BY <2>3, <2>5, <2>6, <2>7, <2>8 DEF n, s
<1>7. CASE Source(s) = n
  <2> DEFINE copy == [known[n][s] EXCEPT !.timestamp = c.timestamp + 1]
  <2>1. known' = [known EXCEPT ![n][s] = copy]
    BY <1>7 DEF Process_state_cell
  <2>2. copy \in Copy /\ copy.timestamp = c.timestamp + 1
    BY <1>3, <1>5 DEF Copy
  <2>3. {s} \in SUBSET State /\ {} \in SUBSET Slot
    BY <1>3
  <2>4. Add_to_changed_states(n, {s}, {}, queued[n])
    BY <1>7 DEF Process_state_cell
  <2> HIDE DEF copy, n, s
  <2>5. known'[n][s] = copy /\ known' \in [Node -> [State -> Copy]]
          /\ (\A k \in Node \ {n} : known'[k] = known[k])
          /\ \A t \in State \ {s} : known'[n][t] = known[n][t]
    BY <1>1, <1>3, <1>5, <2>1, <2>2
  <2>6. Grown(n, {s})
    BY <1>1, <1>3, <1>5, <2>2, <2>5 DEF Grown
  <2>7. Flooded(n, {s}, {}, queued[n])
    BY <1>1, <1>2, <1>4, <2>3, <2>4, AddEffect
  <2>8. known'[n][s].timestamp = c.timestamp + 1
    BY <2>2, <2>5
  <2> QED
    BY <1>4, <2>6, <2>7, <2>8 DEF n, s
<1> QED
  BY <1>6, <1>7

LEMMA NewCellOK ==
  ASSUME IInv, NEW l \in Leg, NEW c \in chan[<<l[2], l[1]>>], sess[l] = "up",
         chan' = [chan EXCEPT ![<<l[2], l[1]>>] = @ \ {c}],
         Newer(l[1], c), Process_state_cell(l[1], l[2], c),
         UNCHANGED <<slot, sess, joined, changes, resends, restarts>>
  PROVE  IInv'
<1> DEFINE n == l[1]
           m == l[2]
           s == c.state
           r == <<m, n>>
<1>1. n \in Node /\ m \in Node /\ l = <<n, m>> /\ r \in Leg /\ n # m /\ r[1] = m /\ r[2] = n
  BY LegFacts
<1>2. TypeOK /\ NoAssertFails /\ CellsKnown
  BY DEF IInv, Base, NoAssertFails
<1>3. c.timestamp \in Nat /\ s \in State
  BY <1>1, <1>2, StampsNat
<1>4. slot[l] \in Slot
  BY <1>2 DEF NoAssertFails, TypeOK
<1>5. PICK aware \in SUBSET {slot[l]}, functions \in SUBSET Function(n) :
        /\ Flooded(n, {s}, aware, functions)
        /\ Grown(n, {s})
        /\ known'[n][s].timestamp \in {c.timestamp, c.timestamp + 1}
        /\ known'[n][s].timestamp = c.timestamp \/ aware = {}
        /\ queued[n] \subseteq functions
        /\ functions \subseteq queued[n] \cup {<<"Set_Routes">>}
  BY <1>4, NewCellEffect
<1>6. chan' \in [Leg -> SUBSET CellType] /\ \A k \in Leg : chan'[k] \subseteq chan[k]
        /\ \A d \in chan[k] \ chan'[k] : k = r /\ d = c
  BY <1>1, <1>2 DEF TypeOK
<1> HIDE DEF n, m, s, r
<1>7. c.timestamp <= known'[n][s].timestamp
  BY <1>3, <1>5
<1>8. Sessions(n, functions)
  <2>1. \A k \in Leg : \A d \in chan[k] \ chan'[k] :
          d.timestamp <= known'[k[2]][d.state].timestamp
    BY <1>1, <1>6, <1>7 DEF s
  <2> QED
    BY <1>1, <1>5, <1>6, <2>1, SessionsQuiet
<1>9. AwareKnow(n, {s}, aware)
  <2> SUFFICES ASSUME NEW k \in Leg, k[1] = n, sess'[k] = "up",
                      sess'[<<k[2], n>>] # "left", slot'[k] \in aware
               PROVE  known'[n][s].timestamp <= known'[k[2]][s].timestamp
    BY DEF AwareKnow
  <2>1. k = l
    BY <1>1, <1>2, <1>5 DEF NoAssertFails
  <2>2. sess[r] # "left" /\ k[2] = m
    BY <1>1, <2>1 DEF r
  <2>3. c.timestamp <= known[m][s].timestamp
    BY <1>1, <1>2, <2>2 DEF CellsKnown, r, s, m, n
  <2>4. known'[n][s].timestamp = c.timestamp
    BY <1>5
  <2>5. known'[m][s] = known[m][s]
    BY <1>1, <1>5 DEF Grown
  <2> QED
    BY <2>2, <2>3, <2>4, <2>5
<1>10. {s} \in SUBSET State /\ aware \in SUBSET Slot
  BY <1>3, <1>4, <1>5
<1>11. /\ joined' \subseteq Groups
       /\ changes' \in 0 .. MaxChanges
       /\ resends' \in 0 .. MaxResends
       /\ restarts' \in 0 .. MaxRestarts
  BY <1>2 DEF TypeOK
<1> QED
  BY <1>1, <1>5, <1>8, <1>9, <1>10, <1>11, ChangeKeeps

(* A cell that is not new: at most, the sender is noted as one that knows.   *)
LEMMA KnownCellOK ==
  ASSUME IInv, NEW l \in Leg, NEW c \in chan[<<l[2], l[1]>>], sess[l] = "up",
         chan' = [chan EXCEPT ![<<l[2], l[1]>>] = @ \ {c}],
         c.timestamp <= known[l[1]][c.state].timestamp,
         mask' \in [Node -> [State -> SUBSET Slot]],
         \A k \in Node, t \in State :
           \/ mask'[k][t] = mask[k][t]
           \/ /\ k = l[1] /\ t = c.state /\ known[k][t].timestamp = c.timestamp
              /\ mask'[k][t] = mask[k][t] \cup {slot[l]},
         UNCHANGED <<known, changed, queued, slot, sess, joined, changes, resends, restarts>>
  PROVE  IInv'
<1> DEFINE n == l[1]
           m == l[2]
           r == <<m, n>>
<1>1. n \in Node /\ m \in Node /\ l = <<n, m>> /\ r \in Leg /\ n # m /\ r[1] = m /\ r[2] = n
  BY LegFacts
<1>2. TypeOK /\ NoAssertFails /\ CellsKnown /\ UpdatesQueued /\ FiniteChannels
        /\ DOMAIN queued = Node
  BY DEF IInv, Base, NoAssertFails
<1>3. chan' \in [Leg -> SUBSET CellType] /\ \A k \in Leg : chan'[k] \subseteq chan[k]
        /\ \A d \in chan[k] \ chan'[k] : k = r /\ d = c
  BY <1>1, <1>2 DEF TypeOK
<1>4. Base'
  <2>1. TypeOK'
    BY <1>2, <1>3 DEF TypeOK
  <2>2. NoAssertFails'
    BY <1>2, <2>1 DEF NoAssertFails
  <2>3. FiniteChannels'
    BY <1>2, <1>3, FS_Subset DEF FiniteChannels
  <2> QED
    BY <1>2, <2>2, <2>3 DEF Base
<1>5. UpdatesQueued'
  BY <1>2 DEF UpdatesQueued
<1>6. CellsKnown'
  BY <1>2, <1>3 DEF CellsKnown
<1>7. NewsOnItsWay'
  <2> SUFFICES ASSUME NEW k \in Leg, NEW s \in State PROVE NewsFor(k, s)'
    BY DEF NewsOnItsWay, NewsFor
  <2> DEFINE x == k[1]
             y == k[2]
             p == known[x][s].timestamp
             q == known[y][s].timestamp
  <2>1. NewsFor(k, s)
    BY NewsForAll DEF IInv
  <2>2. x \in Node /\ y \in Node /\ x # y /\ k = <<x, y>>
    BY LegFacts
  <2>3. p \in Nat /\ q \in Nat
    BY <1>2, <2>2, StampsNat
  <2> SUFFICES ASSUME sess[k] = "up", sess[<<y, x>>] # "left", p > q
               PROVE  \/ Send_State_AllTo(y, ProtOf(s)) \in queued[x]
                      \/ /\ s \in changed[x]
                         /\ slot[k] \notin mask'[x][s]
                         /\ Send_State_UpdatesOf(ProtOf(s)) \in queued[x]
                      \/ \E d \in chan'[k] : d.state = s /\ d.timestamp >= p
    BY DEF NewsFor
  <2>4. \/ Send_State_AllTo(y, ProtOf(s)) \in queued[x]
        \/ /\ s \in changed[x]
           /\ slot[k] \notin mask[x][s]
           /\ Send_State_UpdatesOf(ProtOf(s)) \in queued[x]
        \/ \E d \in chan[k] : d.state = s /\ d.timestamp >= p
    BY <2>1 DEF NewsFor
  <2>5. ASSUME slot[k] \notin mask[x][s] PROVE slot[k] \notin mask'[x][s]
    <3> SUFFICES ASSUME slot[k] \in mask'[x][s] PROVE FALSE
      OBVIOUS
    <3>1. x = n /\ s = c.state /\ p = c.timestamp /\ slot[k] = slot[l]
      BY <2>2, <2>5
    <3>2. k = l
      BY <1>2, <3>1 DEF NoAssertFails
    <3>3. c.timestamp <= q
      BY <1>1, <1>2, <3>1, <3>2 DEF CellsKnown
    <3> QED
      BY <2>3, <3>1, <3>3
  <2>6. ASSUME NEW d \in chan[k], d.state = s, d.timestamp >= p PROVE d \in chan'[k]
    <3> SUFFICES ASSUME d \notin chan'[k] PROVE FALSE
      OBVIOUS
    <3>1. k = r /\ d = c
      BY <1>3
    <3>2. y = n /\ c.timestamp <= q /\ c.timestamp >= p /\ c.timestamp \in Nat
      BY <1>1, <1>2, <2>6, <3>1, StampsNat
    <3> HIDE DEF p, q
    <3> QED
      BY <2>3, <3>2
  <2> QED
    BY <2>4, <2>5, <2>6
<1> QED
  BY <1>4, <1>5, <1>6, <1>7 DEF IInv

LEMMA Process_state_packetOK ==
  ASSUME IInv, NEW l \in Leg, NEW c \in chan[<<l[2], l[1]>>],
         Process_state_packet(l[1], l[2], c)
  PROVE  IInv'
<1> DEFINE n == l[1]
           m == l[2]
           s == c.state
<1>1. n \in Node /\ m \in Node /\ l = <<n, m>> /\ <<m, n>> \in Leg
  BY LegFacts
<1>2. TypeOK /\ NoAssertFails
  BY DEF IInv, Base, NoAssertFails
<1>3. c.timestamp \in Nat /\ s \in State /\ known[n][s].timestamp \in Nat
  BY <1>1, <1>2, StampsNat
<1>4. /\ sess[l] = "up"
      /\ chan' = [chan EXCEPT ![<<m, n>>] = @ \ {c}]
      /\ UNCHANGED <<slot, sess, joined, changes, resends, restarts>>
  BY <1>1 DEF Process_state_packet, Connected
<1>5. CASE Newer(n, c) /\ Process_state_cell(n, m, c)
  BY <1>4, <1>5, NewCellOK
<1>6. CASE /\ known[n][s].timestamp = c.timestamp
           /\ mask' = [mask EXCEPT ![n][s] = @ \cup (IF s \in changed[n] THEN {slot[l]} ELSE {})]
           /\ UNCHANGED <<known, changed, queued>>
  <2> DEFINE M == mask[n][s] \cup (IF s \in changed[n] THEN {slot[l]} ELSE {})
  <2>1. mask' = [mask EXCEPT ![n][s] = M] /\ mask \in [Node -> [State -> SUBSET Slot]]
    BY <1>2, <1>6 DEF TypeOK
  <2>2. slot[l] \in Slot
    BY <1>2, <1>4 DEF NoAssertFails, TypeOK
  <2>3. M \in SUBSET Slot
    BY <1>1, <1>3, <2>1, <2>2
  <2>4. M = mask[n][s] \/ M = mask[n][s] \cup {slot[l]}
    OBVIOUS
  <2> HIDE DEF M, n, s
  <2>5. mask' \in [Node -> [State -> SUBSET Slot]]
    BY <1>1, <1>3, <2>1, <2>3
  <2>6. \A k \in Node, t \in State : ~ (k = n /\ t = s) => mask'[k][t] = mask[k][t]
    BY <1>1, <1>3, <2>1
  <2>7. mask'[n][s] = M
    BY <1>1, <1>3, <2>1
  <2>8. \A k \in Node, t \in State :
           \/ mask'[k][t] = mask[k][t]
           \/ /\ k = l[1] /\ t = c.state /\ known[k][t].timestamp = c.timestamp
              /\ mask'[k][t] = mask[k][t] \cup {slot[l]}
    BY <1>6, <2>4, <2>6, <2>7 DEF n, s
  <2>9. c.timestamp <= known[n][s].timestamp
    BY <1>3, <1>6
  <2> QED
    BY <1>4, <1>6, <2>5, <2>8, <2>9, KnownCellOK DEF n, s
<1>7. CASE /\ known[n][s].timestamp > c.timestamp
           /\ UNCHANGED <<known, changed, mask, queued>>
  <2>1. mask' \in [Node -> [State -> SUBSET Slot]]
    BY <1>2, <1>7 DEF TypeOK
  <2>2. c.timestamp <= known[n][s].timestamp
    BY <1>3, <1>7
  <2> QED
    BY <1>4, <1>7, <2>1, <2>2, KnownCellOK
<1> QED
  BY <1>1, <1>5, <1>6, <1>7 DEF Process_state_packet

-----------------------------------------------------------------------------
(* Sending. *)

LEMMA CellTyped ==
  ASSUME TypeOK, NEW n \in Node, NEW s \in State
  PROVE  /\ Cell(n, s) \in CellType
         /\ Cell(n, s).state = s
         /\ Cell(n, s).timestamp = known[n][s].timestamp
         /\ Cell(n, s).value = known[n][s].value
  BY DEF Cell, CellType, TypeOK, Copy

LEMMA SendEffect ==
  ASSUME TypeOK, FiniteChannels, NEW n \in Node, NEW sent,
         \A m \in DOMAIN sent : sent[m] \subseteq State, SendTo(n, sent)
  PROVE  /\ chan' \in [Leg -> SUBSET CellType]
         /\ FiniteChannels'
         /\ \A l \in Leg : chan[l] \subseteq chan'[l]
         /\ \A l \in Leg : \A c \in chan'[l] \ chan[l] :
              l[1] = n /\ l[2] \in DOMAIN sent /\ \E s \in State : c = Cell(n, s)
         /\ \A l \in Leg :
              l[1] = n /\ l[2] \in DOMAIN sent /\ sess[<<l[2], n>>] # "left"
                => \A s \in sent[l[2]] : Cell(n, s) \in chan'[l]
<1> DEFINE New(l) == {Cell(n, s) : s \in sent[l[2]]}
           Sends(l) == l[1] = n /\ l[2] \in DOMAIN sent /\ sess[<<l[2], n>>] # "left"
<1>1. chan' = [l \in Leg |-> IF Sends(l) THEN chan[l] \cup New(l) ELSE chan[l]]
  BY DEF SendTo
<1>2. ASSUME NEW l \in Leg, Sends(l)
      PROVE  /\ New(l) \subseteq CellType
             /\ IsFiniteSet(New(l))
             /\ \A c \in New(l) : \E s \in State : c = Cell(n, s)
  <2> DEFINE D == sent[l[2]]
             f == [s \in D |-> Cell(n, s)]
  <2>1. D \in SUBSET State
    BY <1>2
  <2>2. IsFiniteSet(D)
    BY <2>1, ConstantsFinite, FS_Subset
  <2>3. \A s \in D : Cell(n, s) \in CellType
    BY <2>1, CellTyped
  <2>4. {f[s] : s \in D} = New(l)
    OBVIOUS
  <2>5. IsFiniteSet({f[s] : s \in D})
    <3>1. DOMAIN f = D /\ f = [s \in D |-> f[s]]
      OBVIOUS
    <3> HIDE DEF f, D
    <3> QED
      BY <2>2, <3>1, ImageFinite
  <2> QED
    BY <2>1, <2>3, <2>4, <2>5
<1>3. \A l \in Leg : chan[l] \subseteq CellType /\ IsFiniteSet(chan[l])
  BY DEF TypeOK, FiniteChannels
<1>4. ASSUME NEW l \in Leg
      PROVE  chan'[l] \subseteq CellType /\ IsFiniteSet(chan'[l])
  <2> HIDE DEF New, Sends
  <2>1. CASE Sends(l)
    <3>1. chan'[l] = chan[l] \cup New(l)
      BY <1>1, <2>1
    <3>2. New(l) \subseteq CellType /\ IsFiniteSet(New(l))
      BY <1>2, <2>1
    <3>3. chan[l] \subseteq CellType /\ IsFiniteSet(chan[l])
      BY <1>3
    <3>4. IsFiniteSet(chan[l] \cup New(l))
      BY <3>2, <3>3, FS_Union
    <3> QED
      BY <3>1, <3>2, <3>3, <3>4
  <2>2. CASE ~ Sends(l)
    BY <1>1, <1>3, <2>2
  <2> QED
    BY <2>1, <2>2
<1>5. chan' \in [Leg -> SUBSET CellType]
  <2> HIDE DEF New, Sends
  <2> QED
    BY <1>1, <1>4
<1>6. FiniteChannels'
  BY <1>4 DEF FiniteChannels
<1>7. \A l \in Leg : chan[l] \subseteq chan'[l]
  <2> HIDE DEF New, Sends
  <2> QED
    BY <1>1
<1>8. ASSUME NEW l \in Leg, NEW c \in chan'[l] \ chan[l]
      PROVE  l[1] = n /\ l[2] \in DOMAIN sent /\ \E s \in State : c = Cell(n, s)
  <2> HIDE DEF New
  <2>1. Sends(l) /\ c \in New(l)
    BY <1>1, <1>8
  <2> QED
    BY <1>2, <2>1
<1>9. ASSUME NEW l \in Leg, Sends(l), NEW s \in sent[l[2]]
      PROVE  Cell(n, s) \in chan'[l]
  <2>1. Cell(n, s) \in New(l)
    OBVIOUS
  <2> HIDE DEF New, Sends
  <2> QED
    BY <1>1, <1>9, <2>1
<1> QED
  BY <1>5, <1>6, <1>7, <1>8, <1>9

(* The cells that n sends to connected neighbors are known to n. *)
LEMMA SendKeepsCells ==
  ASSUME IInv, NEW n \in Node, NEW sent, SendTo(n, sent),
         \A m \in DOMAIN sent : sent[m] \subseteq State /\ m \in Neighbors(n) /\ sess[<<n, m>>] = "up",
         UNCHANGED <<known, sess>>
  PROVE  CellsKnown'
<1> SUFFICES ASSUME NEW l \in Leg
             PROVE  /\ sess[l] # "left" =>
                        \A c \in chan'[l] : c.timestamp <= known[l[1]][c.state].timestamp
                    /\ sess[l] = "no" => chan'[l] = {}
  BY DEF CellsKnown
<1>1. TypeOK /\ FiniteChannels /\ CellsKnown
  BY DEF IInv, Base, NoAssertFails
<1>2. \A c \in chan'[l] \ chan[l] :
        l[1] = n /\ l[2] \in DOMAIN sent /\ \E s \in State : c = Cell(n, s)
  <2>1. \A m \in DOMAIN sent : sent[m] \subseteq State
    OBVIOUS
  <2> QED
    BY <1>1, <2>1, SendEffect
<1>3. l = <<l[1], l[2]>>
  BY LegFacts
<1>4. ASSUME NEW c \in chan'[l], sess[l] # "left"
      PROVE  c.timestamp <= known[l[1]][c.state].timestamp
  <2>1. CASE c \in chan[l]
    BY <1>1, <1>4, <2>1 DEF CellsKnown
  <2>2. CASE c \notin chan[l]
    <3>1. PICK s \in State : c = Cell(n, s)
      BY <1>2, <2>2
    <3>2. l[1] = n
      BY <1>2, <2>2
    <3>3. c.timestamp = known[n][c.state].timestamp /\ c.timestamp \in Nat
      BY <1>1, <3>1, CellTyped, StampsNat
    <3> QED
      BY <3>2, <3>3
  <2> QED
    BY <2>1, <2>2
<1>5. ASSUME sess[l] = "no" PROVE chan'[l] = {}
  BY <1>1, <1>2, <1>3, <1>5 DEF CellsKnown
<1> QED
  BY <1>4, <1>5

LEMMA Net_Send_State_AllOK ==
  ASSUME IInv, NEW l \in Leg, NEW prot \in Protocol, Net_Send_State_All(l[1], l[2], prot)
  PROVE  IInv'
<1> DEFINE n == l[1]
           m == l[2]
           all == {s \in StatesOf(prot) : known[n][s] # Unknown}
           sent == [q \in {m} |-> all]
           this == Send_State_AllTo(m, prot)
<1>1. n \in Node /\ m \in Node /\ l = <<n, m>> /\ <<m, n>> \in Leg /\ m \in Neighbors(n)
  BY LegFacts
<1>2. TypeOK /\ NoAssertFails /\ FiniteChannels /\ DOMAIN queued = Node /\ UpdatesQueued
  BY DEF IInv, Base, NoAssertFails
<1>3. /\ this \in queued[n]
      /\ queued' = [queued EXCEPT ![n] = @ \ {this}]
      /\ SendTo(n, sent)
      /\ UNCHANGED <<known, changed, mask, slot, sess, joined, changes, resends, restarts>>
  BY DEF Net_Send_State_All
<1>4. sess[l] = "up"
  BY <1>2, <1>3 DEF NoAssertFails
<1>5. \A q \in DOMAIN sent :
        sent[q] \subseteq State /\ q \in Neighbors(n) /\ sess[<<n, q>>] = "up"
  BY <1>1, <1>4, ProtocolStates
<1>6. DOMAIN sent = {m} /\ sent[m] = all
  OBVIOUS
<1>7. /\ chan' \in [Leg -> SUBSET CellType]
      /\ FiniteChannels'
      /\ \A k \in Leg : chan[k] \subseteq chan'[k]
      /\ sess[<<m, n>>] # "left" => \A s \in all : Cell(n, s) \in chan'[l]
  <2>1. \A q \in DOMAIN sent : sent[q] \subseteq State
    BY <1>5
  <2> HIDE DEF sent, all, n
  <2>2. /\ chan' \in [Leg -> SUBSET CellType]
        /\ FiniteChannels'
        /\ \A k \in Leg : chan[k] \subseteq chan'[k]
        /\ \A k \in Leg : k[1] = n /\ k[2] \in DOMAIN sent /\ sess[<<k[2], n>>] # "left"
             => \A s \in sent[k[2]] : Cell(n, s) \in chan'[k]
    BY <1>1, <1>2, <1>3, <2>1, SendEffect
  <2> QED
    BY <1>6, <2>2 DEF n
<1>8. CellsKnown'
  <2> HIDE DEF sent
  <2> QED
    BY <1>1, <1>3, <1>5, SendKeepsCells
<1>9. queued'[n] = queued[n] \ {this} /\ DOMAIN queued' = Node
        /\ \A k \in Node \ {n} : queued'[k] = queued[k]
  BY <1>1, <1>2, <1>3
<1>10. \A k \in Node : queued'[k] \subseteq queued[k]
  BY <1>9
<1>11. Base'
  <2>1. TypeOK'
    BY <1>2, <1>3, <1>7, <1>10 DEF TypeOK
  <2>2. NoAssertFails'
    BY <1>2, <1>3, <1>10, <2>1, LegFacts DEF NoAssertFails
  <2> QED
    BY <1>7, <1>9, <2>2 DEF Base
<1>12. UpdatesQueued'
  <2> SUFFICES ASSUME NEW k \in Node, NEW p \in Protocol, changed[k] \cap StatesOf(p) # {}
               PROVE  Send_State_UpdatesOf(p) \in queued'[k]
    BY <1>3 DEF UpdatesQueued
  <2>1. Send_State_UpdatesOf(p) \in queued[k]
    BY <1>2 DEF UpdatesQueued
  <2>2. Send_State_UpdatesOf(p) # this
    BY QueueDistinct
  <2> QED
    BY <1>9, <2>1, <2>2
<1>13. NewsOnItsWay'
  <2> SUFFICES ASSUME NEW k \in Leg, NEW s \in State PROVE NewsFor(k, s)'
    BY DEF NewsOnItsWay, NewsFor
  <2> DEFINE x == k[1]
             y == k[2]
             p == known[x][s].timestamp
             q == known[y][s].timestamp
  <2>1. NewsFor(k, s)
    BY NewsForAll DEF IInv
  <2>2. x \in Node /\ y \in Node /\ x # y /\ k = <<x, y>>
    BY LegFacts
  <2>3. p \in Nat /\ q \in Nat
    BY <1>2, <2>2, StampsNat
  <2> SUFFICES ASSUME sess[k] = "up", sess[<<y, x>>] # "left", p > q
               PROVE  \/ Send_State_AllTo(y, ProtOf(s)) \in queued'[x]
                      \/ /\ s \in changed[x]
                         /\ slot[k] \notin mask[x][s]
                         /\ Send_State_UpdatesOf(ProtOf(s)) \in queued'[x]
                      \/ \E d \in chan'[k] : d.state = s /\ d.timestamp >= p
    BY <1>3 DEF NewsFor
  <2>4. \/ Send_State_AllTo(y, ProtOf(s)) \in queued[x]
        \/ /\ s \in changed[x]
           /\ slot[k] \notin mask[x][s]
           /\ Send_State_UpdatesOf(ProtOf(s)) \in queued[x]
        \/ \E d \in chan[k] : d.state = s /\ d.timestamp >= p
    BY <2>1 DEF NewsFor
  <2>5. ASSUME Send_State_UpdatesOf(ProtOf(s)) \in queued[x]
        PROVE  Send_State_UpdatesOf(ProtOf(s)) \in queued'[x]
    BY <1>9, <2>2, <2>5, QueueDistinct
  <2>6. CASE Send_State_AllTo(y, ProtOf(s)) \in queued[x]
    <3>1. CASE x = n /\ Send_State_AllTo(y, ProtOf(s)) = this
      <4>1. y = m /\ ProtOf(s) = prot
        BY <3>1, QueueDistinct
      <4>2. k = l /\ s \in StatesOf(prot)
        BY <1>1, <2>2, <3>1, <4>1, StateFacts
      <4>3. s \in all
        <5>1. known[n][s].timestamp # 0
          BY <2>3, <4>2
        <5> QED
          BY <4>2, <5>1 DEF Unknown
      <4>4. Cell(n, s) \in chan'[l]
        BY <1>7, <4>2, <4>3
      <4>5. Cell(n, s).state = s /\ Cell(n, s).timestamp = p
        BY <1>1, <1>2, <4>2, CellTyped
      <4> QED
        BY <2>3, <4>2, <4>4, <4>5
    <3>2. CASE ~ (x = n /\ Send_State_AllTo(y, ProtOf(s)) = this)
      <4> HIDE DEF this
      <4> QED
        BY <1>9, <2>2, <2>6, <3>2
    <3> QED
      BY <3>1, <3>2
  <2>7. CASE \E d \in chan[k] : d.state = s /\ d.timestamp >= p
    BY <1>7, <2>7
  <2> QED
    BY <2>4, <2>5, <2>6, <2>7
<1> QED
  BY <1>8, <1>11, <1>12, <1>13 DEF IInv

(* Send_State_Updates and Set_Routes: `functions' is the queue without the   *)
(* function that is running.                                                 *)
LEMMA SendUpdatesOK ==
  ASSUME IInv, NEW n \in Node, NEW prot \in {"Edge_Prot_Def", "Groups_Prot_Def"},
         NEW this, this \in {Send_State_UpdatesOf(prot), <<"Set_Routes">>},
         SendUpdates(n, prot, queued[n] \ {this})
  PROVE  IInv'
<1> DEFINE nbrs == {m \in Neighbors(n) : Connected(n, m)}
           F == queued[n] \ {this}
           C == changed[n] \cap StatesOf(prot)
           again == Send_State_UpdatesOf(prot)
<1>1. TypeOK /\ NoAssertFails /\ FiniteChannels /\ DOMAIN queued = Node /\ UpdatesQueued
  BY DEF IInv, Base, NoAssertFails
<1>2. PICK sent \in [nbrs -> SUBSET C] :
        /\ \A m \in nbrs : sent[m] \in Portions(n, m, prot)
        /\ SendTo(n, sent)
        /\ IF \A m \in nbrs : sent[m] = Needed(n, m, prot)
           THEN /\ changed' = [changed EXCEPT ![n] = @ \ StatesOf(prot)]
                /\ mask' = [mask EXCEPT ![n] =
                              [s \in State |-> IF s \in StatesOf(prot) THEN {} ELSE @[s]]]
                /\ queued' = [queued EXCEPT ![n] = F]
           ELSE /\ mask' = [mask EXCEPT ![n] =
                              [s \in State |->
                                 @[s] \cup {slot[<<n, m>>] : m \in {q \in nbrs : s \in sent[q]}}]]
                /\ queued' = [queued EXCEPT ![n] = F \cup {again}]
                /\ UNCHANGED changed
        /\ UNCHANGED <<known, slot, sess, joined, changes, resends, restarts>>
  BY DEF SendUpdates
<1> DEFINE done == \A m \in nbrs : sent[m] = Needed(n, m, prot)
<1>3. \A m \in nbrs : m \in Neighbors(n) /\ sess[<<n, m>>] = "up" /\ <<n, m>> \in Leg
                        /\ sent[m] \subseteq C /\ C \subseteq State
  BY <1>2, NeighborFacts, ProtocolStates DEF Connected
<1>4. DOMAIN sent = nbrs
  BY <1>2
<1>5. /\ chan' \in [Leg -> SUBSET CellType]
      /\ FiniteChannels'
      /\ \A k \in Leg : chan[k] \subseteq chan'[k]
      /\ \A k \in Leg : k[1] = n /\ k[2] \in nbrs /\ sess[<<k[2], n>>] # "left"
           => \A s \in sent[k[2]] : Cell(n, s) \in chan'[k]
  <2>1. \A q \in DOMAIN sent : sent[q] \subseteq State
    BY <1>3, <1>4
  <2> HIDE DEF nbrs
  <2> QED
    BY <1>1, <1>2, <1>4, <2>1, SendEffect
<1>6. CellsKnown'
  <2>1. \A m \in DOMAIN sent :
          sent[m] \subseteq State /\ m \in Neighbors(n) /\ sess[<<n, m>>] = "up"
    BY <1>3, <1>4
  <2> QED
    BY <1>2, <2>1, SendKeepsCells
<1>7. UNCHANGED <<known, slot, sess, joined, changes, resends, restarts>>
  BY <1>2
<1>8. /\ DOMAIN queued' = Node
      /\ \A k \in Node \ {n} : queued'[k] = queued[k]
      /\ queued'[n] = IF done THEN F ELSE F \cup {again}
  BY <1>1, <1>2
<1>9. /\ changed' \in [Node -> SUBSET State]
      /\ \A k \in Node \ {n} : changed'[k] = changed[k]
      /\ changed'[n] = IF done THEN changed[n] \ StatesOf(prot) ELSE changed[n]
  <2>1. /\ done => changed' = [changed EXCEPT ![n] = @ \ StatesOf(prot)]
        /\ ~ done => changed' = changed
    BY <1>2
  <2> HIDE DEF done
  <2> QED
    BY <1>1, <2>1, ZenonT(60) DEF TypeOK
<1> DEFINE Told(s) == {slot[<<n, m>>] : m \in {q \in nbrs : s \in sent[q]}}
           M == [s \in State |-> IF done THEN IF s \in StatesOf(prot) THEN {} ELSE mask[n][s]
                                 ELSE mask[n][s] \cup Told(s)]
<1>10. mask' = [mask EXCEPT ![n] = M]
  BY <1>2
<1>11. M \in [State -> SUBSET Slot]
  <2>1. \A s \in State : mask[n][s] \subseteq Slot
    BY <1>1 DEF TypeOK
  <2>2. \A m \in nbrs : slot[<<n, m>>] \in Slot
    BY <1>1, <1>3 DEF NoAssertFails, TypeOK
  <2>3. \A s \in State : Told(s) \subseteq Slot
    BY <2>2
  <2> HIDE DEF Told, done
  <2> QED
    BY <2>1, <2>3
<1>12. \A s \in State : M[s] = IF done THEN IF s \in StatesOf(prot) THEN {} ELSE mask[n][s]
                               ELSE mask[n][s] \cup Told(s)
  OBVIOUS
<1> HIDE DEF M
<1>13. /\ mask' \in [Node -> [State -> SUBSET Slot]]
       /\ mask'[n] = M
       /\ \A k \in Node \ {n} : mask'[k] = mask[k]
  BY <1>1, <1>10, <1>11 DEF TypeOK
<1>14. ~ done => prot \in Protocol
  <2> SUFFICES ASSUME prot \notin Protocol PROVE done
    OBVIOUS
  <2>1. StatesOf(prot) = {}
    BY DEF Protocol
  <2> QED
    BY <1>2, <2>1 DEF Needed
<1>15. \A k \in Node : queued'[k] \subseteq queued[k] \cup {again}
  <2> HIDE DEF done
  <2> QED
    BY <1>8
<1>16. Base'
  <2>1. \A k \in Node : queued'[k] \subseteq Function(k)
    <3>1. ~ done => again \in Function(n)
      BY <1>14 DEF Function
    <3> HIDE DEF done
    <3> QED
      BY <1>1, <1>8, <3>1 DEF TypeOK
  <2>2. TypeOK'
    BY <1>1, <1>5, <1>7, <1>9, <1>13, <2>1 DEF TypeOK
  <2>3. ASSUME NEW k \in Leg, NEW p \in Protocol,
               Send_State_AllTo(k[2], p) \in queued'[k[1]]
        PROVE  sess[k] = "up"
    <3>1. Send_State_AllTo(k[2], p) # again
      BY QueueDistinct
    <3>2. Send_State_AllTo(k[2], p) \in queued[k[1]]
      BY <1>15, <2>3, <3>1, LegFacts
    <3> QED
      BY <1>1, <3>2 DEF NoAssertFails
  <2>4. NoAssertFails'
    BY <1>1, <1>7, <2>2, <2>3 DEF NoAssertFails
  <2> QED
    BY <1>5, <1>8, <2>4 DEF Base
<1>17. ASSUME NEW p \in Protocol, p # prot, Send_State_UpdatesOf(p) \in queued[n]
       PROVE  Send_State_UpdatesOf(p) \in queued'[n]
  <2>1. Send_State_UpdatesOf(p) # this
    BY <1>17, QueueDistinct
  <2> HIDE DEF done
  <2> QED
    BY <1>8, <1>17, <2>1
<1>18. \A s \in State : s \notin StatesOf(prot) \/ ProtOf(s) = prot
  <2> SUFFICES ASSUME NEW s \in State, s \in StatesOf(prot) PROVE ProtOf(s) = prot
    OBVIOUS
  <2>1. prot \in Protocol
    BY DEF Protocol
  <2> QED
    BY <2>1, StateFacts
<1>19. UpdatesQueued'
  <2> SUFFICES ASSUME NEW k \in Node, NEW p \in Protocol, changed'[k] \cap StatesOf(p) # {}
               PROVE  Send_State_UpdatesOf(p) \in queued'[k]
    BY DEF UpdatesQueued
  <2> HIDE DEF done
  <2>1. CASE k # n
    BY <1>1, <1>8, <1>9, <2>1 DEF UpdatesQueued
  <2>2. CASE k = n
    <3>1. changed[n] \cap StatesOf(p) # {}
      BY <1>9, <2>2
    <3>2. Send_State_UpdatesOf(p) \in queued[n]
      BY <1>1, <3>1 DEF UpdatesQueued
    <3>3. CASE p = prot
      <4>1. ~ done
        BY <1>9, <2>2, <3>3
      <4> QED
        BY <1>8, <2>2, <3>3, <4>1
    <3>4. CASE p # prot
      BY <1>17, <2>2, <3>2, <3>4
    <3> QED
      BY <3>3, <3>4
  <2> QED
    BY <2>1, <2>2
<1>20. NewsOnItsWay'
  <2> SUFFICES ASSUME NEW k \in Leg, NEW s \in State PROVE NewsFor(k, s)'
    BY DEF NewsOnItsWay, NewsFor
  <2> DEFINE x == k[1]
             y == k[2]
             p == known[x][s].timestamp
             q == known[y][s].timestamp
  <2>1. NewsFor(k, s)
    BY NewsForAll DEF IInv
  <2>2. x \in Node /\ y \in Node /\ x # y /\ k = <<x, y>> /\ y \in Neighbors(x)
    BY LegFacts
  <2>3. p \in Nat /\ q \in Nat
    BY <1>1, <2>2, StampsNat
  <2> SUFFICES ASSUME sess[k] = "up", sess[<<y, x>>] # "left", p > q
               PROVE  \/ Send_State_AllTo(y, ProtOf(s)) \in queued'[x]
                      \/ /\ s \in changed'[x]
                         /\ slot[k] \notin mask'[x][s]
                         /\ Send_State_UpdatesOf(ProtOf(s)) \in queued'[x]
                      \/ \E d \in chan'[k] : d.state = s /\ d.timestamp >= p
    BY <1>7 DEF NewsFor
  <2>4. \/ Send_State_AllTo(y, ProtOf(s)) \in queued[x]
        \/ /\ s \in changed[x]
           /\ slot[k] \notin mask[x][s]
           /\ Send_State_UpdatesOf(ProtOf(s)) \in queued[x]
        \/ \E d \in chan[k] : d.state = s /\ d.timestamp >= p
    BY <2>1 DEF NewsFor
  <2>5. CASE Send_State_AllTo(y, ProtOf(s)) \in queued[x]
    <3>1. Send_State_AllTo(y, ProtOf(s)) # this
      BY QueueDistinct
    <3> HIDE DEF done
    <3> QED
      BY <1>8, <2>2, <2>5, <3>1
  <2>6. CASE \E d \in chan[k] : d.state = s /\ d.timestamp >= p
    BY <1>5, <2>6
  <2>7. CASE /\ s \in changed[x]
             /\ slot[k] \notin mask[x][s]
             /\ Send_State_UpdatesOf(ProtOf(s)) \in queued[x]
    <3>1. CASE x # n
      <4> HIDE DEF done
      <4> QED
        BY <1>8, <1>9, <1>13, <2>2, <2>7, <3>1
    <3>2. CASE x = n /\ s \notin StatesOf(prot)
      <4>1. Told(s) = {}
        BY <1>3, <3>2
      <4>2. mask'[n][s] = mask[n][s]
        <5>1. mask'[n][s] = M[s]
          BY <1>13
        <5>2. mask[n][s] \cup Told(s) = mask[n][s]
          BY <4>1
        <5> HIDE DEF done, Told
        <5>3. M[s] = IF done THEN mask[n][s] ELSE mask[n][s] \cup Told(s)
          BY <1>12, <3>2
        <5> QED
          BY <5>1, <5>2, <5>3
      <4>3. s \in changed'[n]
        <5> HIDE DEF done
        <5> QED
          BY <1>9, <2>7, <3>2
      <4>4. ProtOf(s) # prot /\ ProtOf(s) \in Protocol
        BY <3>2, StateFacts
      <4> QED
        BY <1>17, <2>7, <3>2, <4>2, <4>3, <4>4
    <3>3. CASE x = n /\ s \in StatesOf(prot)
      <4>1. y \in nbrs /\ s \in Needed(n, y, prot)
        BY <2>2, <2>7, <3>3 DEF Needed, Connected
      <4>2. CASE s \in sent[y]
        <5>1. Cell(n, s) \in chan'[k]
          BY <1>5, <3>3, <4>1, <4>2
        <5>2. Cell(n, s).state = s /\ Cell(n, s).timestamp = p
          BY <1>1, <3>3, CellTyped
        <5> QED
          BY <2>3, <5>1, <5>2
      <4>3. CASE s \notin sent[y]
        <5>1. ~ done
          BY <4>1, <4>3
        <5>2. slot[k] \notin Told(s)
          <6> SUFFICES ASSUME NEW m \in nbrs, s \in sent[m], slot[<<n, m>>] = slot[k]
                       PROVE  FALSE
            OBVIOUS
          <6>1. <<n, m>> \in Leg /\ <<n, m>> # k
            BY <1>3, <2>2, <4>3
          <6> QED
            BY <1>1, <3>3, <6>1 DEF NoAssertFails
        <5> HIDE DEF done, Told
        <5>3. slot[k] \notin mask'[n][s] /\ s \in changed'[n]
          BY <1>9, <1>12, <1>13, <2>7, <3>3, <5>1, <5>2
        <5>4. ProtOf(s) = prot /\ again \in queued'[n]
          BY <1>8, <1>18, <3>3, <5>1
        <5> QED
          BY <3>3, <5>3, <5>4
      <4> QED
        BY <4>2, <4>3
    <3> QED
      BY <3>1, <3>2, <3>3
  <2> QED
    BY <2>4, <2>5, <2>6, <2>7
<1> QED
  BY <1>6, <1>16, <1>19, <1>20 DEF IInv

-----------------------------------------------------------------------------
(* A crash: n leaves all its sessions, so nobody waits for news of it.       *)

LEMMA StartedTyped ==
  ASSUME NEW n, NEW stamp \in [State -> Nat]
  PROVE  /\ Started(n, stamp) \in [State -> Copy]
         /\ \A s \in State :
              Started(n, stamp)[s] = IF s \in Configured /\ Source(s) = n
                                     THEN [timestamp |-> stamp[s], value |-> FALSE] ELSE Unknown
<1>1. \A s \in State : [timestamp |-> stamp[s], value |-> FALSE] \in Copy /\ Unknown \in Copy
  BY DEF Copy, Unknown
<1> QED
  BY <1>1 DEF Started

LEMMA RestartOK ==
  ASSUME IInv, NEW n \in Node, Restart(n)
  PROVE  IInv'
<1> DEFINE T == Neighbors(n)
           stamps == [s \in State |-> Now(s)]
           fresh == Started(n, stamps)
<1>1. TypeOK /\ NoAssertFails /\ FiniteChannels /\ DOMAIN queued = Node
        /\ UpdatesQueued /\ CellsKnown
  BY DEF IInv, Base, NoAssertFails
<1>2. T \in SUBSET Node /\ LeaveSessions(n, T)
  BY DEF Neighbors, Restart
<1>3. \A l \in Leg : l[1] \in Node /\ l[2] \in Node
                       /\ (l[1] = n => l[2] \in T) /\ (l[2] = n => l[1] \in T)
  BY LegFacts
<1>4. /\ sess' \in [Leg -> Progress]
      /\ chan' \in [Leg -> SUBSET CellType]
      /\ \A l \in Leg : chan'[l] \subseteq chan[l]
      /\ \A l \in Leg : l[1] = n /\ l[2] \in T => sess'[l] # "up"
      /\ \A l \in Leg : ~ (l[1] = n /\ l[2] \in T) => (sess'[l] = "up" <=> sess[l] = "up")
      /\ \A l \in Leg : l[1] # n /\ l[2] # n => sess'[l] = sess[l] /\ chan'[l] = chan[l]
      /\ \A l \in Leg : l[2] = n /\ l[1] \in T => chan'[l] = {}
      /\ \A l \in Leg : l[2] = n /\ l[1] \in T /\ sess[l] = "up" => sess'[<<n, l[1]>>] = "left"
      /\ \A l \in Leg : sess'[l] # "left" => sess[l] # "left" \/ chan'[l] = {}
      /\ \A l \in Leg : sess'[l] = "no" => chan'[l] = {}
  <2> HIDE DEF T
  <2> QED
    BY <1>1, <1>2, LeaveEffect
<1> HIDE DEF T
<1>5. fresh \in [State -> Copy]
  <2>1. stamps \in [State -> Nat]
    BY <1>1, NowIsLater
  <2> HIDE DEF stamps
  <2> QED
    BY <2>1, StartedTyped
<1>6. known' = [known EXCEPT ![n] = fresh]
  BY DEF Restart
<1> HIDE DEF fresh
<1>7. known' \in [Node -> [State -> Copy]] /\ \A k \in Node \ {n} : known'[k] = known[k]
  BY <1>1, <1>5, <1>6 DEF TypeOK
<1>8. changed' \in [Node -> SUBSET State] /\ changed'[n] = {}
        /\ \A k \in Node \ {n} : changed'[k] = changed[k]
  BY <1>1 DEF Restart, TypeOK
<1>9. mask' \in [Node -> [State -> SUBSET Slot]] /\ \A k \in Node \ {n} : mask'[k] = mask[k]
  BY <1>1 DEF Restart, TypeOK
<1>10. DOMAIN queued' = Node /\ queued'[n] = {} /\ \A k \in Node \ {n} : queued'[k] = queued[k]
  BY <1>1 DEF Restart
<1>11. slot' = [l \in Leg |-> IF l[1] = n THEN None ELSE slot[l]]
  BY DEF Restart
<1>12. slot' \in [Leg -> Slot \cup {None}]
  BY <1>1, <1>11 DEF TypeOK
<1>13. /\ joined' \subseteq Groups
       /\ changes' \in 0 .. MaxChanges
       /\ resends' \in 0 .. MaxResends
       /\ restarts' \in 0 .. MaxRestarts
  <2>1. MaxRestarts \in Nat
    BY FloodBoundAssumption
  <2> QED
    BY <1>1, <2>1 DEF Restart, TypeOK
<1>14. Base'
  <2>1. \A k \in Node : queued'[k] \subseteq Function(k)
    BY <1>1, <1>10 DEF TypeOK
  <2>2. TypeOK'
    BY <1>4, <1>7, <1>8, <1>9, <1>12, <1>13, <2>1 DEF TypeOK
  <2>3. \A l \in Leg, prot \in Protocol :
          Send_State_AllTo(l[2], prot) \in queued'[l[1]] => sess'[l] = "up"
    BY <1>1, <1>3, <1>4, <1>10 DEF NoAssertFails
  <2>4. \A l \in Leg : (sess'[l] = "up") <=> (slot'[l] # None)
    BY <1>1, <1>3, <1>4, <1>11 DEF NoAssertFails
  <2>5. \A l, k \in Leg : l[1] = k[1] /\ l # k /\ slot'[l] # None => slot'[l] # slot'[k]
    BY <1>1, <1>11 DEF NoAssertFails
  <2>6. NoAssertFails'
    BY <2>2, <2>3, <2>4, <2>5 DEF NoAssertFails
  <2>7. FiniteChannels'
    <3> SUFFICES ASSUME NEW l \in Leg PROVE IsFiniteSet(chan'[l])
      BY DEF FiniteChannels
    <3>1. chan'[l] \in SUBSET chan[l]
      BY <1>4
    <3> QED
      BY <1>1, <3>1, FS_Subset DEF FiniteChannels
  <2> QED
    BY <1>10, <2>6, <2>7 DEF Base
<1>15. UpdatesQueued'
  BY <1>1, <1>8, <1>10 DEF UpdatesQueued
<1>16. CellsKnown'
  <2> SUFFICES ASSUME NEW l \in Leg, sess'[l] # "left", NEW c \in chan'[l]
               PROVE  c.timestamp <= known'[l[1]][c.state].timestamp
    BY <1>4 DEF CellsKnown
  <2>1. sess'[l] = "up"
    BY <1>4 DEF Progress
  <2>2. l[1] # n
    BY <1>3, <1>4, <2>1
  <2>3. sess[l] # "left" /\ c \in chan[l]
    BY <1>4
  <2> QED
    BY <1>1, <1>3, <1>7, <2>2, <2>3 DEF CellsKnown
<1>17. NewsOnItsWay'
  <2> SUFFICES ASSUME NEW l \in Leg, NEW s \in State PROVE NewsFor(l, s)'
    BY DEF NewsOnItsWay, NewsFor
  <2>1. NewsFor(l, s)
    BY NewsForAll DEF IInv
  <2>2. CASE l[1] = n
    BY <1>3, <1>4, <2>2 DEF NewsFor
  <2>3. CASE l[2] = n
    BY <1>3, <1>4, <2>3, LegFacts DEF NewsFor
  <2>4. CASE l[1] # n /\ l[2] # n
    <3> DEFINE r == <<l[2], l[1]>>
    <3>1. r \in Leg /\ r[1] # n /\ r[2] # n
      BY <2>4, LegFacts
    <3>2. sess'[l] = sess[l] /\ chan'[l] = chan[l] /\ slot'[l] = slot[l]
      BY <1>4, <1>11, <2>4
    <3>3. sess'[r] = sess[r]
      <4> HIDE DEF r
      <4> QED
        BY <1>4, <3>1
    <3>4. /\ known'[l[1]] = known[l[1]] /\ known'[l[2]] = known[l[2]]
          /\ changed'[l[1]] = changed[l[1]] /\ mask'[l[1]] = mask[l[1]]
          /\ queued'[l[1]] = queued[l[1]]
      BY <1>3, <1>7, <1>8, <1>9, <1>10, <2>4
    <3> QED
      BY <2>1, <3>2, <3>3, <3>4 DEF NewsFor
  <2> QED
    BY <2>2, <2>3, <2>4
<1> QED
  BY <1>14, <1>15, <1>16, <1>17 DEF IInv

-----------------------------------------------------------------------------
(* The invariant holds. *)

LEMMA InitOK ==
  ASSUME Init
  PROVE  IInv
<1>1. UpdatesQueued
  BY DEF Init, UpdatesQueued
<1>2. CellsKnown
  BY DEF Init, CellsKnown
<1>3. NewsOnItsWay
  BY DEF Init, NewsOnItsWay
<1> QED
  BY <1>1, <1>2, <1>3, BaseInit DEF IInv

LEMMA NextOK ==
  ASSUME IInv, [Next]_vars
  PROVE  IInv'
<1>1. CASE UNCHANGED vars
  <2>1. /\ Base' <=> Base
        /\ UpdatesQueued' <=> UpdatesQueued
        /\ CellsKnown' <=> CellsKnown
        /\ NewsOnItsWay' <=> NewsOnItsWay
    BY <1>1 DEF vars, Base, NoAssertFails, TypeOK, FiniteChannels, UpdatesQueued, CellsKnown,
                NewsOnItsWay
  <2> QED
    BY <2>1 DEF IInv
<1>2. ASSUME NEW l \in Leg, Connect(l[1], l[2]) PROVE IInv'
  BY <1>2, ConnectOK
<1>3. ASSUME NEW l \in Leg, DisconnectFirst(l[1], l[2]) PROVE IInv'
  BY <1>3, DisconnectFirstOK
<1>4. ASSUME NEW l \in Leg, DisconnectAfterPeer(l[1], l[2]) PROVE IInv'
  BY <1>4, DisconnectAfterPeerOK
<1>5. ASSUME NEW l \in Leg, Handler(l[1], l[2]) PROVE IInv'
  BY <1>5, Net_Send_State_AllOK, Process_state_packetOK DEF Handler
<1>6. ASSUME NEW n \in Node, NEW prot \in Protocol, Send_State_Updates(n, prot) PROVE IInv'
  <2>1. prot \in {"Edge_Prot_Def", "Groups_Prot_Def"}
    BY DEF Protocol
  <2> QED
    BY <1>6, <2>1, SendUpdatesOK DEF Send_State_Updates
<1>7. ASSUME NEW n \in Node, NEW prot \in Protocol, Resend_States(n, prot) PROVE IInv'
  BY <1>7, Resend_StatesOK
<1>8. ASSUME NEW n \in Node, Set_Routes(n) PROVE IInv'
  BY <1>8, SendUpdatesOK DEF Set_Routes
<1>9. ASSUME NEW n \in Node, Restart(n) PROVE IInv'
  BY <1>9, RestartOK
<1>10. ASSUME NEW s \in State, Join_Group(Source(s), s) PROVE IInv'
  BY <1>10, Join_GroupOK
<1>11. ASSUME NEW s \in State, Leave_Group(Source(s), s) PROVE IInv'
  BY <1>11, Leave_GroupOK
<1> QED
  BY <1>1, <1>2, <1>3, <1>4, <1>5, <1>6, <1>7, <1>8, <1>9, <1>10, <1>11 DEF Next

LEMMA Invariance == Spec => []IInv
<1>1. Init => IInv
  BY InitOK
<1>2. IInv /\ [Next]_vars => IInv'
  BY NextOK
<1> QED
  BY <1>1, <1>2, PTL DEF Spec

(* The assertions of state_flood.c and node.c hold: Net_Send_State_All only  *)
(* runs for a connected neighbor, and connected neighbors have slots of      *)
(* their own in the masks.                                                   *)
THEOREM FloodAssertionsHold == Spec => []NoAssertFails
<1>1. IInv => NoAssertFails
  BY DEF IInv, Base
<1> QED
  BY <1>1, Invariance, PTL

(* Nothing is lost: as long as a session lasts, a neighbor that knows less   *)
(* is sent all states, or has its bit cleared with the sending queued, or    *)
(* has a cell on its way, for any overlay and through any crashes.           *)
THEOREM NewsTravels == Spec => []NewsOnItsWay
<1>1. IInv => NewsOnItsWay
  BY DEF IInv
<1> QED
  BY <1>1, Invariance, PTL

-----------------------------------------------------------------------------
(* What a source says of its own states. *)

LEMMA OwnKept ==
  ASSUME OwnStatesTrue, UNCHANGED <<known, sess, joined>>
  PROVE  OwnStatesTrue'
  BY DEF OwnStatesTrue, Holds

(* A step of n that gives the states in S, which are its own, the value v. *)
LEMMA OwnPublished ==
  ASSUME IInv, OwnStatesTrue, NEW n \in Node, NEW S \in SUBSET State, NEW v, Grown(n, S),
         \A s \in S : Source(s) = n /\ known'[n][s].value = v /\ Holds(s)' = v,
         \A s \in State \ S : Holds(s)' = Holds(s)
  PROVE  OwnStatesTrue'
<1> SUFFICES ASSUME NEW s \in State PROVE known'[Source(s)][s].value = Holds(s)'
  BY DEF OwnStatesTrue
<1>1. Source(s) \in Node /\ known[Source(s)][s].value = Holds(s)
  BY StateFacts DEF OwnStatesTrue
<1>2. CASE s \in S
  BY <1>2
<1>3. CASE s \notin S
  <2>1. known'[Source(s)][s] = known[Source(s)][s]
    BY <1>1, <1>3 DEF Grown
  <2> QED
    BY <1>1, <1>3, <2>1
<1> QED
  BY <1>2, <1>3

LEMMA SetCostOwn ==
  ASSUME IInv, OwnStatesTrue, NEW l \in Leg, NEW v \in BOOLEAN,
         NEW functions \in SUBSET Function(l[1]), SetCost(l[1], l[2], v, functions),
         (sess'[l] = "up") = v, \A k \in Leg \ {l} : (sess'[k] = "up") = (sess[k] = "up"),
         joined' = joined
  PROVE  OwnStatesTrue'
<1> DEFINE n == l[1]
           S == CostStates(n, l[2])
<1>1. n \in Node /\ l[2] \in Node /\ l = <<n, l[2]>>
  BY LegFacts
<1>2. TypeOK /\ FiniteChannels /\ DOMAIN queued = Node
  BY DEF IInv, Base, NoAssertFails
<1>3. /\ Grown(n, S)
      /\ \A s \in S : known'[n][s].timestamp = Own(n, s).timestamp + 1 /\ known'[n][s].value = v
  BY <1>1, <1>2, SetCostEffect
<1>4. S \subseteq {l} /\ S \in SUBSET State /\ (l \in Edges => l \in S) /\ (S # {} => l \in Edges)
  BY <1>1 DEF CostStates, State
<1>5. \A s \in S : Source(s) = n /\ known'[n][s].value = v /\ Holds(s)' = v
  <2> SUFFICES ASSUME NEW s \in S
               PROVE  Source(s) = n /\ known'[n][s].value = v /\ Holds(s)' = v
    OBVIOUS
  <2>1. s = l /\ l \in Edges
    BY <1>4
  <2>2. Holds(s)' = (sess'[l] = "up")
    BY <2>1 DEF Holds
  <2>3. known'[n][s].value = v
    BY <1>3
  <2> QED
    BY <2>1, <2>2, <2>3 DEF Source
<1>6. \A s \in State \ S : Holds(s)' = Holds(s)
  BY <1>4, StateAssumption DEF Holds, State
<1> HIDE DEF n, S
<1> QED
  BY <1>1, <1>3, <1>4, <1>5, <1>6, OwnPublished

LEMMA ConnectOwn ==
  ASSUME IInv, OwnStatesTrue, NEW l \in Leg, Connect(l[1], l[2])
  PROVE  OwnStatesTrue'
<1> DEFINE F == queued[l[1]] \cup {Send_State_AllTo(l[2], prot) : prot \in Protocol}
<1>1. l[1] \in Node /\ l[2] \in Neighbors(l[1]) /\ l = <<l[1], l[2]>> /\ TypeOK
  BY LegFacts DEF IInv, Base, NoAssertFails
<1>2. F \in SUBSET Function(l[1])
  <2>1. queued[l[1]] \subseteq Function(l[1])
    BY <1>1 DEF TypeOK
  <2> QED
    BY <1>1, <2>1 DEF Function
<1>3. SetCost(l[1], l[2], TRUE, F) /\ joined' = joined /\ sess' = [sess EXCEPT ![l] = "up"]
  BY <1>1 DEF Connect
<1>4. sess'[l] = "up" /\ \A k \in Leg \ {l} : sess'[k] = sess[k]
  BY <1>1, <1>3 DEF TypeOK
<1> HIDE DEF F
<1> QED
  BY <1>2, <1>3, <1>4, SetCostOwn

LEMMA DisconnectOwn ==
  ASSUME IInv, OwnStatesTrue, NEW l \in Leg, Disconnect(l[1], l[2]), joined' = joined
  PROVE  OwnStatesTrue'
<1> DEFINE F == queued[l[1]] \ {Send_State_AllTo(l[2], prot) : prot \in Protocol}
<1>1. l[1] \in Node /\ l[2] \in Node /\ l = <<l[1], l[2]>> /\ TypeOK /\ CellsKnown
  BY LegFacts DEF IInv, Base, NoAssertFails
<1>2. F \in SUBSET Function(l[1])
  BY <1>1 DEF TypeOK
<1>3. SetCost(l[1], l[2], FALSE, F) /\ LeaveSessions(l[1], {l[2]})
  BY DEF Disconnect
<1>4. /\ \A k \in Leg : k[1] = l[1] /\ k[2] \in {l[2]} => sess'[k] # "up"
      /\ \A k \in Leg : ~ (k[1] = l[1] /\ k[2] \in {l[2]}) => (sess'[k] = "up" <=> sess[k] = "up")
  <2>1. {l[2]} \in SUBSET Node
    BY <1>1
  <2> QED
    BY <1>1, <1>3, <2>1, LeaveEffect
<1>5. sess'[l] # "up" /\ \A k \in Leg \ {l} : (sess'[k] = "up") = (sess[k] = "up")
  BY <1>1, <1>4, LegFacts, ZenonT(60)
<1> HIDE DEF F
<1> QED
  BY <1>2, <1>3, <1>5, SetCostOwn

LEMMA PublishOwn ==
  ASSUME IInv, OwnStatesTrue, NEW n \in Node, NEW S \in SUBSET State, NEW v \in BOOLEAN,
         Publish(n, S, v, queued[n]), \A s \in S : Source(s) = n /\ Holds(s)' = v,
         \A s \in State \ S : Holds(s)' = Holds(s)
  PROVE  OwnStatesTrue'
<1>1. TypeOK /\ FiniteChannels /\ DOMAIN queued = Node
  BY DEF IInv, Base, NoAssertFails
<1>2. queued[n] \in SUBSET Function(n)
  BY <1>1 DEF TypeOK
<1>3. /\ Grown(n, S)
      /\ \A s \in S : known'[n][s].timestamp = Own(n, s).timestamp + 1 /\ known'[n][s].value = v
  BY <1>1, <1>2, PublishEffect
<1>4. \A s \in S : known'[n][s].value = v
  BY <1>3
<1> QED
  BY <1>3, <1>4, OwnPublished

LEMMA GroupOwn ==
  ASSUME IInv, OwnStatesTrue, NEW s \in State,
         Join_Group(Source(s), s) \/ Leave_Group(Source(s), s)
  PROVE  OwnStatesTrue'
<1>1. s \in Groups /\ TypeOK /\ Source(s) \in Node /\ UNCHANGED sess
  BY StateFacts DEF Join_Group, Leave_Group, IInv, Base, NoAssertFails, TypeOK
<1>2. s \notin Edges
  BY <1>1, StateAssumption
<1>3. joined' \in {joined \cup {s}, joined \ {s}}
  BY DEF Join_Group, Leave_Group
<1> DEFINE n == Source(s)
           S == {s}
<1>4. S \in SUBSET State /\ (\A t \in S : Source(t) = n) /\ \A t \in State \ S : Holds(t)' = Holds(t)
  BY <1>1, <1>3 DEF Holds
<1>5. CASE Join_Group(Source(s), s)
  <2>1. Holds(s)' = TRUE
    BY <1>2, <1>5 DEF Join_Group, Holds
  <2>2. CASE known[Source(s)][s].value
    <3>1. FALSE
      BY <1>2, <1>5, <2>2 DEF OwnStatesTrue, Holds, Join_Group
    <3> QED
      BY <3>1
  <2>3. CASE ~ known[Source(s)][s].value
    <3>1. Publish(n, S, TRUE, queued[n]) /\ n \in Node /\ \A t \in S : Holds(t)' = TRUE
      BY <1>1, <1>5, <2>1, <2>3 DEF Join_Group
    <3> HIDE DEF n, S
    <3> QED
      BY <1>4, <3>1, PublishOwn
  <2> QED
    BY <2>2, <2>3
<1>6. CASE Leave_Group(Source(s), s)
  <2>1. Holds(s)' = FALSE
    BY <1>2, <1>6 DEF Leave_Group, Holds
  <2>2. Publish(n, S, FALSE, queued[n]) /\ n \in Node /\ \A t \in S : Holds(t)' = FALSE
    BY <1>1, <1>6, <2>1 DEF Leave_Group
  <2> HIDE DEF n, S
  <2> QED
    BY <1>4, <2>2, PublishOwn
<1> QED
  BY <1>5, <1>6

LEMMA Resend_StatesOwn ==
  ASSUME IInv, OwnStatesTrue, NEW n \in Node, NEW prot \in Protocol, Resend_States(n, prot)
  PROVE  OwnStatesTrue'
<1>1. PICK S \in SUBSET {s \in StatesOf(prot) : Source(s) = n /\ known[n][s].value} \ {{}} :
        Publish(n, S, TRUE, queued[n])
  BY DEF Resend_States
<1>2. S \in SUBSET State /\ \A s \in S : Source(s) = n /\ known[n][s].value
  BY <1>1, ProtocolStates
<1>3. \A s \in State : Holds(s)' = Holds(s)
  BY DEF Holds, Resend_States
<1>4. TypeOK
  BY DEF IInv, Base, NoAssertFails
<1>5. \A s \in S : known[n][s].value \in BOOLEAN
  BY <1>2, <1>4 DEF TypeOK, Copy
<1>6. \A s \in S : Holds(s)' = TRUE
  BY <1>2, <1>3, <1>5 DEF OwnStatesTrue
<1> QED
  BY <1>1, <1>2, <1>3, <1>6, PublishOwn

LEMMA Process_state_packetOwn ==
  ASSUME IInv, OwnStatesTrue, NEW l \in Leg, NEW c \in chan[<<l[2], l[1]>>],
         Process_state_packet(l[1], l[2], c)
  PROVE  OwnStatesTrue'
<1> DEFINE n == l[1]
           s == c.state
<1>1. n \in Node /\ <<l[2], n>> \in Leg /\ TypeOK
  BY LegFacts DEF IInv, Base, NoAssertFails
<1>2. s \in State
  BY <1>1, StampsNat
<1>3. UNCHANGED <<sess, joined>>
  BY DEF Process_state_packet
<1>4. CASE Process_state_cell(n, l[2], c)
  <2>1. /\ known \in [Node -> [State -> Copy]]
        /\ \/ Source(s) # n /\ known' = [known EXCEPT ![n][s] = [timestamp |-> c.timestamp, value |-> c.value]]
           \/ known' = [known EXCEPT ![n][s].timestamp = c.timestamp + 1]
    BY <1>1, <1>4 DEF Process_state_cell, TypeOK
  <2> SUFFICES ASSUME NEW t \in State PROVE known'[Source(t)][t].value = known[Source(t)][t].value
    BY <1>3 DEF OwnStatesTrue, Holds
  <2>2. Source(t) \in Node
    BY StateFacts
  <2>3. CASE Source(t) # n \/ t # s
    <3>1. known'[Source(t)][t] = known[Source(t)][t]
      <4> HIDE DEF n, s
      <4> QED
        BY <1>1, <1>2, <2>1, <2>2, <2>3
    <3> QED
      BY <3>1
  <2>4. CASE Source(t) = n /\ t = s
    <3>1. known' = [known EXCEPT ![n][s].timestamp = c.timestamp + 1]
      BY <2>1, <2>4
    <3>2. known[n][s] \in [timestamp : Nat, value : BOOLEAN]
      BY <1>1, <1>2, <2>1 DEF Copy
    <3> HIDE DEF n, s
    <3> QED
      BY <1>1, <1>2, <2>1, <2>4, <3>1, <3>2
  <2> QED
    BY <2>3, <2>4
<1>5. CASE UNCHANGED known
  BY <1>3, <1>5, OwnKept
<1> QED
  BY <1>4, <1>5 DEF Process_state_packet

LEMMA RestartOwn ==
  ASSUME IInv, OwnStatesTrue, NEW n \in Node, Restart(n)
  PROVE  OwnStatesTrue'
<1> DEFINE stamps == [s \in State |-> Now(s)]
<1>1. TypeOK /\ FiniteChannels /\ CellsKnown
  BY DEF IInv, Base, NoAssertFails
<1>2. Neighbors(n) \in SUBSET Node /\ LeaveSessions(n, Neighbors(n))
  BY DEF Neighbors, Restart
<1>3. /\ \A l \in Leg : l[1] = n /\ l[2] \in Neighbors(n) => sess'[l] # "up"
      /\ \A l \in Leg : ~ (l[1] = n /\ l[2] \in Neighbors(n))
           => (sess'[l] = "up" <=> sess[l] = "up")
  BY <1>1, <1>2, LeaveEffect
<1>4. stamps \in [State -> Nat]
  BY <1>1, NowIsLater
<1>5. known' = [known EXCEPT ![n] = Started(n, stamps)]
  BY DEF Restart
<1> HIDE DEF stamps
<1>6. \A s \in State : Started(n, stamps)[s].value = FALSE
  <2> SUFFICES ASSUME NEW s \in State PROVE Started(n, stamps)[s].value = FALSE
    OBVIOUS
  <2>1. Started(n, stamps)[s] = IF s \in Configured /\ Source(s) = n
                                THEN [timestamp |-> stamps[s], value |-> FALSE] ELSE Unknown
    BY <1>4, StartedTyped
  <2> QED
    BY <2>1 DEF Unknown
<1>7. known'[n] = Started(n, stamps) /\ \A k \in Node \ {n} : known'[k] = known[k]
  BY <1>1, <1>5 DEF TypeOK
<1> SUFFICES ASSUME NEW s \in State PROVE known'[Source(s)][s].value = Holds(s)'
  BY DEF OwnStatesTrue
<1>8. Source(s) \in Node /\ known[Source(s)][s].value = Holds(s)
  BY StateFacts DEF OwnStatesTrue
<1>9. joined' = {t \in joined : Source(t) # n}
  BY DEF Restart
<1>10. CASE Source(s) = n
  <2>1. Holds(s)' = FALSE
    <3>1. CASE s \in Edges
      <4>1. s \in Leg /\ s[1] = n /\ s[2] \in Neighbors(n)
        BY <1>10, <3>1, StateAssumption, LegFacts DEF Source
      <4> QED
        BY <1>3, <3>1, <4>1 DEF Holds
    <3>2. CASE s \notin Edges
      BY <1>9, <1>10, <3>2 DEF Holds
    <3> QED
      BY <3>1, <3>2
  <2> QED
    BY <1>6, <1>7, <1>10, <2>1
<1>11. CASE Source(s) # n
  <2>1. Holds(s)' = Holds(s)
    <3>1. CASE s \in Edges
      <4>1. s \in Leg /\ s[1] # n
        BY <1>11, <3>1, StateAssumption DEF Source
      <4> QED
        BY <1>3, <3>1, <4>1 DEF Holds
    <3>2. CASE s \notin Edges
      BY <1>9, <1>11, <3>2 DEF Holds
    <3> QED
      BY <3>1, <3>2
  <2> QED
    BY <1>7, <1>8, <1>11, <2>1
<1> QED
  BY <1>10, <1>11

LEMMA NextOwn ==
  ASSUME IInv, OwnStatesTrue, [Next]_vars
  PROVE  OwnStatesTrue'
<1>1. CASE UNCHANGED vars
  BY <1>1, OwnKept DEF vars
<1>2. ASSUME NEW l \in Leg, Connect(l[1], l[2]) PROVE OwnStatesTrue'
  BY <1>2, ConnectOwn
<1>3. ASSUME NEW l \in Leg, DisconnectFirst(l[1], l[2]) PROVE OwnStatesTrue'
  BY <1>3, DisconnectOwn DEF DisconnectFirst
<1>4. ASSUME NEW l \in Leg, DisconnectAfterPeer(l[1], l[2]) PROVE OwnStatesTrue'
  BY <1>4, DisconnectOwn DEF DisconnectAfterPeer
<1>5. ASSUME NEW l \in Leg, Handler(l[1], l[2]) PROVE OwnStatesTrue'
  BY <1>5, OwnKept, Process_state_packetOwn DEF Handler, Net_Send_State_All
<1>6. ASSUME NEW n \in Node, NEW prot, NEW functions, SendUpdates(n, prot, functions)
      PROVE  OwnStatesTrue'
  BY <1>6, OwnKept DEF SendUpdates
<1>7. ASSUME NEW n \in Node, NEW prot \in Protocol, Resend_States(n, prot) PROVE OwnStatesTrue'
  BY <1>7, Resend_StatesOwn
<1>8. ASSUME NEW n \in Node, Restart(n) PROVE OwnStatesTrue'
  BY <1>8, RestartOwn
<1>9. ASSUME NEW s \in State, Join_Group(Source(s), s) \/ Leave_Group(Source(s), s)
      PROVE  OwnStatesTrue'
  BY <1>9, GroupOwn
<1> QED
  BY <1>1, <1>2, <1>3, <1>4, <1>5, <1>6, <1>7, <1>8, <1>9
  DEF Next, Send_State_Updates, Set_Routes

(* What a source says of its own states is always so, whatever copies from   *)
(* before a crash come back to it: Process_state_cell at the source keeps    *)
(* the value and only takes a later time stamp.                              *)
THEOREM SourcesTellTheTruth == Spec => []OwnStatesTrue
<1>1. Init => OwnStatesTrue
  <2> SUFFICES ASSUME Init, NEW s \in State PROVE known[Source(s)][s].value = Holds(s)
    BY DEF OwnStatesTrue
  <2>1. Holds(s) = FALSE
    BY StateAssumption DEF Holds, Init
  <2>2. Source(s) \in Node
    BY StateFacts
  <2>3. known[Source(s)][s].value = FALSE
    BY <2>2 DEF Init, Started, Unknown
  <2> QED
    BY <2>1, <2>3
<1>2. IInv /\ OwnStatesTrue /\ [Next]_vars => OwnStatesTrue'
  BY NextOwn
<1> QED
  BY <1>1, <1>2, Invariance, PTL DEF Spec

-----------------------------------------------------------------------------
(* Time stamps. *)

(* No daemon that may crash is the source of a state that it forgets: after  *)
(* a restart it creates its configured edges again, with a later time stamp, *)
(* but a group or an edge of which it has no copy it does not know of until  *)
(* somebody tells it.                                                        *)
SourcesRemember == \A s \in State : Source(s) \in Faulty => s \in Configured

(* No copy is newer than that of the source, and copies with the same time   *)
(* stamp are the same; having no copy counts as one with time stamp 0.       *)
AllCopies(s) == Copies(s) \cup {Unknown}
StampsFor(s) ==
  \A c \in AllCopies(s) :
    /\ c.timestamp <= known[Source(s)][s].timestamp
    /\ \A d \in AllCopies(s) : c.timestamp = d.timestamp => c.value = d.value
StampsOK == \A s \in State : StampsFor(s)

CopyOf(d) == [timestamp |-> d.timestamp, value |-> d.value]

LEMMA CopiesOf ==
  ASSUME NEW s \in State
  PROVE  /\ \A k \in Node : known[k][s] \in AllCopies(s)
         /\ \A l \in Leg : \A d \in chan[l] : d.state = s => CopyOf(d) \in AllCopies(s)
         /\ Unknown \in AllCopies(s)
         /\ \A c \in AllCopies(s) :
              \/ c = Unknown
              \/ \E k \in Node : c = known[k][s]
              \/ \E l \in Leg : \E d \in chan[l] : d.state = s /\ c = CopyOf(d)
<1>1. ASSUME NEW l \in Leg, NEW d \in chan[l], d.state = s PROVE CopyOf(d) \in AllCopies(s)
  <2> DEFINE D == {e \in chan[l] : e.state = s}
             T == {CopyOf(e) : e \in D}
  <2>1. CopyOf(d) \in T
    BY <1>1
  <2>2. T \subseteq Copies(s)
    BY DEF Copies, CopyOf
  <2> QED
    BY <2>1, <2>2 DEF AllCopies
<1>2. \A k \in Node : known[k][s] \in AllCopies(s)
  BY DEF AllCopies, Copies
<1>3. ASSUME NEW c \in Copies(s)
      PROVE  \/ \E k \in Node : c = known[k][s]
             \/ \E l \in Leg : \E d \in chan[l] : d.state = s /\ c = CopyOf(d)
  BY DEF Copies, CopyOf
<1> QED
  BY <1>1, <1>2, <1>3 DEF AllCopies

LEMMA AllCopiesTyped ==
  ASSUME TypeOK, NEW s \in State, NEW c \in AllCopies(s)
  PROVE  c.timestamp \in Nat /\ c.value \in BOOLEAN
<1>1. \/ c = Unknown
      \/ \E k \in Node : c = known[k][s]
      \/ \E l \in Leg : \E d \in chan[l] : d.state = s /\ c = CopyOf(d)
  BY CopiesOf
<1>2. CASE c = Unknown
  BY <1>2 DEF Unknown
<1>3. CASE \E k \in Node : c = known[k][s]
  BY <1>3 DEF TypeOK, Copy
<1>4. CASE \E l \in Leg : \E d \in chan[l] : d.state = s /\ c = CopyOf(d)
  <2>0. PICK l \in Leg : \E d \in chan[l] : d.state = s /\ c = CopyOf(d)
    BY <1>4
  <2>1. PICK d \in chan[l] : c = CopyOf(d)
    BY <2>0
  <2>2. d.timestamp \in Nat /\ d.value \in BOOLEAN
    BY StampsNat
  <2> QED
    BY <2>1, <2>2 DEF CopyOf
<1> QED
  BY <1>1, <1>2, <1>3, <1>4

(* A step keeps the order if every copy after it was there before, or is the *)
(* new copy of the source, which is newer than all of them.                  *)
LEMMA StampsStep ==
  ASSUME TypeOK, TypeOK', NEW s \in State, StampsFor(s),
         \A k \in Node : known'[k][s] \in AllCopies(s) \cup {known'[Source(s)][s]},
         \A l \in Leg : \A d \in chan'[l] :
           d.state = s => CopyOf(d) \in AllCopies(s),
         \/ known'[Source(s)][s] = known[Source(s)][s]
         \/ \A c \in AllCopies(s) : c.timestamp < known'[Source(s)][s].timestamp
  PROVE  StampsFor(s)'
<1> DEFINE o == known[Source(s)][s]
           p == known'[Source(s)][s]
           A == AllCopies(s)
<1>1. Source(s) \in Node /\ o \in A
  BY StateFacts, CopiesOf
<1>2. AllCopies(s)' \subseteq A \cup {p}
  <2> SUFFICES ASSUME NEW c \in AllCopies(s)' PROVE c \in A \cup {p}
    OBVIOUS
  <2>1. \/ c = Unknown
        \/ \E k \in Node : c = known'[k][s]
        \/ \E l \in Leg : \E d \in chan'[l] : d.state = s /\ c = CopyOf(d)
    BY DEF AllCopies, Copies, CopyOf
  <2>2. Unknown \in A
    BY CopiesOf
  <2> QED
    BY <2>1, <2>2
<1>3. \A c \in A : c.timestamp \in Nat
  BY AllCopiesTyped
<1>4. p.timestamp \in Nat /\ o.timestamp \in Nat
  BY <1>1 DEF TypeOK, Copy
<1>5. \A c \in A : /\ c.timestamp <= o.timestamp
                   /\ \A d \in A : c.timestamp = d.timestamp => c.value = d.value
  BY DEF StampsFor
<1> SUFFICES ASSUME NEW c \in AllCopies(s)', NEW d \in AllCopies(s)'
             PROVE  /\ c.timestamp <= p.timestamp
                    /\ c.timestamp = d.timestamp => c.value = d.value
  BY DEF StampsFor
<1>6. c \in A \cup {p} /\ d \in A \cup {p}
  BY <1>2
<1>7. CASE p = o
  <2> HIDE DEF p, o, A
  <2> QED
    BY <1>1, <1>5, <1>6, <1>7
<1>8. CASE \A e \in A : e.timestamp < p.timestamp
  <2> HIDE DEF p, o, A
  <2>1. CASE c \in A /\ d \in A
    BY <1>3, <1>4, <1>5, <1>8, <2>1
  <2>2. CASE c \in A /\ d = p
    BY <1>3, <1>4, <1>8, <2>2
  <2>3. CASE c = p /\ d \in A
    BY <1>3, <1>4, <1>8, <2>3
  <2>4. CASE c = p /\ d = p
    BY <1>4, <2>4
  <2> QED
    BY <1>6, <2>1, <2>2, <2>3, <2>4
<1> QED
  BY <1>7, <1>8

(* Cells vanish, and n publishes new copies of states of its own. *)
LEMMA PublishStamps ==
  ASSUME IInv, IInv', StampsOK, NEW n \in Node, NEW S \in SUBSET State, Grown(n, S),
         \A s \in S : Source(s) = n /\ known'[n][s].timestamp = Own(n, s).timestamp + 1,
         \A l \in Leg : chan'[l] \subseteq chan[l]
  PROVE  StampsOK'
<1> SUFFICES ASSUME NEW s \in State PROVE StampsFor(s)'
  BY DEF StampsOK
<1>1. TypeOK /\ TypeOK' /\ FiniteChannels /\ StampsFor(s)
  BY DEF IInv, Base, NoAssertFails, StampsOK
<1>2. \A l \in Leg : \A d \in chan'[l] : d.state = s => CopyOf(d) \in AllCopies(s)
  BY CopiesOf
<1>3. Source(s) \in Node
  BY StateFacts
<1>4. CASE s \notin S
  <2>1. \A k \in Node : known'[k][s] = known[k][s]
    BY <1>4 DEF Grown
  <2>2. \A k \in Node : known'[k][s] \in AllCopies(s)
    BY <2>1, CopiesOf
  <2> QED
    BY <1>1, <1>2, <1>3, <2>1, <2>2, StampsStep
<1>5. CASE s \in S
  <2>1. Source(s) = n
    BY <1>5
  <2>2. \A k \in Node \ {n} : known'[k][s] = known[k][s]
    BY DEF Grown
  <2>3. \A k \in Node : known'[k][s] \in AllCopies(s) \cup {known'[Source(s)][s]}
    BY <2>1, <2>2, CopiesOf
  <2>4. known'[n][s].timestamp = Own(n, s).timestamp + 1
    BY <1>5
  <2>5. \A c \in AllCopies(s) : c.timestamp \in Nat
    BY <1>1, AllCopiesTyped
  <2>6. \A c \in AllCopies(s) : c.timestamp < Own(n, s).timestamp + 1
    <3>1. CASE known[n][s] = Unknown
      <4>1. Own(n, s).timestamp = Now(s)
        BY <3>1 DEF Own
      <4>2. Now(s) \in Nat /\ \A c \in Copies(s) : c.timestamp < Now(s)
        BY <1>1, NowIsLater
      <4> QED
        BY <2>5, <4>1, <4>2 DEF AllCopies, Unknown
    <3>2. CASE known[n][s] # Unknown
      <4>1. Own(n, s) = known[n][s]
        BY <3>2 DEF Own
      <4>2. known[n][s].timestamp \in Nat
        BY <1>1, StampsNat
      <4>3. \A c \in AllCopies(s) : c.timestamp <= known[n][s].timestamp
        BY <1>1, <2>1 DEF StampsFor
      <4> QED
        BY <2>5, <4>1, <4>2, <4>3
    <3> QED
      BY <3>1, <3>2
  <2>7. \A c \in AllCopies(s) : c.timestamp < known'[Source(s)][s].timestamp
    BY <2>1, <2>4, <2>6
  <2> QED
    BY <1>1, <1>2, <2>3, <2>7, StampsStep
<1> QED
  BY <1>4, <1>5

(* Nothing is published, cells vanish or are sent. *)
LEMMA QuietStamps ==
  ASSUME IInv, IInv', StampsOK, UNCHANGED known,
         \A l \in Leg : \A d \in chan'[l] :
           d \in chan[l] \/ \E k \in Node, t \in State : d = Cell(k, t)
  PROVE  StampsOK'
<1> SUFFICES ASSUME NEW s \in State PROVE StampsFor(s)'
  BY DEF StampsOK
<1>1. TypeOK /\ TypeOK' /\ StampsFor(s)
  BY DEF IInv, Base, NoAssertFails, StampsOK
<1>2. ASSUME NEW l \in Leg, NEW d \in chan'[l], d.state = s PROVE CopyOf(d) \in AllCopies(s)
  <2>1. CASE d \in chan[l]
    BY <1>2, <2>1, CopiesOf
  <2>2. CASE d \notin chan[l]
    <3>1. PICK k \in Node, t \in State : d = Cell(k, t)
      BY <2>2
    <3>2. t = s /\ d.timestamp = known[k][s].timestamp /\ d.value = known[k][s].value
      BY <1>1, <1>2, <3>1, CellTyped
    <3>3. known[k][s] \in Copy
      BY <1>1 DEF TypeOK
    <3>4. CopyOf(d) = known[k][s]
      BY <3>2, <3>3 DEF CopyOf, Copy
    <3> QED
      BY <3>4, CopiesOf
  <2> QED
    BY <2>1, <2>2
<1>3. \A k \in Node : known'[k][s] \in AllCopies(s)
  BY CopiesOf
<1> QED
  BY <1>1, <1>2, <1>3, StampsStep

LEMMA SetCostStamps ==
  ASSUME IInv, IInv', StampsOK, NEW l \in Leg, NEW v \in BOOLEAN,
         NEW functions \in SUBSET Function(l[1]), SetCost(l[1], l[2], v, functions),
         \A k \in Leg : chan'[k] \subseteq chan[k]
  PROVE  StampsOK'
<1> DEFINE n == l[1]
           S == CostStates(n, l[2])
<1>1. n \in Node /\ l[2] \in Node
  BY LegFacts
<1>2. TypeOK /\ FiniteChannels /\ DOMAIN queued = Node
  BY DEF IInv, Base, NoAssertFails
<1>3. /\ Grown(n, S)
      /\ \A s \in S : known'[n][s].timestamp = Own(n, s).timestamp + 1 /\ known'[n][s].value = v
  BY <1>1, <1>2, SetCostEffect
<1>4. S \in SUBSET State /\ \A s \in S : Source(s) = n
  BY DEF CostStates, State, Source
<1> HIDE DEF n, S
<1> QED
  BY <1>1, <1>3, <1>4, PublishStamps

LEMMA ConnectStamps ==
  ASSUME IInv, IInv', StampsOK, NEW l \in Leg, Connect(l[1], l[2])
  PROVE  StampsOK'
<1> DEFINE F == queued[l[1]] \cup {Send_State_AllTo(l[2], prot) : prot \in Protocol}
<1>1. l[1] \in Node /\ l[2] \in Neighbors(l[1]) /\ TypeOK
  BY LegFacts DEF IInv, Base, NoAssertFails
<1>2. F \in SUBSET Function(l[1])
  <2>1. queued[l[1]] \subseteq Function(l[1])
    BY <1>1 DEF TypeOK
  <2> QED
    BY <1>1, <2>1 DEF Function
<1>3. SetCost(l[1], l[2], TRUE, F) /\ chan' = chan
  BY DEF Connect
<1> HIDE DEF F
<1> QED
  BY <1>2, <1>3, SetCostStamps

LEMMA DisconnectStamps ==
  ASSUME IInv, IInv', StampsOK, NEW l \in Leg, Disconnect(l[1], l[2])
  PROVE  StampsOK'
<1> DEFINE F == queued[l[1]] \ {Send_State_AllTo(l[2], prot) : prot \in Protocol}
<1>1. l[1] \in Node /\ l[2] \in Node /\ TypeOK /\ CellsKnown
  BY LegFacts DEF IInv, Base, NoAssertFails
<1>2. F \in SUBSET Function(l[1])
  BY <1>1 DEF TypeOK
<1>3. SetCost(l[1], l[2], FALSE, F) /\ LeaveSessions(l[1], {l[2]})
  BY DEF Disconnect
<1>4. \A k \in Leg : chan'[k] \subseteq chan[k]
  <2>1. {l[2]} \in SUBSET Node
    BY <1>1
  <2> QED
    BY <1>1, <1>3, <2>1, LeaveEffect
<1> HIDE DEF F
<1> QED
  BY <1>2, <1>3, <1>4, SetCostStamps

LEMMA OwnPublishStamps ==
  ASSUME IInv, IInv', StampsOK, NEW n \in Node, NEW S \in SUBSET State, NEW v \in BOOLEAN,
         Publish(n, S, v, queued[n]), \A s \in S : Source(s) = n, chan' = chan
  PROVE  StampsOK'
<1>1. TypeOK /\ FiniteChannels /\ DOMAIN queued = Node
  BY DEF IInv, Base, NoAssertFails
<1>2. queued[n] \in SUBSET Function(n)
  BY <1>1 DEF TypeOK
<1>3. /\ Grown(n, S)
      /\ \A s \in S : known'[n][s].timestamp = Own(n, s).timestamp + 1 /\ known'[n][s].value = v
  BY <1>1, <1>2, PublishEffect
<1> QED
  BY <1>3, PublishStamps

LEMMA GroupStamps ==
  ASSUME IInv, IInv', StampsOK, NEW s \in State,
         Join_Group(Source(s), s) \/ Leave_Group(Source(s), s)
  PROVE  StampsOK'
<1> DEFINE n == Source(s)
           S == {s}
<1>1. n \in Node /\ S \in SUBSET State /\ \A t \in S : Source(t) = n
  BY StateFacts
<1>2. chan' = chan
  BY DEF Join_Group, Leave_Group
<1>3. \/ UNCHANGED known
      \/ Publish(n, S, TRUE, queued[n])
      \/ Publish(n, S, FALSE, queued[n])
  BY DEF Join_Group, Leave_Group
<1> HIDE DEF n, S
<1>4. CASE UNCHANGED known
  BY <1>2, <1>4, QuietStamps
<1>5. ASSUME NEW v \in BOOLEAN, Publish(n, S, v, queued[n]) PROVE StampsOK'
  BY <1>1, <1>2, <1>5, OwnPublishStamps
<1> QED
  BY <1>3, <1>4, <1>5

LEMMA Resend_StatesStamps ==
  ASSUME IInv, IInv', StampsOK, NEW n \in Node, NEW prot \in Protocol, Resend_States(n, prot)
  PROVE  StampsOK'
<1>1. PICK S \in SUBSET {s \in StatesOf(prot) : Source(s) = n /\ known[n][s].value} \ {{}} :
        Publish(n, S, TRUE, queued[n])
  BY DEF Resend_States
<1>2. S \in SUBSET State /\ (\A s \in S : Source(s) = n) /\ chan' = chan
  BY <1>1, ProtocolStates DEF Resend_States
<1> QED
  BY <1>1, <1>2, OwnPublishStamps

(* A daemon never hears anything newer of its own states, so what it takes   *)
(* over from a cell is a copy that was there.                                *)
LEMMA Process_state_packetStamps ==
  ASSUME IInv, IInv', StampsOK, NEW l \in Leg, NEW c \in chan[<<l[2], l[1]>>],
         Process_state_packet(l[1], l[2], c)
  PROVE  StampsOK'
<1> DEFINE n == l[1]
           r == <<l[2], n>>
<1>1. n \in Node /\ r \in Leg /\ TypeOK /\ TypeOK'
  BY LegFacts DEF IInv, Base, NoAssertFails
<1>2. c.state \in State /\ c.timestamp \in Nat /\ c.value \in BOOLEAN
  BY <1>1, StampsNat
<1>3. \A k \in Leg : chan'[k] \subseteq chan[k]
  BY <1>1 DEF Process_state_packet, TypeOK
<1>4. CASE UNCHANGED known
  BY <1>3, <1>4, QuietStamps
<1>5. CASE Newer(n, c) /\ Process_state_cell(n, l[2], c)
  <2>1. CopyOf(c) \in AllCopies(c.state)
    BY <1>1, <1>2, CopiesOf
  <2>2. Source(c.state) # n
    <3> SUFFICES ASSUME Source(c.state) = n PROVE FALSE
      OBVIOUS
    <3>1. CopyOf(c).timestamp <= known[n][c.state].timestamp
      BY <1>2, <2>1 DEF StampsOK, StampsFor
    <3>2. known[n][c.state].timestamp < c.timestamp
      BY <1>5 DEF Newer
    <3>3. CopyOf(c).timestamp = c.timestamp
      BY DEF CopyOf
    <3>4. known[n][c.state].timestamp \in Nat
      BY <1>1, <1>2, StampsNat
    <3> QED
      BY <1>2, <3>1, <3>2, <3>3, <3>4
  <2>3. known' = [known EXCEPT ![n][c.state] = CopyOf(c)]
    BY <1>5, <2>2 DEF Process_state_cell, CopyOf
  <2>4. known \in [Node -> [State -> Copy]]
    BY <1>1 DEF TypeOK
  <2> SUFFICES ASSUME NEW s \in State PROVE StampsFor(s)'
    BY DEF StampsOK
  <2>5. \A k \in Node : known'[k][s] = known[k][s] \/ (k = n /\ s = c.state /\ known'[k][s] = CopyOf(c))
    <3> HIDE DEF n
    <3> QED
      BY <1>1, <1>2, <2>3, <2>4
  <2>6. \A k \in Node : known'[k][s] \in AllCopies(s)
    BY <2>1, <2>5, CopiesOf
  <2>7. known'[Source(s)][s] = known[Source(s)][s]
    BY <2>2, <2>5, StateFacts
  <2>8. \A k \in Leg : \A d \in chan'[k] : d.state = s => CopyOf(d) \in AllCopies(s)
    BY <1>3, CopiesOf
  <2>9. StampsFor(s)
    BY DEF StampsOK
  <2> QED
    BY <1>1, <2>6, <2>7, <2>8, <2>9, StampsStep
<1> QED
  BY <1>4, <1>5 DEF Process_state_packet

LEMMA SendStamps ==
  ASSUME IInv, IInv', StampsOK, NEW n \in Node, NEW sent,
         \A m \in DOMAIN sent : sent[m] \subseteq State, SendTo(n, sent), UNCHANGED known
  PROVE  StampsOK'
<1>1. TypeOK /\ FiniteChannels
  BY DEF IInv, Base, NoAssertFails
<1>2. \A l \in Leg : \A d \in chan'[l] \ chan[l] : \E s \in State : d = Cell(n, s)
  BY <1>1, SendEffect
<1>3. \A l \in Leg : \A d \in chan'[l] :
           d \in chan[l] \/ \E k \in Node, t \in State : d = Cell(k, t)
  BY <1>2
<1> QED
  BY <1>3, QuietStamps

LEMMA RestartStamps ==
  ASSUME SourcesRemember, IInv, IInv', StampsOK, NEW n \in Node, Restart(n)
  PROVE  StampsOK'
<1> DEFINE stamps == [s \in State |-> Now(s)]
<1>1. TypeOK /\ TypeOK' /\ FiniteChannels /\ CellsKnown
  BY DEF IInv, Base, NoAssertFails
<1>2. Neighbors(n) \in SUBSET Node /\ LeaveSessions(n, Neighbors(n)) /\ n \in Faulty
  BY DEF Neighbors, Restart
<1>3. \A l \in Leg : chan'[l] \subseteq chan[l]
  BY <1>1, <1>2, LeaveEffect
<1>4. stamps \in [State -> Nat] /\ \A s \in State : stamps[s] = Now(s)
  BY <1>1, NowIsLater
<1>5. known' = [known EXCEPT ![n] = Started(n, stamps)]
  BY DEF Restart
<1> HIDE DEF stamps
<1>6. known'[n] = Started(n, stamps) /\ \A k \in Node \ {n} : known'[k] = known[k]
  BY <1>1, <1>5 DEF TypeOK
<1> SUFFICES ASSUME NEW s \in State PROVE StampsFor(s)'
  BY DEF StampsOK
<1>7. \A l \in Leg : \A d \in chan'[l] : d.state = s => CopyOf(d) \in AllCopies(s)
  BY <1>3, CopiesOf
<1>8. StampsFor(s) /\ Source(s) \in Node
  BY StateFacts DEF StampsOK
<1>9. known'[n][s] = IF s \in Configured /\ Source(s) = n
                     THEN [timestamp |-> stamps[s], value |-> FALSE] ELSE Unknown
  BY <1>4, <1>6, StartedTyped
<1>10. CASE Source(s) = n
  <2>1. s \in Configured
    BY <1>2, <1>10 DEF SourcesRemember
  <2>2. known'[n][s].timestamp = Now(s)
    BY <1>4, <1>9, <1>10, <2>1
  <2>3. \A c \in AllCopies(s) : c.timestamp < Now(s)
    <3>1. Now(s) \in Nat /\ \A c \in Copies(s) : c.timestamp < Now(s)
      BY <1>1, NowIsLater
    <3>2. known[n][s].timestamp \in Nat /\ known[n][s] \in Copies(s)
      BY <1>1, StampsNat DEF Copies
    <3>3. Now(s) > 0
      BY <3>1, <3>2
    <3> QED
      BY <3>1, <3>3 DEF AllCopies, Unknown
  <2>4. \A k \in Node : known'[k][s] \in AllCopies(s) \cup {known'[Source(s)][s]}
    BY <1>6, <1>10, CopiesOf
  <2>5. \A c \in AllCopies(s) : c.timestamp < known'[Source(s)][s].timestamp
    BY <1>10, <2>2, <2>3
  <2> QED
    BY <1>1, <1>7, <1>8, <2>4, <2>5, StampsStep
<1>11. CASE Source(s) # n
  <2>1. known'[n][s] = Unknown
    BY <1>9, <1>11
  <2>2. \A k \in Node : known'[k][s] \in AllCopies(s)
    BY <1>6, <2>1, CopiesOf
  <2>3. known'[Source(s)][s] = known[Source(s)][s]
    BY <1>6, <1>8, <1>11
  <2> QED
    BY <1>1, <1>7, <1>8, <2>2, <2>3, StampsStep
<1> QED
  BY <1>10, <1>11

LEMMA NextStamps ==
  ASSUME SourcesRemember, IInv, IInv', StampsOK, [Next]_vars
  PROVE  StampsOK'
<1>1. CASE UNCHANGED vars
  <2>1. UNCHANGED <<known, chan>>
    BY <1>1 DEF vars
  <2> QED
    BY <2>1, QuietStamps
<1>2. ASSUME NEW l \in Leg, Connect(l[1], l[2]) PROVE StampsOK'
  BY <1>2, ConnectStamps
<1>3. ASSUME NEW l \in Leg, DisconnectFirst(l[1], l[2]) PROVE StampsOK'
  BY <1>3, DisconnectStamps DEF DisconnectFirst
<1>4. ASSUME NEW l \in Leg, DisconnectAfterPeer(l[1], l[2]) PROVE StampsOK'
  BY <1>4, DisconnectStamps DEF DisconnectAfterPeer
<1>5. ASSUME NEW l \in Leg, NEW prot \in Protocol, Net_Send_State_All(l[1], l[2], prot)
      PROVE  StampsOK'
  <2> DEFINE sent == [q \in {l[2]} |-> {s \in StatesOf(prot) : known[l[1]][s] # Unknown}]
  <2>1. SendTo(l[1], sent) /\ UNCHANGED known
    BY <1>5 DEF Net_Send_State_All
  <2>2. \A m \in DOMAIN sent : sent[m] \subseteq State
    BY ProtocolStates
  <2>3. l[1] \in Node
    BY LegFacts
  <2> HIDE DEF sent
  <2> QED
    BY <2>1, <2>2, <2>3, SendStamps
<1>6. ASSUME NEW l \in Leg, NEW c \in chan[<<l[2], l[1]>>], Process_state_packet(l[1], l[2], c)
      PROVE  StampsOK'
  BY <1>6, Process_state_packetStamps
<1>7. ASSUME NEW n \in Node, NEW prot, NEW functions, SendUpdates(n, prot, functions)
      PROVE  StampsOK'
  <2> DEFINE nbrs == {m \in Neighbors(n) : Connected(n, m)}
  <2>1. PICK sent \in [nbrs -> SUBSET (changed[n] \cap StatesOf(prot))] :
          SendTo(n, sent) /\ UNCHANGED known
    BY <1>7 DEF SendUpdates
  <2>2. \A m \in DOMAIN sent : sent[m] \subseteq State
    BY <2>1, ProtocolStates
  <2> QED
    BY <2>1, <2>2, SendStamps
<1>8. ASSUME NEW n \in Node, NEW prot \in Protocol, Resend_States(n, prot) PROVE StampsOK'
  BY <1>8, Resend_StatesStamps
<1>9. ASSUME NEW n \in Node, Restart(n) PROVE StampsOK'
  BY <1>9, RestartStamps
<1>10. ASSUME NEW s \in State, Join_Group(Source(s), s) \/ Leave_Group(Source(s), s)
       PROVE  StampsOK'
  BY <1>10, GroupStamps
<1> QED
  BY <1>1, <1>2, <1>3, <1>4, <1>5, <1>6, <1>7, <1>8, <1>9, <1>10
  DEF Next, Handler, Send_State_Updates, Set_Routes

LEMMA InitStamps ==
  ASSUME Init
  PROVE  StampsOK
<1> SUFFICES ASSUME NEW s \in State PROVE StampsFor(s)
  BY DEF StampsOK
<1> DEFINE stamps == [t \in State |-> 1]
           o == known[Source(s)][s]
<1>1. stamps \in [State -> Nat] /\ \A t \in State : stamps[t] = 1
  OBVIOUS
<1>2. \A n \in Node : known[n] = Started(n, stamps)
  BY DEF Init
<1> HIDE DEF stamps
<1>3. \A n \in Node : known[n][s] = IF s \in Configured /\ Source(s) = n
                                    THEN [timestamp |-> stamps[s], value |-> FALSE] ELSE Unknown
  BY <1>1, <1>2, StartedTyped
<1>4. ASSUME NEW c \in AllCopies(s) PROVE c \in {Unknown, o}
  <2>1. \A l \in Leg : chan[l] = {}
    BY DEF Init
  <2>2. c = Unknown \/ \E k \in Node : c = known[k][s]
    BY <2>1, CopiesOf
  <2> QED
    BY <1>3, <2>2
<1>5. o = Unknown \/ o = [timestamp |-> 1, value |-> FALSE]
  BY <1>1, <1>3, StateFacts
<1>6. Unknown.timestamp = 0 /\ Unknown.value = FALSE /\ o.timestamp \in {0, 1} /\ o.value = FALSE
  BY <1>5 DEF Unknown
<1> HIDE DEF o
<1>7. \A c \in AllCopies(s) : c.timestamp <= o.timestamp /\ c.value = FALSE
  BY <1>4, <1>6
<1> QED
  BY <1>7 DEF StampsFor, o

(* Process_state_packet may take a cell with a time stamp it knows for a     *)
(* cell it knows: as long as no daemon that crashes forgets a state of its   *)
(* own, copies with the same time stamp are the same.  Without that          *)
(* hypothesis a copy from before the crash comes back and meets a new one.   *)
THEOREM StampsTellCopiesApart ==
  ASSUME SourcesRemember
  PROVE  Spec => []EqualStampsAgree
<1>1. Init => StampsOK
  BY InitStamps
<1>2. IInv /\ IInv' /\ StampsOK /\ [Next]_vars => StampsOK'
  BY NextStamps
<1>3. StampsOK => EqualStampsAgree
  <2> SUFFICES ASSUME StampsOK, NEW n \in Node, NEW m \in Node, NEW s \in State,
                      known[n][s].timestamp = known[m][s].timestamp
               PROVE  known[n][s].value = known[m][s].value
    BY DEF EqualStampsAgree
  <2>1. known[n][s] \in AllCopies(s) /\ known[m][s] \in AllCopies(s)
    BY CopiesOf
  <2> QED
    BY <2>1 DEF StampsOK, StampsFor
<1> QED
  BY <1>1, <1>2, <1>3, Invariance, PTL DEF Spec
=============================================================================
