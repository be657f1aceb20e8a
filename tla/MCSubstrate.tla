----------------------------- MODULE MCSubstrate ----------------------------
(***************************************************************************)
(* Routing, source-based routing, priority flooding, the real-time link,   *)
(* what a leg measures and limits, and what the daemon stands on: the      *)
(* event loop, memory and containers.  Each part is checked on instances   *)
(* of its own; `unit' names the one a behaviour exercises and `st' is that *)
(* part's state.                                                           *)
(***************************************************************************)
EXTENDS Integers, FiniteSets, TLC

CONSTANTS e1, e2, f1, f2, f3      \* events and file descriptors

VARIABLES unit, st

subvars == <<unit, st>>

BothWays(f) == [e \in DOMAIN f \cup {<<x[2], x[1]>> : x \in DOMAIN f} |->
                  IF e \in DOMAIN f THEN f[e] ELSE f[<<e[2], e[1]>>]]

\* a ring of four with one chord
Ring == {<<1, 2>>, <<1, 3>>, <<2, 3>>, <<2, 4>>, <<3, 4>>}
Flat == BothWays([e \in Ring |-> 1])
Bumpy == BothWays([e \in Ring |-> IF e = <<1, 3>> THEN 2 ELSE IF e = <<2, 4>> THEN -3 ELSE 1])
Square == BothWays([e \in Ring \ {<<2, 3>>} |-> IF e = <<1, 3>> THEN 3 ELSE 1])
ShortOnTop == BothWays([e \in Ring |-> IF e \in {<<1, 3>>, <<2, 4>>} THEN 3 ELSE 1])

Letter(src, inc, prio, size, expire, mask) ==
  [src |-> src, inc |-> inc, prio |-> prio, size |-> size, expire |-> expire,
   mask |-> mask, mine |-> FALSE]
Letters == << Letter(3, 1, 1, 1, 1, {1, 2}), Letter(3, 2, 2, 2, 2, {1, 2}),
              Letter(9, 1, 2, 1, 2, {1, 2}), Letter(9, 1, 1, 1, 2, {2}) >>
Burst(room, fails) == [room |-> room, fails |-> fails]
ThreeBursts == {Burst(0, FALSE), Burst(1, TRUE), Burst(2, FALSE)}

RT == INSTANCE RealtimeLink
        WITH rt <- st, MAX_HISTORY <- 2, HISTORY_TIME <- 0, MAX_BUCKET <- 2,
             RT_RETRANSM_TOK <- 2, MAX_NACKS <- 2, MaxPackets <- 4, MaxTime <- 1, MaxNet <- 2
B == INSTANCE LegBucket
       WITH lb <- st, Leg_Rate <- 1, leg_bucket_to <- 1, MAX_PACKET_SIZE <- 2, Sizes <- {1, 2},
            MaxPackets <- 7, MaxTime <- 5
L == INSTANCE LinkLoss WITH ll <- st, PACK_MAX_SEQ <- 6, MaxPackets <- 9, MaxAhead <- 2
C == INSTANCE LegCost
       WITH lc <- st, Rtts <- {40, 43, 48, 60}, Losses <- {0, 1, 5}, Base <- {-1, 40},
            LossCost <- (0 :> 1) @@ (1 :> 102) @@ (5 :> 514), CONNECT_LINK_CNT <- 2
Links == {[bandwidth |-> 1, delay |-> 0, loss_rate |-> 0, burst_rate |-> 1],
          [bandwidth |-> 0, delay |-> 1, loss_rate |-> 1, burst_rate |-> 0],
          [bandwidth |-> 0, delay |-> 0, loss_rate |-> 0, burst_rate |-> 1]}
P == INSTANCE ReceivePath
       WITH rp <- st, Buffer <- 1 .. 4, Params <- Links, BWTH_BUCKET <- 1, MaxPackets <- 3,
            MaxTime <- 2
E == INSTANCE EventQueue
       WITH eq <- st, Event <- {e1, e2}, Fd <- {f1, f2, f3}, MAX_FD_EVENTS <- 2, USEC <- 2,
            Delays <- {[sec |-> 0, usec |-> 0], [sec |-> 0, usec |-> 1], [sec |-> 1, usec |-> 0]},
            MaxNow <- 1, MaxCalls <- 4
M == INSTANCE Memory
       WITH mem <- st, Addr <- {1, 2, 3}, Size <- 2, threshold <- 1, initial <- 2, Lengths <- {1, 3},
            MaxRefs <- 2
A == INSTANCE CircularArray
       WITH arr <- st, STDCARR_MIN_AUTO_ALLOC <- 4, MaxSize <- 6, MaxChange <- 3,
            Opts <- {{}, {"STDCARR_OPTS_NO_AUTO_GROW", "STDCARR_OPTS_NO_AUTO_SHRINK"}}
H == INSTANCE HashTable
       WITH ht <- st, Key <- {1, 2, 3}, HCode <- (1 :> 0) @@ (2 :> 17) @@ (3 :> 9), HBITS <- 5,
            STDHASH_MIN_AUTO_ALLOC <- 2, NO_AUTO_SHRINK <- FALSE, MaxNodes <- 4, MaxReserve <- 4
K == INSTANCE SkipList
       WITH sl <- st, Keys <- {1, 2}, EndHeight <- 0, STDSKL_MAX_HEIGHT <- 2, MaxSize <- 4
R == INSTANCE Routing
       WITH rt <- st, Router <- 1 .. 4, Graphs <- {Flat, Bumpy}, Members <- {{3, 4}}, Cost <- {-1, 2},
            MAX_TTL <- 4, MaxEvents <- 2
\* costs and problems change and no packets are sent; and the reverse
SChange == INSTANCE SourceRouting
       WITH sb <- st, Base <- ShortOnTop, Volatile <- Ring, Problem <- 3, My_ID <- 1, Site <- 1 .. 4,
            Dests <- {4}, MULTIPATH_MAX_K <- 2, DG_LATENCY_REQ <- 5, DG_PROB_COUNT_THRESH <- 2,
            USHRT_MAX <- 65535, SOURCE_HIST_SIZE <- 2, SEQ_LIMIT <- 3, MaxSends <- 0, MaxAhead <- 0
SSend == INSTANCE SourceRouting
       WITH sb <- st, Base <- Square, Volatile <- {}, Problem <- 3, My_ID <- 1, Site <- 1 .. 4,
            Dests <- {4}, MULTIPATH_MAX_K <- 2, DG_LATENCY_REQ <- 5, DG_PROB_COUNT_THRESH <- 2,
            USHRT_MAX <- 65535, SOURCE_HIST_SIZE <- 2, SEQ_LIMIT <- 3, MaxSends <- 3, MaxAhead <- 2
PF == INSTANCE PriorityFlood
       WITH hold <- st, Near <- {1, 2}, Mail <- Letters, Client <- 9, MAX_PRIORITY <- 2,
            Max_Mess_Stored <- 2, MaxTime <- 2, Bursts <- ThreeBursts

Init ==
  \/ unit = "realtime" /\ RT!Init
  \/ unit = "bucket"   /\ B!Init
  \/ unit = "loss"     /\ L!Init
  \/ unit = "cost"     /\ C!Init
  \/ unit = "receive"  /\ P!Init
  \/ unit = "events"   /\ E!Init
  \/ unit = "memory"   /\ M!Init
  \/ unit = "array"    /\ A!Init
  \/ unit = "hash"     /\ H!Init
  \/ unit = "skip"     /\ K!Init
  \/ unit = "routing"  /\ R!Init
  \/ unit = "masks"    /\ SChange!Init
  \/ unit = "packets"  /\ SSend!Init
  \/ unit = "priority" /\ PF!Init

Next ==
  /\ UNCHANGED unit
  /\ \/ unit = "realtime" /\ RT!Next
     \/ unit = "bucket"   /\ B!Next
     \/ unit = "loss"     /\ L!Next
     \/ unit = "cost"     /\ C!Next
     \/ unit = "receive"  /\ P!Next
     \/ unit = "events"   /\ E!Next
     \/ unit = "memory"   /\ M!Next
     \/ unit = "array"    /\ A!Next
     \/ unit = "hash"     /\ H!Next
     \/ unit = "skip"     /\ K!Next
     \/ unit = "routing"  /\ R!Next
     \/ unit = "masks"    /\ SChange!Next
     \/ unit = "packets"  /\ SSend!Next
     \/ unit = "priority" /\ PF!Next

Spec == Init /\ [][Next]_subvars

-----------------------------------------------------------------------------
(* A leg carries and measures as routing and the sessions on it take for   *)
(* granted.  See RealtimeLink (a packet leaves the link once at most and   *)
(* as it was sent, whatever is retransmitted out of the history ring),     *)
(* LegBucket (the rate limit is kept and nothing is overtaken or lost but  *)
(* what found the buffer full), LinkLoss (each packet is counted once, as  *)
(* received or lost), LegCost (the cost is that of the measurements) and   *)
(* ReceivePath (a packet that is needed is not received over).             *)
LegsFaithful ==
  /\ unit = "realtime" => RT!OnceAndGenuine
  /\ unit = "bucket" => B!RateKept
  /\ unit = "loss" => L!LossCounted
  /\ unit = "cost" => C!CostTrue
  /\ unit = "receive" => P!BuffersOwned

(* What the daemon stands on behaves as its callers take for granted.  See *)
(* EventQueue (the loop holds exactly the events and descriptors asked     *)
(* for, in the order of their times), Memory (an object that somebody      *)
(* refers to is neither pooled nor freed), CircularArray, HashTable and    *)
(* SkipList (a container holds, finds and walks over what was put there).  *)
PlatformFaithful ==
  /\ unit = "events" => E!ScheduleKept /\ E!TimesAddUp
  /\ unit = "memory" => M!ReferencedIsLive
  /\ unit = "array" => A!ArrayFaithful
  /\ unit = "hash" => H!TableFaithful
  /\ unit = "skip" => K!SkipFaithful

(* See Routing: with the routing tables up to date a packet reaches every  *)
(* destination once along shortest paths.                                  *)
RoutesWork == unit = "routing" => R!RoutesWork

(* See SourceRouting: the masks that packets are stamped with are those of *)
(* the present costs and problems, and a stamped packet reaches its        *)
(* destination once.                                                       *)
MasksSound ==
  /\ unit = "masks" => SChange!CachedPathsBest /\ SChange!GraphMatchesProblems
  /\ unit = "packets" => SSend!ReachedOnce

(* See PriorityFlood: the send queues, the stored messages, their counts   *)
(* and the bounds of the levels in use describe the same messages.         *)
QueuesAgree == unit = "priority" => PF!QueuesAgree
=============================================================================
