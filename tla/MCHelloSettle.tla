---------------------------- MODULE MCHelloSettle ----------------------------
(***************************************************************************)
(* What the hello protocol brings about in the end, checked side by side   *)
(* on two instances: `unit' says whether a behaviour is one of HelloSettle *)
(* or one of HelloLeg with a crash, where the other variables rest.        *)
(***************************************************************************)
EXTENDS HelloSettle

VARIABLE unit

FourIds == 1 .. 4
FiveIds == 1 .. 5

D == INSTANCE HelloLeg
       WITH CtrlIds <- FourIds, DEAD_LINK_CNT <- 1, CONNECT_LINK_CNT <- 1,
            hello_cnt_start <- 1, MaxNet <- 1, MaxNetLate <- 1, MaxCrash <- 1

liveVars == <<leg, up, foreign, net, crashes, calm, wait, pipe, unit>>

InDead(A) == unit = "dead" /\ A /\ UNCHANGED <<calm, wait, pipe, unit>>

LiveInit == SettleInit /\ unit \in {"settle", "dead"}

LiveNext ==
  \/ unit = "settle" /\ SettleNext /\ UNCHANGED unit
  \/ InDead(D!Next)

(* The fairness of SettleSpec and that of FairSpec. *)
LiveFairness ==
  /\ WF_liveVars(InTime /\ UNCHANGED unit)
  /\ \A p \in Daemon : /\ WF_liveVars(InDead(D!Send_Hello(p)))
                       /\ WF_liveVars(InDead(D!Dead_Leg(p)))
                       /\ SF_liveVars(InDead(D!Drain(p)))

LiveSpec == LiveInit /\ [][LiveNext]_liveVars /\ LiveFairness
=============================================================================
