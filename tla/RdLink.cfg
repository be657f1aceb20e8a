SPECIFICATION Spec
CONSTANTS
  MAX_WINDOW = 2
  Minimum_Window = 1
  MAX_BUFF_LINK = 4
  TCP_Fairness = TRUE
  Fast_Retransmit = TRUE
  Given <- MostlyA
  MaxMsgs = 6
  MaxNet = 1
INVARIANTS TypeOK AtMostOnce NoLoss NoAlarmExit BlockedOnlyBehindBacklog NothingStuck NoOrphanEvents IInv
PROPERTY Refinement
CHECK_DEADLOCK FALSE
