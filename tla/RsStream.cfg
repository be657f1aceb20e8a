SPECIFICATION Spec
CONSTANTS
  MAX_WINDOW = 3
  MAX_CG_WINDOW = 4
  MAX_BUFF_SESS = 2
  MAX_BUFF_LINK = 1
  Hello_Limit = 1
  Nack_Gap = 1
  TCP_Fairness = FALSE
  Stale <- FreshOrReused
  MaxMsgs <- Two
  MaxFaults = 1
  Closers = {"connector"}
  MaxNet = 1
INVARIANTS Sequenced NoAlarmExit EndsComplete
CHECK_DEADLOCK FALSE
