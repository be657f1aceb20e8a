SPECIFICATION LiveSpec
CONSTANTS
  Daemon = {A, B}
  CtrlIds <- FiveIds
  DEAD_LINK_CNT = 3
  CONNECT_LINK_CNT = 2
  hello_cnt_start = 2
  Interval = 3
  Delay = 1
  MaxFaulty = 1
  MaxNet = 5
  MaxNetLate = 5
  MaxCrash = 0
INVARIANT AgreedSessionsAreClean
PROPERTIES DeadPeerNoticed Settles
CHECK_DEADLOCK FALSE
