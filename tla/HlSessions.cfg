SPECIFICATION Spec
CONSTANTS
  Daemon = {A, B}
  CtrlIds <- TwoIds
  DEAD_LINK_CNT = 1
  CONNECT_LINK_CNT = 2
  hello_cnt_start = 1
  MaxNet = 2
  MaxNetLate = 1
  MaxCrash = 1
SYMMETRY Symmetry
INVARIANTS NoAlarmExit AgreedSessionsAreClean HellosRun
CHECK_DEADLOCK FALSE
