SPECIFICATION SettleSpec
CONSTANTS
  Daemon = {A, B}
  CtrlIds = {1, 2, 3, 4, 5}
  DEAD_LINK_CNT = 3
  CONNECT_LINK_CNT = 2
  hello_cnt_start = 2
  Interval = 3
  Delay = 2
  MaxFaulty = 1
  MaxNet = 5
  MaxNetLate = 5
  MaxCrash = 0
PROPERTY Settles
CHECK_DEADLOCK FALSE
