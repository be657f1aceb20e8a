SPECIFICATION FairSpec
CONSTANTS
  MAX_WINDOW = 2
  Minimum_Window = 1
  MAX_BUFF_LINK = 4
  TCP_Fairness = FALSE
  Fast_Retransmit = TRUE
  Given <- OneWay
  MaxMsgs = 3
  MaxNet = 1
PROPERTY EventuallyDelivered
CHECK_DEADLOCK FALSE
