SPECIFICATION UnitsSpec
CONSTANTS
  endA = endA
  endB = endB
  d1 = d1
  d2 = d2
  d3 = d3
  End = {endA, endB}
  Window = 2
  Frags <- TwoThenOne
  Minimum_Window = 1
  Msg_Per_SAA = 2
  BUCKET_CAP = 1
  Given <- GivenToOne
  Configurations <- ThreeLinks
  Failures <- SomeFail
  MaxRestarts = 1
  MaxNet = 1
  Peer = {endA, endB}
  Ping_Threshold = 2
  MaxStarts = 3
  MaxFlight = 2
  Daemon = {d1, d3}
  Source = d1
  Destination = d3
  Wire <- Direct
  Routings <- OnlyDirect
  Failing = {d1, d3}
  MAX_MESS_PER_FLOW = 1
  MaxMessages = 2
  MaxClock = 3
  MaxQueue = 1
  Site = {1, 2, 3}
  Cable <- Row
  Costs = {2}
  MaxChanges = 2
  MaxEpoch = 3
INVARIANTS
  InOrderOnce
  HonestAcksPass
  NothingForgotten
  EstablishedMeansShared
  KeptUntilDelivered
  FlowsDoNotStall
  GraphsAgree
CHECK_DEADLOCK FALSE
