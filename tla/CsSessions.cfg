SPECIFICATION Spec
CONSTANTS
  c1 = c1
  c2 = c2
  Client = {c1, c2}
  Stream = {c1}
  UdpConnect = {c2}
  Group = {g1, g2}
  FirstPort = 4
  LastPort = 6
  BindPorts = {4}
  MAX_CTRL_SK_REQUESTS = 10
  MAX_APP_CLIENTS = 2
  LeaveLimit = 0
  MaxRequests = 1
  MaxCalls = 3
  MaxPackets = 2
INVARIANTS PortsFindSessions GroupsAgree NobodyLeftBlocked SlotsVisible
CHECK_DEADLOCK FALSE
