SPECIFICATION FairSpec
CONSTANTS
  a = a
  b = b
  c = c
  g = g
  Node = {a, b, c}
  Leg <- Row
  Edges = {}
  Groups <- GroupA
  Configured = {}
  MaxChanges = 2
  MaxResends = 0
  Faulty = {a, b}
  MaxRestarts = 1
INVARIANT OwnStatesTrue
PROPERTY Converges
CHECK_DEADLOCK FALSE
