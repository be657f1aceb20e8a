SPECIFICATION Spec
CONSTANTS
  a = a
  b = b
  c = c
  g = g
  Node = {a, b, c}
  Leg <- Row
  Edges = {}
  Groups <- GroupB
  Configured = {}
  MaxChanges = 1
  MaxResends = 1
  Faulty = {b}
  MaxRestarts = 1
INVARIANT EqualStampsAgree
CHECK_DEADLOCK FALSE
