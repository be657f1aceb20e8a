SPECIFICATION Spec
CONSTANTS
  a = a
  b = b
  c = c
  g = g
  Node = {a, b}
  Leg <- Pair
  Edges <- Pair
  Groups = {}
  Configured <- Pair
  MaxChanges = 1
  MaxResends = 1
  Faulty = {a}
  MaxRestarts = 1
INVARIANTS NoAssertFails NewsOnItsWay EqualStampsAgree
CHECK_DEADLOCK FALSE
