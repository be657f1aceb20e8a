SPECIFICATION Spec
CONSTANTS
  e1 = e1
  e2 = e2
  f1 = f1
  f2 = f2
  f3 = f3
INVARIANTS
  LegsFaithful
  PlatformFaithful
  QueuesAgree
  RoutesWork
  MasksSound
CHECK_DEADLOCK FALSE
