SPECIFICATION Spec
CONSTANTS
  c1 = c1
  c2 = c2
  k1 = k1
  k2 = k2
  Clients = {c1, c2}
  Child <- MCChild
  First = s0
  NoProc = none
  MaxDeaths = 1
INVARIANTS
  ServedOnce
  
PROPERTIES
  KillsOnlyOld
  ClientsEnd
CHECK_DEADLOCK FALSE
