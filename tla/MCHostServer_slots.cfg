SPECIFICATION Spec
CONSTANTS
  Transports = {t1, t2}
  Targets <- MCTargets
  Scanned <- MCScanned
  Threads = {th1}
  NSlots = 1
  MaxUnregs = 0
  Null = null
  Conns = {k1}
  Names = {n1}
  Remotes = {"r1"}
  Smart = smart
  Selectors = {"any", "emulator-5554"}
SYMMETRY Symmetry
INVARIANTS
  SlotsValid
CHECK_DEADLOCK FALSE
