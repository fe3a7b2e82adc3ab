CONSTANTS
  d = d  a = a  b = b  e = e  x = x  y = y  t = t
  Paths <- MCPaths
  Child <- MCChild
  Long = {y}
  Buffer = 2
  Cases <- MCCases
  Tmp = t
  Firmwares = {0, 1, 100}
  Outputs <- MCOutputs
  MaxRead = 6
  MaxAbsent = 2
  MaxAsked = 2
  BlockSize = 2
  IntBound = 8
SPECIFICATION Spec
INVARIANTS ToolFailureReported
CHECK_DEADLOCK FALSE
