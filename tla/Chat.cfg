SPECIFICATION TransportSpec
CONSTANTS
  Callers = {a, b, c}
  Connections = 1
  Deadline = 4
  PoolWait = 1
  MaxWait = 1
  Waits = {0, 1, 2}
  None = None
SYMMETRY Symmetry
INVARIANT WithinDeadline
 
