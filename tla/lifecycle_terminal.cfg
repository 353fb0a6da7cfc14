SPECIFICATION Spec
CONSTANTS
  None = None
  Jobs = {j1}
  Mechanics = {m1}
  Garages = {g1}
  Requests = {r1, r2}
PROPERTY TerminalStays
CHECK_DEADLOCK FALSE
