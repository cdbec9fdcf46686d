SPECIFICATION Spec
CONSTANTS
  a = a
  b = b
  Tails = {a, b}
  MaxLines = 2
  MaxPrints = 1
INVARIANTS
  ScriptTypeOK
  LinesInOrder
PROPERTIES
  LinesHeard
  Stops
CHECK_DEADLOCK FALSE
