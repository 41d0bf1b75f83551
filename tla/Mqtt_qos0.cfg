SPECIFICATION Spec
CONSTANTS
  HandlerMax = 2
  WireMax = 2
INVARIANTS
  CountedIsWritten
