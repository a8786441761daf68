SPECIFICATION Spec
CONSTANTS
  Ops <- MCOps
  BufferN = 2
  Size = 3
  Step = 2
  UnaryItems = 3
  JoinItems = 2
  ErrorItems = 1
  MaxTicks = 2
INVARIANT OutputsAsDocumented
PROPERTY OutputsClose
CHECK_DEADLOCK FALSE
