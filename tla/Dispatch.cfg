\* Every adapter, every route, two messages.
CONSTANTS
  Kinds <- MCKinds
  Messages = {m1, m2}
SPECIFICATION Spec
INVARIANT AnsweredOnce
INVARIANT FailuresSurface
INVARIANT OwnField
CHECK_DEADLOCK FALSE
