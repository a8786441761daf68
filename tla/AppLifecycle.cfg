\* A goroutine, a supervised component, two hooks, Run beside Shutdown.
CONSTANTS
  Goroutines = {g1}
  Components = {c1}
  Hooks = {h1, h2}
  Runners = {r1}
  Stoppers = {s1}
SPECIFICATION AppFairSpec
INVARIANT HooksRun
INVARIANT ErrorsReported
PROPERTY ShutdownReturns
CHECK_DEADLOCK FALSE
