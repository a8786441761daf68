--------------------------- MODULE MCAppLifecycle ---------------------------
(***************************************************************************)
(* AppLifecycle over constants and variables of its own, so that a module  *)
(* can reason about it beside the hub and the cache.                       *)
(***************************************************************************)
CONSTANTS Goroutines, Components, Hooks, Runners, Stoppers

VARIABLES
  cancelled, job, started, drained, counted, goErr, hookmu, reg, hooks, phase, pending,
  hookRun, expired, hookErrs, result, waiter, lateJobs, failures, ran

\* The calls of Shutdown, the wait group and the hooks still to start have
\* names of their own.
A == INSTANCE AppLifecycle
       WITH Callers <- Stoppers, wg <- counted, todo <- pending, late <- lateJobs

ASSUME AppAssumption == A!AppSets

AppSpec == A!Spec
AppFairSpec == A!FairSpec

\* Every accepted hook runs, once, in its turn and after the goroutines.
HooksRun == A!HooksRun

\* What Run and Shutdown return names every failure.
ErrorsReported == A!ErrorsReported

\* Every call of Run or Shutdown under way returns.
ShutdownReturns == A!ShutdownReturns
=============================================================================
