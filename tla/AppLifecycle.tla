---------------------------- MODULE AppLifecycle ----------------------------
(***************************************************************************)
(* app.App: one cancelable root context, supervised goroutines (App.Go,    *)
(* App.Supervise), LIFO shutdown hooks (App.OnShutdown), and one ordered   *)
(* teardown shared by App.Run and App.Shutdown (src/app/app.go).           *)
(*                                                                         *)
(* A step is what one goroutine does between two synchronisation points:   *)
(* the non-blocking ctx check of Go and its wg.Add are two steps, because  *)
(* nothing orders them against the cancel and the wg.Wait of Shutdown.     *)
(***************************************************************************)
EXTENDS Sequences, SequencesExt

CONSTANTS
  Goroutines,   \* calls of App.Go, each with the goroutine it may start
  Components,   \* the calls that come through App.Supervise instead
  Hooks,        \* calls of App.OnShutdown, each with its hook function
  Runners,      \* goroutines that call App.Run
  Callers       \* goroutines that call App.Shutdown directly

Jobs == Goroutines \cup Components
Waiters == Runners \cup Callers
NoOne == "free"
Teardown == "teardown"   \* holds hookmu only inside one step of Snapshot

AppSets ==
  /\ Goroutines \cap Components = {}
  /\ Runners \cap Callers = {}
  /\ Hooks \cap {NoOne, Teardown} = {}

VARIABLES
  cancelled,    \* a.ctx is done
  job,          \* where each Go / Supervise call and its goroutine stands
  started,      \* components whose start function has run
  drained,      \* components whose done channel is closed
  wg,           \* a.wg: the goroutines it counts
  goErr,        \* a.goErr: the goroutines whose error is recorded
  hookmu,       \* a.hookmu: who holds it
  reg,          \* where each OnShutdown call stands
  hooks,        \* a.hooks: accepted hooks in registration order
  phase,        \* where the one teardown of shutdownOnce stands
  todo,         \* hooks the teardown has still to start, next one last
  hookRun,      \* the goroutine runHook starts for each hook
  expired,      \* the deadline of the hook being awaited has passed
  hookErrs,     \* hooks whose error the teardown collected
  result,       \* a.shutdownErr as the set of joined errors
  waiter,       \* where each Run / Shutdown call stands
  late,         \* history: goroutines counted by wg only after Wait returned
  failures,     \* history: goroutines whose function returned an error
  ran           \* history: hooks in the order the teardown started them

jobVars  == <<job, started, drained, wg, goErr, late, failures>>
hookVars == <<hookmu, reg, hooks>>
downVars == <<phase, todo, hookRun, expired, hookErrs, result, ran>>
vars == <<cancelled, jobVars, hookVars, downVars, waiter>>

Init ==
  /\ cancelled = FALSE
  /\ job = [j \in Jobs |-> "idle"]
  /\ started = {} /\ drained = {}
  /\ wg = {} /\ goErr = {} /\ late = {} /\ failures = {}
  /\ hookmu = NoOne
  /\ reg = [h \in Hooks |-> "idle"]
  /\ hooks = <<>>
  /\ phase = "idle"
  /\ todo = <<>> /\ ran = <<>>
  /\ hookRun = [h \in Hooks |-> "idle"]
  /\ expired = FALSE
  /\ hookErrs = {} /\ result = {}
  /\ waiter = [w \in Waiters |-> "idle"]

-----------------------------------------------------------------------------
(***************************************************************************)
(* App.Supervise: a ctx check, then start(ctx), then App.Go, which checks  *)
(* the context again.                                                      *)
(***************************************************************************)
SuperviseCheck(c) ==
  /\ job[c] = "idle"
  /\ job' = [job EXCEPT ![c] = IF cancelled THEN "ignored" ELSE "starting"]
  /\ UNCHANGED <<cancelled, started, drained, wg, goErr, late, failures, hookVars, downVars, waiter>>

SuperviseStart(c) ==
  /\ job[c] = "starting"
  /\ started' = started \cup {c}
  /\ job' = [job EXCEPT ![c] = "calling"]
  /\ UNCHANGED <<cancelled, drained, wg, goErr, late, failures, hookVars, downVars, waiter>>

\* The component closes its done channel by its own doing.
Drain(c) ==
  /\ c \in started \ drained
  /\ drained' = drained \cup {c}
  /\ UNCHANGED <<cancelled, job, started, wg, goErr, late, failures, hookVars, downVars, waiter>>

(***************************************************************************)
(* App.Go: the check of ctx.Done and the wg.Add are separate steps.        *)
(***************************************************************************)
MayCallGo(j) == job[j] = IF j \in Components THEN "calling" ELSE "idle"

GoCheck(j) ==
  /\ MayCallGo(j)
  /\ job' = [job EXCEPT ![j] = IF cancelled THEN "ignored" ELSE "admitted"]
  /\ UNCHANGED <<cancelled, started, drained, wg, goErr, late, failures, hookVars, downVars, waiter>>

WaitReturned == phase \in {"lock", "hooks", "awaiting", "done"}

GoAdd(j) ==
  /\ job[j] = "admitted"
  /\ wg' = wg \cup {j}
  /\ job' = [job EXCEPT ![j] = "running"]
  /\ late' = IF WaitReturned THEN late \cup {j} ELSE late
  /\ UNCHANGED <<cancelled, started, drained, goErr, failures, hookVars, downVars, waiter>>

\* Mutant: wg.Done comes right after fn instead of at the end of the goroutine.
FnReturnDone(j) ==
  /\ job[j] = "running" /\ j \in Goroutines
  /\ job' = [job EXCEPT ![j] = "failed"]
  /\ failures' = failures \cup {j}
  /\ wg' = wg \ {j}
  /\ UNCHANGED <<cancelled, started, drained, goErr, late, hookVars, downVars, waiter>>

\* fn returns: with or without an error; a supervised component's fn is
\* "wait for done, return nil".
FnReturn(j) ==
  /\ job[j] = "running"
  /\ \/ /\ j \in Goroutines
        /\ job' = [job EXCEPT ![j] = "failed"]
        /\ failures' = failures \cup {j}
     \/ /\ j \in Components => j \in drained
        /\ job' = [job EXCEPT ![j] = "returned"]
        /\ UNCHANGED failures
  /\ UNCHANGED <<cancelled, started, drained, wg, goErr, late, hookVars, downVars, waiter>>

GoRecord(j) ==
  /\ job[j] = "failed"
  /\ goErr' = goErr \cup {j}
  /\ job' = [job EXCEPT ![j] = "recorded"]
  /\ UNCHANGED <<cancelled, started, drained, wg, late, failures, hookVars, downVars, waiter>>

GoFailFast(j) ==
  /\ job[j] = "recorded"
  /\ cancelled' = TRUE
  /\ job' = [job EXCEPT ![j] = "returned"]
  /\ UNCHANGED <<started, drained, wg, goErr, late, failures, hookVars, downVars, waiter>>

GoDone(j) ==
  /\ job[j] = "returned"
  /\ wg' = wg \ {j}
  /\ job' = [job EXCEPT ![j] = "exited"]
  /\ UNCHANGED <<cancelled, started, drained, goErr, late, failures, hookVars, downVars, waiter>>

-----------------------------------------------------------------------------
(***************************************************************************)
(* App.OnShutdown: the ctx check and the append are under hookmu.          *)
(***************************************************************************)
\* Mutant: hooks are accepted after the shutdown has begun.
HookCheckAnytime(h) ==
  /\ reg[h] = "idle"
  /\ hookmu = NoOne
  /\ reg' = [reg EXCEPT ![h] = "accepted"]
  /\ hookmu' = h
  /\ UNCHANGED <<cancelled, jobVars, hooks, downVars, waiter>>

HookCheck(h) ==
  /\ reg[h] = "idle"
  /\ hookmu = NoOne
  /\ \/ /\ cancelled
        /\ reg' = [reg EXCEPT ![h] = "ignored"]
        /\ UNCHANGED hookmu
     \/ /\ ~cancelled
        /\ reg' = [reg EXCEPT ![h] = "accepted"]
        /\ hookmu' = h
  /\ UNCHANGED <<cancelled, jobVars, hooks, downVars, waiter>>

HookAppend(h) ==
  /\ reg[h] = "accepted"
  /\ hookmu = h
  /\ hooks' = Append(hooks, h)
  /\ hookmu' = NoOne
  /\ reg' = [reg EXCEPT ![h] = "registered"]
  /\ UNCHANGED <<cancelled, jobVars, downVars, waiter>>

-----------------------------------------------------------------------------
(***************************************************************************)
(* App.Run waits for a signal or the context, then calls Shutdown; every   *)
(* Shutdown goes through shutdownOnce and the shutdownDone channel.        *)
(***************************************************************************)
\* A signal, or the end of Run's parent context, may come at any moment; the
\* end of the application's context lets Run go on as well.
RunSelect(r) ==
  /\ r \in Runners /\ waiter[r] = "idle"
  /\ waiter' = [waiter EXCEPT ![r] = "calling"]
  /\ UNCHANGED <<cancelled, jobVars, hookVars, downVars>>

CallShutdown(s) ==
  /\ s \in Callers /\ waiter[s] = "idle"
  /\ waiter' = [waiter EXCEPT ![s] = "calling"]
  /\ UNCHANGED <<cancelled, jobVars, hookVars, downVars>>

\* shutdownOnce.Do: the first caller cancels the context; the others block.
OnceDo(w) ==
  /\ waiter[w] = "calling"
  /\ phase = "idle"
  /\ phase' = "wait"
  /\ cancelled' = TRUE
  /\ UNCHANGED <<jobVars, hookVars, todo, hookRun, expired, hookErrs, result, ran, waiter>>

ShutdownReturn(w) ==
  /\ waiter[w] = "calling"
  /\ phase = "done"
  /\ waiter' = [waiter EXCEPT ![w] = "returned"]
  /\ UNCHANGED <<cancelled, jobVars, hookVars, downVars>>

-----------------------------------------------------------------------------
(***************************************************************************)
(* The teardown inside shutdownOnce: wg.Wait, snapshot of the hooks under  *)
(* hookmu, the hooks last to first, each awaited until it returns or its   *)
(* own deadline passes, and the join of all errors.                        *)
(***************************************************************************)
\* Mutant: the hooks do not wait for the supervised goroutines.
WaitSkipped ==
  /\ phase = "wait"
  /\ phase' = "lock"
  /\ UNCHANGED <<cancelled, jobVars, hookVars, todo, hookRun, expired, hookErrs, result, ran, waiter>>

Wait ==
  /\ phase = "wait"
  /\ wg = {}
  /\ phase' = "lock"
  /\ UNCHANGED <<cancelled, jobVars, hookVars, todo, hookRun, expired, hookErrs, result, ran, waiter>>

\* Mutant: the slice of hooks is read without hookmu.
SnapshotUnlocked ==
  /\ phase = "lock"
  /\ todo' = hooks
  /\ phase' = "hooks"
  /\ UNCHANGED <<cancelled, jobVars, hookVars, hookRun, expired, hookErrs, result, ran, waiter>>

Snapshot ==
  /\ phase = "lock"
  /\ hookmu = NoOne
  /\ todo' = hooks
  /\ phase' = "hooks"
  /\ UNCHANGED <<cancelled, jobVars, hookVars, hookRun, expired, hookErrs, result, ran, waiter>>

\* runHook: a fresh deadline, a goroutine for the hook.
StartHook ==
  /\ phase = "hooks"
  /\ todo # <<>>
  /\ LET h == Last(todo)
     IN  /\ hookRun' = [hookRun EXCEPT ![h] = "running"]
         /\ ran' = Append(ran, h)
  /\ expired' = FALSE
  /\ phase' = "awaiting"
  /\ UNCHANGED <<cancelled, jobVars, hookVars, todo, hookErrs, result, waiter>>

HookReturn(h) ==
  /\ hookRun[h] = "running"
  /\ \E out \in {"ok", "err"} : hookRun' = [hookRun EXCEPT ![h] = out]
  /\ UNCHANGED <<cancelled, jobVars, hookVars, phase, todo, expired, hookErrs, result, ran, waiter>>

Deadline ==
  /\ phase = "awaiting"
  /\ ~expired
  /\ expired' = TRUE
  /\ UNCHANGED <<cancelled, jobVars, hookVars, phase, todo, hookRun, hookErrs, result, ran, waiter>>

\* Mutant: a hook is awaited until it returns, without a deadline.
AwaitHookForever ==
  LET h == Last(todo)
  IN  /\ phase = "awaiting"
      /\ hookRun[h] # "running"
      /\ hookErrs' = IF hookRun[h] = "err" THEN hookErrs \cup {h} ELSE hookErrs
      /\ todo' = Front(todo)
      /\ phase' = "hooks"
      /\ UNCHANGED <<cancelled, jobVars, hookVars, hookRun, expired, result, ran, waiter>>

\* The select of runHook: a returned hook and a passed deadline may both be
\* ready, and then either branch is taken.
AwaitHook ==
  LET h == Last(todo)
  IN  /\ phase = "awaiting"
      /\ \/ hookRun[h] = "ok" /\ UNCHANGED hookErrs
         \/ hookRun[h] = "err" /\ hookErrs' = hookErrs \cup {h}
         \/ expired /\ hookErrs' = hookErrs \cup {h}
      /\ todo' = Front(todo)
      /\ phase' = "hooks"
      /\ UNCHANGED <<cancelled, jobVars, hookVars, hookRun, expired, result, ran, waiter>>

Collect ==
  /\ phase = "hooks"
  /\ todo = <<>>
  /\ result' = goErr \cup hookErrs
  /\ phase' = "done"
  /\ UNCHANGED <<cancelled, jobVars, hookVars, todo, hookRun, expired, hookErrs, ran, waiter>>

-----------------------------------------------------------------------------
GoStep(j) ==
  GoCheck(j) \/ GoAdd(j) \/ FnReturn(j) \/ GoRecord(j) \/ GoFailFast(j) \/ GoDone(j)
ComponentStep(c) == SuperviseCheck(c) \/ SuperviseStart(c) \/ Drain(c)
HookStep(h) == HookCheck(h) \/ HookAppend(h) \/ HookReturn(h)
WaiterStep(w) == RunSelect(w) \/ CallShutdown(w) \/ OnceDo(w) \/ ShutdownReturn(w)
TeardownStep == Wait \/ Snapshot \/ StartHook \/ Deadline \/ AwaitHook \/ Collect

Next ==
  \/ \E j \in Jobs : GoStep(j)
  \/ \E c \in Components : ComponentStep(c)
  \/ \E h \in Hooks : HookStep(h)
  \/ \E w \in Waiters : WaiterStep(w)
  \/ TeardownStep

(***************************************************************************)
(* Fairness.  A goroutine that is past a call runs on.  A supervised fn    *)
(* returns, and a component drains, once the context is done (their        *)
(* contract); a hook need not return at all, its deadline passes.  Nobody  *)
(* has to call anything.                                                   *)
(***************************************************************************)
Fairness ==
  /\ \A j \in Jobs :
       /\ WF_vars(GoAdd(j) \/ GoRecord(j) \/ GoFailFast(j) \/ GoDone(j))
       /\ WF_vars(cancelled /\ FnReturn(j))
  /\ \A c \in Components : WF_vars(SuperviseStart(c) \/ (job[c] = "calling" /\ GoCheck(c)))
  /\ \A c \in Components : WF_vars(cancelled /\ Drain(c))
  /\ \A h \in Hooks : WF_vars(HookAppend(h))
  /\ \A w \in Waiters : WF_vars((cancelled /\ RunSelect(w)) \/ OnceDo(w) \/ ShutdownReturn(w))
  /\ WF_vars(TeardownStep)

Spec == Init /\ [][Next]_vars
FairSpec == Spec /\ Fairness

-----------------------------------------------------------------------------
(***************************************************************************)
(* Properties.                                                             *)
(***************************************************************************)
JobStates == {"idle", "starting", "calling", "ignored", "admitted", "running",
              "failed", "recorded", "returned", "exited"}
InWg == {"running", "failed", "recorded", "returned"}
Phases == {"idle", "wait", "lock", "hooks", "awaiting", "done"}

CtxType == cancelled \in BOOLEAN
JobType ==
  /\ job \in [Jobs -> JobStates]
  /\ started \subseteq Components /\ drained \subseteq Components
  /\ wg \subseteq Jobs /\ goErr \subseteq Jobs
  /\ late \subseteq Jobs /\ failures \subseteq Jobs
HookType ==
  /\ hookmu \in Hooks \cup {NoOne}
  /\ reg \in [Hooks -> {"idle", "accepted", "registered", "ignored"}]
  /\ hooks \in Seq(Hooks)
DownType ==
  /\ phase \in Phases
  /\ todo \in Seq(Hooks) /\ ran \in Seq(Hooks)
  /\ phase = "awaiting" => todo # <<>>
  /\ hookRun \in [Hooks -> {"idle", "running", "ok", "err"}]
  /\ expired \in BOOLEAN
  /\ hookErrs \subseteq Hooks
  /\ result \subseteq Jobs \cup Hooks
WaiterType == waiter \in [Waiters -> {"idle", "calling", "returned"}]

TypeOK == CtxType /\ JobType /\ HookType /\ DownType /\ WaiterType

\* Every goroutine wg counted when Wait returned has exited before the first
\* hook runs (Shutdown waits, then runs the hooks); only one that Go counted
\* after that may still be there.
HooksAfterGoroutines ==
  WaitReturned => \A j \in Jobs : job[j] \in InWg => j \in late

\* Hooks run in the reverse of the order OnShutdown accepted them, none
\* skipped, none twice, whichever fails or overruns its deadline.
HooksRunLIFO == ran = SubSeq(Reverse(hooks), 1, Len(ran))

\* A hook OnShutdown accepted (it did not report "ignored") has been started
\* by the time any Run or Shutdown call returns.
AcceptedHooksRun ==
  \A w \in Waiters : waiter[w] = "returned" =>
    \A h \in Hooks : reg[h] \in {"accepted", "registered"} => h \in Range(ran)

\* All three together: every accepted hook runs, once, in its turn, after the
\* goroutines have gone and before anybody is told that the shutdown is over.
HooksRun == HooksAfterGoroutines /\ HooksRunLIFO /\ AcceptedHooksRun

\* What Run and Shutdown return names every goroutine that failed, except one
\* Go counted after Wait returned, and every hook that failed in time.
ErrorsReported ==
  phase = "done" =>
    /\ failures \ late \subseteq result
    /\ {h \in Hooks : hookRun[h] = "err"} \subseteq result

\* Every call of Shutdown or Run that is under way returns, even when a hook
\* never does, as long as the supervised functions honour the context.
ShutdownReturns ==
  \A w \in Waiters : waiter[w] = "calling" ~> waiter[w] = "returned"
=============================================================================
