----------------------------- MODULE FilesProofs -----------------------------
(* Conditional writes: the lock file gives its maker the file to itself, and *)
(* until somebody writes regardless of it a conditional write is the atomic  *)
(* step of ConditionalRegister, for every number of writers, versions and    *)
(* attempts, killed writers included.                                        *)
(*                                                                           *)
(* File routes: no interleaving of calls, failures and kills loses or tears  *)
(* a file, for every number of clients, files and calls and each backend.    *)
(* The invariant Intact is built in layers, each with its own step lemma:    *)
(* Types and Opened (what a call has open is a file there is or was),        *)
(* AllSound (what a call is doing fits what it was asked for), Bounds and    *)
(* Tags (a call's update is nobody else's before it is written), Apart,      *)
(* Whole, First and Bare (the files on the disk), Owned (the lock), Seen     *)
(* (what a patch has read), AllMoving and AllCarrying (where the content and *)
(* the metadata of a move are).                                              *)
EXTENDS MCFiles, FiniteSetTheorems, TLAPS

-----------------------------------------------------------------------------
(* Conditional writes.                                                       *)

HolderInv ==
    /\ phase \in [Writers -> Phases]
    /\ OneHolder

LEMMA HolderInit == Init => HolderInv
BY DEF Init, HolderInv, OneHolder, Phases, Holding

LEMMA HolderStep == HolderInv /\ [Next]_vars => HolderInv'
<1> SUFFICES ASSUME HolderInv, [Next]_vars PROVE HolderInv'
  OBVIOUS
<1> USE DEF HolderInv, OneHolder, Phases, Holding, Go
<1>1. CASE RemoveStaleLock BY <1>1 DEF RemoveStaleLock, Abandoned
<1>2. CASE Tick BY <1>2 DEF Tick
<1>3. CASE OtherWrite BY <1>3 DEF OtherWrite
<1>4. CASE OtherDelete BY <1>4 DEF OtherDelete
<1>5. ASSUME NEW w \in Writers, Look(w) PROVE HolderInv' BY <1>5 DEF Look
<1>6. ASSUME NEW w \in Writers, Call(w) PROVE HolderInv' BY <1>6 DEF Call
<1>7. ASSUME NEW w \in Writers, Kill(w) PROVE HolderInv' BY <1>7 DEF Kill
<1>8. ASSUME NEW w \in Writers, WriterStep(w) PROVE HolderInv'
  <2>1. CASE Acquire(w)
    <3>1. lock = None /\ lock' = w BY <2>1 DEF Acquire, LockFree
    <3>2. \A x \in Writers : x # w => phase[x] \notin Holding \/ None = x
      BY <3>1
    <3>3. phase' = [phase EXCEPT ![w] = "reading"] BY <2>1 DEF Acquire
    <3> QED BY <3>1, <3>2, <3>3, NoneIsNoWriter DEF None
  <2>2. CASE Blocked(w) BY <2>2 DEF Blocked
  <2>3. CASE Retry(w) BY <2>3 DEF Retry
  <2>4. CASE GiveUp(w) BY <2>4 DEF GiveUp
  <2>5. CASE Read(w) BY <2>5 DEF Read
  <2>6. CASE Stat(w) BY <2>6 DEF Stat
  <2>7. CASE DryRun(w) BY <2>7 DEF DryRun
  <2>8. CASE WriteTemp(w) BY <2>8 DEF WriteTemp
  <2>9. CASE Rename(w) BY <2>9 DEF Rename
  <2>10. CASE WriteMetadata(w) BY <2>10 DEF WriteMetadata
  <2>11. CASE Fail(w) BY <2>11 DEF Fail
  <2>12. CASE Release(w) BY <2>12 DEF Release
  <2> QED BY <1>8, <2>1, <2>2, <2>3, <2>4, <2>5, <2>6, <2>7, <2>8, <2>9, <2>10,
             <2>11, <2>12 DEF WriterStep
<1>9. CASE UNCHANGED vars BY <1>9 DEF vars
<1> HIDE DEF HolderInv
<1> QED BY <1>1, <1>2, <1>3, <1>4, <1>5, <1>6, <1>7, <1>8, <1>9 DEF Next

\* Whoever is past the lock made the lock file that exists.
THEOREM OneHolderHolds == Spec => []OneHolder
<1>1. HolderInv => OneHolder BY DEF HolderInv
<1> QED BY <1>1, HolderInit, HolderStep, PTL DEF Spec

-----------------------------------------------------------------------------
(* Atomicity. Between its check and its rename, what a writer checked stays  *)
(* true, since only a writer with the lock changes the file, until others do.*)

EtagType == [kind : {"strong", "weak"}, val : Nat]

Checked ==
    ~others => \A w \in Writers : phase[w] \in {"writing", "renaming"} => Names(etag[w], file)

SwapInv ==
    /\ HolderInv
    /\ stamps \in Seq(Stamps)
    /\ file \in 0 .. Len(stamps)
    /\ clock \in Stamps
    /\ etag \in [Writers -> EtagType]
    /\ took \in [Writers -> Nat]
    /\ temp \in [Writers -> Stamps \cup {0}]
    /\ \A w \in Writers : phase[w] = "renaming" => temp[w] \in Stamps
    /\ \A w \in Writers :
        phase[w] \in {"looked", "locking", "backoff", "reading", "stating", "writing", "renaming"}
            => took[w] = 0
    /\ Checked

LEMMA SwapInit == Init => SwapInv
BY WriteAssumption, HolderInit DEF Init, SwapInv, EtagType, Checked

LEMMA SwapStep == SwapInv /\ [Next]_vars => SwapInv'
<1> SUFFICES ASSUME SwapInv, [Next]_vars PROVE SwapInv'
  OBVIOUS
<1>a. HolderInv'
  BY HolderStep DEF SwapInv
<1>b. phase \in [Writers -> Phases] /\ OneHolder
  BY DEF SwapInv, HolderInv
<1> USE <1>a, <1>b, WriteAssumption DEF SwapInv, EtagType, Checked, Go, Phases, disk
<1>1. CASE RemoveStaleLock BY <1>1 DEF RemoveStaleLock, Names
<1>2. CASE Tick BY <1>2 DEF Tick, Names
<1>3. CASE OtherWrite \/ OtherDelete
  <2>1. CASE OtherWrite
    <3>1. /\ stamps' \in Seq(Stamps) /\ Len(stamps') = Len(stamps) + 1
          /\ file' \in 0 .. Len(stamps')
      BY <2>1 DEF OtherWrite
    <3> QED BY <2>1, <3>1 DEF OtherWrite
  <2>2. CASE OtherDelete BY <2>2 DEF OtherDelete
  <2> QED BY <1>3, <2>1, <2>2
<1>4. ASSUME NEW w \in Writers, Look(w) PROVE SwapInv'
  <2>1. stamps[file] \in Nat
    <3>1. file \in 1 .. Len(stamps) BY <1>4 DEF Look
    <3>2. stamps[file] \in Stamps BY <3>1
    <3> QED BY <3>2
  <2> QED BY <1>4, <2>1 DEF Look, Names
<1>5. ASSUME NEW w \in Writers, Call(w) PROVE SwapInv' BY <1>5 DEF Call, Names
<1>6. ASSUME NEW w \in Writers, Kill(w) PROVE SwapInv' BY <1>6 DEF Kill, Names
<1>7. ASSUME NEW w \in Writers, WriterStep(w) PROVE SwapInv'
  <2>1. CASE Acquire(w) BY <2>1 DEF Acquire, Names
  <2>2. CASE Blocked(w) BY <2>2 DEF Blocked, Names
  <2>3. CASE Retry(w) BY <2>3 DEF Retry, Names
  <2>4. CASE GiveUp(w) BY <2>4 DEF GiveUp, Names
  <2>5. CASE Read(w) BY <2>5 DEF Read, Names
  <2>6. CASE Stat(w) BY <2>6 DEF Stat, Names
  <2>7. CASE DryRun(w) BY <2>7 DEF DryRun, Names
  <2>8. CASE WriteTemp(w) BY <2>8 DEF WriteTemp, Names
  <2>9. CASE Rename(w)
    <3>1. /\ phase[w] = "renaming" /\ temp[w] \in Stamps
          /\ phase' = [phase EXCEPT ![w] = "metadata"]
      BY <2>9 DEF Rename
    <3>2. /\ stamps' \in Seq(Stamps) /\ Len(stamps') = Len(stamps) + 1
          /\ file' \in 0 .. Len(stamps')
      BY <2>9, <3>1 DEF Rename, Committed
    <3>3. \A x \in Writers : phase'[x] \notin {"writing", "renaming"}
      BY <3>1 DEF OneHolder, Holding
    <3> QED BY <2>9, <3>1, <3>2, <3>3 DEF Rename, Committed
  <2>10. CASE WriteMetadata(w) BY <2>10 DEF WriteMetadata, Names
  <2>11. CASE Fail(w) BY <2>11 DEF Fail, Names
  <2>12. CASE Release(w) BY <2>12 DEF Release, Names
  <2> HIDE DEF SwapInv
  <2> QED BY <1>7, <2>1, <2>2, <2>3, <2>4, <2>5, <2>6, <2>7, <2>8, <2>9, <2>10,
             <2>11, <2>12 DEF WriterStep
<1>8. CASE UNCHANGED vars BY <1>8 DEF vars, Names
<1> HIDE DEF SwapInv
<1> QED BY <1>1, <1>2, <1>3, <1>4, <1>5, <1>6, <1>7, <1>8 DEF Next

LEMMA InitRefines == Init => Register!RegInit
BY WriteAssumption DEF Init, Register!RegInit, Register!NoCall, AsCall

\* A step of the writers is a step of the register, or leaves it alone.
RegStep == others' \/ \E w \in Writers : Register!Begin(w) \/ Register!Commit(w) \/ Register!End(w)

LEMMA StepRefines == SwapInv /\ [Next]_vars => [RegStep]_(Register!regVars)
<1> SUFFICES ASSUME SwapInv, Next PROVE RegStep \/ UNCHANGED Register!regVars
  BY DEF vars, Register!regVars, AsCall
<1> DEFINE mapped == [w \in Writers |-> AsCall(w)]
<1>b. phase \in [Writers -> Phases]
  BY DEF SwapInv, HolderInv
<1> USE <1>b DEF SwapInv, Go, Phases, disk, Register!regVars
<1>1. CASE RemoveStaleLock \/ Tick BY <1>1 DEF RemoveStaleLock, Tick, AsCall
<1>3. CASE OtherWrite \/ OtherDelete BY <1>3 DEF OtherWrite, OtherDelete, RegStep
<1>4. ASSUME NEW w \in Writers, Look(w) PROVE UNCHANGED Register!regVars
  BY <1>4 DEF Look, AsCall
<1>5. ASSUME NEW w \in Writers, Call(w) PROVE Register!Begin(w)
  BY <1>5 DEF Call, AsCall, Register!Begin, Register!Etag, EtagType
<1>6. ASSUME NEW w \in Writers, Kill(w) PROVE UNCHANGED Register!regVars
  BY <1>6 DEF Kill, AsCall
<1>7. ASSUME NEW w \in Writers, WriterStep(w) PROVE RegStep \/ UNCHANGED Register!regVars
  <2>1. CASE Acquire(w) BY <2>1 DEF Acquire, AsCall
  <2>2. CASE Blocked(w) BY <2>2 DEF Blocked, AsCall
  <2>3. CASE Retry(w) BY <2>3 DEF Retry, AsCall
  <2>4. CASE GiveUp(w)
    <3>1. Register!End(w) BY <2>4 DEF GiveUp, AsCall, Register!End, Register!NoCall
    <3> QED BY <3>1 DEF RegStep
  <2>5. CASE Read(w) BY <2>5 DEF Read, AsCall
  <2>6. CASE Stat(w) BY <2>6 DEF Stat, AsCall
  <2>7. CASE DryRun(w) BY <2>7 DEF DryRun, AsCall
  <2>8. CASE WriteTemp(w) BY <2>8 DEF WriteTemp, AsCall
  <2>9. CASE Rename(w)
    <3>1. mapped[w].state = "open" /\ mapped[w].etag = etag[w]
      BY <2>9 DEF Rename, AsCall
    <3>2. ~others => Register!Names(etag[w], file)
      BY <2>9 DEF Rename, Checked, Names, Register!Names
    <3>3. mapped' = [mapped EXCEPT ![w].state = "took"]
      <4>1. took' = [took EXCEPT ![w] = Len(stamps) + 1] /\ Len(stamps) + 1 # 0
        BY <2>9 DEF Rename, Committed
      <4>2. etag' = etag /\ phase' = [phase EXCEPT ![w] = "metadata"]
        BY <2>9 DEF Rename
      <4>3. took[w] = 0 /\ phase[w] = "renaming"
        BY <2>9 DEF Rename
      <4>4. AsCall(w)' = [state |-> "took", etag |-> etag[w]]
        BY <4>1, <4>2 DEF AsCall
      <4>5. \A x \in Writers : x # w => AsCall(x)' = AsCall(x)
        BY <4>1, <4>2 DEF AsCall
      <4>6. [AsCall(w) EXCEPT !.state = "took"] = AsCall(w)'
        BY <4>3, <4>4 DEF AsCall
      <4> QED BY <4>4, <4>5, <4>6
    <3>4. /\ file' = Len(stamps) + 1 /\ temp[w] \in Stamps
          /\ stamps' = Append(stamps, temp[w])
      BY <2>9 DEF Rename, Committed
    <3>5. ~others => Register!Commit(w)
      BY <2>9, <3>1, <3>2, <3>3, <3>4 DEF Register!Commit, Rename
    <3>6. others' = others BY <2>9 DEF Rename
    <3> QED BY <3>5, <3>6 DEF RegStep
  <2>10. CASE WriteMetadata(w) BY <2>10 DEF WriteMetadata, AsCall
  <2>11. CASE Fail(w)
    <3>1. CASE phase[w] = "locking"
      <4>1. Register!End(w)
        BY <2>11, <3>1 DEF Fail, AsCall, Register!End, Register!NoCall
      <4> QED BY <4>1 DEF RegStep
    <3>2. CASE phase[w] # "locking" BY <2>11, <3>2 DEF Fail, AsCall
    <3> QED BY <3>1, <3>2
  <2>12. CASE Release(w)
    <3>1. Register!End(w) BY <2>12 DEF Release, AsCall, Register!End, Register!NoCall
    <3> QED BY <3>1 DEF RegStep
  <2> HIDE DEF SwapInv, Register!regVars
  <2> QED BY <1>7, <2>1, <2>2, <2>3, <2>4, <2>5, <2>6, <2>7, <2>8, <2>9, <2>10,
             <2>11, <2>12 DEF WriterStep
<1> HIDE DEF SwapInv, Register!regVars
<1> QED BY <1>1, <1>3, <1>4, <1>5, <1>6, <1>7 DEF Next, RegStep

\* Until somebody writes regardless of the lock, the lock file makes each
\* conditional write one atomic compare and swap.
THEOREM AtomicSwapHolds == Spec => AtomicSwap
<1>1. Init => SwapInv BY SwapInit
<1>2. SwapInv /\ [Next]_vars => SwapInv' BY SwapStep
<1>3. SwapInv /\ [Next]_vars => [RegStep]_(Register!regVars) BY StepRefines
<1> QED BY <1>1, <1>2, <1>3, InitRefines, PTL DEF Spec, AtomicSwap, Register!RegSpec, Register!RegNext, RegStep

-----------------------------------------------------------------------------
(* The sidecar. Between its rename and its sidecar a writer still has the    *)
(* lock, so the file in place is the one whose metadata it is about to write.*)

Placed ==
    ~others => \A w \in Writers : phase[w] = "metadata" => took[w] = file

SidecarInv == HolderInv /\ took \in [Writers -> Nat] /\ Placed /\ SidecarInStep

LEMMA SidecarInit == Init => SidecarInv
BY HolderInit DEF Init, SidecarInv, Placed, SidecarInStep

LEMMA SidecarStep == SwapInv /\ SidecarInv /\ [Next]_vars => SidecarInv'
<1> SUFFICES ASSUME SwapInv, SidecarInv, [Next]_vars PROVE SidecarInv'
  OBVIOUS
<1>a. HolderInv' /\ took' \in [Writers -> Nat]
  BY HolderStep, SwapStep DEF SidecarInv, SwapInv
<1>b. phase \in [Writers -> Phases] /\ OneHolder /\ took \in [Writers -> Nat]
  BY DEF SidecarInv, HolderInv
<1> USE <1>a, <1>b DEF SidecarInv, Placed, SidecarInStep, Go, Phases, disk, Tear
<1>1. CASE RemoveStaleLock BY <1>1 DEF RemoveStaleLock
<1>2. CASE Tick BY <1>2 DEF Tick
<1>3. CASE OtherWrite \/ OtherDelete BY <1>3 DEF OtherWrite, OtherDelete
<1>4. ASSUME NEW w \in Writers, Look(w) PROVE SidecarInv' BY <1>4 DEF Look
<1>5. ASSUME NEW w \in Writers, Call(w) PROVE SidecarInv' BY <1>5 DEF Call
<1>6. ASSUME NEW w \in Writers, Kill(w) PROVE SidecarInv' BY <1>6 DEF Kill
<1>7. ASSUME NEW w \in Writers, WriterStep(w) PROVE SidecarInv'
  <2>1. CASE Acquire(w) BY <2>1 DEF Acquire
  <2>2. CASE Blocked(w) BY <2>2 DEF Blocked
  <2>3. CASE Retry(w) BY <2>3 DEF Retry
  <2>4. CASE GiveUp(w) BY <2>4 DEF GiveUp
  <2>5. CASE Read(w) BY <2>5 DEF Read
  <2>6. CASE Stat(w) BY <2>6 DEF Stat
  <2>7. CASE DryRun(w) BY <2>7 DEF DryRun
  <2>8. CASE WriteTemp(w) BY <2>8 DEF WriteTemp
  <2>9. CASE Rename(w)
    <3>1. \A x \in Writers : phase'[x] = "metadata" => x = w
      BY <2>9 DEF Rename, OneHolder, Holding
    <3>2. phase'[w] = "metadata" /\ took'[w] = file'
      BY <2>9 DEF Rename, Committed
    <3> QED BY <3>1, <3>2
  <2>10. CASE WriteMetadata(w) BY <2>10 DEF WriteMetadata
  <2>11. CASE Fail(w) BY <2>11 DEF Fail
  <2>12. CASE Release(w) BY <2>12 DEF Release
  <2> HIDE DEF SidecarInv
  <2> QED BY <1>7, <2>1, <2>2, <2>3, <2>4, <2>5, <2>6, <2>7, <2>8, <2>9, <2>10,
             <2>11, <2>12 DEF WriterStep
<1>8. CASE UNCHANGED vars BY <1>8 DEF vars
<1> HIDE DEF SidecarInv
<1> QED BY <1>1, <1>2, <1>3, <1>4, <1>5, <1>6, <1>7, <1>8 DEF Next

\* While all writers are conditional ones, the sidecar is that of the file,
\* unless the file's writer has still to write it or failed before it could.
THEOREM SidecarInStepHolds == Spec => []SidecarInStep
<1>1. SidecarInv => SidecarInStep BY DEF SidecarInv
<1> QED BY <1>1, SwapInit, SwapStep, SidecarInit, SidecarStep, PTL DEF Spec

-----------------------------------------------------------------------------
(* File routes: their types.                                                 *)

Val == Paths \cup Nat
Marks == Paths \cup 0 .. MaxCalls
Pcs == {"idle", "start", "reading", "merging", "writing", "encoding", "closing",
        "checking", "renaming", "filling", "noting", "moving", "copying", "pouring",
        "carrying", "removing"}
Results == {"none", "ok", "error", "notFound", "exists", "mismatch"}
Job == [pc : Pcs, op : R!Ops \cup {"none"}, path : Paths, to : Paths,
        mode : {"any", "strict", "match"}, stream : BOOLEAN, md : 0 .. MaxCalls,
        etag : SUBSET Val, tag : 0 .. MaxCalls, hand : SUBSET Val, over : SUBSET Val,
        ino : Nat, out : Nat, carried : Marks, failed : BOOLEAN, mixed : BOOLEAN,
        result : Results, quiet : BOOLEAN, fair : BOOLEAN, was : SUBSET Val, wasMd : Marks]

Types ==
    /\ backend \in {"disk", "s3", "os"}
    /\ calls \in 0 .. MaxCalls
    /\ data \in Seq(SUBSET Val)
    /\ node \in [Paths -> Nat] /\ \A p \in Paths : node[p] <= Len(data)
    /\ sidecars \in [Paths -> Marks]
    /\ locks \in [Paths -> Clients \cup {0}]
    /\ job \in [Clients -> Job]
    /\ inPlace \subseteq DOMAIN data /\ cut \subseteq DOMAIN data
    /\ firsts \in [Paths -> SUBSET Nat]
    /\ \A c \in Clients : job[c].ino <= Len(data) /\ job[c].out <= Len(data)

\* What a call reads or writes in part is a file there is or was.
Opened ==
    \A c \in Clients : LET k == job[c] IN
        /\ k.pc \in {"reading", "pouring"} => k.ino \in DOMAIN data
        /\ k.pc = "filling" => k.ino \in inPlace
        /\ k.pc = "pouring" => k.out \in inPlace

LEMMA NoJobType == Paths # {} => R!NoJob \in Job /\ R!NoJob.ino = 0 /\ R!NoJob.out = 0
<1> SUFFICES ASSUME Paths # {} PROVE R!NoJob \in Job /\ R!NoJob.ino = 0 /\ R!NoJob.out = 0
  OBVIOUS
<1>1. R!SomePath \in Paths BY DEF R!SomePath
<1> QED BY <1>1, RoutesAssumption DEF R!NoJob, R!None, Job, Pcs, Results, Marks, R!Ops

LEMMA HeldType == Types => \A p \in Paths : R!Held(p) \in SUBSET Val
BY DEF Types, R!Held, R!None

\* To look on changes no more of a call than what its caller may still ask.
Watched(k, q, f, m) == [k EXCEPT !.quiet = q, !.fair = f, !.mixed = m]

LEMMA WatchedType ==
    ASSUME NEW k \in Job, NEW q \in BOOLEAN, NEW f \in BOOLEAN, NEW m \in BOOLEAN
    PROVE  /\ Watched(k, q, f, m) \in Job
           /\ Watched(k, q, f, m).ino = k.ino /\ Watched(k, q, f, m).out = k.out
BY DEF Watched, Job

LEMMA SeesIsWatched ==
    ASSUME NEW k \in Job, NEW by
    PROVE  \/ R!Changed /\ R!Sees(k, by) = R!NoJob
           \/ \E q, f, m \in BOOLEAN :
                /\ R!Sees(k, by) = Watched(k, q, f, m)
                /\ q => k.quiet /\ ~R!Changed
                /\ f => k.fair /\ (R!Changed => R!Conditional(by))
                /\ m => k.mixed \/ (k.ino # 0 /\ data'[k.ino] # data[k.ino])
                /\ k.mixed => m
<1> DEFINE q == k.quiet /\ ~R!Changed
           f == k.fair /\ (R!Changed => R!Conditional(by))
           m == k.mixed \/ (k.ino # 0 /\ data'[k.ino] # data[k.ino])
<1>1. q \in BOOLEAN /\ f \in BOOLEAN /\ m \in BOOLEAN OBVIOUS
<1>2. CASE k.pc = "idle" /\ R!Changed BY <1>2 DEF R!Sees
<1>3. CASE ~(k.pc = "idle" /\ R!Changed)
  <2>1. R!Sees(k, by) = Watched(k, q, f, m) BY <1>3 DEF R!Sees, Watched, R!None
  <2> QED BY <1>1, <2>1
<1> QED BY <1>2, <1>3

LEMMA SeesType ==
    ASSUME NEW k \in Job, NEW by, Paths # {}
    PROVE  /\ R!Sees(k, by) \in Job
           /\ R!Sees(k, by).ino \in {k.ino, 0} /\ R!Sees(k, by).out \in {k.out, 0}
<1>1. CASE R!Sees(k, by) = R!NoJob BY <1>1, NoJobType
<1>2. CASE \E q, f, m \in BOOLEAN : R!Sees(k, by) = Watched(k, q, f, m)
  <2>1. PICK q \in BOOLEAN, f \in BOOLEAN, m \in BOOLEAN : R!Sees(k, by) = Watched(k, q, f, m)
    BY <1>2
  <2>2. Watched(k, q, f, m) \in Job /\ Watched(k, q, f, m).ino = k.ino
        /\ Watched(k, q, f, m).out = k.out
    BY WatchedType
  <2> QED BY <2>1, <2>2
<1> QED BY <1>1, <1>2, SeesIsWatched

\* What a call that has returned leaves, on the job that is none.
Leaves(n, j, r) ==
    [n EXCEPT !.op = j.op, !.path = j.path, !.to = j.to,
              !.mode = j.mode, !.hand = j.hand, !.over = j.over, !.result = r,
              !.quiet = j.quiet, !.fair = j.fair, !.was = j.was, !.wasMd = j.wasMd]

LEMMA LeavesType ==
    ASSUME NEW n \in Job, NEW j \in Job, NEW r \in Results
    PROVE  /\ Leaves(n, j, r) \in Job
           /\ Leaves(n, j, r).ino = n.ino /\ Leaves(n, j, r).out = n.out
BY DEF Leaves, Job

LEMMA ReturnedType ==
    ASSUME NEW k \in Job, NEW r \in Results, Paths # {}
    PROVE  /\ R!Returned(k, r) \in Job /\ R!Returned(k, r).ino = 0 /\ R!Returned(k, r).out = 0
<1>1. R!Returned(k, r) = R!NoJob \/ R!Returned(k, r) = Leaves(R!NoJob, k, r)
  BY DEF R!Returned, Leaves
<1>2. R!NoJob \in Job /\ R!NoJob.ino = 0 /\ R!NoJob.out = 0 BY NoJobType
<1>3. Leaves(R!NoJob, k, r) \in Job /\ Leaves(R!NoJob, k, r).ino = 0
      /\ Leaves(R!NoJob, k, r).out = 0
  BY <1>2, LeavesType
<1> QED BY <1>1, <1>2, <1>3

LEMMA GoesType ==
    ASSUME Types, NEW c \in Clients, NEW j \in Job, R!Goes(c, j), Len(data') \in Nat,
           Len(data) <= Len(data'), j.ino <= Len(data'), j.out <= Len(data'), Paths # {}
    PROVE  /\ job' \in [Clients -> Job] /\ backend' = backend /\ calls' = calls
           /\ \A d \in Clients : job'[d].ino <= Len(data') /\ job'[d].out <= Len(data')
<1>1. \A d \in Clients : R!Sees(job[d], job[c]) \in Job
  BY SeesType DEF Types
<1>2. job' = [d \in Clients |-> IF d = c THEN j ELSE R!Sees(job[d], job[c])]
  BY DEF R!Goes
<1>3. ASSUME NEW d \in Clients PROVE job'[d].ino <= Len(data') /\ job'[d].out <= Len(data')
  <2>1. job[d].ino <= Len(data) /\ job[d].out <= Len(data) /\ job[d] \in Job /\ Len(data) \in Nat
    BY DEF Types
  <2>2. R!Sees(job[d], job[c]).ino \in {job[d].ino, 0} /\ R!Sees(job[d], job[c]).out \in {job[d].out, 0}
    BY <2>1, SeesType
  <2>3. job[d].ino \in Nat /\ job[d].out \in Nat BY <2>1 DEF Job
  <2> QED BY <1>2, <2>1, <2>2, <2>3
<1> QED BY <1>1, <1>2, <1>3 DEF R!Goes

LEMMA JobOf ==
    ASSUME Types, NEW c \in Clients
    PROVE  /\ job[c] \in Job /\ Len(data) \in Nat
           /\ job[c].ino \in Nat /\ job[c].ino <= Len(data)
           /\ job[c].out \in Nat /\ job[c].out <= Len(data)
BY DEF Types, Job

LEMMA DataAppend ==
    ASSUME Types, NEW x \in SUBSET Val, data' = Append(data, x)
    PROVE  /\ data' \in Seq(SUBSET Val) /\ Len(data') = Len(data) + 1
           /\ Len(data) \in Nat /\ DOMAIN data = 1 .. Len(data)
           /\ \A i \in 1 .. Len(data) : data'[i] = data[i]
           /\ data'[Len(data) + 1] = x
BY DEF Types

LEMMA DataReplace ==
    ASSUME Types, NEW x \in SUBSET Val, NEW n \in 1 .. Len(data), data' = [data EXCEPT ![n] = x]
    PROVE  /\ data' \in Seq(SUBSET Val) /\ Len(data') = Len(data)
           /\ Len(data) \in Nat /\ DOMAIN data = 1 .. Len(data)
           /\ \A i \in 1 .. Len(data) : data'[i] = IF i = n THEN x ELSE data[i]
BY DEF Types

LEMMA ToType ==
    ASSUME NEW k \in Job, NEW pc \in Pcs
    PROVE  /\ [k EXCEPT !.pc = pc] \in Job
           /\ [k EXCEPT !.pc = pc].ino = k.ino /\ [k EXCEPT !.pc = pc].out = k.out
BY DEF Job

\* A step that leaves the disk alone.
LEMMA KeepTypes ==
    ASSUME Types, Paths # {}, NEW c \in Clients, NEW j \in Job, R!Goes(c, j),
           j.ino <= Len(data), j.out <= Len(data),
           UNCHANGED <<node, data, sidecars, inPlace, cut, firsts>>,
           locks' \in [Paths -> Clients \cup {0}]
    PROVE  Types'
<1>1. Len(data') = Len(data) /\ Len(data) \in Nat BY DEF Types
<1>2. /\ job' \in [Clients -> Job] /\ backend' = backend /\ calls' = calls
      /\ \A d \in Clients : job'[d].ino <= Len(data') /\ job'[d].out <= Len(data')
  BY <1>1, GoesType
<1> QED BY <1>2 DEF Types

LEMMA KeepLocks ==
    ASSUME Types, R!Keep
    PROVE  /\ UNCHANGED <<node, data, sidecars, inPlace, cut, firsts>>
           /\ locks' \in [Paths -> Clients \cup {0}]
BY DEF Types, R!Keep, R!disk, R!history

LEMMA ReturnTypes ==
    ASSUME Types, Paths # {}, NEW c \in Clients, NEW r \in Results, R!Return(c, r),
           UNCHANGED <<node, data, sidecars, inPlace, cut, firsts>>,
           locks' \in [Paths -> Clients \cup {0}]
    PROVE  Types'
<1>1. job[c] \in Job /\ Len(data) \in Nat BY JobOf
<1>2. R!Returned(job[c], r) \in Job /\ R!Returned(job[c], r).ino = 0 /\ R!Returned(job[c], r).out = 0
  BY <1>1, ReturnedType
<1>3. R!Goes(c, R!Returned(job[c], r)) BY DEF R!Return
<1> QED BY <1>1, <1>2, <1>3, KeepTypes

LEMMA ToTypes ==
    ASSUME Types, Paths # {}, NEW c \in Clients, NEW pc \in Pcs, R!To(c, pc),
           UNCHANGED <<node, data, sidecars, inPlace, cut, firsts>>,
           locks' \in [Paths -> Clients \cup {0}]
    PROVE  Types'
<1>1. job[c] \in Job /\ job[c].ino <= Len(data) /\ job[c].out <= Len(data) BY JobOf
<1>2. /\ [job[c] EXCEPT !.pc = pc] \in Job
      /\ [job[c] EXCEPT !.pc = pc].ino = job[c].ino /\ [job[c] EXCEPT !.pc = pc].out = job[c].out
  BY <1>1, ToType
<1>3. R!Goes(c, [job[c] EXCEPT !.pc = pc]) BY DEF R!To
<1> QED BY <1>1, <1>2, <1>3, KeepTypes

LEMMA LooksTypes ==
    ASSUME Types, Opened, Paths # {}, NEW c \in Clients,
           \/ R!Refuse(c) \/ R!Open(c) \/ R!Read(c) \/ R!Merge(c) \/ R!Create(c)
           \/ R!Refused(c) \/ R!Encode(c) \/ R!Close(c) \/ R!Missing(c) \/ R!Carried(c)
    PROVE  Types'
<1>1. R!Keep BY DEF R!Refuse, R!Open, R!Read, R!Merge, R!Create, R!Refused, R!Encode, R!Close,
                    R!Missing, R!Carried
<1>2. /\ UNCHANGED <<node, data, sidecars, inPlace, cut, firsts>>
      /\ locks' \in [Paths -> Clients \cup {0}]
  BY <1>1, KeepLocks
<1>3. /\ job[c] \in Job /\ Len(data) \in Nat
      /\ job[c].ino \in Nat /\ job[c].ino <= Len(data)
      /\ job[c].out \in Nat /\ job[c].out <= Len(data)
  BY JobOf
<1>4. ASSUME NEW r \in Results, R!Return(c, r) PROVE Types' BY <1>2, <1>4, ReturnTypes
<1>5. ASSUME NEW pc \in Pcs, R!To(c, pc) PROVE Types' BY <1>2, <1>5, ToTypes
<1>6. ASSUME NEW j \in Job, R!Goes(c, j), j.ino <= Len(data), j.out <= Len(data) PROVE Types'
  BY <1>2, <1>6, KeepTypes
<1>7. "ok" \in Results /\ "error" \in Results /\ "exists" \in Results /\ "notFound" \in Results
  BY DEF Results
<1>8. "closing" \in Pcs /\ "renaming" \in Pcs BY DEF Pcs
<1>9. CASE R!Refuse(c) BY <1>4, <1>7, <1>9 DEF R!Refuse
<1>10. CASE R!Refused(c) BY <1>4, <1>7, <1>10 DEF R!Refused
<1>11. CASE R!Missing(c) BY <1>4, <1>7, <1>11 DEF R!Missing
<1>12. CASE R!Close(c) BY <1>4, <1>5, <1>7, <1>8, <1>12 DEF R!Close
<1>13. CASE R!Encode(c)
  <2> DEFINE j == [job[c] EXCEPT !.pc = "closing", !.hand = {}, !.failed = TRUE]
  <2>1. j \in Job /\ j.ino = job[c].ino /\ j.out = job[c].out BY <1>3 DEF Job, Pcs
  <2>2. R!To(c, "closing") \/ R!Goes(c, j) BY <1>13 DEF R!Encode
  <2> QED BY <1>3, <1>5, <1>6, <1>8, <2>1, <2>2
<1>14. CASE R!Open(c)
  <2> DEFINE j == [job[c] EXCEPT !.pc = "reading", !.ino = node[job[c].path]]
  <2>1. job[c].path \in Paths BY <1>3 DEF Job
  <2>2. node[job[c].path] \in Nat /\ node[job[c].path] <= Len(data) BY <2>1 DEF Types
  <2>3. j \in Job /\ j.ino = node[job[c].path] /\ j.out = job[c].out BY <1>3, <2>2 DEF Job, Pcs
  <2>4. R!Return(c, "notFound") \/ R!Goes(c, j) BY <1>14 DEF R!Open
  <2> QED BY <1>3, <1>4, <1>6, <1>7, <2>2, <2>3, <2>4
<1>15. CASE R!Merge(c)
  <2> DEFINE j == [job[c] EXCEPT !.pc = "writing", !.hand = R!Merged(job[c])]
  <2>1. R!Merged(job[c]) \in SUBSET Val BY <1>3, RoutesAssumption DEF R!Merged, Job, Val
  <2>2. j \in Job /\ j.ino = job[c].ino /\ j.out = job[c].out BY <1>3, <2>1 DEF Job, Pcs
  <2>3. R!Goes(c, j) BY <1>15 DEF R!Merge
  <2> QED BY <1>3, <1>6, <2>2, <2>3
<1>16. CASE R!Create(c)
  <2> DEFINE pc == IF job[c].stream THEN "encoding" ELSE "writing"
             j == [job[c] EXCEPT !.pc = pc, !.hand = {job[c].tag}]
  <2>1. {job[c].tag} \in SUBSET Val BY <1>3, RoutesAssumption DEF Job, Val
  <2>2. j \in Job /\ j.ino = job[c].ino /\ j.out = job[c].out BY <1>3, <2>1 DEF Job, Pcs
  <2>3. R!Goes(c, j) BY <1>16 DEF R!Create
  <2> QED BY <1>3, <1>6, <2>2, <2>3
<1>17. CASE R!Carried(c)
  <2> DEFINE pc == IF job[c].op = "move" /\ R!Moves THEN "moving" ELSE "copying"
             j == [job[c] EXCEPT !.pc = pc, !.carried = sidecars[job[c].path]]
  <2>1. sidecars[job[c].path] \in Marks BY <1>3 DEF Types, Job
  <2>2. pc \in Pcs BY DEF Pcs
  <2>3. j \in Job /\ j.ino = job[c].ino /\ j.out = job[c].out BY <1>3, <2>1, <2>2 DEF Job
  <2>4. R!Goes(c, j) BY <1>17 DEF R!Carried
  <2> QED BY <1>3, <1>6, <2>3, <2>4
<1>18. CASE R!Read(c)
  <2>1. PICK seen \in R!Contents(job[c]) :
          LET j == [job[c] EXCEPT !.hand = seen, !.ino = 0, !.mixed = FALSE] IN
          IF j.op = "read" THEN R!Return(c, "ok")
          ELSE R!Goes(c, [j EXCEPT !.pc = IF j.op = "patch" THEN "merging" ELSE "writing"])
    BY <1>18 DEF R!Read, R!None
  <2>2. job[c].ino \in DOMAIN data BY <1>18 DEF R!Read, R!At, Opened
  <2>3. data[job[c].ino] \in SUBSET Val BY <2>2 DEF Types
  <2>4. seen \in SUBSET Val BY <2>3 DEF R!Contents
  <2> DEFINE k == [job[c] EXCEPT !.hand = seen, !.ino = 0, !.mixed = FALSE]
             j == [k EXCEPT !.pc = IF k.op = "patch" THEN "merging" ELSE "writing"]
  <2>5. k \in Job /\ k.ino = 0 /\ k.out = job[c].out BY <1>3, <2>4 DEF Job
  <2>6. "merging" \in Pcs /\ "writing" \in Pcs BY DEF Pcs
  <2>7. j \in Job /\ j.ino = k.ino /\ j.out = k.out BY <2>5, <2>6, ToType
  <2>8. R!Return(c, "ok") \/ R!Goes(c, j) BY <2>1
  <2> HIDE DEF j, k
  <2> QED BY <1>3, <1>4, <1>6, <1>7, <2>5, <2>7, <2>8
<1> QED BY <1>9, <1>10, <1>11, <1>12, <1>13, <1>14, <1>15, <1>16, <1>17, <1>18

\* A call that begins.
LEMMA AskedType ==
    ASSUME Types, Paths # {}, calls < MaxCalls,
           NEW op \in R!Ops, NEW p \in Paths, NEW q \in Paths,
           NEW mode \in {"any", "strict", "match"}, NEW stream \in BOOLEAN
    PROVE  LET j == R!Asked(op, p, q, mode, stream) IN
           /\ j \in Job /\ j.ino = 0 /\ j.out = 0
           /\ j.pc = "start" /\ j.op = op /\ j.path = p /\ j.to = q /\ j.mode = mode
           /\ j.stream = stream /\ j.md \in {calls + 1, 0} /\ j.tag = calls + 1
           /\ j.etag = R!Held(p) /\ j.was = R!Held(p) /\ j.wasMd = sidecars[p]
           /\ j.hand = {} /\ j.over = {} /\ ~j.failed /\ ~j.mixed /\ j.quiet /\ j.fair
           /\ j.result = "none"
<1>1. calls + 1 \in 0 .. MaxCalls BY RoutesAssumption DEF Types
<1>2. R!Held(p) \in SUBSET Val /\ sidecars[p] \in Marks BY HeldType DEF Types
<1> DEFINE md == IF op = "create" /\ mode = "any" THEN calls + 1 ELSE R!None
           j(n) == [n EXCEPT !.pc = "start", !.op = op, !.path = p, !.to = q, !.mode = mode,
                             !.stream = stream, !.md = md, !.etag = R!Held(p),
                             !.tag = calls + 1, !.was = R!Held(p), !.wasMd = sidecars[p]]
<1>3. md \in 0 .. MaxCalls /\ md \in {calls + 1, 0} BY <1>1, RoutesAssumption DEF R!None
<1>4. ASSUME NEW n \in Job
      PROVE  /\ j(n) \in Job /\ j(n).ino = n.ino /\ j(n).out = n.out
             /\ j(n).pc = "start" /\ j(n).op = op /\ j(n).path = p /\ j(n).to = q
             /\ j(n).mode = mode /\ j(n).stream = stream /\ j(n).md = md
             /\ j(n).tag = calls + 1
             /\ j(n).etag = R!Held(p) /\ j(n).was = R!Held(p) /\ j(n).wasMd = sidecars[p]
             /\ j(n).hand = n.hand /\ j(n).over = n.over /\ j(n).failed = n.failed
             /\ j(n).mixed = n.mixed /\ j(n).quiet = n.quiet /\ j(n).fair = n.fair
             /\ j(n).result = n.result
  <2> HIDE DEF md
  <2> QED BY <1>1, <1>2, <1>3 DEF Job, Pcs
<1>5. R!NoJob \in Job /\ R!NoJob.ino = 0 /\ R!NoJob.out = 0 BY NoJobType
<1>6. /\ R!NoJob.hand = {} /\ R!NoJob.over = {} /\ ~R!NoJob.failed /\ ~R!NoJob.mixed
      /\ R!NoJob.quiet /\ R!NoJob.fair /\ R!NoJob.result = "none"
  BY DEF R!NoJob
<1>7. R!Asked(op, p, q, mode, stream) = j(R!NoJob) BY DEF R!Asked
<1> HIDE DEF j
<1> QED BY <1>3, <1>4, <1>5, <1>6, <1>7

LEMMA BeginTypes ==
    ASSUME Types, Paths # {}, NEW c \in Clients, R!Begin(c)
    PROVE  Types'
<1>1. PICK op \in R!Ops, p \in Paths, q \in Paths, mode \in {"any", "strict", "match"},
           stream \in BOOLEAN :
        job' = [job EXCEPT ![c] = R!Asked(op, p, q, mode, stream)]
  BY DEF R!Begin
<1>2. /\ calls' = calls + 1 /\ calls < MaxCalls
      /\ UNCHANGED <<backend, node, data, sidecars, locks, inPlace, cut, firsts>>
  BY DEF R!Begin, R!disk, R!history
<1>3. calls + 1 \in 0 .. MaxCalls BY <1>2, RoutesAssumption DEF Types
<1> DEFINE j == R!Asked(op, p, q, mode, stream)
<1>4. j \in Job /\ j.ino = 0 /\ j.out = 0 BY <1>2, AskedType
<1> HIDE DEF j
<1>5. job' \in [Clients -> Job] BY <1>1, <1>4 DEF Types, j
<1>6. \A d \in Clients : job'[d].ino <= Len(data) /\ job'[d].out <= Len(data)
  <2>1. Len(data) \in Nat BY DEF Types
  <2> QED BY <1>1, <1>4, <2>1 DEF Types, j
<1> QED BY <1>2, <1>3, <1>5, <1>6 DEF Types

\* A step that writes: its disk is one, and its call goes on to one.
LEMMA WriteTypes ==
    ASSUME Types, Paths # {}, NEW c \in Clients, NEW j \in Job, R!Goes(c, j),
           data' \in Seq(SUBSET Val), Len(data) <= Len(data'),
           j.ino <= Len(data'), j.out <= Len(data'),
           node' \in [Paths -> Nat], \A p \in Paths : node'[p] <= Len(data'),
           sidecars' \in [Paths -> Marks],
           locks' \in [Paths -> Clients \cup {0}],
           inPlace' \subseteq 1 .. Len(data'), cut' \subseteq 1 .. Len(data'),
           firsts' \in [Paths -> SUBSET Nat]
    PROVE  Types'
<1>1. Len(data') \in Nat /\ DOMAIN data' = 1 .. Len(data') OBVIOUS
<1>2. /\ job' \in [Clients -> Job] /\ backend' = backend /\ calls' = calls
      /\ \A d \in Clients : job'[d].ino <= Len(data') /\ job'[d].out <= Len(data')
  BY <1>1, GoesType
<1> QED BY <1>1, <1>2 DEF Types

LEMMA UnlockedType ==
    ASSUME Types, NEW c \in Clients, R!Unlocked(c)
    PROVE  locks' \in [Paths -> Clients \cup {0}]
BY DEF Types, R!Unlocked, R!None

LEMMA LockTypes ==
    ASSUME Types, Paths # {}, NEW c \in Clients, R!Lock(c) \/ R!Check(c) \/ R!Fail(c)
    PROVE  Types'
<1>1. CASE R!Lock(c)
  <2>1. locks' \in [Paths -> Clients \cup {0}] BY <1>1 DEF R!Lock, Types
  <2>2. UNCHANGED <<node, data, sidecars, inPlace, cut, firsts>> BY <1>1 DEF R!Lock, R!history
  <2>3. R!To(c, "checking") /\ "checking" \in Pcs BY <1>1 DEF R!Lock, Pcs
  <2> QED BY <2>1, <2>2, <2>3, ToTypes
<1>2. CASE R!Check(c)
  <2>1. locks' \in [Paths -> Clients \cup {0}] BY <1>2, UnlockedType DEF R!Check, Types
  <2>2. UNCHANGED <<node, data, sidecars, inPlace, cut, firsts>> BY <1>2 DEF R!Check, R!history
  <2>3. "renaming" \in Pcs /\ "mismatch" \in Results BY DEF Pcs, Results
  <2>4. R!To(c, "renaming") \/ R!Return(c, "mismatch") BY <1>2 DEF R!Check
  <2> QED BY <2>1, <2>2, <2>3, <2>4, ToTypes, ReturnTypes
<1>3. CASE R!Fail(c)
  <2>1. locks' \in [Paths -> Clients \cup {0}] BY <1>3, UnlockedType DEF R!Fail
  <2>2. UNCHANGED <<node, data, sidecars, inPlace, cut, firsts>> BY <1>3 DEF R!Fail, R!history
  <2>3. R!Return(c, "error") /\ "error" \in Results BY <1>3 DEF R!Fail, Results
  <2> QED BY <2>1, <2>2, <2>3, ReturnTypes
<1> QED BY <1>1, <1>2, <1>3

LEMMA FillTypes ==
    ASSUME Types, Opened, Paths # {}, NEW c \in Clients,
           R!Truncate(c) \/ R!Fill(c) \/ R!Rename(c) \/ R!Note(c)
    PROVE  Types'
<1>1. /\ job[c] \in Job /\ Len(data) \in Nat
      /\ job[c].ino \in Nat /\ job[c].ino <= Len(data)
      /\ job[c].out \in Nat /\ job[c].out <= Len(data)
  BY JobOf
<1>2. /\ job[c].path \in Paths /\ job[c].to \in Paths /\ R!Target(job[c]) \in Paths
      /\ job[c].hand \in SUBSET Val /\ job[c].tag \in Nat
  BY <1>1 DEF Job, R!Target
<1>3. /\ DOMAIN data = 1 .. Len(data) /\ inPlace \subseteq 1 .. Len(data)
      /\ cut \subseteq 1 .. Len(data) /\ \A p \in Paths : node[p] \in 0 .. Len(data)
  BY DEF Types
<1>4. "filling" \in Pcs /\ "noting" \in Pcs /\ "removing" \in Pcs /\ "ok" \in Results /\ "error" \in Results
  BY DEF Pcs, Results
<1>5. {} \in SUBSET Val OBVIOUS
<1>6. CASE R!Truncate(c)
  <2> DEFINE t == R!Target(job[c])
             i == IF node[t] = R!None THEN Len(data) + 1 ELSE node[t]
             j == [job[c] EXCEPT !.pc = "filling", !.ino = i]
  <2>1. /\ data' = IF node[t] = R!None THEN Append(data, {}) ELSE [data EXCEPT ![i] = {}]
        /\ node' = [node EXCEPT ![t] = i] /\ inPlace' = inPlace \cup {i}
        /\ firsts' = IF job[c].mode = "strict" THEN [firsts EXCEPT ![t] = @ \cup {job[c].tag}]
                                               ELSE firsts
        /\ UNCHANGED <<sidecars, locks, cut>> /\ R!Goes(c, j)
    BY <1>6 DEF R!Truncate
  <2>2. /\ data' \in Seq(SUBSET Val) /\ Len(data') \in Nat
        /\ Len(data) <= Len(data') /\ i <= Len(data') /\ i >= 1 /\ i \in Nat
    <3>1. CASE node[t] = 0
      <4>1. data' = Append(data, {}) /\ i = Len(data) + 1 BY <2>1, <3>1 DEF R!None
      <4> QED BY <1>1, <1>5, <4>1, DataAppend
    <3>2. CASE node[t] # 0
      <4>1. data' = [data EXCEPT ![node[t]] = {}] /\ i = node[t] BY <2>1, <3>2 DEF R!None
      <4>2. node[t] \in 1 .. Len(data) BY <1>1, <1>2, <1>3, <3>2
      <4>3. data' \in Seq(SUBSET Val) /\ Len(data') = Len(data)
        BY <1>5, <4>1, <4>2, DataReplace
      <4> HIDE DEF i, t
      <4> QED BY <1>1, <4>1, <4>2, <4>3
    <3> QED BY <3>1, <3>2
  <2> HIDE DEF i
  <2>3. j \in Job /\ j.ino = i /\ j.out = job[c].out BY <1>1, <1>4, <2>2 DEF Job
  <2> HIDE DEF j
  <2>4. node' \in [Paths -> Nat] /\ \A p \in Paths : node'[p] <= Len(data')
    BY <1>1, <1>2, <1>3, <2>1, <2>2 DEF Types
  <2>5. firsts' \in [Paths -> SUBSET Nat] BY <1>2, <2>1 DEF Types
  <2>6. inPlace' \subseteq 1 .. Len(data') /\ cut' \subseteq 1 .. Len(data')
    <3>1. 1 .. Len(data) \subseteq 1 .. Len(data') /\ i \in 1 .. Len(data') BY <1>1, <2>2
    <3> QED BY <1>3, <2>1, <3>1
  <2>7. sidecars' \in [Paths -> Marks] /\ locks' \in [Paths -> Clients \cup {0}]
    BY <2>1 DEF Types
  <2>8. j.ino <= Len(data') /\ j.out <= Len(data') BY <1>1, <2>2, <2>3
  <2> QED BY <2>1, <2>2, <2>3, <2>4, <2>5, <2>6, <2>7, <2>8, WriteTypes
<1>7. CASE R!Fill(c)
  <2> DEFINE j == [job[c] EXCEPT !.pc = "noting", !.ino = 0]
  <2>1. /\ data' = [data EXCEPT ![job[c].ino] = job[c].hand] /\ R!Goes(c, j)
        /\ UNCHANGED <<node, sidecars, locks, inPlace, cut, firsts>>
    BY <1>7 DEF R!Fill, R!history, R!None
  <2>2. job[c].ino \in 1 .. Len(data) BY <1>3, <1>7 DEF R!Fill, R!At, Opened
  <2>3. data' \in Seq(SUBSET Val) /\ Len(data') = Len(data) BY <1>2, <2>1, <2>2, DataReplace
  <2>4. j \in Job /\ j.ino = 0 /\ j.out = job[c].out BY <1>1, <1>4 DEF Job
  <2> HIDE DEF j
  <2>5. /\ node' \in [Paths -> Nat] /\ \A p \in Paths : node'[p] <= Len(data')
        /\ sidecars' \in [Paths -> Marks] /\ locks' \in [Paths -> Clients \cup {0}]
        /\ firsts' \in [Paths -> SUBSET Nat]
    BY <2>1, <2>3 DEF Types
  <2>6. inPlace' \subseteq 1 .. Len(data') /\ cut' \subseteq 1 .. Len(data') BY <1>3, <2>1, <2>3
  <2>7. Len(data) <= Len(data') /\ j.ino <= Len(data') /\ j.out <= Len(data')
    BY <1>1, <2>3, <2>4
  <2> QED BY <2>1, <2>3, <2>4, <2>5, <2>6, <2>7, WriteTypes
<1>8. CASE R!Rename(c)
  <2> DEFINE p == job[c].path
             j == [job[c] EXCEPT !.pc = "noting", !.over = R!Held(p)]
  <2>1. /\ data' = Append(data, job[c].hand) /\ node' = [node EXCEPT ![p] = Len(data')]
        /\ cut' \in {cut, cut \cup {Len(data')}} /\ R!Goes(c, j)
        /\ UNCHANGED <<sidecars, locks, inPlace, firsts>>
    BY <1>8 DEF R!Rename, R!Put
  <2>2. data' \in Seq(SUBSET Val) /\ Len(data') = Len(data) + 1 BY <1>2, <2>1, DataAppend
  <2>3. R!Held(p) \in SUBSET Val BY <1>2, HeldType
  <2>4. j \in Job /\ j.ino = job[c].ino /\ j.out = job[c].out BY <1>1, <1>4, <2>3 DEF Job
  <2> HIDE DEF j
  <2>5. node' \in [Paths -> Nat] /\ \A q \in Paths : node'[q] <= Len(data')
    BY <1>1, <1>2, <1>3, <2>1, <2>2 DEF Types
  <2>6. inPlace' \subseteq 1 .. Len(data') /\ cut' \subseteq 1 .. Len(data')
    <3>1. 1 .. Len(data) \subseteq 1 .. Len(data') /\ Len(data') \in 1 .. Len(data')
      BY <1>1, <2>2
    <3> QED BY <1>3, <2>1, <3>1
  <2>7. sidecars' \in [Paths -> Marks] /\ locks' \in [Paths -> Clients \cup {0}]
        /\ firsts' \in [Paths -> SUBSET Nat]
    BY <2>1 DEF Types
  <2>8. Len(data) <= Len(data') /\ j.ino <= Len(data') /\ j.out <= Len(data')
    BY <1>1, <2>2, <2>4
  <2> QED BY <2>1, <2>2, <2>4, <2>5, <2>6, <2>7, <2>8, WriteTypes
<1>9. CASE R!Note(c)
  <2>1. /\ sidecars' = sidecars \/ sidecars' = [sidecars EXCEPT ![job[c].path] = job[c].md]
        /\ R!Unlocked(c) /\ UNCHANGED <<node, data, inPlace, cut, firsts>> /\ R!After(c)
    BY <1>9 DEF R!Note, R!history
  <2>2. job[c].md \in Marks BY <1>1 DEF Job, Marks
  <2>3. sidecars' \in [Paths -> Marks] BY <1>2, <2>1, <2>2 DEF Types
  <2>4. locks' \in [Paths -> Clients \cup {0}] BY <2>1, UnlockedType
  <2>5. PICK j \in Job : R!Goes(c, j) /\ j.ino <= Len(data) /\ j.out <= Len(data)
    <3> DEFINE go == [job[c] EXCEPT !.pc = "removing"]
               r == IF job[c].failed THEN "error" ELSE "ok"
    <3>1. go \in Job /\ go.ino = job[c].ino /\ go.out = job[c].out BY <1>1, <1>4, ToType
    <3>2. /\ R!Returned(job[c], r) \in Job /\ R!Returned(job[c], r).ino = 0
          /\ R!Returned(job[c], r).out = 0
      BY <1>1, <1>4, ReturnedType
    <3>3. R!Goes(c, go) \/ R!Goes(c, R!Returned(job[c], r))
      BY <2>1 DEF R!After, R!To, R!Return
    <3> HIDE DEF go, r
    <3>4. CASE R!Goes(c, go) BY <1>1, <3>1, <3>4
    <3>5. CASE R!Goes(c, R!Returned(job[c], r)) BY <1>1, <3>2, <3>5
    <3> QED BY <3>3, <3>4, <3>5
  <2>6. /\ node' \in [Paths -> Nat] /\ \A p \in Paths : node'[p] <= Len(data')
        /\ data' \in Seq(SUBSET Val) /\ firsts' \in [Paths -> SUBSET Nat]
    BY <2>1 DEF Types
  <2>7. inPlace' \subseteq 1 .. Len(data') /\ cut' \subseteq 1 .. Len(data') BY <1>3, <2>1
  <2>8. Len(data) <= Len(data') /\ j.ino <= Len(data') /\ j.out <= Len(data')
    BY <1>1, <2>1, <2>5
  <2> QED BY <2>3, <2>4, <2>5, <2>6, <2>7, <2>8, WriteTypes
<1> QED BY <1>6, <1>7, <1>8, <1>9

LEMMA ReturnGoes ==
    ASSUME Types, Paths # {}, NEW c \in Clients, NEW r \in Results, R!Return(c, r)
    PROVE  \E j \in Job : R!Goes(c, j) /\ j.ino = 0 /\ j.out = 0
<1>1. job[c] \in Job BY JobOf
<1>2. R!Returned(job[c], r) \in Job /\ R!Returned(job[c], r).ino = 0 /\ R!Returned(job[c], r).out = 0
  BY <1>1, ReturnedType
<1> QED BY <1>2 DEF R!Return

LEMMA ToGoes ==
    ASSUME Types, NEW c \in Clients, NEW pc \in Pcs, R!To(c, pc)
    PROVE  \E j \in Job : R!Goes(c, j) /\ j.ino = job[c].ino /\ j.out = job[c].out
<1>1. job[c] \in Job BY JobOf
<1> DEFINE j == [job[c] EXCEPT !.pc = pc]
<1>2. j \in Job /\ j.ino = job[c].ino /\ j.out = job[c].out BY <1>1, ToType
<1>3. R!Goes(c, j) BY DEF R!To
<1> HIDE DEF j
<1> QED BY <1>2, <1>3

\* The two ways a request to store an object ends.
PutDeclined(c) ==
    /\ backend = "s3" /\ job[c].pc \in {"writing", "renaming"}
    /\ UNCHANGED <<node, data, sidecars, locks, inPlace, cut, firsts>>
    /\ R!Return(c, "mismatch") \/ R!Return(c, "exists")

PutDone(c) ==
    LET j == job[c] IN
    /\ backend = "s3" /\ j.pc \in {"writing", "renaming"}
    /\ R!Conditional(j) => R!Matches(j)
    /\ j.mode = "strict" /\ ~j.stream => R!Vacant(j)
    /\ firsts' = IF j.mode = "strict" /\ ~j.stream
                 THEN [firsts EXCEPT ![j.path] = @ \cup {j.tag}] ELSE firsts
    /\ R!Put(c, j.hand)
    /\ sidecars' = [sidecars EXCEPT ![j.path] = j.md]
    /\ UNCHANGED <<locks, inPlace>>
    /\ R!Goes(c, R!Returned([j EXCEPT !.over = R!Held(j.path)],
                            IF j.failed THEN "error" ELSE "ok"))

LEMMA PutObjectCases ==
    ASSUME NEW c \in Clients, R!PutObject(c) PROVE PutDeclined(c) \/ PutDone(c)
<1>1. CASE R!Conditional(job[c]) /\ ~R!Matches(job[c])
  BY <1>1 DEF R!PutObject, PutDeclined, R!disk
<1>2. CASE ~(R!Conditional(job[c]) /\ ~R!Matches(job[c])) /\
           job[c].mode = "strict" /\ ~job[c].stream /\ ~R!Vacant(job[c])
  BY <1>2 DEF R!PutObject, PutDeclined, R!disk
<1>3. CASE ~(R!Conditional(job[c]) /\ ~R!Matches(job[c])) /\
           ~(job[c].mode = "strict" /\ ~job[c].stream /\ ~R!Vacant(job[c]))
  BY <1>3 DEF R!PutObject, PutDone
<1> QED BY <1>1, <1>2, <1>3

LEMMA OverType ==
    ASSUME NEW k \in Job, NEW x \in SUBSET Val
    PROVE  [k EXCEPT !.over = x] \in Job
BY DEF Job

LEMMA PutObjectTypes ==
    ASSUME Types, Paths # {}, NEW c \in Clients, R!PutObject(c)
    PROVE  Types'
<1> DEFINE k == job[c]
           p == k.path
           r == IF k.failed THEN "error" ELSE "ok"
           o == [k EXCEPT !.over = R!Held(p)]
           j == R!Returned(o, r)
<1>1. k \in Job /\ Len(data) \in Nat BY JobOf
<1>2. p \in Paths /\ k.hand \in SUBSET Val /\ k.tag \in Nat /\ k.md \in Marks
  BY <1>1 DEF Job, Marks
<1>3. /\ DOMAIN data = 1 .. Len(data) /\ inPlace \subseteq 1 .. Len(data)
      /\ cut \subseteq 1 .. Len(data) /\ \A q \in Paths : node[q] \in 0 .. Len(data)
  BY DEF Types
<1>4. r \in Results /\ "mismatch" \in Results /\ "exists" \in Results BY DEF Results
<1>5. CASE PutDeclined(c)
  <2>1. UNCHANGED <<node, data, sidecars, inPlace, cut, firsts>>
        /\ locks' \in [Paths -> Clients \cup {0}]
    BY <1>5 DEF PutDeclined, Types
  <2> QED BY <1>4, <1>5, <2>1, ReturnTypes DEF PutDeclined
<1>6. CASE PutDone(c)
  <2>1. /\ data' = Append(data, k.hand) /\ node' = [node EXCEPT ![p] = Len(data')]
        /\ cut' \in {cut, cut \cup {Len(data')}}
        /\ sidecars' = [sidecars EXCEPT ![p] = k.md]
        /\ firsts' \in {firsts, [firsts EXCEPT ![p] = @ \cup {k.tag}]}
        /\ UNCHANGED <<locks, inPlace>> /\ R!Goes(c, j)
    BY <1>6 DEF PutDone, R!Put
  <2>2. data' \in Seq(SUBSET Val) /\ Len(data') = Len(data) + 1 BY <1>2, <2>1, DataAppend
  <2>3. R!Held(p) \in SUBSET Val BY <1>2, HeldType
  <2>4. o \in Job BY <1>1, <2>3, OverType
  <2> HIDE DEF o, r
  <2>5. j \in Job /\ j.ino = 0 /\ j.out = 0 BY <1>4, <2>4, ReturnedType
  <2> HIDE DEF j, p, k
  <2>6. node' \in [Paths -> Nat] /\ \A q \in Paths : node'[q] <= Len(data')
    BY <1>1, <1>2, <1>3, <2>1, <2>2 DEF Types
  <2>7. inPlace' \subseteq 1 .. Len(data') /\ cut' \subseteq 1 .. Len(data')
    <3>1. 1 .. Len(data) \subseteq 1 .. Len(data') /\ Len(data') \in 1 .. Len(data')
      BY <1>1, <2>2
    <3> QED BY <1>3, <2>1, <3>1
  <2>8. sidecars' \in [Paths -> Marks] /\ locks' \in [Paths -> Clients \cup {0}]
    BY <1>2, <2>1 DEF Types
  <2>9. firsts' \in [Paths -> SUBSET Nat] BY <1>2, <2>1 DEF Types
  <2>10. Len(data) <= Len(data') /\ j.ino <= Len(data') /\ j.out <= Len(data')
    BY <1>1, <2>2, <2>5
  <2> QED BY <2>1, <2>2, <2>5, <2>6, <2>7, <2>8, <2>9, <2>10, WriteTypes
<1> QED BY <1>5, <1>6, PutObjectCases

LEMMA CarryTypes ==
    ASSUME Types, Opened, Paths # {}, NEW c \in Clients,
           R!Delete(c) \/ R!Remove(c) \/ R!MoveBytes(c) \/ R!Carry(c) \/ R!CopyPour(c)
    PROVE  Types'
<1>1. /\ job[c] \in Job /\ Len(data) \in Nat
      /\ job[c].ino \in Nat /\ job[c].ino <= Len(data)
      /\ job[c].out \in Nat /\ job[c].out <= Len(data)
  BY JobOf
<1>2. job[c].path \in Paths /\ job[c].to \in Paths /\ job[c].carried \in Marks
  BY <1>1 DEF Job
<1>3. /\ DOMAIN data = 1 .. Len(data) /\ inPlace \subseteq 1 .. Len(data)
      /\ cut \subseteq 1 .. Len(data) /\ \A q \in Paths : node[q] \in 0 .. Len(data)
      /\ node \in [Paths -> Nat] /\ firsts \in [Paths -> SUBSET Nat]
      /\ sidecars \in [Paths -> Marks] /\ locks \in [Paths -> Clients \cup {0}]
      /\ data \in Seq(SUBSET Val)
  BY DEF Types
<1>4. "carrying" \in Pcs /\ "removing" \in Pcs /\ "ok" \in Results /\ "error" \in Results
  BY DEF Pcs, Results
<1>5. 0 \in Marks BY RoutesAssumption DEF Marks
<1>6. ASSUME data' \in Seq(SUBSET Val), Len(data') = Len(data), UNCHANGED <<locks, inPlace, cut>>,
             node' \in [Paths -> Nat], \A p \in Paths : node'[p] <= Len(data),
             sidecars' \in [Paths -> Marks], firsts' \in [Paths -> SUBSET Nat],
             NEW j \in Job, R!Goes(c, j), j.ino \in {0, job[c].ino}, j.out \in {0, job[c].out}
      PROVE  Types'
  <2>1. inPlace' \subseteq 1 .. Len(data') /\ cut' \subseteq 1 .. Len(data')
        /\ locks' \in [Paths -> Clients \cup {0}] /\ \A p \in Paths : node'[p] <= Len(data')
    BY <1>3, <1>6
  <2>2. Len(data) <= Len(data') /\ j.ino <= Len(data') /\ j.out <= Len(data')
    BY <1>1, <1>6
  <2> QED BY <1>6, <2>1, <2>2, WriteTypes
<1>7. CASE R!Delete(c) \/ R!Remove(c)
  <2>1. R!Unlinked(job[c].path) /\ R!Return(c, "ok") BY <1>7 DEF R!Delete, R!Remove
  <2>2. /\ node' = [node EXCEPT ![job[c].path] = 0]
        /\ sidecars' \in {sidecars, [sidecars EXCEPT ![job[c].path] = 0]}
        /\ firsts' = [firsts EXCEPT ![job[c].path] = {}]
        /\ UNCHANGED <<data, locks, inPlace, cut>>
    BY <2>1 DEF R!Unlinked, R!None
  <2>3. PICK j \in Job : R!Goes(c, j) /\ j.ino = 0 /\ j.out = 0 BY <1>4, <2>1, ReturnGoes
  <2>4. sidecars' \in [Paths -> Marks]
    <3>1. [sidecars EXCEPT ![job[c].path] = 0] \in [Paths -> Marks] BY <1>3, <1>5
    <3> QED BY <1>3, <2>2, <3>1
  <2>5. node' \in [Paths -> Nat] /\ \A p \in Paths : node'[p] <= Len(data)
    <3>1. node' \in [Paths -> Nat] /\ \A p \in Paths : node'[p] \in {0, node[p]} BY <1>3, <2>2
    <3>2. \A p \in Paths : node[p] <= Len(data) /\ 0 <= Len(data) BY <1>1, <1>3
    <3> QED BY <3>1, <3>2
  <2>6. firsts' \in [Paths -> SUBSET Nat] BY <1>3, <2>2
  <2> QED BY <1>3, <1>6, <2>6, <2>2, <2>3, <2>4, <2>5
<1>8. CASE R!MoveBytes(c)
  <2>1. /\ node' = node \/
           node' = [node EXCEPT ![job[c].to] = node[job[c].path], ![job[c].path] = 0]
        /\ firsts' = [firsts EXCEPT ![job[c].to] = {}, ![job[c].path] = {}]
        /\ UNCHANGED <<data, sidecars, locks, inPlace, cut>> /\ R!To(c, "carrying")
    BY <1>8 DEF R!MoveBytes, R!None
  <2>2. PICK j \in Job : R!Goes(c, j) /\ j.ino = job[c].ino /\ j.out = job[c].out
    BY <1>4, <2>1, ToGoes
  <2>3. node' \in [Paths -> Nat] /\ \A p \in Paths : node'[p] <= Len(data)
    <3>1. CASE node' = node BY <1>3, <3>1
    <3>2. CASE node' = [node EXCEPT ![job[c].to] = node[job[c].path], ![job[c].path] = 0]
      <4>1. \A p \in Paths : node'[p] \in {0, node[p], node[job[c].path]}
        BY <1>2, <1>3, <3>2
      <4>2. node' \in [Paths -> Nat] BY <1>2, <1>3, <3>2
      <4>3. \A p \in Paths : node[p] <= Len(data) /\ 0 <= Len(data) BY <1>1, <1>3
      <4> QED BY <1>2, <4>1, <4>2, <4>3
    <3> QED BY <2>1, <3>1, <3>2
  <2>4. firsts' \in [Paths -> SUBSET Nat] BY <1>3, <2>1
  <2> QED BY <1>3, <1>6, <2>1, <2>2, <2>3, <2>4
<1>9. CASE R!Carry(c)
  <2>1. /\ sidecars' \in {sidecars, [sidecars EXCEPT ![job[c].to] = job[c].carried]}
        /\ UNCHANGED <<node, data, locks, inPlace, cut, firsts>>
        /\ R!To(c, "removing") \/ R!Return(c, "ok") \/ R!Return(c, "error")
    BY <1>9 DEF R!Carry, R!After, R!history
  <2>2. \E j \in Job : R!Goes(c, j) /\ j.ino \in {0, job[c].ino} /\ j.out \in {0, job[c].out}
    <3>1. CASE R!To(c, "removing") BY <1>4, <3>1, ToGoes
    <3>2. CASE R!Return(c, "ok") BY <1>4, <3>2, ReturnGoes
    <3>3. CASE R!Return(c, "error") BY <1>4, <3>3, ReturnGoes
    <3> QED BY <2>1, <3>1, <3>2, <3>3
  <2>3. sidecars' \in [Paths -> Marks] BY <1>2, <1>3, <2>1
  <2>4. node' \in [Paths -> Nat] /\ \A p \in Paths : node'[p] <= Len(data) BY <1>1, <1>3, <2>1
  <2> QED BY <1>3, <1>6, <2>1, <2>2, <2>3, <2>4
<1>10. CASE R!CopyPour(c)
  <2> DEFINE j == [job[c] EXCEPT !.pc = "carrying", !.ino = 0, !.mixed = FALSE]
  <2>1. PICK seen \in R!Contents(job[c]) : data' = [data EXCEPT ![job[c].out] = seen]
    BY <1>10 DEF R!CopyPour
  <2>2. UNCHANGED <<node, sidecars, locks, inPlace, cut, firsts>> /\ R!Goes(c, j)
    BY <1>10 DEF R!CopyPour, R!history, R!None
  <2>3. job[c].ino \in DOMAIN data /\ job[c].out \in 1 .. Len(data)
    BY <1>3, <1>10 DEF R!CopyPour, R!At, Opened
  <2>4. data[job[c].ino] \in SUBSET Val BY <1>3, <2>3
  <2>5. seen \in SUBSET Val BY <2>4 DEF R!Contents
  <2>6. data' \in Seq(SUBSET Val) /\ Len(data') = Len(data) BY <2>1, <2>3, <2>5, DataReplace
  <2>7. j \in Job /\ j.ino = 0 /\ j.out = job[c].out BY <1>1, <1>4 DEF Job
  <2> HIDE DEF j
  <2>8. node' \in [Paths -> Nat] /\ \A p \in Paths : node'[p] <= Len(data) BY <1>1, <1>3, <2>2
  <2> QED BY <1>3, <1>6, <2>2, <2>6, <2>7, <2>8
<1> QED BY <1>7, <1>8, <1>9, <1>10

LEMMA CopyTypes ==
    ASSUME Types, Paths # {}, NEW c \in Clients, R!CopyOpen(c) \/ R!CopyObject(c)
    PROVE  Types'
<1>1. /\ job[c] \in Job /\ Len(data) \in Nat
      /\ job[c].ino \in Nat /\ job[c].ino <= Len(data)
      /\ job[c].out \in Nat /\ job[c].out <= Len(data)
  BY JobOf
<1>2. job[c].path \in Paths /\ job[c].to \in Paths BY <1>1 DEF Job
<1>3. /\ DOMAIN data = 1 .. Len(data) /\ inPlace \subseteq 1 .. Len(data)
      /\ cut \subseteq 1 .. Len(data) /\ \A q \in Paths : node[q] \in 0 .. Len(data)
      /\ node \in [Paths -> Nat] /\ firsts \in [Paths -> SUBSET Nat]
      /\ sidecars \in [Paths -> Marks] /\ locks \in [Paths -> Clients \cup {0}]
      /\ data \in Seq(SUBSET Val)
  BY DEF Types
<1>4. "carrying" \in Pcs /\ "pouring" \in Pcs BY DEF Pcs
<1>5. {} \in SUBSET Val OBVIOUS
<1>6. ASSUME data' \in Seq(SUBSET Val), Len(data') \in {Len(data), Len(data) + 1},
             NEW n \in 1 .. Len(data'), node' = [node EXCEPT ![job[c].to] = n],
             UNCHANGED <<locks, firsts>>, sidecars' \in [Paths -> Marks],
             inPlace' = inPlace \/ inPlace' = inPlace \cup {n}, cut' = cut \/ cut' = cut \cup {n},
             NEW j \in Job, R!Goes(c, j), j.ino <= Len(data'), j.out <= Len(data')
      PROVE  Types'
  <2>1. 1 .. Len(data) \subseteq 1 .. Len(data') /\ Len(data) <= Len(data') BY <1>1, <1>6
  <2>2. inPlace' \subseteq 1 .. Len(data') /\ cut' \subseteq 1 .. Len(data')
    BY <1>3, <1>6, <2>1
  <2>3. node' \in [Paths -> Nat] /\ \A p \in Paths : node'[p] \in {node[p], n}
    BY <1>2, <1>3, <1>6
  <2>4. \A p \in Paths : node[p] <= Len(data') /\ n <= Len(data') BY <1>1, <1>3, <1>6
  <2>5. \A p \in Paths : node'[p] <= Len(data') BY <2>3, <2>4
  <2>6. locks' \in [Paths -> Clients \cup {0}] /\ firsts' \in [Paths -> SUBSET Nat]
    BY <1>3, <1>6
  <2> QED BY <1>6, <2>1, <2>2, <2>3, <2>5, <2>6, WriteTypes
<1>7. CASE R!CopyOpen(c)
  <2> DEFINE t == job[c].to
             i == IF node[t] = R!None THEN Len(data) + 1 ELSE node[t]
             j == [job[c] EXCEPT !.pc = "pouring", !.ino = node[job[c].path], !.out = i]
  <2>1. /\ data' = IF node[t] = R!None THEN Append(data, {}) ELSE [data EXCEPT ![i] = {}]
        /\ node' = [node EXCEPT ![t] = i] /\ inPlace' = inPlace \cup {i}
        /\ UNCHANGED <<sidecars, locks, cut, firsts>> /\ R!Goes(c, j)
    BY <1>7 DEF R!CopyOpen
  <2>2. /\ data' \in Seq(SUBSET Val) /\ Len(data') \in {Len(data), Len(data) + 1}
        /\ i \in 1 .. Len(data')
    <3>1. CASE node[t] = 0
      <4>1. data' = Append(data, {}) /\ i = Len(data) + 1 BY <2>1, <3>1 DEF R!None
      <4>2. data' \in Seq(SUBSET Val) /\ Len(data') = Len(data) + 1
        BY <1>5, <4>1, DataAppend
      <4> HIDE DEF i, t
      <4> QED BY <1>1, <4>1, <4>2
    <3>2. CASE node[t] # 0
      <4>1. data' = [data EXCEPT ![node[t]] = {}] /\ i = node[t] BY <2>1, <3>2 DEF R!None
      <4>2. node[t] \in 1 .. Len(data) BY <1>1, <1>2, <1>3, <3>2
      <4>3. data' \in Seq(SUBSET Val) /\ Len(data') = Len(data)
        BY <1>5, <4>1, <4>2, DataReplace
      <4> HIDE DEF i, t
      <4> QED BY <1>1, <4>1, <4>2, <4>3
    <3> QED BY <3>1, <3>2
  <2> HIDE DEF i
  <2>3. i \in Nat /\ i <= Len(data') /\ node[job[c].path] \in Nat /\ node[job[c].path] <= Len(data')
    BY <1>1, <1>2, <1>3, <2>2
  <2>4. j \in Job /\ j.ino = node[job[c].path] /\ j.out = i BY <1>1, <1>4, <2>3 DEF Job
  <2> HIDE DEF j
  <2> QED BY <1>3, <1>6, <2>1, <2>2, <2>3, <2>4
<1>8. CASE R!CopyObject(c)
  <2>1. /\ data' = Append(data, R!Held(job[c].path))
        /\ node' = [node EXCEPT ![job[c].to] = Len(data')]
        /\ sidecars' = [sidecars EXCEPT ![job[c].to] = sidecars[job[c].path]]
        /\ cut' = cut \/ cut' = cut \cup {Len(data')}
        /\ UNCHANGED <<locks, inPlace, firsts>> /\ R!To(c, "carrying")
    BY <1>8 DEF R!CopyObject
  <2>2. PICK j \in Job : R!Goes(c, j) /\ j.ino = job[c].ino /\ j.out = job[c].out
    BY <1>4, <2>1, ToGoes
  <2>3. R!Held(job[c].path) \in SUBSET Val BY <1>2, HeldType
  <2>4. data' \in Seq(SUBSET Val) /\ Len(data') = Len(data) + 1 BY <2>1, <2>3, DataAppend
  <2>5. sidecars' \in [Paths -> Marks] BY <1>2, <1>3, <2>1
  <2>6. Len(data') \in 1 .. Len(data') /\ j.ino <= Len(data') /\ j.out <= Len(data')
    BY <1>1, <2>2, <2>4
  <2> QED BY <1>6, <2>1, <2>2, <2>4, <2>5, <2>6
<1> QED BY <1>7, <1>8

\* Every step keeps the types.
LEMMA TypesStep == Types /\ Opened /\ Paths # {} /\ R!Next => Types'
<1> SUFFICES ASSUME Types, Opened, Paths # {}, NEW c \in Clients,
                    \/ R!Begin(c) \/ R!Refuse(c) \/ R!Open(c) \/ R!Read(c) \/ R!Merge(c)
                    \/ R!Create(c) \/ R!WriteStep(c) \/ R!MoveStep(c) \/ R!Fail(c)
             PROVE  Types'
  BY DEF R!Next
<1>1. CASE R!Begin(c) BY <1>1, BeginTypes
<1>2. CASE R!Refuse(c) \/ R!Open(c) \/ R!Read(c) \/ R!Merge(c) \/ R!Create(c)
  BY <1>2, LooksTypes
<1>3. CASE R!WriteStep(c)
  <2>1. CASE R!Refused(c) \/ R!Encode(c) \/ R!Close(c) BY <2>1, LooksTypes
  <2>2. CASE R!Truncate(c) \/ R!Fill(c) \/ R!Rename(c) \/ R!Note(c) BY <2>2, FillTypes
  <2>3. CASE R!Lock(c) \/ R!Check(c) BY <2>3, LockTypes
  <2>4. CASE R!PutObject(c) BY <2>4, PutObjectTypes
  <2> QED BY <1>3, <2>1, <2>2, <2>3, <2>4 DEF R!WriteStep
<1>4. CASE R!MoveStep(c)
  <2>1. CASE R!Missing(c) \/ R!Carried(c) BY <2>1, LooksTypes
  <2>2. CASE R!Delete(c) \/ R!Remove(c) \/ R!MoveBytes(c) \/ R!Carry(c) \/ R!CopyPour(c)
    BY <2>2, CarryTypes
  <2>3. CASE R!CopyOpen(c) \/ R!CopyObject(c) BY <2>3, CopyTypes
  <2> QED BY <1>4, <2>1, <2>2, <2>3 DEF R!MoveStep
<1>5. CASE R!Fail(c) BY <1>5, LockTypes
<1> QED BY <1>1, <1>2, <1>3, <1>4, <1>5

Transfer(k) == k.op \in {"copy", "move"}
Writes(k) == k.op \in {"create", "patch"}
Moved(k, b) == Transfer(k) /\ b = "os"
Pre == {"start", "reading", "merging", "writing", "encoding", "closing", "checking", "renaming"}

\* What a call is doing fits what it was asked for.
Fits(k, b) ==
    /\ k.pc = "reading" => k.op \in {"read", "patch"} \/ Moved(k, b)
    /\ k.pc = "merging" => k.op = "patch"
    /\ k.pc = "writing" => (Writes(k) /\ ~k.stream) \/ Moved(k, b)
    /\ k.pc \in {"encoding", "closing"} => k.stream
    /\ k.pc = "checking" => R!Conditional(k) /\ b # "s3"
    /\ k.pc = "renaming" => k.stream \/ (R!Conditional(k) /\ b # "s3")
    /\ k.pc = "filling" => ~R!Conditional(k) /\ (Writes(k) \/ Moved(k, b)) /\ b # "s3"
    /\ k.pc = "noting" => Writes(k) \/ Moved(k, b)
    /\ k.pc = "moving" => k.op = "move" /\ b = "disk"
    /\ k.pc = "copying" => Transfer(k) /\ b # "os" /\ (k.op = "move" => b = "s3")
    /\ k.pc = "pouring" => k.op = "copy" /\ b = "disk"
    /\ k.pc = "carrying" => Transfer(k) /\ b # "os"
    /\ k.pc = "removing" => k.op = "move" /\ b # "disk"

Sound(k, b) ==
    /\ k.mode = "strict" => k.op = "create"
    /\ k.mode = "match" => Writes(k)
    /\ k.stream => k.op = "create" /\ k.mode # "match"
    /\ k.failed => k.stream
    /\ k.pc # "idle" => k.op # "none" /\ k.result = "none"
    /\ Fits(k, b)
    /\ Writes(k) /\ k.pc \in {"writing", "encoding", "closing", "checking", "renaming"} =>
         k.tag \in k.hand \/ k.failed
    /\ k.pc \in Pre => k.over = {}

AllSound == \A c \in Clients : Sound(job[c], backend)

LEMMA SoundWatched ==
    ASSUME NEW k \in Job, NEW b, Sound(k, b), NEW q \in BOOLEAN, NEW f \in BOOLEAN, NEW m \in BOOLEAN
    PROVE  Sound(Watched(k, q, f, m), b)
<1>1. LET w == Watched(k, q, f, m) IN
      /\ w.pc = k.pc /\ w.op = k.op /\ w.mode = k.mode /\ w.stream = k.stream
      /\ w.failed = k.failed /\ w.result = k.result /\ w.tag = k.tag /\ w.hand = k.hand
      /\ w.over = k.over
  BY DEF Watched, Job
<1> QED BY <1>1 DEF Sound, Fits, Transfer, Writes, Moved, R!Conditional

LEMMA SoundNoJob == ASSUME NEW b PROVE Sound(R!NoJob, b)
BY DEF Sound, Fits, Transfer, Writes, Moved, R!Conditional, R!NoJob, Pre

LEMMA SoundReturned ==
    ASSUME NEW k \in Job, NEW b, NEW r,
           k.mode = "strict" => k.op = "create", k.mode = "match" => Writes(k)
    PROVE  Sound(R!Returned(k, r), b)
<1>1. CASE k.op \notin {"patch", "copy", "move"} BY <1>1, SoundNoJob DEF R!Returned
<1>2. CASE k.op \in {"patch", "copy", "move"}
  <2> DEFINE j == R!Returned(k, r)
  <2>1. /\ j.pc = "idle" /\ j.op = k.op /\ j.mode = k.mode /\ ~j.stream /\ ~j.failed
    BY <1>2 DEF R!Returned, R!NoJob
  <2> HIDE DEF j
  <2> QED BY <2>1 DEF Sound, Fits, Transfer, Writes, Moved, R!Conditional, Pre, j
<1> QED BY <1>1, <1>2

LEMMA SoundGoes ==
    ASSUME Types, AllSound, NEW c \in Clients, NEW j, Sound(j, backend), R!Goes(c, j)
    PROVE  AllSound'
<1>1. job' = [d \in Clients |-> IF d = c THEN j ELSE R!Sees(job[d], job[c])] /\ backend' = backend
  BY DEF R!Goes
<1>2. ASSUME NEW d \in Clients PROVE Sound(R!Sees(job[d], job[c]), backend)
  <2>1. job[d] \in Job /\ Sound(job[d], backend) BY JobOf DEF AllSound
  <2>2. CASE R!Sees(job[d], job[c]) = R!NoJob BY <2>2, SoundNoJob
  <2>3. CASE \E q, f, m \in BOOLEAN : R!Sees(job[d], job[c]) = Watched(job[d], q, f, m)
    <3>1. PICK q \in BOOLEAN, f \in BOOLEAN, m \in BOOLEAN :
            R!Sees(job[d], job[c]) = Watched(job[d], q, f, m)
      BY <2>3
    <3>2. Sound(Watched(job[d], q, f, m), backend) BY <2>1, SoundWatched
    <3> QED BY <3>1, <3>2
  <2> QED BY <2>1, <2>2, <2>3, SeesIsWatched
<1>3. \A d \in Clients : job'[d] = j \/ job'[d] = R!Sees(job[d], job[c]) BY <1>1
<1>4. ASSUME NEW d \in Clients PROVE Sound(job'[d], backend')
  <2>1. CASE job'[d] = j BY <1>1, <2>1
  <2>2. CASE job'[d] = R!Sees(job[d], job[c]) BY <1>1, <1>2, <2>2
  <2> QED BY <1>3, <2>1, <2>2
<1> QED BY <1>4 DEF AllSound

LEMMA SoundReturn ==
    ASSUME Types, AllSound, NEW c \in Clients, NEW r, R!Return(c, r)
    PROVE  AllSound'
<1>1. job[c] \in Job /\ Sound(job[c], backend) BY JobOf DEF AllSound
<1>2. Sound(R!Returned(job[c], r), backend) BY <1>1, SoundReturned DEF Sound
<1> QED BY <1>2, SoundGoes DEF R!Return

\* A call that goes on without changing what it was asked for.
Same(k, j) ==
    /\ j.op = k.op /\ j.mode = k.mode /\ j.stream = k.stream /\ j.result = k.result
    /\ j.tag = k.tag /\ j.failed = k.failed /\ j.hand = k.hand

LEMMA SoundTo ==
    ASSUME NEW k \in Job, NEW pc
    PROVE  LET j == [k EXCEPT !.pc = pc] IN j.pc = pc /\ Same(k, j) /\ j.over = k.over
BY DEF Job, Same

\* Every step keeps a call fit for what it was asked for.
LEMMA SoundStep == Types /\ Paths # {} /\ AllSound /\ R!Next => AllSound'
<1> SUFFICES ASSUME Types, Paths # {}, AllSound, NEW c \in Clients,
                    \/ R!Begin(c) \/ R!Refuse(c) \/ R!Open(c) \/ R!Read(c) \/ R!Merge(c)
                    \/ R!Create(c) \/ R!WriteStep(c) \/ R!MoveStep(c) \/ R!Fail(c)
             PROVE  AllSound'
  BY DEF R!Next
<1> DEFINE k == job[c]
<1>1. k \in Job /\ Sound(k, backend) /\ backend \in {"disk", "s3", "os"}
  BY JobOf DEF AllSound, Types
<1>2. ASSUME NEW r, R!Return(c, r) PROVE AllSound' BY <1>2, SoundReturn
<1>3. ASSUME NEW j, R!Goes(c, j), Sound(j, backend) PROVE AllSound' BY <1>3, SoundGoes
<1>4. CASE R!Begin(c)
  <2>1. PICK op \in R!Ops, p \in Paths, q \in Paths, mode \in {"any", "strict", "match"},
             stream \in BOOLEAN :
          /\ op \notin {"copy", "move"} => q = p
          /\ op \notin {"create", "patch"} => mode = "any"
          /\ op = "patch" => mode # "strict"
          /\ stream => op = "create" /\ mode # "match"
          /\ job' = [job EXCEPT ![c] = R!Asked(op, p, q, mode, stream)]
    BY <1>4 DEF R!Begin
  <2> DEFINE j == R!Asked(op, p, q, mode, stream)
  <2>2. calls < MaxCalls /\ backend' = backend BY <1>4 DEF R!Begin
  <2>3. /\ j.pc = "start" /\ j.op = op /\ j.mode = mode
        /\ j.stream = stream /\ j.over = {} /\ ~j.failed /\ j.result = "none"
    BY <2>2, AskedType
  <2> HIDE DEF j
  <2>4. Sound(j, backend)
    BY <2>1, <2>3 DEF Sound, Fits, Transfer, Writes, Moved, R!Conditional, Pre, R!Ops
  <2>5. \A d \in Clients : job'[d] = j \/ job'[d] = job[d] BY <2>1 DEF Types, j
  <2>6. ASSUME NEW d \in Clients PROVE Sound(job'[d], backend')
    <3>1. Sound(job[d], backend) BY DEF AllSound
    <3> QED BY <2>2, <2>4, <2>5, <3>1
  <2> QED BY <2>6 DEF AllSound
<1>5. CASE R!Refuse(c) BY <1>2, <1>5 DEF R!Refuse
<1>6. CASE R!Open(c)
  <2> DEFINE j == [k EXCEPT !.pc = "reading", !.ino = node[k.path]]
  <2>1. R!Return(c, "notFound") \/ R!Goes(c, j) BY <1>6 DEF R!Open
  <2>2. k.pc = "start" /\ (k.op \in {"read", "patch"} \/ Moved(k, backend))
    BY <1>1, <1>6 DEF R!Open, R!At, R!Copies, Moved, Transfer
  <2>3. /\ j.pc = "reading" /\ j.op = k.op /\ j.mode = k.mode /\ j.stream = k.stream
        /\ j.failed = k.failed /\ j.result = k.result /\ j.tag = k.tag /\ j.hand = k.hand
        /\ j.over = k.over
    BY <1>1 DEF Job
  <2> HIDE DEF j
  <2>4. Sound(j, backend)
    BY <1>1, <2>2, <2>3
    DEF Sound, Fits, Transfer, Writes, Moved, R!Conditional, Pre
  <2> QED BY <1>2, <1>3, <2>1, <2>4
<1>7. CASE R!Read(c)
  <2>1. PICK seen \in R!Contents(k) :
          LET j == [k EXCEPT !.hand = seen, !.ino = R!None, !.mixed = FALSE] IN
          IF j.op = "read" THEN R!Return(c, "ok")
          ELSE R!Goes(c, [j EXCEPT !.pc = IF j.op = "patch" THEN "merging" ELSE "writing"])
    BY <1>7 DEF R!Read
  <2> DEFINE i == [k EXCEPT !.hand = seen, !.ino = R!None, !.mixed = FALSE]
             j == [i EXCEPT !.pc = IF i.op = "patch" THEN "merging" ELSE "writing"]
  <2>2. k.pc = "reading" BY <1>7 DEF R!Read, R!At
  <2>3. R!Return(c, "ok") \/ (k.op # "read" /\ R!Goes(c, j)) BY <1>1, <2>1 DEF Job
  <2>4. /\ j.pc = (IF k.op = "patch" THEN "merging" ELSE "writing")
        /\ j.op = k.op /\ j.mode = k.mode /\ j.stream = k.stream
        /\ j.failed = k.failed /\ j.result = k.result /\ j.over = k.over
    BY <1>1 DEF Job
  <2> HIDE DEF i, j
  <2>5. k.op # "read" => Sound(j, backend)
    BY <1>1, <2>2, <2>4 DEF Sound, Fits, Transfer, Writes, Moved, R!Conditional, Pre
  <2> QED BY <1>2, <1>3, <2>3, <2>5
<1>8. CASE R!Merge(c)
  <2> DEFINE j == [k EXCEPT !.pc = "writing", !.hand = R!Merged(k)]
  <2>1. R!Goes(c, j) /\ k.pc = "merging" BY <1>8 DEF R!Merge, R!At
  <2>2. k.tag \in R!Merged(k) BY DEF R!Merged
  <2>3. /\ j.pc = "writing" /\ j.op = k.op /\ j.mode = k.mode /\ j.stream = k.stream
        /\ j.failed = k.failed /\ j.result = k.result /\ j.tag = k.tag /\ j.hand = R!Merged(k)
        /\ j.over = k.over
    BY <1>1 DEF Job
  <2> HIDE DEF j
  <2>4. Sound(j, backend)
    BY <1>1, <2>1, <2>2, <2>3 DEF Sound, Fits, Transfer, Writes, Moved, R!Conditional, Pre
  <2> QED BY <1>3, <2>1, <2>4
<1>9. CASE R!Create(c)
  <2> DEFINE pc == IF k.stream THEN "encoding" ELSE "writing"
             j == [k EXCEPT !.pc = pc, !.hand = {k.tag}]
  <2>1. R!Goes(c, j) /\ k.pc = "start" /\ k.op = "create" BY <1>9 DEF R!Create, R!At
  <2>2. /\ j.pc = pc /\ j.op = k.op /\ j.mode = k.mode /\ j.stream = k.stream
        /\ j.failed = k.failed /\ j.result = k.result /\ j.tag = k.tag /\ j.hand = {k.tag}
        /\ j.over = k.over
    BY <1>1 DEF Job
  <2> HIDE DEF j
  <2>3. Sound(j, backend)
    BY <1>1, <2>1, <2>2 DEF Sound, Fits, Transfer, Writes, Moved, R!Conditional, Pre
  <2> QED BY <1>3, <2>1, <2>3
<1>10. CASE R!WriteStep(c)
  <2> DEFINE To(pc) == [k EXCEPT !.pc = pc]
  <2>1. ASSUME NEW pc PROVE To(pc).pc = pc /\ Same(k, To(pc)) /\ To(pc).over = k.over
    BY <1>1, SoundTo
  <2>2. ASSUME NEW pc, R!To(c, pc) PROVE R!Goes(c, To(pc)) BY <2>2 DEF R!To
  <2> HIDE DEF To
  <2> USE DEF Sound, Fits, Transfer, Writes, Moved, R!Conditional, Pre, Same
  <2>3. CASE R!Refused(c) BY <1>2, <2>3 DEF R!Refused
  <2>4. CASE R!Truncate(c)
    <3> DEFINE t == R!Target(k)
               i == IF node[t] = R!None THEN Len(data) + 1 ELSE node[t]
               j == [k EXCEPT !.pc = "filling", !.ino = i]
    <3>1. R!Goes(c, j) /\ k.pc = "writing" /\ backend # "s3" /\ ~R!Conditional(k)
      BY <2>4 DEF R!Truncate, R!Unconditional, R!At
    <3> HIDE DEF i
    <3>2. j.pc = "filling" /\ Same(k, j) /\ j.over = k.over BY <1>1 DEF Job
    <3> HIDE DEF j
    <3>3. Sound(j, backend) BY <1>1, <3>1, <3>2
    <3> QED BY <1>3, <3>1, <3>3
  <2>5. CASE R!Fill(c)
    <3> DEFINE j == [k EXCEPT !.pc = "noting", !.ino = R!None]
    <3>1. R!Goes(c, j) /\ k.pc = "filling" BY <2>5 DEF R!Fill, R!At
    <3>2. j.pc = "noting" /\ Same(k, j) /\ j.over = k.over BY <1>1 DEF Job
    <3> HIDE DEF j
    <3>3. Sound(j, backend) BY <1>1, <3>1, <3>2
    <3> QED BY <1>3, <3>1, <3>3
  <2>6. CASE R!Encode(c)
    <3> DEFINE j == [k EXCEPT !.pc = "closing", !.hand = {}, !.failed = TRUE]
    <3>1. (R!To(c, "closing") \/ R!Goes(c, j)) /\ k.pc = "encoding" BY <2>6 DEF R!Encode, R!At
    <3>2. /\ j.pc = "closing" /\ j.op = k.op /\ j.mode = k.mode /\ j.stream = k.stream
          /\ j.failed /\ j.result = k.result /\ j.over = k.over
      BY <1>1 DEF Job
    <3> HIDE DEF j
    <3>3. Sound(j, backend) BY <1>1, <3>1, <3>2
    <3>4. Sound(To("closing"), backend) BY <1>1, <2>1, <3>1
    <3> QED BY <1>3, <2>2, <3>1, <3>3, <3>4
  <2>7. CASE R!Close(c)
    <3>1. (R!Return(c, "exists") \/ R!To(c, "renaming")) /\ k.pc = "closing"
      BY <2>7 DEF R!Close, R!At
    <3>2. Sound(To("renaming"), backend) BY <1>1, <2>1, <3>1
    <3> QED BY <1>2, <1>3, <2>2, <3>1, <3>2
  <2>8. CASE R!Lock(c)
    <3>1. R!To(c, "checking") /\ k.pc = "writing" /\ backend # "s3" /\ R!Conditional(k)
      BY <2>8 DEF R!Lock, R!At
    <3>2. Sound(To("checking"), backend) BY <1>1, <2>1, <3>1
    <3> QED BY <1>3, <2>2, <3>1, <3>2
  <2>9. CASE R!Check(c)
    <3>1. (R!Return(c, "mismatch") \/ R!To(c, "renaming")) /\ k.pc = "checking"
      BY <2>9 DEF R!Check, R!At
    <3>2. Sound(To("renaming"), backend) BY <1>1, <2>1, <3>1
    <3> QED BY <1>2, <1>3, <2>2, <3>1, <3>2
  <2>10. CASE R!Rename(c)
    <3> DEFINE j == [k EXCEPT !.pc = "noting", !.over = R!Held(k.path)]
    <3>1. R!Goes(c, j) /\ k.pc = "renaming" BY <2>10 DEF R!Rename, R!At
    <3>2. j.pc = "noting" /\ Same(k, j) BY <1>1 DEF Job
    <3> HIDE DEF j
    <3>3. Sound(j, backend) BY <1>1, <3>1, <3>2
    <3> QED BY <1>3, <3>1, <3>3
  <2>11. CASE R!Note(c)
    <3>1. R!After(c) /\ k.pc = "noting" /\ backend # "s3" BY <2>11 DEF R!Note, R!At
    <3>2. (k.op = "move" /\ R!To(c, "removing")) \/ \E r \in Results : R!Return(c, r)
      BY <3>1 DEF R!After, Results
    <3>3. k.op = "move" => Sound(To("removing"), backend) BY <1>1, <2>1, <3>1
    <3> QED BY <1>2, <1>3, <2>2, <3>2, <3>3
  <2>12. CASE R!PutObject(c)
    <3>1. CASE PutDeclined(c) BY <1>2, <3>1 DEF PutDeclined
    <3>2. CASE PutDone(c)
      <4> DEFINE o == [k EXCEPT !.over = R!Held(k.path)]
                 r == IF k.failed THEN "error" ELSE "ok"
      <4>1. R!Goes(c, R!Returned(o, r)) /\ k.pc \in {"writing", "renaming"}
        BY <3>2 DEF PutDone
      <4>2. o.mode = k.mode /\ o.op = k.op BY <1>1 DEF Job
      <4>3. k.path \in Paths BY <1>1 DEF Job
      <4>4. o \in Job BY <1>1, <4>3, HeldType, OverType
      <4>5. (o.mode = "strict" => o.op = "create") /\ (o.mode = "match" => Writes(o))
        BY <1>1, <4>2
      <4> HIDE DEF Sound, o, r, Writes
      <4>6. Sound(R!Returned(o, r), backend) BY <4>4, <4>5, SoundReturned
      <4> QED BY <1>3, <4>1, <4>6
    <3> QED BY <2>12, <3>1, <3>2, PutObjectCases
  <2> QED BY <1>10, <2>3, <2>4, <2>5, <2>6, <2>7, <2>8, <2>9, <2>10, <2>11, <2>12
          DEF R!WriteStep
<1>11. CASE R!MoveStep(c)
  <2> DEFINE To(pc) == [k EXCEPT !.pc = pc]
  <2>1. ASSUME NEW pc PROVE To(pc).pc = pc /\ Same(k, To(pc)) /\ To(pc).over = k.over
    BY <1>1, SoundTo
  <2>2. ASSUME NEW pc, R!To(c, pc) PROVE R!Goes(c, To(pc)) BY <2>2 DEF R!To
  <2> HIDE DEF To
  <2> USE DEF Sound, Fits, Transfer, Writes, Moved, R!Conditional, Pre, Same
  <2>3. CASE R!Delete(c) BY <1>2, <2>3 DEF R!Delete
  <2>4. CASE R!Missing(c) BY <1>2, <2>4 DEF R!Missing
  <2>5. CASE R!Remove(c) BY <1>2, <2>5 DEF R!Remove
  <2>6. CASE R!Carried(c)
    <3> DEFINE pc == IF k.op = "move" /\ R!Moves THEN "moving" ELSE "copying"
               j == [k EXCEPT !.pc = pc, !.carried = sidecars[k.path]]
    <3>1. R!Goes(c, j) /\ k.pc = "start" /\ Transfer(k) /\ backend # "os"
      BY <1>1, <2>6 DEF R!Carried, R!At, R!Copies
    <3>2. j.pc = pc /\ Same(k, j) /\ j.over = k.over BY <1>1 DEF Job
    <3> HIDE DEF j
    <3>3. Sound(j, backend) BY <1>1, <3>1, <3>2 DEF R!Moves
    <3> QED BY <1>3, <3>1, <3>3
  <2>7. CASE R!MoveBytes(c)
    <3>1. R!To(c, "carrying") /\ k.pc = "moving" BY <2>7 DEF R!MoveBytes, R!At
    <3>2. Sound(To("carrying"), backend) BY <1>1, <2>1, <3>1
    <3> QED BY <1>3, <2>2, <3>1, <3>2
  <2>8. CASE R!CopyOpen(c)
    <3> DEFINE i == IF node[k.to] = R!None THEN Len(data) + 1 ELSE node[k.to]
               j == [k EXCEPT !.pc = "pouring", !.ino = node[k.path], !.out = i]
    <3>1. R!Goes(c, j) /\ k.pc = "copying" /\ backend = "disk" BY <2>8 DEF R!CopyOpen, R!At
    <3> HIDE DEF i
    <3>2. j.pc = "pouring" /\ Same(k, j) /\ j.over = k.over BY <1>1 DEF Job
    <3> HIDE DEF j
    <3>3. Sound(j, backend) BY <1>1, <3>1, <3>2
    <3> QED BY <1>3, <3>1, <3>3
  <2>9. CASE R!CopyPour(c)
    <3> DEFINE j == [k EXCEPT !.pc = "carrying", !.ino = R!None, !.mixed = FALSE]
    <3>1. R!Goes(c, j) /\ k.pc = "pouring" BY <2>9 DEF R!CopyPour, R!At
    <3>2. j.pc = "carrying" /\ Same(k, j) /\ j.over = k.over BY <1>1 DEF Job
    <3> HIDE DEF j
    <3>3. Sound(j, backend) BY <1>1, <3>1, <3>2
    <3> QED BY <1>3, <3>1, <3>3
  <2>10. CASE R!CopyObject(c)
    <3>1. R!To(c, "carrying") /\ k.pc = "copying" BY <2>10 DEF R!CopyObject, R!At
    <3>2. Sound(To("carrying"), backend) BY <1>1, <2>1, <3>1
    <3> QED BY <1>3, <2>2, <3>1, <3>2
  <2>11. CASE R!Carry(c)
    <3>1. k.pc = "carrying" /\ (IF R!Moves THEN R!Return(c, "ok") ELSE R!After(c))
      BY <2>11 DEF R!Carry, R!At
    <3>2. \/ k.op = "move" /\ backend # "disk" /\ R!To(c, "removing")
          \/ \E r \in Results : R!Return(c, r)
      BY <3>1 DEF R!After, R!Moves, Results
    <3>3. k.op = "move" /\ backend # "disk" => Sound(To("removing"), backend) BY <1>1, <2>1, <3>1
    <3> QED BY <1>2, <1>3, <2>2, <3>2, <3>3
  <2> QED BY <1>11, <2>3, <2>4, <2>5, <2>6, <2>7, <2>8, <2>9, <2>10, <2>11 DEF R!MoveStep
<1>12. CASE R!Fail(c) BY <1>2, <1>12 DEF R!Fail
<1> QED BY <1>4, <1>5, <1>6, <1>7, <1>8, <1>9, <1>10, <1>11, <1>12

-----------------------------------------------------------------------------
(* Files are written, but not forgotten.                                     *)

LEMMA GrowsStep ==
    Types /\ Paths # {} /\ R!Next => Len(data) <= Len(data') /\ inPlace \subseteq inPlace'
<1> SUFFICES ASSUME Types, Paths # {}, NEW c \in Clients,
                    \/ R!Begin(c) \/ R!Refuse(c) \/ R!Open(c) \/ R!Read(c) \/ R!Merge(c)
                    \/ R!Create(c) \/ R!WriteStep(c) \/ R!MoveStep(c) \/ R!Fail(c)
             PROVE  Len(data) <= Len(data') /\ inPlace \subseteq inPlace'
  BY DEF R!Next
<1>1. Len(data) \in Nat /\ data \in Seq(SUBSET Val) BY DEF Types
<1>2. job[c] \in Job BY JobOf
<1>3. /\ \A x \in SUBSET Val : Len(Append(data, x)) = Len(data) + 1
      /\ \A x, i : Len([data EXCEPT ![i] = x]) = Len(data)
  BY <1>1
<1>4. {} \in SUBSET Val /\ R!Held(job[c].path) \in SUBSET Val /\ job[c].hand \in SUBSET Val
  BY <1>2, HeldType DEF Job
<1>5. CASE data' = data /\ inPlace' = inPlace BY <1>1, <1>5
<1>6. CASE inPlace \subseteq inPlace' /\ \E x \in SUBSET Val : data' = Append(data, x)
  BY <1>1, <1>3, <1>6
<1>7. CASE inPlace \subseteq inPlace' /\ \E x, i : data' = [data EXCEPT ![i] = x]
  BY <1>1, <1>3, <1>7
<1>8. CASE R!Begin(c) BY <1>5, <1>8 DEF R!Begin, R!disk, R!history
<1>9. CASE R!Refuse(c) \/ R!Open(c) \/ R!Read(c) \/ R!Merge(c) \/ R!Create(c) \/ R!Fail(c)
  BY <1>5, <1>9 DEF R!Refuse, R!Open, R!Read, R!Merge, R!Create, R!Fail, R!Keep, R!disk, R!history
<1>10. CASE R!WriteStep(c)
  <2>1. CASE R!Refused(c) \/ R!Encode(c) \/ R!Close(c) \/ R!Lock(c) \/ R!Check(c) \/ R!Note(c)
    BY <1>5, <2>1 DEF R!Refused, R!Encode, R!Close, R!Lock, R!Check, R!Note, R!Keep, R!disk, R!history
  <2>2. CASE R!Truncate(c)
    <3> DEFINE i == IF node[R!Target(job[c])] = R!None THEN Len(data) + 1 ELSE node[R!Target(job[c])]
    <3>1. /\ data' = Append(data, {}) \/ data' = [data EXCEPT ![i] = {}]
          /\ inPlace' = inPlace \cup {i}
      BY <2>2 DEF R!Truncate
    <3> HIDE DEF i
    <3>2. inPlace \subseteq inPlace' BY <3>1
    <3> QED BY <1>4, <1>6, <1>7, <3>1, <3>2
  <2>3. CASE R!Fill(c)
    <3>1. data' = [data EXCEPT ![job[c].ino] = job[c].hand] /\ inPlace' = inPlace
      BY <2>3 DEF R!Fill, R!history
    <3> QED BY <1>7, <3>1
  <2>4. CASE R!Rename(c)
    <3>1. data' = Append(data, job[c].hand) /\ inPlace' = inPlace BY <2>4 DEF R!Rename, R!Put
    <3> QED BY <1>4, <1>6, <3>1
  <2>5. CASE R!PutObject(c)
    <3>1. CASE PutDeclined(c) BY <1>5, <3>1 DEF PutDeclined
    <3>2. CASE PutDone(c)
      <4>1. data' = Append(data, job[c].hand) /\ inPlace' = inPlace BY <3>2 DEF PutDone, R!Put
      <4> QED BY <1>4, <1>6, <4>1
    <3> QED BY <2>5, <3>1, <3>2, PutObjectCases
  <2> QED BY <1>10, <2>1, <2>2, <2>3, <2>4, <2>5 DEF R!WriteStep
<1>11. CASE R!MoveStep(c)
  <2>1. CASE R!Missing(c) \/ R!Carried(c) \/ R!Carry(c) \/ R!Delete(c) \/ R!Remove(c) \/ R!MoveBytes(c)
    BY <1>5, <2>1 DEF R!Missing, R!Carried, R!Carry, R!Delete, R!Remove, R!MoveBytes, R!Unlinked,
                      R!Keep, R!disk, R!history
  <2>2. CASE R!CopyOpen(c)
    <3> DEFINE i == IF node[job[c].to] = R!None THEN Len(data) + 1 ELSE node[job[c].to]
    <3>1. /\ data' = Append(data, {}) \/ data' = [data EXCEPT ![i] = {}]
          /\ inPlace' = inPlace \cup {i}
      BY <2>2 DEF R!CopyOpen
    <3> HIDE DEF i
    <3>2. inPlace \subseteq inPlace' BY <3>1
    <3> QED BY <1>4, <1>6, <1>7, <3>1, <3>2
  <2>3. CASE R!CopyPour(c)
    <3>1. PICK seen \in R!Contents(job[c]) : data' = [data EXCEPT ![job[c].out] = seen]
      BY <2>3 DEF R!CopyPour
    <3>2. inPlace' = inPlace BY <2>3 DEF R!CopyPour, R!history
    <3> QED BY <1>7, <3>1, <3>2
  <2>4. CASE R!CopyObject(c)
    <3>1. data' = Append(data, R!Held(job[c].path)) /\ inPlace' = inPlace BY <2>4 DEF R!CopyObject
    <3> QED BY <1>4, <1>6, <3>1
  <2> QED BY <1>11, <2>1, <2>2, <2>3, <2>4 DEF R!MoveStep
<1> QED BY <1>8, <1>9, <1>10, <1>11

LEMMA OpenedGoes ==
    ASSUME Types, Opened, NEW c \in Clients, NEW j, R!Goes(c, j), data' \in Seq(SUBSET Val),
           Len(data) <= Len(data'), inPlace \subseteq inPlace',
           /\ j.pc \in {"reading", "pouring"} => j.ino \in DOMAIN data'
           /\ j.pc = "filling" => j.ino \in inPlace'
           /\ j.pc = "pouring" => j.out \in inPlace'
    PROVE  Opened'
<1>1. job' = [d \in Clients |-> IF d = c THEN j ELSE R!Sees(job[d], job[c])] BY DEF R!Goes
<1>2. DOMAIN data \subseteq DOMAIN data'
  <2>1. data \in Seq(SUBSET Val) BY DEF Types
  <2> QED BY <2>1
<1>3. ASSUME NEW d \in Clients
      PROVE  LET s == R!Sees(job[d], job[c]) IN
             /\ s.pc \in {"reading", "pouring"} => s.ino \in DOMAIN data'
             /\ s.pc = "filling" => s.ino \in inPlace'
             /\ s.pc = "pouring" => s.out \in inPlace'
  <2>1. job[d] \in Job BY JobOf
  <2>2. CASE R!Sees(job[d], job[c]) = R!NoJob BY <2>2 DEF R!NoJob
  <2>3. CASE \E q, f, m \in BOOLEAN : R!Sees(job[d], job[c]) = Watched(job[d], q, f, m)
    <3>1. PICK q \in BOOLEAN, f \in BOOLEAN, m \in BOOLEAN :
            R!Sees(job[d], job[c]) = Watched(job[d], q, f, m)
      BY <2>3
    <3>2. LET w == Watched(job[d], q, f, m) IN
          w.pc = job[d].pc /\ w.ino = job[d].ino /\ w.out = job[d].out
      BY <2>1 DEF Watched, Job
    <3> QED BY <1>2, <3>1, <3>2 DEF Opened
  <2> QED BY <2>1, <2>2, <2>3, SeesIsWatched
<1>4. \A d \in Clients : job'[d] = j \/ job'[d] = R!Sees(job[d], job[c]) BY <1>1
<1>5. ASSUME NEW d \in Clients
      PROVE  LET s == job'[d] IN
             /\ s.pc \in {"reading", "pouring"} => s.ino \in DOMAIN data'
             /\ s.pc = "filling" => s.ino \in inPlace'
             /\ s.pc = "pouring" => s.out \in inPlace'
  <2>1. CASE job'[d] = j BY <2>1
  <2>2. CASE job'[d] = R!Sees(job[d], job[c]) BY <1>3, <2>2
  <2> QED BY <1>4, <2>1, <2>2
<1> QED BY <1>5 DEF Opened

LEMMA ReturnedIdle == \A k, r : R!Returned(k, r).pc = "idle"
BY DEF R!Returned, R!NoJob

\* Every step keeps what is open a file.
LEMMA OpenedStep == Types /\ Paths # {} /\ Opened /\ Types' /\ R!Next => Opened'
<1> SUFFICES ASSUME Types, Paths # {}, Opened, Types', NEW c \in Clients, R!Next,
                    \/ R!Begin(c) \/ R!Refuse(c) \/ R!Open(c) \/ R!Read(c) \/ R!Merge(c)
                    \/ R!Create(c) \/ R!WriteStep(c) \/ R!MoveStep(c) \/ R!Fail(c)
             PROVE  Opened'
  BY DEF R!Next
<1> DEFINE k == job[c]
<1>1. k \in Job /\ data' \in Seq(SUBSET Val) /\ Len(data) <= Len(data') /\ inPlace \subseteq inPlace'
  BY JobOf, GrowsStep DEF Types
<1>2. ASSUME NEW j, R!Goes(c, j), j.pc \notin {"reading", "pouring", "filling"} PROVE Opened'
  BY <1>1, <1>2, OpenedGoes
<1>3. ASSUME NEW r, R!Return(c, r) PROVE Opened' BY <1>2, <1>3, ReturnedIdle DEF R!Return
<1>4. ASSUME NEW pc, R!To(c, pc), pc \notin {"reading", "pouring", "filling"} PROVE Opened'
  <2>1. [k EXCEPT !.pc = pc].pc = pc BY <1>1 DEF Job
  <2> QED BY <1>2, <1>4, <2>1 DEF R!To
<1>5. Len(data) \in Nat /\ data \in Seq(SUBSET Val) /\ DOMAIN data = 1 .. Len(data)
      /\ DOMAIN data \subseteq DOMAIN data'
  <2>1. Len(data) \in Nat /\ data \in Seq(SUBSET Val) BY DEF Types
  <2> QED BY <1>1, <2>1
<1>6. CASE R!Begin(c)
  <2>1. PICK op \in R!Ops, p \in Paths, q \in Paths, mode \in {"any", "strict", "match"},
             stream \in BOOLEAN :
          job' = [job EXCEPT ![c] = R!Asked(op, p, q, mode, stream)]
    BY <1>6 DEF R!Begin
  <2>2. calls < MaxCalls /\ UNCHANGED <<data, inPlace>> BY <1>6 DEF R!Begin, R!disk, R!history
  <2>3. R!Asked(op, p, q, mode, stream).pc = "start" BY <2>2, AskedType
  <2> QED BY <2>1, <2>2, <2>3 DEF Opened, Types
<1>7. CASE R!Refuse(c) BY <1>3, <1>7 DEF R!Refuse
<1>8. CASE R!Open(c)
  <2> DEFINE j == [k EXCEPT !.pc = "reading", !.ino = node[k.path]]
  <2>1. R!Return(c, "notFound") \/ (node[k.path] # 0 /\ R!Goes(c, j)) BY <1>8 DEF R!Open, R!None
  <2>2. j.pc = "reading" /\ j.ino = node[k.path] BY <1>1 DEF Job
  <2> HIDE DEF j
  <2>3. k.path \in Paths BY <1>1 DEF Job
  <2>4. node[k.path] # 0 => node[k.path] \in DOMAIN data' BY <1>5, <2>3 DEF Types
  <2>5. node[k.path] # 0 /\ R!Goes(c, j) => Opened' BY <1>1, <2>2, <2>4, OpenedGoes
  <2> QED BY <1>3, <2>1, <2>5
<1>9. CASE R!Read(c)
  <2>1. PICK seen \in R!Contents(k) :
          LET j == [k EXCEPT !.hand = seen, !.ino = R!None, !.mixed = FALSE] IN
          IF j.op = "read" THEN R!Return(c, "ok")
          ELSE R!Goes(c, [j EXCEPT !.pc = IF j.op = "patch" THEN "merging" ELSE "writing"])
    BY <1>9 DEF R!Read
  <2> DEFINE i == [k EXCEPT !.hand = seen, !.ino = R!None, !.mixed = FALSE]
             j == [i EXCEPT !.pc = IF i.op = "patch" THEN "merging" ELSE "writing"]
  <2>2. R!Return(c, "ok") \/ R!Goes(c, j) BY <2>1
  <2>3. j.pc \in {"merging", "writing"} BY <1>1 DEF Job
  <2> HIDE DEF i, j
  <2> QED BY <1>2, <1>3, <2>2, <2>3
<1>10. CASE R!Merge(c)
  <2> DEFINE j == [k EXCEPT !.pc = "writing", !.hand = R!Merged(k)]
  <2>1. R!Goes(c, j) BY <1>10 DEF R!Merge
  <2>2. j.pc = "writing" BY <1>1 DEF Job
  <2> HIDE DEF j
  <2> QED BY <1>2, <2>1, <2>2
<1>11. CASE R!Create(c)
  <2> DEFINE j == [k EXCEPT !.pc = IF k.stream THEN "encoding" ELSE "writing", !.hand = {k.tag}]
  <2>1. R!Goes(c, j) BY <1>11 DEF R!Create
  <2>2. j.pc \in {"encoding", "writing"} BY <1>1 DEF Job
  <2> HIDE DEF j
  <2> QED BY <1>2, <2>1, <2>2
<1>12. CASE R!WriteStep(c)
  <2>1. CASE R!Refused(c) \/ R!Close(c) \/ R!Lock(c) \/ R!Check(c) \/ R!Note(c)
    BY <1>3, <1>4, <2>1 DEF R!Refused, R!Close, R!Lock, R!Check, R!Note, R!After
  <2>2. CASE R!Truncate(c)
    <3> DEFINE i == IF node[R!Target(k)] = R!None THEN Len(data) + 1 ELSE node[R!Target(k)]
               j == [k EXCEPT !.pc = "filling", !.ino = i]
    <3>1. R!Goes(c, j) /\ inPlace' = inPlace \cup {i} BY <2>2 DEF R!Truncate
    <3> HIDE DEF i
    <3>2. j.pc = "filling" /\ j.ino = i BY <1>1 DEF Job
    <3> HIDE DEF j
    <3> QED BY <1>1, <3>1, <3>2, OpenedGoes
  <2>3. CASE R!Fill(c)
    <3> DEFINE j == [k EXCEPT !.pc = "noting", !.ino = R!None]
    <3>1. R!Goes(c, j) BY <2>3 DEF R!Fill
    <3>2. j.pc = "noting" BY <1>1 DEF Job
    <3> HIDE DEF j
    <3> QED BY <1>2, <3>1, <3>2
  <2>4. CASE R!Encode(c)
    <3> DEFINE j == [k EXCEPT !.pc = "closing", !.hand = {}, !.failed = TRUE]
    <3>1. R!To(c, "closing") \/ R!Goes(c, j) BY <2>4 DEF R!Encode
    <3>2. j.pc = "closing" BY <1>1 DEF Job
    <3> HIDE DEF j
    <3> QED BY <1>2, <1>4, <3>1, <3>2
  <2>5. CASE R!Rename(c)
    <3> DEFINE j == [k EXCEPT !.pc = "noting", !.over = R!Held(k.path)]
    <3>1. R!Goes(c, j) BY <2>5 DEF R!Rename
    <3>2. j.pc = "noting" BY <1>1 DEF Job
    <3> HIDE DEF j
    <3> QED BY <1>2, <3>1, <3>2
  <2>6. CASE R!PutObject(c)
    <3>1. CASE PutDeclined(c) BY <1>3, <3>1 DEF PutDeclined
    <3>2. CASE PutDone(c) BY <1>2, <3>2, ReturnedIdle DEF PutDone
    <3> QED BY <2>6, <3>1, <3>2, PutObjectCases
  <2> QED BY <1>12, <2>1, <2>2, <2>3, <2>4, <2>5, <2>6 DEF R!WriteStep
<1>13. CASE R!MoveStep(c)
  <2>1. CASE R!Delete(c) \/ R!Missing(c) \/ R!MoveBytes(c) \/ R!CopyObject(c) \/ R!Carry(c) \/ R!Remove(c)
    BY <1>3, <1>4, <2>1
    DEF R!Delete, R!Missing, R!MoveBytes, R!CopyObject, R!Carry, R!Remove, R!After
  <2>2. CASE R!Carried(c)
    <3> DEFINE j == [k EXCEPT !.pc = IF k.op = "move" /\ R!Moves THEN "moving" ELSE "copying",
                              !.carried = sidecars[k.path]]
    <3>1. R!Goes(c, j) BY <2>2 DEF R!Carried
    <3>2. j.pc \in {"moving", "copying"} BY <1>1 DEF Job
    <3> HIDE DEF j
    <3> QED BY <1>2, <3>1, <3>2
  <2>3. CASE R!CopyOpen(c)
    <3> DEFINE i == IF node[k.to] = R!None THEN Len(data) + 1 ELSE node[k.to]
               j == [k EXCEPT !.pc = "pouring", !.ino = node[k.path], !.out = i]
    <3>1. R!Goes(c, j) /\ inPlace' = inPlace \cup {i} /\ node[k.path] # 0
      BY <2>3 DEF R!CopyOpen, R!None
    <3> HIDE DEF i
    <3>2. j.pc = "pouring" /\ j.ino = node[k.path] /\ j.out = i BY <1>1 DEF Job
    <3> HIDE DEF j
    <3>3. k.path \in Paths BY <1>1 DEF Job
    <3>4. node[k.path] \in DOMAIN data' BY <1>5, <3>1, <3>3 DEF Types
    <3> QED BY <1>1, <3>1, <3>2, <3>4, OpenedGoes
  <2>4. CASE R!CopyPour(c)
    <3> DEFINE j == [k EXCEPT !.pc = "carrying", !.ino = R!None, !.mixed = FALSE]
    <3>1. R!Goes(c, j) BY <2>4 DEF R!CopyPour
    <3>2. j.pc = "carrying" BY <1>1 DEF Job
    <3> HIDE DEF j
    <3> QED BY <1>2, <3>1, <3>2
  <2> QED BY <1>13, <2>1, <2>2, <2>3, <2>4 DEF R!MoveStep
<1>14. CASE R!Fail(c) BY <1>3, <1>14 DEF R!Fail
<1> QED BY <1>6, <1>7, <1>8, <1>9, <1>10, <1>11, <1>12, <1>13, <1>14

-----------------------------------------------------------------------------
(* What a step of a call may do, as the others' tags and hands have it.      *)

\* The steps of a call that has begun.
Goings(c) ==
    \/ R!Refuse(c) \/ R!Open(c) \/ R!Read(c) \/ R!Merge(c)
    \/ R!Create(c) \/ R!WriteStep(c) \/ R!MoveStep(c) \/ R!Fail(c)

\* What is in the files was in one of them, or in the hand of who writes.
FromBefore(c) ==
    \A i \in DOMAIN data' :
        \/ data'[i] = {} \/ data'[i] = job[c].hand
        \/ \E n \in DOMAIN data : data'[i] = data[n]

\* k goes on as j.
Turn(k, j) ==
    /\ j.etag \subseteq k.etag /\ j.tag \in {k.tag, 0}
    /\ \/ j.hand \subseteq k.hand \cup {k.tag} \/ \E n \in DOMAIN data : j.hand \subseteq data[n]
    /\ j.pc # "idle" => k.pc # "idle" /\ j.tag = k.tag
    /\ j.op \in {k.op, "none"} /\ j.mode \in {k.mode, "any"}
    /\ j.pc \in Pre => k.pc \in Pre /\ data' = data /\ j.op = k.op /\ j.mode = k.mode

LEMMA BeforeSame == ASSUME NEW c, data' = data PROVE FromBefore(c)
BY DEF FromBefore

LEMMA BeforeAppend ==
    ASSUME Types, NEW c, NEW x \in SUBSET Val, data' = Append(data, x),
           x = {} \/ x = job[c].hand \/ \E n \in DOMAIN data : x = data[n]
    PROVE  FromBefore(c)
<1>1. /\ data' \in Seq(SUBSET Val) /\ Len(data') = Len(data) + 1
      /\ Len(data) \in Nat /\ DOMAIN data = 1 .. Len(data)
      /\ \A i \in 1 .. Len(data) : data'[i] = data[i]
      /\ data'[Len(data) + 1] = x
  BY DataAppend
<1>2. ASSUME NEW i \in DOMAIN data'
      PROVE  \/ data'[i] = {} \/ data'[i] = job[c].hand
             \/ \E n \in DOMAIN data : data'[i] = data[n]
  <2>1. i \in 1 .. Len(data) \/ i = Len(data) + 1 BY <1>1
  <2>2. CASE i \in 1 .. Len(data) BY <1>1, <2>2
  <2>3. CASE i = Len(data) + 1 BY <1>1, <2>3
  <2> QED BY <2>1, <2>2, <2>3
<1> QED BY <1>2 DEF FromBefore

LEMMA BeforeReplace ==
    ASSUME Types, NEW c, NEW x, NEW m, data' = [data EXCEPT ![m] = x],
           x = {} \/ x = job[c].hand \/ \E n \in DOMAIN data : x = data[n]
    PROVE  FromBefore(c)
BY DEF FromBefore, Types

LEMMA TurnReturned ==
    ASSUME NEW k \in Job, NEW r PROVE Turn(k, R!Returned(k, r))
<1>1. R!Returned(k, r).pc = "idle" BY ReturnedIdle
<1>2. /\ R!Returned(k, r).etag = {} /\ R!Returned(k, r).tag = 0
      /\ R!Returned(k, r).hand \in {k.hand, {}}
      /\ R!Returned(k, r).op \in {k.op, "none"} /\ R!Returned(k, r).mode \in {k.mode, "any"}
  BY DEF R!Returned, R!NoJob, R!None
<1> QED BY <1>1, <1>2 DEF Turn, Pre

LEMMA TurnTo ==
    ASSUME NEW k \in Job, NEW pc, k.pc # "idle",
           pc \in Pre => k.pc \in Pre /\ data' = data
    PROVE  Turn(k, [k EXCEPT !.pc = pc])
<1>1. LET j == [k EXCEPT !.pc = pc] IN
      j.pc = pc /\ j.etag = k.etag /\ j.tag = k.tag /\ j.hand = k.hand /\ j.op = k.op
      /\ j.mode = k.mode
  BY DEF Job
<1> QED BY <1>1 DEF Turn

LEMMA GoingsBusy == ASSUME NEW c, Goings(c) PROVE job[c].pc # "idle"
BY DEF Goings, R!Refuse, R!Open, R!Read, R!Merge, R!Create, R!Fail, R!WriteStep, R!MoveStep,
       R!Refused, R!Truncate, R!Fill, R!Encode, R!Close, R!Lock, R!Check, R!Rename, R!Note,
       R!PutObject, R!Delete, R!Carried, R!Missing, R!MoveBytes, R!CopyOpen, R!CopyPour,
       R!CopyObject, R!Carry, R!Remove, R!Unconditional, R!At, R!Busy

\* Every step of a call is a turn of it.
LEMMA TurnStep ==
    ASSUME Types, Paths # {}, Opened, NEW c \in Clients, Goings(c)
    PROVE  \E j : R!Goes(c, j) /\ Turn(job[c], j) /\ FromBefore(c)
<1> DEFINE k == job[c]
<1>1. k \in Job BY JobOf
<1>2. ASSUME NEW r, R!Return(c, r) PROVE \E j : R!Goes(c, j) /\ Turn(k, j)
  BY <1>1, <1>2, TurnReturned DEF R!Return
<1>3. ASSUME NEW pc, R!To(c, pc), k.pc # "idle", pc \in Pre => k.pc \in Pre /\ data' = data
      PROVE  \E j : R!Goes(c, j) /\ Turn(k, j)
  BY <1>1, <1>3, TurnTo DEF R!To
<1>4. CASE R!Refuse(c) \/ R!Open(c) \/ R!Read(c) \/ R!Merge(c) \/ R!Create(c) \/ R!Fail(c)
  <2>1. data' = data /\ FromBefore(c)
    BY <1>4, BeforeSame
    DEF R!Refuse, R!Open, R!Read, R!Merge, R!Create, R!Fail, R!Keep, R!disk
  <2>2. CASE R!Refuse(c) \/ R!Fail(c) BY <1>2, <2>1, <2>2 DEF R!Refuse, R!Fail
  <2>3. CASE R!Open(c)
    <3> DEFINE j == [k EXCEPT !.pc = "reading", !.ino = node[k.path]]
    <3>1. R!Return(c, "notFound") \/ R!Goes(c, j) BY <2>3 DEF R!Open
    <3>2. j.pc = "reading" /\ j.etag = k.etag /\ j.tag = k.tag /\ j.hand = k.hand /\ j.op = k.op
          /\ j.mode = k.mode
      BY <1>1 DEF Job
    <3>3. k.pc = "start" BY <2>3 DEF R!Open, R!At
    <3> HIDE DEF j
    <3>4. Turn(k, j) BY <2>1, <3>2, <3>3 DEF Turn, Pre
    <3> QED BY <1>2, <2>1, <3>1, <3>4
  <2>4. CASE R!Read(c)
    <3>1. PICK seen \in R!Contents(k) :
            LET j == [k EXCEPT !.hand = seen, !.ino = R!None, !.mixed = FALSE] IN
            IF j.op = "read" THEN R!Return(c, "ok")
            ELSE R!Goes(c, [j EXCEPT !.pc = IF j.op = "patch" THEN "merging" ELSE "writing"])
      BY <2>4 DEF R!Read
    <3> DEFINE i == [k EXCEPT !.hand = seen, !.ino = R!None, !.mixed = FALSE]
               j == [i EXCEPT !.pc = IF i.op = "patch" THEN "merging" ELSE "writing"]
    <3>2. R!Return(c, "ok") \/ R!Goes(c, j) BY <3>1
    <3>3. j.pc \in {"merging", "writing"} /\ j.etag = k.etag /\ j.tag = k.tag /\ j.hand = seen
          /\ j.op = k.op /\ j.mode = k.mode
      BY <1>1 DEF Job
    <3>4. k.pc = "reading" BY <2>4 DEF R!Read, R!At
    <3>5. k.ino \in DOMAIN data BY <3>4 DEF Opened
    <3>6. seen \subseteq data[k.ino] BY DEF R!Contents
    <3> HIDE DEF i, j
    <3>7. Turn(k, j) BY <2>1, <3>3, <3>4, <3>5, <3>6 DEF Turn, Pre
    <3> QED BY <1>2, <2>1, <3>2, <3>7
  <2>5. CASE R!Merge(c)
    <3> DEFINE j == [k EXCEPT !.pc = "writing", !.hand = R!Merged(k)]
    <3>1. R!Goes(c, j) /\ k.pc = "merging" BY <2>5 DEF R!Merge, R!At
    <3>2. j.pc = "writing" /\ j.etag = k.etag /\ j.tag = k.tag /\ j.hand = k.hand \cup {k.tag}
          /\ j.op = k.op /\ j.mode = k.mode
      BY <1>1 DEF Job, R!Merged
    <3> HIDE DEF j
    <3>3. Turn(k, j) BY <2>1, <3>1, <3>2 DEF Turn, Pre
    <3> QED BY <2>1, <3>1, <3>3
  <2>6. CASE R!Create(c)
    <3> DEFINE j == [k EXCEPT !.pc = IF k.stream THEN "encoding" ELSE "writing", !.hand = {k.tag}]
    <3>1. R!Goes(c, j) /\ k.pc = "start" BY <2>6 DEF R!Create, R!At
    <3>2. j.pc \in {"encoding", "writing"} /\ j.etag = k.etag /\ j.tag = k.tag /\ j.hand = {k.tag}
          /\ j.op = k.op /\ j.mode = k.mode
      BY <1>1 DEF Job
    <3> HIDE DEF j
    <3>3. Turn(k, j) BY <2>1, <3>1, <3>2 DEF Turn, Pre
    <3> QED BY <2>1, <3>1, <3>3
  <2> QED BY <1>4, <2>2, <2>3, <2>4, <2>5, <2>6
<1>5. k.hand \in SUBSET Val /\ {} \in SUBSET Val BY <1>1 DEF Job
<1>6. CASE R!WriteStep(c)
  <2>1. CASE R!Refused(c) \/ R!Encode(c) \/ R!Close(c) \/ R!Lock(c) \/ R!Check(c) \/ R!Note(c)
    <3>1. data' = data /\ FromBefore(c)
      BY <2>1, BeforeSame
      DEF R!Refused, R!Encode, R!Close, R!Lock, R!Check, R!Note, R!Keep, R!disk
    <3>2. CASE R!Refused(c) BY <1>2, <3>1, <3>2 DEF R!Refused
    <3>3. CASE R!Encode(c)
      <4> DEFINE j == [k EXCEPT !.pc = "closing", !.hand = {}, !.failed = TRUE]
      <4>1. (R!To(c, "closing") \/ R!Goes(c, j)) /\ k.pc = "encoding" BY <3>3 DEF R!Encode, R!At
      <4>2. j.pc = "closing" /\ j.etag = k.etag /\ j.tag = k.tag /\ j.hand = {}
            /\ j.op = k.op /\ j.mode = k.mode
        BY <1>1 DEF Job
      <4> HIDE DEF j
      <4>3. Turn(k, j) BY <3>1, <4>1, <4>2 DEF Turn, Pre
      <4> QED BY <1>3, <3>1, <4>1, <4>3 DEF Pre
    <3>4. CASE R!Close(c) BY <1>2, <1>3, <3>1, <3>4 DEF R!Close, R!At, Pre
    <3>5. CASE R!Lock(c) BY <1>3, <3>1, <3>5 DEF R!Lock, R!At, Pre
    <3>6. CASE R!Check(c) BY <1>2, <1>3, <3>1, <3>6 DEF R!Check, R!At, Pre
    <3>7. CASE R!Note(c) BY <1>2, <1>3, <3>1, <3>7 DEF R!Note, R!After, R!At, Pre
    <3> QED BY <2>1, <3>2, <3>3, <3>4, <3>5, <3>6, <3>7
  <2>2. CASE R!Truncate(c)
    <3> DEFINE i == IF node[R!Target(k)] = R!None THEN Len(data) + 1 ELSE node[R!Target(k)]
               j == [k EXCEPT !.pc = "filling", !.ino = i]
    <3>1. /\ R!Goes(c, j) /\ k.pc = "writing"
          /\ data' = Append(data, {}) \/ data' = [data EXCEPT ![i] = {}]
      BY <2>2 DEF R!Truncate, R!Unconditional, R!At
    <3> HIDE DEF i
    <3>2. j.pc = "filling" /\ j.etag = k.etag /\ j.tag = k.tag /\ j.hand = k.hand
          /\ j.op = k.op /\ j.mode = k.mode
      BY <1>1 DEF Job
    <3> HIDE DEF j
    <3>3. Turn(k, j) BY <3>1, <3>2 DEF Turn, Pre
    <3>4. FromBefore(c) BY <1>5, <3>1, BeforeAppend, BeforeReplace
    <3> QED BY <3>1, <3>3, <3>4
  <2>3. CASE R!Fill(c)
    <3> DEFINE j == [k EXCEPT !.pc = "noting", !.ino = R!None]
    <3>1. R!Goes(c, j) /\ k.pc = "filling" /\ data' = [data EXCEPT ![k.ino] = k.hand]
      BY <2>3 DEF R!Fill, R!At
    <3>2. j.pc = "noting" /\ j.etag = k.etag /\ j.tag = k.tag /\ j.hand = k.hand
          /\ j.op = k.op /\ j.mode = k.mode
      BY <1>1 DEF Job
    <3> HIDE DEF j
    <3>3. Turn(k, j) BY <3>1, <3>2 DEF Turn, Pre
    <3>4. FromBefore(c) BY <3>1, BeforeReplace
    <3> QED BY <3>1, <3>3, <3>4
  <2>4. CASE R!Rename(c)
    <3> DEFINE j == [k EXCEPT !.pc = "noting", !.over = R!Held(k.path)]
    <3>1. R!Goes(c, j) /\ k.pc = "renaming" /\ data' = Append(data, k.hand)
      BY <2>4 DEF R!Rename, R!Put, R!At
    <3>2. j.pc = "noting" /\ j.etag = k.etag /\ j.tag = k.tag /\ j.hand = k.hand
          /\ j.op = k.op /\ j.mode = k.mode
      BY <1>1 DEF Job
    <3> HIDE DEF j
    <3>3. Turn(k, j) BY <3>1, <3>2 DEF Turn, Pre
    <3>4. FromBefore(c) BY <1>5, <3>1, BeforeAppend
    <3> QED BY <3>1, <3>3, <3>4
  <2>5. CASE R!PutObject(c)
    <3>1. CASE PutDeclined(c)
      <4>1. FromBefore(c) BY <3>1, BeforeSame DEF PutDeclined
      <4> QED BY <1>2, <3>1, <4>1 DEF PutDeclined
    <3>2. CASE PutDone(c)
      <4> DEFINE o == [k EXCEPT !.over = R!Held(k.path)]
                 r == IF k.failed THEN "error" ELSE "ok"
      <4>1. R!Goes(c, R!Returned(o, r)) /\ data' = Append(data, k.hand)
        BY <3>2 DEF PutDone, R!Put
      <4>2. o.hand = k.hand /\ o.op = k.op /\ o.mode = k.mode BY <1>1 DEF Job
      <4>3. /\ R!Returned(o, r).etag = {} /\ R!Returned(o, r).tag = 0
            /\ R!Returned(o, r).hand \in {o.hand, {}} /\ R!Returned(o, r).pc = "idle"
            /\ R!Returned(o, r).op \in {o.op, "none"} /\ R!Returned(o, r).mode \in {o.mode, "any"}
        BY ReturnedIdle DEF R!Returned, R!NoJob, R!None
      <4> HIDE DEF o, r
      <4>4. Turn(k, R!Returned(o, r)) BY <4>2, <4>3 DEF Turn, Pre
      <4>5. FromBefore(c) BY <1>5, <4>1, BeforeAppend
      <4> QED BY <4>1, <4>4, <4>5
    <3> QED BY <2>5, <3>1, <3>2, PutObjectCases
  <2> QED BY <1>6, <2>1, <2>2, <2>3, <2>4, <2>5 DEF R!WriteStep
<1>7. CASE R!MoveStep(c)
  <2>1. CASE R!Missing(c) \/ R!Carried(c) \/ R!Carry(c) \/ R!Delete(c) \/ R!Remove(c) \/ R!MoveBytes(c)
    <3>1. data' = data /\ FromBefore(c)
      BY <2>1, BeforeSame
      DEF R!Missing, R!Carried, R!Carry, R!Delete, R!Remove, R!MoveBytes, R!Unlinked, R!Keep, R!disk
    <3>2. CASE R!Missing(c) \/ R!Delete(c) \/ R!Remove(c)
      BY <1>2, <3>1, <3>2 DEF R!Missing, R!Delete, R!Remove
    <3>3. CASE R!Carried(c)
      <4> DEFINE j == [k EXCEPT !.pc = IF k.op = "move" /\ R!Moves THEN "moving" ELSE "copying",
                                !.carried = sidecars[k.path]]
      <4>1. R!Goes(c, j) /\ k.pc = "start" BY <3>3 DEF R!Carried, R!At
      <4>2. j.pc \in {"moving", "copying"} /\ j.etag = k.etag /\ j.tag = k.tag /\ j.hand = k.hand
            /\ j.op = k.op /\ j.mode = k.mode
        BY <1>1 DEF Job
      <4> HIDE DEF j
      <4>3. Turn(k, j) BY <4>1, <4>2 DEF Turn, Pre
      <4> QED BY <3>1, <4>1, <4>3
    <3>4. CASE R!Carry(c) BY <1>2, <1>3, <3>1, <3>4 DEF R!Carry, R!After, R!At, Pre
    <3>5. CASE R!MoveBytes(c) BY <1>3, <3>1, <3>5 DEF R!MoveBytes, R!At, Pre
    <3> QED BY <2>1, <3>2, <3>3, <3>4, <3>5
  <2>2. CASE R!CopyOpen(c)
    <3> DEFINE i == IF node[k.to] = R!None THEN Len(data) + 1 ELSE node[k.to]
               j == [k EXCEPT !.pc = "pouring", !.ino = node[k.path], !.out = i]
    <3>1. /\ R!Goes(c, j) /\ k.pc = "copying"
          /\ data' = Append(data, {}) \/ data' = [data EXCEPT ![i] = {}]
      BY <2>2 DEF R!CopyOpen, R!At
    <3> HIDE DEF i
    <3>2. j.pc = "pouring" /\ j.etag = k.etag /\ j.tag = k.tag /\ j.hand = k.hand
          /\ j.op = k.op /\ j.mode = k.mode
      BY <1>1 DEF Job
    <3> HIDE DEF j
    <3>3. Turn(k, j) BY <3>1, <3>2 DEF Turn, Pre
    <3>4. FromBefore(c) BY <1>5, <3>1, BeforeAppend, BeforeReplace
    <3> QED BY <3>1, <3>3, <3>4
  <2>3. CASE R!CopyPour(c)
    <3> DEFINE j == [k EXCEPT !.pc = "carrying", !.ino = R!None, !.mixed = FALSE]
    <3>1. PICK seen \in R!Contents(k) : data' = [data EXCEPT ![k.out] = seen]
      BY <2>3 DEF R!CopyPour
    <3>2. R!Goes(c, j) /\ k.pc = "pouring" BY <2>3 DEF R!CopyPour, R!At
    <3>3. j.pc = "carrying" /\ j.etag = k.etag /\ j.tag = k.tag /\ j.hand = k.hand
          /\ j.op = k.op /\ j.mode = k.mode
      BY <1>1 DEF Job
    <3> HIDE DEF j
    <3>4. Turn(k, j) BY <3>2, <3>3 DEF Turn, Pre
    <3>5. k.ino \in DOMAIN data BY <3>2 DEF Opened
    <3>6. seen = {} \/ \E n \in DOMAIN data : seen = data[n] BY <3>5 DEF R!Contents
    <3>7. FromBefore(c) BY <3>1, <3>6, BeforeReplace
    <3> QED BY <3>2, <3>4, <3>7
  <2>4. CASE R!CopyObject(c)
    <3>1. /\ data' = Append(data, R!Held(k.path)) /\ k.pc = "copying" /\ node[k.path] # 0
          /\ R!To(c, "carrying")
      BY <2>4 DEF R!CopyObject, R!At, R!None
    <3>2. k.path \in Paths BY <1>1 DEF Job
    <3>3. R!Held(k.path) = data[node[k.path]] BY <3>1 DEF R!Held, R!None
    <3>4. node[k.path] \in DOMAIN data BY <3>1, <3>2 DEF Types
    <3>5. R!Held(k.path) \in SUBSET Val BY <3>2, HeldType
    <3>6. FromBefore(c) BY <3>1, <3>3, <3>4, <3>5, BeforeAppend
    <3> QED BY <1>3, <3>1, <3>6 DEF Pre
  <2> QED BY <1>7, <2>1, <2>2, <2>3, <2>4 DEF R!MoveStep
<1> QED BY <1>4, <1>6, <1>7 DEF Goings

\* What the others' steps leave of a call.
Kept(k, w) ==
    /\ w.pc = k.pc /\ w.op = k.op /\ w.path = k.path /\ w.to = k.to /\ w.mode = k.mode
    /\ w.stream = k.stream /\ w.md = k.md /\ w.etag = k.etag /\ w.tag = k.tag
    /\ w.hand = k.hand /\ w.over = k.over /\ w.ino = k.ino /\ w.out = k.out
    /\ w.carried = k.carried /\ w.failed = k.failed /\ w.result = k.result
    /\ w.was = k.was /\ w.wasMd = k.wasMd

LEMMA WatchedKept ==
    ASSUME NEW k \in Job, NEW q \in BOOLEAN, NEW f \in BOOLEAN, NEW m \in BOOLEAN
    PROVE  LET w == Watched(k, q, f, m) IN
           Kept(k, w) /\ w.quiet = q /\ w.fair = f /\ w.mixed = m
BY DEF Kept, Watched, Job

LEMMA Onlooker ==
    ASSUME Types, NEW c \in Clients, NEW j, R!Goes(c, j), NEW d \in Clients, d # c
    PROVE  \/ R!Changed /\ job'[d] = R!NoJob
           \/ /\ Kept(job[d], job'[d])
              /\ job'[d].quiet => job[d].quiet /\ ~R!Changed
              /\ job'[d].fair => job[d].fair /\ (R!Changed => R!Conditional(job[c]))
              /\ job'[d].mixed =>
                   job[d].mixed \/ (job[d].ino # 0 /\ data'[job[d].ino] # data[job[d].ino])
<1>1. job'[d] = R!Sees(job[d], job[c]) BY DEF R!Goes
<1>2. job[d] \in Job BY JobOf
<1>3. CASE R!Changed /\ R!Sees(job[d], job[c]) = R!NoJob BY <1>1, <1>3
<1>4. CASE \E q, f, m \in BOOLEAN :
             /\ R!Sees(job[d], job[c]) = Watched(job[d], q, f, m)
             /\ q => job[d].quiet /\ ~R!Changed
             /\ f => job[d].fair /\ (R!Changed => R!Conditional(job[c]))
             /\ m => job[d].mixed \/ (job[d].ino # 0 /\ data'[job[d].ino] # data[job[d].ino])
  <2>1. PICK q \in BOOLEAN, f \in BOOLEAN, m \in BOOLEAN :
             /\ R!Sees(job[d], job[c]) = Watched(job[d], q, f, m)
             /\ q => job[d].quiet /\ ~R!Changed
             /\ f => job[d].fair /\ (R!Changed => R!Conditional(job[c]))
             /\ m => job[d].mixed \/ (job[d].ino # 0 /\ data'[job[d].ino] # data[job[d].ino])
    BY <1>4
  <2> DEFINE w == Watched(job[d], q, f, m)
  <2>2. Kept(job[d], w) /\ w.quiet = q /\ w.fair = f /\ w.mixed = m BY <1>2, WatchedKept
  <2>3. job'[d] = w BY <1>1, <2>1
  <2> HIDE DEF w
  <2> QED BY <2>1, <2>2, <2>3
<1> QED BY <1>2, <1>3, <1>4, SeesIsWatched

LEMMA ActorGoes ==
    ASSUME Types, NEW c \in Clients, NEW j, R!Goes(c, j)
    PROVE  job'[c] = j /\ calls' = calls /\ backend' = backend
BY DEF R!Goes

-----------------------------------------------------------------------------
(* No update is in the files, or in another's hand, before it is made.       *)

Known(n) == Paths \cup 1 .. n

Bounds ==
    /\ \A i \in DOMAIN data : data[i] \subseteq Known(calls)
    /\ \A c \in Clients : LET k == job[c] IN
        /\ k.hand \subseteq Known(calls) /\ k.etag \subseteq Known(calls)
        /\ k.tag \in 0 .. calls /\ (k.pc # "idle" => k.tag # 0)

\* x is the caller's own update: nobody else has it yet.
Own(c, x, ds, js) ==
    /\ \A i \in DOMAIN ds : x \notin ds[i]
    /\ \A d \in Clients \ {c} : x \notin js[d].etag \cup js[d].hand /\ x # js[d].tag

Tags ==
    \A c \in Clients :
        R!Conditional(job[c]) /\ job[c].pc \in Pre =>
            Own(c, job[c].tag, data, job) /\ job[c].tag \notin job[c].etag

LEMMA NoJobBounds ==
    R!NoJob.hand = {} /\ R!NoJob.etag = {} /\ R!NoJob.tag = 0 /\ R!NoJob.pc = "idle"
BY DEF R!NoJob, R!None

\* Every step keeps the updates in the files and hands among those begun.
LEMMA BoundsStep == Types /\ Paths # {} /\ Opened /\ Bounds /\ R!Next => Bounds'
<1> SUFFICES ASSUME Types, Paths # {}, Opened, Bounds, NEW c \in Clients, R!Begin(c) \/ Goings(c)
             PROVE  Bounds'
  BY DEF R!Next, Goings
<1>1. calls \in Nat BY RoutesAssumption DEF Types
<1>2. CASE R!Begin(c)
  <2>1. PICK op \in R!Ops, p \in Paths, q \in Paths, mode \in {"any", "strict", "match"},
             stream \in BOOLEAN :
          job' = [job EXCEPT ![c] = R!Asked(op, p, q, mode, stream)]
    BY <1>2 DEF R!Begin
  <2> DEFINE j == R!Asked(op, p, q, mode, stream)
  <2>2. calls < MaxCalls /\ calls' = calls + 1 /\ UNCHANGED <<node, data>>
    BY <1>2 DEF R!Begin, R!disk, R!history
  <2>3. j.tag = calls + 1 /\ j.etag = R!Held(p) /\ j.hand = {} BY <2>2, AskedType
  <2> HIDE DEF j
  <2>4. Known(calls) \subseteq Known(calls') /\ calls + 1 \in 1 .. calls' /\ calls + 1 # 0
        /\ 0 .. calls \subseteq 0 .. calls' /\ calls + 1 \in 0 .. calls'
    BY <1>1, <2>2 DEF Known
  <2>5. R!Held(p) \subseteq Known(calls)
    <3>1. node[p] # 0 => node[p] \in DOMAIN data BY DEF Types
    <3> QED BY <3>1 DEF Bounds, R!Held, R!None
  <2>6. ASSUME NEW d \in Clients
        PROVE  LET k == job'[d] IN
               /\ k.hand \subseteq Known(calls') /\ k.etag \subseteq Known(calls')
               /\ k.tag \in 0 .. calls' /\ (k.pc # "idle" => k.tag # 0)
    <3>1. CASE d = c
      <4>1. job'[d] = j BY <2>1, <3>1 DEF Types, j
      <4> QED BY <2>3, <2>4, <2>5, <4>1
    <3>2. CASE d # c
      <4>1. job'[d] = job[d] BY <2>1, <3>2 DEF Types
      <4> QED BY <2>4, <4>1 DEF Bounds
    <3> QED BY <3>1, <3>2
  <2>7. \A i \in DOMAIN data' : data'[i] \subseteq Known(calls') BY <2>2, <2>4 DEF Bounds
  <2> QED BY <2>6, <2>7 DEF Bounds
<1>3. CASE Goings(c)
  <2>1. PICK j : R!Goes(c, j) /\ Turn(job[c], j) /\ FromBefore(c) BY <1>3, TurnStep
  <2>2. job'[c] = j /\ calls' = calls BY <2>1, ActorGoes
  <2>3. \A i \in DOMAIN data' : data'[i] \subseteq Known(calls) BY <2>1 DEF FromBefore, Bounds
  <2>4. /\ j.hand \subseteq Known(calls) /\ j.etag \subseteq Known(calls)
        /\ j.tag \in 0 .. calls /\ (j.pc # "idle" => j.tag # 0)
    <3>1. /\ job[c].hand \subseteq Known(calls) /\ job[c].etag \subseteq Known(calls)
          /\ job[c].tag \in 0 .. calls /\ (job[c].pc # "idle" => job[c].tag # 0)
      BY DEF Bounds
    <3>2. j.etag \subseteq Known(calls) /\ j.tag \in 0 .. calls /\ (j.pc # "idle" => j.tag # 0)
      BY <1>1, <2>1, <3>1 DEF Turn
    <3>3. CASE j.hand \subseteq job[c].hand \cup {job[c].tag}
      <4>1. job[c].tag \in 1 .. calls BY <1>1, <1>3, <3>1, GoingsBusy
      <4>2. job[c].tag \in Known(calls) BY <4>1 DEF Known
      <4>3. j.hand \subseteq Known(calls) BY <3>1, <3>3, <4>2
      <4> QED BY <3>2, <4>3
    <3>4. CASE \E n \in DOMAIN data : j.hand \subseteq data[n] BY <3>2, <3>4 DEF Bounds
    <3> QED BY <2>1, <3>3, <3>4 DEF Turn
  <2>5. ASSUME NEW d \in Clients, d # c
        PROVE  LET k == job'[d] IN
               /\ k.hand \subseteq Known(calls) /\ k.etag \subseteq Known(calls)
               /\ k.tag \in 0 .. calls /\ (k.pc # "idle" => k.tag # 0)
    <3>1. job'[d] = R!NoJob \/ Kept(job[d], job'[d]) BY <2>1, <2>5, Onlooker
    <3>2. CASE job'[d] = R!NoJob BY <1>1, <3>2, NoJobBounds
    <3>3. CASE Kept(job[d], job'[d]) BY <3>3 DEF Kept, Bounds
    <3> QED BY <3>1, <3>2, <3>3
  <2> QED BY <2>2, <2>3, <2>4, <2>5 DEF Bounds
<1> QED BY <1>2, <1>3

\* Every step keeps a conditional update its caller's until it is written.
LEMMA TagsStep == Types /\ Paths # {} /\ Opened /\ Bounds /\ Tags /\ R!Next => Tags'
<1> SUFFICES ASSUME Types, Paths # {}, Opened, Bounds, Tags, NEW c \in Clients,
                    R!Begin(c) \/ Goings(c)
             PROVE  Tags'
  BY DEF R!Next, Goings
<1>1. calls \in Nat BY RoutesAssumption DEF Types
<1>2. CASE R!Begin(c)
  <2>1. PICK op \in R!Ops, p \in Paths, q \in Paths, mode \in {"any", "strict", "match"},
             stream \in BOOLEAN :
          job' = [job EXCEPT ![c] = R!Asked(op, p, q, mode, stream)]
    BY <1>2 DEF R!Begin
  <2> DEFINE j == R!Asked(op, p, q, mode, stream)
  <2>2. calls < MaxCalls /\ calls' = calls + 1 /\ UNCHANGED <<node, data>>
    BY <1>2 DEF R!Begin, R!disk, R!history
  <2>3. j.tag = calls + 1 /\ j.etag = R!Held(p) /\ j.hand = {} BY <2>2, AskedType
  <2> HIDE DEF j
  <2>4. calls + 1 \notin Known(calls) /\ \A n \in 0 .. calls : n # calls + 1
    BY <1>1, RoutesAssumption DEF Known
  <2>5. R!Held(p) \in {data[i] : i \in DOMAIN data} \cup {{}}
    <3>1. node[p] # 0 => node[p] \in DOMAIN data BY DEF Types
    <3> QED BY <3>1 DEF R!Held, R!None
  <2>6. job'[c] = j /\ \A d \in Clients : d # c => job'[d] = job[d] BY <2>1 DEF Types, j
  <2>7. Own(c, calls + 1, data', job') /\ calls + 1 \notin j.etag
    <3>1. \A i \in DOMAIN data : calls + 1 \notin data[i] BY <2>4 DEF Bounds
    <3>2. \A d \in Clients \ {c} :
            calls + 1 \notin job[d].etag \cup job[d].hand /\ calls + 1 # job[d].tag
      BY <2>4 DEF Bounds
    <3>3. calls + 1 \notin R!Held(p) BY <2>5, <3>1
    <3>4. \A i \in DOMAIN data' : calls + 1 \notin data'[i] BY <2>2, <3>1
    <3>5. \A d \in Clients \ {c} :
            calls + 1 \notin job'[d].etag \cup job'[d].hand /\ calls + 1 # job'[d].tag
      BY <2>6, <3>2
    <3>6. calls + 1 \notin j.etag BY <2>3, <3>3
    <3> QED BY <2>2, <3>4, <3>5, <3>6 DEF Own
  <2>8. ASSUME NEW d \in Clients, R!Conditional(job'[d]), job'[d].pc \in Pre
        PROVE  Own(d, job'[d].tag, data', job') /\ job'[d].tag \notin job'[d].etag
    <3>1. CASE d = c BY <2>3, <2>6, <2>7, <3>1
    <3>2. CASE d # c
      <4> DEFINE t == job[d].tag
      <4>1. Own(d, t, data, job) /\ t \notin job[d].etag BY <2>6, <2>8, <3>2 DEF Tags
      <4>2. t \in 0 .. calls BY DEF Bounds
      <4>3. t # calls + 1 /\ t \notin j.hand BY <2>3, <2>4, <4>2
      <4>4. t \notin j.etag BY <2>3, <2>5, <4>1 DEF Own
      <4>5. ASSUME NEW e \in Clients \ {d}
            PROVE  t \notin job'[e].etag \cup job'[e].hand /\ t # job'[e].tag
        <5>1. CASE e = c BY <2>3, <2>6, <4>3, <4>4, <5>1
        <5>2. CASE e # c BY <2>6, <4>1, <5>2 DEF Own
        <5> QED BY <5>1, <5>2
      <4>6. job'[d].tag = t /\ job'[d].etag = job[d].etag BY <2>6, <3>2
      <4>7. \A i \in DOMAIN data' : t \notin data'[i] BY <2>2, <4>1 DEF Own
      <4> HIDE DEF t
      <4> QED BY <4>1, <4>5, <4>6, <4>7 DEF Own, t
    <3> QED BY <3>1, <3>2
  <2> QED BY <2>8 DEF Tags, R!Conditional
<1>3. CASE Goings(c)
  <2>1. PICK j : R!Goes(c, j) /\ Turn(job[c], j) /\ FromBefore(c) BY <1>3, TurnStep
  <2>2. job'[c] = j BY <2>1, ActorGoes
  <2>3. ASSUME NEW d \in Clients, d # c
        PROVE  job'[d].hand \in {job[d].hand, {}} /\ job'[d].etag \in {job[d].etag, {}}
               /\ job'[d].tag \in {job[d].tag, 0}
               /\ (job'[d].pc # "idle" => Kept(job[d], job'[d]))
    <3>1. job'[d] = R!NoJob \/ Kept(job[d], job'[d]) BY <2>1, <2>3, Onlooker
    <3>2. CASE job'[d] = R!NoJob BY <3>2, NoJobBounds
    <3>3. CASE Kept(job[d], job'[d]) BY <3>3 DEF Kept
    <3> QED BY <3>1, <3>2, <3>3
  <2>4. ASSUME NEW d \in Clients, R!Conditional(job'[d]), job'[d].pc \in Pre
        PROVE  Own(d, job'[d].tag, data', job') /\ job'[d].tag \notin job'[d].etag
    <3> DEFINE t == job[d].tag
    <3>1. /\ R!Conditional(job[d]) /\ job[d].pc \in Pre /\ job'[d].tag = t
          /\ job'[d].etag \subseteq job[d].etag
      <4>1. job'[d].pc # "idle" BY <2>4 DEF Pre
      <4>2. CASE d = c BY <2>1, <2>2, <2>4, <4>1, <4>2 DEF Turn, R!Conditional
      <4>3. CASE d # c BY <2>3, <2>4, <4>1, <4>3 DEF Kept, R!Conditional
      <4> QED BY <4>2, <4>3
    <3>2. Own(d, t, data, job) /\ t \notin job[d].etag BY <3>1 DEF Tags
    <3>3. t # 0 BY <3>1 DEF Bounds, Pre
    <3>4. \A i \in DOMAIN data' : t \notin data'[i]
      <4>1. CASE d = c BY <2>1, <2>2, <2>4, <3>2, <4>1 DEF Turn, Own
      <4>2. CASE d # c
        <5>1. t \notin job[c].hand BY <3>2, <4>2 DEF Own
        <5> QED BY <2>1, <3>2, <5>1 DEF FromBefore, Own
      <4> QED BY <4>1, <4>2
    <3>5. ASSUME NEW e \in Clients \ {d}
          PROVE  t \notin job'[e].etag \cup job'[e].hand /\ t # job'[e].tag
      <4>1. t \notin job[e].etag \cup job[e].hand /\ t # job[e].tag BY <3>2 DEF Own
      <4>2. CASE e = c
        <5>1. j.etag \subseteq job[c].etag /\ j.tag \in {job[c].tag, 0} BY <2>1 DEF Turn
        <5>2. t \notin j.hand BY <2>1, <3>2, <4>1, <4>2 DEF Turn, Own
        <5> QED BY <2>2, <3>3, <4>1, <4>2, <5>1, <5>2
      <4>3. CASE e # c BY <2>3, <3>3, <4>1, <4>3
      <4> QED BY <4>2, <4>3
    <3>6. \A e \in Clients \ {d} : t \notin job'[e].etag \cup job'[e].hand /\ t # job'[e].tag
      BY <3>5
    <3> HIDE DEF t
    <3>7. Own(d, t, data', job') BY <3>4, <3>6 DEF Own
    <3> QED BY <3>1, <3>2, <3>7 DEF t
  <2> QED BY <2>4 DEF Tags, R!Conditional
<1> QED BY <1>2, <1>3

-----------------------------------------------------------------------------
(* What is on the disk.                                                      *)

\* No file is at two paths.
Apart == \A p, q \in Paths : node[p] = node[q] /\ node[p] # 0 => p = q
\* A file is empty for a reason; on S3 nothing is written in place.
Whole ==
    /\ \A i \in DOMAIN data : data[i] = {} => i \in inPlace \cup cut
    /\ backend = "s3" => inPlace = {}
\* One Strict create at most has made the file that is at a path.
First == \A p \in Paths : firsts[p] = {} \/ (node[p] # 0 /\ \E x \in Nat : firsts[p] = {x})
\* The private backend of ports stores no metadata.
Bare == backend = "os" => \A p \in Paths : sidecars[p] = 0

\* The steps that change the files.
Writing(c) ==
    \/ R!Truncate(c) \/ R!Fill(c) \/ R!Rename(c) \/ R!Note(c) \/ PutDone(c)
    \/ R!Delete(c) \/ R!Remove(c) \/ R!MoveBytes(c) \/ R!CopyOpen(c) \/ R!CopyPour(c)
    \/ R!CopyObject(c) \/ R!Carry(c)

LEMMA WritingOrNot ==
    ASSUME Types, Paths # {}, Opened, NEW c \in Clients, R!Begin(c) \/ Goings(c)
    PROVE  /\ UNCHANGED backend
           /\ Writing(c) \/ UNCHANGED <<node, data, sidecars, inPlace, cut, firsts>>
<1>1. ASSUME R!Begin(c)
      PROVE  UNCHANGED <<backend, node, data, sidecars, inPlace, cut, firsts>>
  BY <1>1 DEF R!Begin, R!disk, R!history
<1>2. ASSUME R!Refuse(c) \/ R!Open(c) \/ R!Read(c) \/ R!Merge(c) \/ R!Create(c) \/ R!Fail(c)
      PROVE  UNCHANGED <<node, data, sidecars, inPlace, cut, firsts>>
  BY <1>2 DEF R!Refuse, R!Open, R!Read, R!Merge, R!Create, R!Fail, R!Keep, R!disk, R!history
<1>3. ASSUME R!Refused(c) \/ R!Encode(c) \/ R!Close(c) \/ R!Lock(c) \/ R!Check(c)
             \/ R!Missing(c) \/ R!Carried(c)
      PROVE  UNCHANGED <<node, data, sidecars, inPlace, cut, firsts>>
  BY <1>3 DEF R!Refused, R!Encode, R!Close, R!Lock, R!Check, R!Missing, R!Carried, R!Keep,
              R!disk, R!history
<1>4. ASSUME R!PutObject(c)
      PROVE  PutDone(c) \/ UNCHANGED <<node, data, sidecars, inPlace, cut, firsts>>
  BY <1>4, PutObjectCases DEF PutDeclined
<1>5. ASSUME Goings(c) PROVE UNCHANGED backend
  <2>1. PICK j : R!Goes(c, j) BY <1>5, TurnStep
  <2> QED BY <2>1, ActorGoes
<1> QED BY <1>1, <1>2, <1>3, <1>4, <1>5 DEF Goings, R!WriteStep, R!MoveStep, Writing

LEMMA NextCases ==
    Types /\ Paths # {} /\ Opened /\ R!Next =>
        /\ UNCHANGED backend
        /\ \/ \E c \in Clients : Writing(c)
           \/ UNCHANGED <<node, data, sidecars, inPlace, cut, firsts>>
<1> SUFFICES ASSUME Types, Paths # {}, Opened, NEW c \in Clients, R!Begin(c) \/ Goings(c)
             PROVE  /\ UNCHANGED backend
                    /\ Writing(c) \/ UNCHANGED <<node, data, sidecars, inPlace, cut, firsts>>
  BY DEF R!Next, Goings
<1> QED BY WritingOrNot

\* A file is put in place of a path: an index nobody uses, or the path's own.
LEMMA PutKeepsApart ==
    ASSUME Types, Apart, NEW p \in Paths, NEW n \in Nat, node' = [node EXCEPT ![p] = n],
           \A q \in Paths : q # p => node[q] # n
    PROVE  Apart'
BY DEF Types, Apart

\* Every step keeps the files of two paths two.
LEMMA ApartStep == Types /\ Paths # {} /\ Opened /\ Apart /\ R!Next => Apart'
<1> SUFFICES ASSUME Types, Paths # {}, Opened, Apart, NEW c \in Clients, Writing(c)
             PROVE  Apart'
  <2>1. ASSUME Apart, UNCHANGED node PROVE Apart' BY <2>1 DEF Apart
  <2> QED BY <2>1, NextCases
<1> DEFINE k == job[c]
<1>1. k \in Job /\ Len(data) \in Nat BY JobOf
<1>2. k.path \in Paths /\ k.to \in Paths /\ R!Target(k) \in Paths /\ k.hand \in SUBSET Val
  BY <1>1 DEF Job, R!Target
<1>3. \A q \in Paths : node[q] \in 0 .. Len(data) BY DEF Types
<1>4. Len(data) + 1 \in Nat /\ \A q \in Paths : node[q] # Len(data) + 1 BY <1>1, <1>3
<1>5. ASSUME NEW t \in Paths,
             node' = [node EXCEPT ![t] = IF node[t] = 0 THEN Len(data) + 1 ELSE node[t]]
      PROVE  Apart'
  <2>1. CASE node[t] = 0
    <3>1. node' = [node EXCEPT ![t] = Len(data) + 1] BY <1>5, <2>1
    <3> QED BY <1>1, <1>4, <3>1, PutKeepsApart
  <2>2. CASE node[t] # 0
    <3>1. node' = node BY <1>5, <2>2 DEF Types
    <3> QED BY <3>1 DEF Apart
  <2> QED BY <2>1, <2>2
<1>6. ASSUME NEW t \in Paths, NEW x \in SUBSET Val, data' = Append(data, x),
             node' = [node EXCEPT ![t] = Len(data')]
      PROVE  Apart'
  <2>1. Len(data') = Len(data) + 1 BY <1>6, DataAppend
  <2>2. node' = [node EXCEPT ![t] = Len(data) + 1] BY <1>6, <2>1
  <2> QED BY <1>1, <1>4, <2>2, PutKeepsApart
<1>7. CASE R!Truncate(c) BY <1>2, <1>5, <1>7 DEF R!Truncate, R!None
<1>8. CASE R!Rename(c) BY <1>2, <1>6, <1>8 DEF R!Rename, R!Put
<1>9. CASE PutDone(c) BY <1>2, <1>6, <1>9 DEF PutDone, R!Put
<1>10. CASE R!Fill(c) \/ R!Note(c) \/ R!CopyPour(c) \/ R!Carry(c)
  BY <1>10 DEF R!Fill, R!Note, R!CopyPour, R!Carry, Apart
<1>11. CASE R!Delete(c) \/ R!Remove(c)
  <2>1. node' = [node EXCEPT ![k.path] = 0]
    BY <1>11 DEF R!Delete, R!Remove, R!Unlinked, R!None
  <2> QED BY <1>2, <2>1 DEF Types, Apart
<1>12. CASE R!MoveBytes(c)
  <2>1. CASE k.to = k.path BY <1>12, <2>1 DEF R!MoveBytes, Apart
  <2>2. CASE k.to # k.path
    <3>1. node' = [node EXCEPT ![k.to] = node[k.path], ![k.path] = 0]
      BY <1>12, <2>2 DEF R!MoveBytes, R!None
    <3> QED BY <1>2, <2>2, <3>1 DEF Types, Apart
  <2> QED BY <2>1, <2>2
<1>13. CASE R!CopyOpen(c) BY <1>2, <1>5, <1>13 DEF R!CopyOpen, R!None
<1>14. CASE R!CopyObject(c)
  <2>1. R!Held(k.path) \in SUBSET Val BY <1>2, HeldType
  <2> QED BY <1>2, <1>6, <1>14, <2>1 DEF R!CopyObject
<1> QED BY <1>7, <1>8, <1>9, <1>10, <1>11, <1>12, <1>13, <1>14 DEF Writing

\* Every step leaves a file empty only by writing in place or by a cut stream.
LEMMA WholeStep == Types /\ Paths # {} /\ Opened /\ AllSound /\ Whole /\ R!Next => Whole'
<1> SUFFICES ASSUME Types, Paths # {}, Opened, AllSound, Whole, NEW c \in Clients,
                    Writing(c), UNCHANGED backend
             PROVE  Whole'
  <2>1. ASSUME Whole, UNCHANGED <<data, inPlace, cut, backend>> PROVE Whole' BY <2>1 DEF Whole
  <2> QED BY <2>1, NextCases
<1> DEFINE k == job[c]
<1>1. k \in Job /\ Len(data) \in Nat BY JobOf
<1>2. k.path \in Paths /\ k.to \in Paths /\ R!Target(k) \in Paths /\ k.hand \in SUBSET Val
  BY <1>1 DEF Job, R!Target
<1>3. \A q \in Paths : node[q] \in 0 .. Len(data) BY DEF Types
<1>4. Sound(k, backend) BY DEF AllSound
<1>5. {} \in SUBSET Val OBVIOUS
<1>6. ASSUME NEW t \in Paths, backend # "s3",
             data' = IF node[t] = 0 THEN Append(data, {}) ELSE [data EXCEPT ![node[t]] = {}],
             inPlace' = inPlace \cup {IF node[t] = 0 THEN Len(data) + 1 ELSE node[t]},
             cut' = cut
      PROVE  Whole'
  <2>1. CASE node[t] = 0
    <3>1. data' = Append(data, {}) /\ inPlace' = inPlace \cup {Len(data) + 1} BY <1>6, <2>1
    <3>2. /\ Len(data') = Len(data) + 1 /\ data' \in Seq(SUBSET Val)
          /\ DOMAIN data = 1 .. Len(data)
          /\ \A i \in 1 .. Len(data) : data'[i] = data[i]
      BY <1>5, <3>1, DataAppend
    <3>3. \A i \in DOMAIN data' : i \in 1 .. Len(data) \/ i = Len(data) + 1 BY <1>1, <3>2
    <3> QED BY <1>6, <3>1, <3>2, <3>3 DEF Whole
  <2>2. CASE node[t] # 0
    <3>1. data' = [data EXCEPT ![node[t]] = {}] /\ inPlace' = inPlace \cup {node[t]}
      BY <1>6, <2>2
    <3>2. DOMAIN data' = DOMAIN data /\ \A i \in DOMAIN data : i # node[t] => data'[i] = data[i]
      BY <3>1 DEF Types
    <3> QED BY <1>6, <3>1, <3>2 DEF Whole
  <2> QED BY <2>1, <2>2
<1>7. ASSUME NEW x \in SUBSET Val, data' = Append(data, x), inPlace' = inPlace,
             cut \subseteq cut', x = {} => Len(data') \in cut'
      PROVE  Whole'
  <2>1. /\ Len(data') = Len(data) + 1 /\ data' \in Seq(SUBSET Val)
        /\ DOMAIN data = 1 .. Len(data)
        /\ \A i \in 1 .. Len(data) : data'[i] = data[i]
        /\ data'[Len(data) + 1] = x
    BY <1>7, DataAppend
  <2>2. \A i \in DOMAIN data' : i \in 1 .. Len(data) \/ i = Len(data) + 1 BY <1>1, <2>1
  <2> QED BY <1>7, <2>1, <2>2 DEF Whole
<1>8. ASSUME NEW x, NEW n \in inPlace, data' = [data EXCEPT ![n] = x], inPlace' = inPlace, cut' = cut
      PROVE  Whole'
  <2>1. DOMAIN data' = DOMAIN data /\ \A i \in DOMAIN data : i # n => data'[i] = data[i]
    BY <1>8 DEF Types
  <2> QED BY <1>8, <2>1 DEF Whole
<1>9. CASE R!Truncate(c)
  <2> DEFINE t == R!Target(k)
             i == IF node[t] = 0 THEN Len(data) + 1 ELSE node[t]
  <2>1. /\ backend # "s3" /\ cut' = cut /\ inPlace' = inPlace \cup {i}
        /\ data' = IF node[t] = 0 THEN Append(data, {}) ELSE [data EXCEPT ![i] = {}]
    BY <1>9 DEF R!Truncate, R!Unconditional, R!None
  <2>2. data' = IF node[t] = 0 THEN Append(data, {}) ELSE [data EXCEPT ![node[t]] = {}] BY <2>1
  <2> QED BY <1>2, <1>6, <2>1, <2>2
<1>10. CASE R!Fill(c)
  <2>1. /\ data' = [data EXCEPT ![k.ino] = k.hand] /\ inPlace' = inPlace /\ cut' = cut
        /\ k.pc = "filling"
    BY <1>10 DEF R!Fill, R!history, R!At
  <2>2. k.ino \in inPlace BY <2>1 DEF Opened
  <2> QED BY <1>8, <2>1, <2>2
<1>11. CASE R!Rename(c) \/ PutDone(c)
  <2>1. /\ data' = Append(data, k.hand) /\ inPlace' = inPlace
        /\ cut' = IF k.failed THEN cut \cup {Len(data')} ELSE cut
        /\ k.pc \in {"writing", "renaming"} /\ (k.pc = "writing" => backend = "s3")
    BY <1>11 DEF R!Rename, PutDone, R!Put, R!At
  <2>2. k.tag \in k.hand \/ k.failed
    BY <1>4, <2>1 DEF Sound, Fits, Writes, Moved, R!Conditional
  <2>3. cut \subseteq cut' /\ (k.hand = {} => Len(data') \in cut')
    BY <2>1, <2>2
  <2> QED BY <1>2, <1>7, <2>1, <2>3
<1>12. CASE R!Note(c) \/ R!Carry(c) \/ R!Delete(c) \/ R!Remove(c) \/ R!MoveBytes(c)
  BY <1>12 DEF R!Note, R!Carry, R!Delete, R!Remove, R!MoveBytes, R!Unlinked, R!history, Whole
<1>13. CASE R!CopyOpen(c)
  <2> DEFINE i == IF node[k.to] = 0 THEN Len(data) + 1 ELSE node[k.to]
  <2>1. /\ backend # "s3" /\ cut' = cut /\ inPlace' = inPlace \cup {i}
        /\ data' = IF node[k.to] = 0 THEN Append(data, {}) ELSE [data EXCEPT ![i] = {}]
    BY <1>13 DEF R!CopyOpen, R!None
  <2>2. data' = IF node[k.to] = 0 THEN Append(data, {}) ELSE [data EXCEPT ![node[k.to]] = {}]
    BY <2>1
  <2> QED BY <1>2, <1>6, <2>1, <2>2
<1>14. CASE R!CopyPour(c)
  <2>1. PICK seen \in R!Contents(k) : data' = [data EXCEPT ![k.out] = seen]
    BY <1>14 DEF R!CopyPour
  <2>2. k.pc = "pouring" /\ inPlace' = inPlace /\ cut' = cut BY <1>14 DEF R!CopyPour, R!history, R!At
  <2>3. k.out \in inPlace BY <2>2 DEF Opened
  <2> QED BY <1>8, <2>1, <2>2, <2>3
<1>15. CASE R!CopyObject(c)
  <2>1. /\ data' = Append(data, R!Held(k.path)) /\ inPlace' = inPlace /\ backend = "s3"
        /\ cut' = IF node[k.path] \in cut THEN cut \cup {Len(data')} ELSE cut
        /\ node[k.path] # 0
    BY <1>15 DEF R!CopyObject, R!None
  <2>2. R!Held(k.path) \in SUBSET Val BY <1>2, HeldType
  <2>3. R!Held(k.path) = data[node[k.path]] BY <2>1 DEF R!Held, R!None
  <2>4. node[k.path] \in DOMAIN data BY <1>2, <2>1 DEF Types
  <2>5. R!Held(k.path) = {} => node[k.path] \in cut BY <2>1, <2>3, <2>4 DEF Whole
  <2>6. cut \subseteq cut' /\ (R!Held(k.path) = {} => Len(data') \in cut') BY <2>1, <2>5
  <2> QED BY <1>7, <2>1, <2>2, <2>6
<1> QED BY <1>9, <1>10, <1>11, <1>12, <1>13, <1>14, <1>15 DEF Writing

\* Every step that makes a file by a Strict create finds none there.
LEMMA FirstStep == Types /\ Paths # {} /\ Opened /\ AllSound /\ First /\ R!Next => First'
<1> SUFFICES ASSUME Types, Paths # {}, Opened, AllSound, First, NEW c \in Clients, Writing(c)
             PROVE  First'
  <2>1. ASSUME First, UNCHANGED <<node, firsts>> PROVE First' BY <2>1 DEF First
  <2> QED BY <2>1, NextCases
<1> DEFINE k == job[c]
<1>1. k \in Job /\ Len(data) \in Nat BY JobOf
<1>2. /\ k.path \in Paths /\ k.to \in Paths /\ R!Target(k) \in Paths /\ k.hand \in SUBSET Val
      /\ k.tag \in Nat
  BY <1>1 DEF Job, R!Target
<1>3. Sound(k, backend) BY DEF AllSound
<1>4. node \in [Paths -> Nat] /\ firsts \in [Paths -> SUBSET Nat] BY DEF Types
<1>5. ASSUME NEW t \in Paths, NEW n, n # 0, node' = [node EXCEPT ![t] = n],
             \/ firsts' = firsts
             \/ node[t] = 0 /\ firsts' = [firsts EXCEPT ![t] = @ \cup {k.tag}]
      PROVE  First'
  <2>1. CASE firsts' = firsts BY <1>4, <1>5, <2>1 DEF First
  <2>2. CASE node[t] = 0 /\ firsts' = [firsts EXCEPT ![t] = @ \cup {k.tag}]
    <3>1. firsts[t] = {} BY <2>2 DEF First
    <3>2. firsts'[t] = {k.tag} /\ node'[t] # 0 BY <1>4, <1>5, <2>2, <3>1
    <3>3. \A p \in Paths : p # t => firsts'[p] = firsts[p] /\ node'[p] = node[p]
      BY <1>4, <1>5, <2>2
    <3> QED BY <1>2, <3>2, <3>3 DEF First
  <2> QED BY <1>5, <2>1, <2>2
<1>6. \A x \in SUBSET Val : data' = Append(data, x) => Len(data') # 0
  <2>1. ASSUME NEW x \in SUBSET Val, data' = Append(data, x) PROVE Len(data') # 0
    <3>1. Len(data') = Len(data) + 1 BY <2>1, DataAppend
    <3> QED BY <1>1, <3>1
  <2> QED BY <2>1
<1>7. CASE R!Truncate(c)
  <2> DEFINE t == R!Target(k)
             i == IF node[t] = 0 THEN Len(data) + 1 ELSE node[t]
  <2>1. /\ node' = [node EXCEPT ![t] = i] /\ (k.mode = "strict" => node[k.path] = 0)
        /\ firsts' = IF k.mode = "strict" THEN [firsts EXCEPT ![t] = @ \cup {k.tag}] ELSE firsts
    BY <1>7 DEF R!Truncate, R!Vacant, R!None
  <2>2. k.mode = "strict" => t = k.path BY <1>3 DEF Sound, R!Target
  <2>3. i # 0 BY <1>1
  <2> HIDE DEF i, t
  <2>4. t \in Paths BY <1>2 DEF t
  <2>5. \/ firsts' = firsts
        \/ node[t] = 0 /\ firsts' = [firsts EXCEPT ![t] = @ \cup {k.tag}]
    BY <2>1, <2>2
  <2> QED BY <1>5, <2>1, <2>3, <2>4, <2>5
<1>8. CASE R!Rename(c)
  <2>1. node' = [node EXCEPT ![k.path] = Len(data')] /\ firsts' = firsts
        /\ data' = Append(data, k.hand)
    BY <1>8 DEF R!Rename, R!Put
  <2> QED BY <1>2, <1>5, <1>6, <2>1
<1>9. CASE PutDone(c)
  <2>1. /\ node' = [node EXCEPT ![k.path] = Len(data')] /\ data' = Append(data, k.hand)
        /\ \/ firsts' = firsts
           \/ node[k.path] = 0 /\ firsts' = [firsts EXCEPT ![k.path] = @ \cup {k.tag}]
    BY <1>9 DEF PutDone, R!Put, R!Vacant, R!None
  <2> QED BY <1>2, <1>5, <1>6, <2>1
<1>10. CASE R!Fill(c) \/ R!Note(c) \/ R!CopyPour(c) \/ R!Carry(c)
  BY <1>10 DEF R!Fill, R!Note, R!CopyPour, R!Carry, R!history, First
<1>11. CASE R!Delete(c) \/ R!Remove(c)
  <2>1. node' = [node EXCEPT ![k.path] = 0] /\ firsts' = [firsts EXCEPT ![k.path] = {}]
    BY <1>11 DEF R!Delete, R!Remove, R!Unlinked, R!None
  <2> QED BY <1>2, <1>4, <2>1 DEF First
<1>12. CASE R!MoveBytes(c)
  <2>1. /\ \A p \in Paths : p # k.to /\ p # k.path => node'[p] = node[p]
        /\ firsts' = [firsts EXCEPT ![k.to] = {}, ![k.path] = {}]
    BY <1>4, <1>12 DEF R!MoveBytes
  <2>2. firsts'[k.to] = {} /\ firsts'[k.path] = {} BY <1>2, <1>4, <2>1
  <2>3. \A p \in Paths : p # k.to /\ p # k.path => firsts'[p] = firsts[p] BY <1>4, <2>1
  <2>4. ASSUME NEW p \in Paths
        PROVE  firsts'[p] = {} \/ (node'[p] # 0 /\ \E x \in Nat : firsts'[p] = {x})
    <3>1. CASE p \in {k.to, k.path} BY <2>2, <3>1
    <3>2. CASE p \notin {k.to, k.path} BY <2>1, <2>3, <3>2 DEF First
    <3> QED BY <3>1, <3>2
  <2> QED BY <2>4 DEF First
<1>13. CASE R!CopyOpen(c)
  <2> DEFINE i == IF node[k.to] = 0 THEN Len(data) + 1 ELSE node[k.to]
  <2>1. node' = [node EXCEPT ![k.to] = i] /\ firsts' = firsts
    BY <1>13 DEF R!CopyOpen, R!None
  <2>2. i # 0 BY <1>1
  <2> HIDE DEF i
  <2> QED BY <1>2, <1>5, <2>1, <2>2
<1>14. CASE R!CopyObject(c)
  <2>1. R!Held(k.path) \in SUBSET Val BY <1>2, HeldType
  <2>2. node' = [node EXCEPT ![k.to] = Len(data')] /\ firsts' = firsts
        /\ data' = Append(data, R!Held(k.path))
    BY <1>14 DEF R!CopyObject
  <2> QED BY <1>2, <1>5, <1>6, <2>1, <2>2
<1> QED BY <1>7, <1>8, <1>9, <1>10, <1>11, <1>12, <1>13, <1>14 DEF Writing

\* No step stores metadata on the private backend.
LEMMA BareStep == Types /\ Paths # {} /\ Opened /\ AllSound /\ Bare /\ R!Next => Bare'
<1> SUFFICES ASSUME Types, Paths # {}, Opened, AllSound, Bare, NEW c \in Clients,
                    Writing(c), UNCHANGED backend, backend = "os"
             PROVE  UNCHANGED sidecars
  <2>1. ASSUME Bare, UNCHANGED <<sidecars, backend>> PROVE Bare' BY <2>1 DEF Bare
  <2>2. ASSUME UNCHANGED backend, backend # "os" PROVE Bare' BY <2>2 DEF Bare
  <2> QED BY <2>1, <2>2, NextCases
<1>1. Sound(job[c], backend) BY DEF AllSound
<1>2. CASE R!Truncate(c) \/ R!Fill(c) \/ R!Rename(c) \/ R!Note(c) \/ PutDone(c)
  BY <1>2 DEF R!Truncate, R!Fill, R!Rename, R!Note, R!Stores, PutDone
<1>3. CASE R!Delete(c) \/ R!Remove(c) \/ R!MoveBytes(c) \/ R!CopyOpen(c) \/ R!CopyPour(c) \/ R!CopyObject(c)
  BY <1>3 DEF R!Delete, R!Remove, R!Unlinked, R!MoveBytes, R!CopyOpen, R!CopyPour, R!CopyObject
<1>4. CASE R!Carry(c) BY <1>1, <1>4 DEF R!Carry, R!At, Sound, Fits
<1> QED BY <1>2, <1>3, <1>4 DEF Writing

-----------------------------------------------------------------------------
(* Whoever checks an ETag, or renames under one, has the path's lock.        *)

Locked(k) == R!Conditional(k) /\ k.pc \in {"checking", "renaming"}
Owned == \A c \in Clients : Locked(job[c]) => locks[job[c].path] = c

LEMMA OwnedGoes ==
    ASSUME Types, Owned, NEW c \in Clients, NEW j, R!Goes(c, j),
           \A p \in Paths : locks[p] \notin {0, c} => locks'[p] = locks[p],
           Locked(j) => locks'[j.path] = c
    PROVE  Owned'
<1>1. ASSUME NEW d \in Clients, Locked(job'[d]) PROVE locks'[job'[d].path] = d
  <2>1. CASE d = c BY <1>1, <2>1, ActorGoes
  <2>2. CASE d # c
    <3>1. job'[d] = R!NoJob \/ Kept(job[d], job'[d]) BY <2>2, Onlooker
    <3>2. Kept(job[d], job'[d])
      <4>1. R!NoJob.pc = "idle" BY NoJobBounds
      <4> QED BY <1>1, <3>1, <4>1 DEF Locked
    <3>3. Locked(job[d]) /\ job'[d].path = job[d].path
      BY <1>1, <3>2 DEF Kept, Locked, R!Conditional
    <3>4. locks[job[d].path] = d BY <3>3 DEF Owned
    <3>5. job[d].path \in Paths BY JobOf DEF Job
    <3> QED BY <2>2, <3>3, <3>4, <3>5, RoutesAssumption
  <2> QED BY <2>1, <2>2
<1> QED BY <1>1 DEF Owned, Locked, R!Conditional

\* Every step keeps the lock with who checks or renames under it.
LEMMA OwnedStep == Types /\ Paths # {} /\ Opened /\ AllSound /\ Owned /\ R!Next => Owned'
<1> SUFFICES ASSUME Types, Paths # {}, Opened, AllSound, Owned, NEW c \in Clients,
                    R!Begin(c) \/ Goings(c)
             PROVE  Owned'
  BY DEF R!Next, Goings
<1> DEFINE k == job[c]
<1>1. k \in Job /\ Sound(k, backend) BY JobOf DEF AllSound
<1>2. CASE R!Begin(c)
  <2>1. PICK op \in R!Ops, p \in Paths, q \in Paths, mode \in {"any", "strict", "match"},
             stream \in BOOLEAN :
          job' = [job EXCEPT ![c] = R!Asked(op, p, q, mode, stream)]
    BY <1>2 DEF R!Begin
  <2>2. calls < MaxCalls /\ UNCHANGED locks BY <1>2 DEF R!Begin, R!disk
  <2>3. R!Asked(op, p, q, mode, stream).pc = "start" BY <2>2, AskedType
  <2> QED BY <2>1, <2>2, <2>3 DEF Owned, Locked, Types, R!Conditional
<1>3. CASE Goings(c)
  <2>1. ASSUME NEW j, R!Goes(c, j), locks' = locks \/ R!Unlocked(c), ~Locked(j) PROVE Owned'
    <3>1. locks' = locks \/ (locks[k.path] = c /\ locks' = [locks EXCEPT ![k.path] = 0])
      BY <2>1 DEF R!Unlocked, R!Holds, R!None
    <3>2. \A p \in Paths : locks[p] \notin {0, c} => locks'[p] = locks[p]
      BY <3>1 DEF Types
    <3> QED BY <2>1, <3>2, OwnedGoes
  <2>2. ASSUME NEW r, R!Return(c, r), locks' = locks \/ R!Unlocked(c) PROVE Owned'
    BY <2>1, <2>2, ReturnedIdle DEF R!Return, Locked
  <2>3. ASSUME NEW pc, R!To(c, pc), locks' = locks \/ R!Unlocked(c),
               pc \notin {"checking", "renaming"}
        PROVE  Owned'
    <3>1. [k EXCEPT !.pc = pc].pc = pc BY <1>1 DEF Job
    <3> QED BY <2>1, <2>3, <3>1 DEF R!To, Locked
  <2>4. CASE R!Refuse(c) \/ R!Fail(c) \/ R!Refused(c) \/ R!Note(c) \/ R!Missing(c) \/ R!Delete(c)
             \/ R!Remove(c) \/ R!Carry(c) \/ PutDeclined(c) \/ R!MoveBytes(c) \/ R!CopyObject(c)
    BY <2>2, <2>3, <2>4
    DEF R!Refuse, R!Fail, R!Refused, R!Note, R!Missing, R!Delete, R!Remove, R!Carry, PutDeclined,
        R!MoveBytes, R!CopyObject, R!After, R!Unlinked, R!Keep, R!disk
  <2>5. CASE R!Open(c)
    <3> DEFINE j == [k EXCEPT !.pc = "reading", !.ino = node[k.path]]
    <3>1. (R!Return(c, "notFound") \/ R!Goes(c, j)) /\ locks' = locks
      BY <2>5 DEF R!Open, R!Keep, R!disk
    <3>2. j.pc = "reading" BY <1>1 DEF Job
    <3> HIDE DEF j
    <3> QED BY <2>1, <2>2, <3>1, <3>2 DEF Locked
  <2>6. CASE R!Read(c)
    <3>1. PICK seen \in R!Contents(k) :
            LET j == [k EXCEPT !.hand = seen, !.ino = R!None, !.mixed = FALSE] IN
            IF j.op = "read" THEN R!Return(c, "ok")
            ELSE R!Goes(c, [j EXCEPT !.pc = IF j.op = "patch" THEN "merging" ELSE "writing"])
      BY <2>6 DEF R!Read
    <3> DEFINE i == [k EXCEPT !.hand = seen, !.ino = R!None, !.mixed = FALSE]
               j == [i EXCEPT !.pc = IF i.op = "patch" THEN "merging" ELSE "writing"]
    <3>2. (R!Return(c, "ok") \/ R!Goes(c, j)) /\ locks' = locks
      BY <2>6, <3>1 DEF R!Read, R!Keep, R!disk
    <3>3. j.pc \in {"merging", "writing"} BY <1>1 DEF Job
    <3> HIDE DEF i, j
    <3> QED BY <2>1, <2>2, <3>2, <3>3 DEF Locked
  <2>7. CASE R!Merge(c)
    <3> DEFINE j == [k EXCEPT !.pc = "writing", !.hand = R!Merged(k)]
    <3>1. R!Goes(c, j) /\ locks' = locks BY <2>7 DEF R!Merge, R!Keep, R!disk
    <3>2. j.pc = "writing" BY <1>1 DEF Job
    <3> HIDE DEF j
    <3> QED BY <2>1, <3>1, <3>2 DEF Locked
  <2>8. CASE R!Create(c)
    <3> DEFINE j == [k EXCEPT !.pc = IF k.stream THEN "encoding" ELSE "writing", !.hand = {k.tag}]
    <3>1. R!Goes(c, j) /\ locks' = locks BY <2>8 DEF R!Create, R!Keep, R!disk
    <3>2. j.pc \in {"encoding", "writing"} BY <1>1 DEF Job
    <3> HIDE DEF j
    <3> QED BY <2>1, <3>1, <3>2 DEF Locked
  <2>9. CASE R!Truncate(c)
    <3> DEFINE i == IF node[R!Target(k)] = R!None THEN Len(data) + 1 ELSE node[R!Target(k)]
               j == [k EXCEPT !.pc = "filling", !.ino = i]
    <3>1. R!Goes(c, j) /\ locks' = locks BY <2>9 DEF R!Truncate
    <3> HIDE DEF i
    <3>2. j.pc = "filling" BY <1>1 DEF Job
    <3> HIDE DEF j
    <3> QED BY <2>1, <3>1, <3>2 DEF Locked
  <2>10. CASE R!Fill(c)
    <3> DEFINE j == [k EXCEPT !.pc = "noting", !.ino = R!None]
    <3>1. R!Goes(c, j) /\ locks' = locks BY <2>10 DEF R!Fill
    <3>2. j.pc = "noting" BY <1>1 DEF Job
    <3> HIDE DEF j
    <3> QED BY <2>1, <3>1, <3>2 DEF Locked
  <2>11. CASE R!Encode(c)
    <3> DEFINE j == [k EXCEPT !.pc = "closing", !.hand = {}, !.failed = TRUE]
    <3>1. (R!To(c, "closing") \/ R!Goes(c, j)) /\ locks' = locks
      BY <2>11 DEF R!Encode, R!Keep, R!disk
    <3>2. j.pc = "closing" BY <1>1 DEF Job
    <3> HIDE DEF j
    <3> QED BY <2>1, <2>3, <3>1, <3>2 DEF Locked
  <2>12. CASE R!Close(c)
    <3> DEFINE j == [k EXCEPT !.pc = "renaming"]
    <3>1. (R!Return(c, "exists") \/ R!Goes(c, j)) /\ locks' = locks /\ k.pc = "closing"
      BY <2>12 DEF R!Close, R!Keep, R!disk, R!At, R!To
    <3>2. j.mode = k.mode BY <1>1 DEF Job
    <3> HIDE DEF j
    <3>3. ~Locked(j) BY <1>1, <3>1, <3>2 DEF Sound, Fits, Locked, R!Conditional
    <3> QED BY <2>1, <2>2, <3>1, <3>3
  <2>13. CASE R!Lock(c)
    <3> DEFINE j == [k EXCEPT !.pc = "checking"]
    <3>1. R!Goes(c, j) /\ locks[k.path] = 0 /\ locks' = [locks EXCEPT ![k.path] = c]
      BY <2>13 DEF R!Lock, R!To, R!None
    <3>2. j.path = k.path /\ k.path \in Paths BY <1>1 DEF Job
    <3> HIDE DEF j
    <3>3. locks'[j.path] = c BY <3>1, <3>2 DEF Types
    <3>4. \A p \in Paths : locks[p] \notin {0, c} => locks'[p] = locks[p]
      BY <3>1, <3>2 DEF Types
    <3> QED BY <3>1, <3>3, <3>4, OwnedGoes
  <2>14. CASE R!Check(c)
    <3> DEFINE j == [k EXCEPT !.pc = "renaming"]
    <3>1. \/ R!Return(c, "mismatch") /\ R!Unlocked(c)
          \/ R!Goes(c, j) /\ locks' = locks /\ k.pc = "checking"
      BY <2>14 DEF R!Check, R!To, R!At
    <3>2. j.path = k.path BY <1>1 DEF Job
    <3> HIDE DEF j
    <3>3. k.pc = "checking" => locks[k.path] = c BY <1>1 DEF Owned, Locked, Sound, Fits
    <3>4. R!Goes(c, j) /\ locks' = locks /\ k.pc = "checking" => Owned'
      BY <3>2, <3>3, OwnedGoes
    <3> QED BY <2>2, <3>1, <3>4
  <2>15. CASE R!Rename(c)
    <3> DEFINE j == [k EXCEPT !.pc = "noting", !.over = R!Held(k.path)]
    <3>1. R!Goes(c, j) /\ locks' = locks BY <2>15 DEF R!Rename
    <3>2. j.pc = "noting" BY <1>1 DEF Job
    <3> HIDE DEF j
    <3> QED BY <2>1, <3>1, <3>2 DEF Locked
  <2>16. CASE PutDone(c) BY <2>1, <2>16, ReturnedIdle DEF PutDone, Locked
  <2>17. CASE R!Carried(c)
    <3> DEFINE j == [k EXCEPT !.pc = IF k.op = "move" /\ R!Moves THEN "moving" ELSE "copying",
                              !.carried = sidecars[k.path]]
    <3>1. R!Goes(c, j) /\ locks' = locks BY <2>17 DEF R!Carried, R!Keep, R!disk
    <3>2. j.pc \in {"moving", "copying"} BY <1>1 DEF Job
    <3> HIDE DEF j
    <3> QED BY <2>1, <3>1, <3>2 DEF Locked
  <2>18. CASE R!CopyOpen(c)
    <3> DEFINE i == IF node[k.to] = R!None THEN Len(data) + 1 ELSE node[k.to]
               j == [k EXCEPT !.pc = "pouring", !.ino = node[k.path], !.out = i]
    <3>1. R!Goes(c, j) /\ locks' = locks BY <2>18 DEF R!CopyOpen
    <3> HIDE DEF i
    <3>2. j.pc = "pouring" BY <1>1 DEF Job
    <3> HIDE DEF j
    <3> QED BY <2>1, <3>1, <3>2 DEF Locked
  <2>19. CASE R!CopyPour(c)
    <3> DEFINE j == [k EXCEPT !.pc = "carrying", !.ino = R!None, !.mixed = FALSE]
    <3>1. R!Goes(c, j) /\ locks' = locks BY <2>19 DEF R!CopyPour
    <3>2. j.pc = "carrying" BY <1>1 DEF Job
    <3> HIDE DEF j
    <3> QED BY <2>1, <3>1, <3>2 DEF Locked
  <2> QED BY <1>3, <2>4, <2>5, <2>6, <2>7, <2>8, <2>9, <2>10, <2>11, <2>12, <2>13, <2>14, <2>15,
             <2>16, <2>17, <2>18, <2>19, PutObjectCases DEF Goings, R!WriteStep, R!MoveStep
<1> QED BY <1>2, <1>3

-----------------------------------------------------------------------------
(* What a patch has read stays what its ETag names, while all are fair.      *)

HeldIn(nd, ds, p) == IF nd[p] = 0 THEN {} ELSE ds[nd[p]]

LEMMA HeldIs == \A p : R!Held(p) = HeldIn(node, data, p) /\ R!Held(p)' = HeldIn(node', data', p)
BY DEF HeldIn, R!Held, R!None

\* h is what is at the path.
Seeing(k, h, ds) ==
    k.op = "patch" /\ k.mode = "match" /\ k.fair =>
        /\ k.pc \in Pre => ~k.mixed
        /\ k.pc = "reading" /\ h = k.etag => ds[k.ino] = k.etag
        /\ k.pc \in {"merging", "writing", "checking", "renaming"} /\ h = k.etag =>
             k.etag \subseteq k.hand
        /\ k.pc = "renaming" => h = k.etag
        /\ k.over \subseteq k.hand

Seen == \A c \in Clients : Seeing(job[c], HeldIn(node, data, job[c].path), data)

LEMMA FairWrites ==
    ASSUME Types, Paths # {}, AllSound, NEW c \in Clients, R!Conditional(job[c]), Writing(c)
    PROVE  \/ UNCHANGED <<node, data>>
           \/ /\ job[c].pc \in {"writing", "renaming"} /\ (job[c].pc = "writing" => backend = "s3")
              /\ job[c].path \in Paths /\ job[c].hand \in SUBSET Val
              /\ job[c].tag \in job[c].hand
              /\ data' = Append(data, job[c].hand)
              /\ node' = [node EXCEPT ![job[c].path] = Len(data')]
<1> DEFINE k == job[c]
<1>1. k \in Job /\ Sound(k, backend) BY JobOf DEF AllSound
<1>2. k.path \in Paths /\ k.hand \in SUBSET Val BY <1>1 DEF Job
<1>3. k.op \in {"create", "patch"} /\ k.mode = "match" BY DEF R!Conditional
<1>4. CASE R!Note(c) \/ R!Carry(c) BY <1>4 DEF R!Note, R!Carry
<1>5. CASE R!Rename(c) \/ PutDone(c)
  <2>1. /\ data' = Append(data, k.hand) /\ node' = [node EXCEPT ![k.path] = Len(data')]
        /\ k.pc \in {"writing", "renaming"} /\ (k.pc = "writing" => backend = "s3")
    BY <1>5 DEF R!Rename, PutDone, R!Put, R!At
  <2>2. ~k.failed BY <1>1, <1>3 DEF Sound
  <2>3. k.tag \in k.hand BY <1>1, <1>3, <2>1, <2>2 DEF Sound, Writes
  <2> QED BY <1>2, <2>1, <2>3
<1>6. ~R!Truncate(c) /\ ~R!Fill(c)
  BY <1>1 DEF R!Truncate, R!Unconditional, R!Fill, R!At, Sound, Fits
<1>7. ~R!Delete(c) /\ ~R!Remove(c) /\ ~R!MoveBytes(c) /\ ~R!CopyOpen(c) /\ ~R!CopyPour(c)
      /\ ~R!CopyObject(c)
  BY <1>1, <1>3 DEF R!Delete, R!Remove, R!MoveBytes, R!CopyOpen, R!CopyPour, R!CopyObject, R!At,
                    Sound, Fits, Transfer
<1> QED BY <1>4, <1>5, <1>6, <1>7 DEF Writing

\* What is where a patch looks, after another call has written under an ETag.
LEMMA OthersSeen ==
    ASSUME Types, Paths # {}, Opened, AllSound, Tags, Owned, Seen,
           NEW c \in Clients, NEW d \in Clients, d # c, Goings(c)
    PROVE  Seeing(job'[d], HeldIn(node', data', job'[d].path), data')
<1>1. PICK j : R!Goes(c, j) BY TurnStep
<1> DEFINE k == job[d]
           w == job'[d]
           h == HeldIn(node, data, k.path)
           g == HeldIn(node', data', k.path)
<1>2. k \in Job /\ Sound(k, backend) /\ k.path \in Paths BY JobOf DEF AllSound, Job
<1>3. Seeing(k, h, data) BY DEF Seen
<1>4. CASE w = R!NoJob BY <1>4 DEF R!NoJob, Seeing
<1>5. CASE /\ Kept(k, w)
           /\ w.fair => k.fair /\ (R!Changed => R!Conditional(job[c]))
           /\ w.mixed => k.mixed \/ (k.ino # 0 /\ data'[k.ino] # data[k.ino])
  <2>1. CASE UNCHANGED <<node, data>>
    <3>1. g = h /\ data' = data /\ (w.mixed => k.mixed) BY <1>5, <2>1
    <3> HIDE DEF g, h, k, w
    <3>2. Seeing(w, g, data') BY <1>3, <1>5, <3>1 DEF Seeing, Kept
    <3>3. w.path = k.path BY <1>5 DEF Kept
    <3> QED BY <3>2, <3>3 DEF g, w
  <2>2. CASE ~UNCHANGED <<node, data>> /\ k.op = "patch" /\ k.mode = "match" /\ w.fair
    <3>1. R!Changed /\ Writing(c) BY <2>2, WritingOrNot DEF R!Changed
    <3>2. R!Conditional(job[c]) /\ k.fair BY <1>5, <2>2, <3>1
    <3>3. /\ job[c].pc \in {"writing", "renaming"} /\ (job[c].pc = "writing" => backend = "s3")
          /\ job[c].path \in Paths /\ job[c].hand \in SUBSET Val /\ job[c].tag \in job[c].hand
          /\ data' = Append(data, job[c].hand)
          /\ node' = [node EXCEPT ![job[c].path] = Len(data')]
      BY <2>2, <3>1, <3>2, FairWrites
    <3>4. /\ Len(data') = Len(data) + 1 /\ Len(data) \in Nat
          /\ \A i \in 1 .. Len(data) : data'[i] = data[i]
          /\ data'[Len(data) + 1] = job[c].hand
      BY <3>3, DataAppend
    <3>5. job[c].tag \notin k.etag
      BY <3>2, <3>3 DEF Tags, Own, Pre
    <3>6. CASE job[c].path = k.path
      <4>1. node'[k.path] = Len(data) + 1 BY <1>2, <3>3, <3>4, <3>6 DEF Types
      <4>2. g = job[c].hand BY <3>4, <4>1 DEF HeldIn
      <4>3. g # k.etag BY <3>3, <3>5, <4>2
      <4>4. k.pc # "renaming"
        <5>1. SUFFICES ASSUME k.pc = "renaming" PROVE FALSE OBVIOUS
        <5>2. Locked(k) /\ backend # "s3"
          BY <1>2, <2>2, <5>1 DEF Locked, Sound, Fits, R!Conditional
        <5>3. Locked(job[c]) BY <3>2, <3>3, <5>2 DEF Locked
        <5> QED BY <3>6, <5>2, <5>3 DEF Owned
      <4>5. k.ino # 0 => data'[k.ino] = data[k.ino] BY <3>4, JobOf
      <4> HIDE DEF g, h, k, w
      <4>6. Seeing(w, g, data') BY <1>3, <1>5, <2>2, <3>2, <4>3, <4>4, <4>5 DEF Seeing, Kept
      <4>7. w.path = k.path BY <1>5 DEF Kept
      <4> QED BY <4>6, <4>7 DEF g, w
    <3>7. CASE job[c].path # k.path
      <4>1. node'[k.path] = node[k.path] /\ node[k.path] \in 0 .. Len(data)
        BY <1>2, <3>3, <3>7 DEF Types
      <4>2. g = h BY <3>4, <4>1 DEF HeldIn
      <4>3. k.ino # 0 => data'[k.ino] = data[k.ino] BY <3>4, JobOf
      <4>4. k.pc = "reading" => k.ino \in DOMAIN data BY DEF Opened
      <4>5. k.pc = "reading" => data'[k.ino] = data[k.ino]
        BY <3>4, <4>4 DEF Types
      <4> HIDE DEF g, h, k, w
      <4>6. Seeing(w, g, data') BY <1>3, <1>5, <2>2, <3>2, <4>2, <4>3, <4>5 DEF Seeing, Kept
      <4>7. w.path = k.path BY <1>5 DEF Kept
      <4> QED BY <4>6, <4>7 DEF g, w
    <3> QED BY <3>6, <3>7
  <2>3. CASE ~(k.op = "patch" /\ k.mode = "match" /\ w.fair)
    BY <1>5, <2>3 DEF Seeing, Kept
  <2> QED BY <2>1, <2>2, <2>3
<1> QED BY <1>1, <1>4, <1>5, Onlooker

\* What remains of a patch is what there was of it.
LEMMA ReturnedSeeing ==
    ASSUME NEW k \in Job, NEW r, NEW h, NEW ds,
           k.op = "patch" /\ k.mode = "match" /\ k.fair => k.over \subseteq k.hand
    PROVE  Seeing(R!Returned(k, r), h, ds)
<1> DEFINE j == R!Returned(k, r)
<1>1. CASE k.op # "patch"
  <2>1. j.op # "patch" BY <1>1 DEF R!Returned, R!NoJob
  <2> QED BY <2>1 DEF Seeing
<1>2. CASE k.op = "patch"
  <2>1. /\ j.pc = "idle" /\ j.op = k.op /\ j.mode = k.mode /\ j.fair = k.fair
        /\ j.over = k.over /\ j.hand = k.hand
    BY <1>2 DEF R!Returned, R!NoJob
  <2> HIDE DEF j
  <2> QED BY <2>1 DEF Seeing, Pre, j
<1> QED BY <1>1, <1>2

\* What is where a patch looks, after its own step.
LEMMA ActorSeen ==
    ASSUME Types, Paths # {}, Opened, AllSound, Seen, NEW c \in Clients, Goings(c)
    PROVE  Seeing(job'[c], HeldIn(node', data', job'[c].path), data')
<1> DEFINE k == job[c]
           h == HeldIn(node, data, k.path)
<1>1. PICK j : R!Goes(c, j) /\ Turn(k, j) BY TurnStep
<1>2. job'[c] = j BY <1>1, ActorGoes
<1>3. k \in Job /\ Sound(k, backend) /\ k.path \in Paths BY JobOf DEF AllSound, Job
<1>4. Seeing(k, h, data) BY DEF Seen
<1>5. CASE ~(k.op = "patch" /\ k.mode = "match") BY <1>1, <1>2, <1>5 DEF Turn, Seeing
<1>6. CASE k.op = "patch" /\ k.mode = "match"
  <2>1. R!Conditional(k) /\ ~k.stream BY <1>3, <1>6 DEF R!Conditional, Sound
  <2>2. k.fair => k.over \subseteq k.hand BY <1>4, <1>6 DEF Seeing
  <2>3. ASSUME NEW r, R!Return(c, r) PROVE Seeing(j, HeldIn(node', data', j.path), data')
    <3>1. j = R!Returned(k, r) BY <1>2, <2>3, ActorGoes DEF R!Return
    <3> QED BY <1>3, <2>2, <3>1, ReturnedSeeing
  <2>4. ~R!Create(c) /\ ~R!Refused(c) /\ ~R!Truncate(c) /\ ~R!Fill(c) /\ ~R!Encode(c) /\ ~R!Close(c)
    BY <1>3, <1>6, <2>1 DEF R!Create, R!Refused, R!Truncate, R!Unconditional, R!Fill, R!Encode,
                            R!Close, R!At, Sound, Fits
  <2>5. ~R!MoveStep(c)
    BY <1>3, <1>6 DEF R!MoveStep, R!Delete, R!Carried, R!Missing, R!MoveBytes, R!CopyOpen,
                      R!CopyPour, R!CopyObject, R!Carry, R!Remove, R!At, Sound, Fits, Transfer
  <2>6. CASE R!Refuse(c) \/ R!Fail(c) \/ PutDeclined(c)
    BY <1>2, <2>3, <2>6 DEF R!Refuse, R!Fail, PutDeclined
  <2>7. CASE R!Open(c)
    <3> DEFINE i == [k EXCEPT !.pc = "reading", !.ino = node[k.path]]
    <3>1. R!Return(c, "notFound") \/ (node[k.path] # 0 /\ R!Goes(c, i))
      BY <2>7 DEF R!Open, R!None
    <3>2. k.pc = "start" /\ UNCHANGED <<node, data>> BY <2>7 DEF R!Open, R!At, R!Keep, R!disk
    <3>3. /\ i.pc = "reading" /\ i.path = k.path /\ i.op = k.op /\ i.mode = k.mode /\ i.fair = k.fair
          /\ i.etag = k.etag /\ i.mixed = k.mixed /\ i.over = k.over /\ i.hand = k.hand
          /\ i.ino = node[k.path]
      BY <1>3 DEF Job
    <3> HIDE DEF i
    <3>4. CASE node[k.path] # 0 /\ R!Goes(c, i)
      <4>1. j = i BY <1>2, <3>4, ActorGoes
      <4>2. h = data[node[k.path]] BY <3>4 DEF HeldIn
      <4>3. HeldIn(node', data', i.path) = h /\ data' = data BY <3>2, <3>3
      <4>4. k.fair => ~k.mixed BY <1>4, <1>6, <3>2 DEF Seeing, Pre
      <4> HIDE DEF h
      <4> QED BY <2>2, <3>3, <4>1, <4>2, <4>3, <4>4, <1>2 DEF Seeing
    <3> QED BY <1>2, <2>3, <3>1, <3>4
  <2>8. CASE R!Read(c)
    <3>1. PICK seen \in R!Contents(k) :
            LET i == [k EXCEPT !.hand = seen, !.ino = R!None, !.mixed = FALSE] IN
            IF i.op = "read" THEN R!Return(c, "ok")
            ELSE R!Goes(c, [i EXCEPT !.pc = IF i.op = "patch" THEN "merging" ELSE "writing"])
      BY <2>8 DEF R!Read
    <3> DEFINE i == [k EXCEPT !.hand = seen, !.ino = R!None, !.mixed = FALSE]
               e == [i EXCEPT !.pc = IF i.op = "patch" THEN "merging" ELSE "writing"]
    <3>2. i.op = k.op BY <1>3 DEF Job
    <3>3. R!Goes(c, e) BY <1>6, <3>1, <3>2
    <3>4. k.pc = "reading" /\ UNCHANGED <<node, data>> BY <2>8 DEF R!Read, R!At, R!Keep, R!disk
    <3>5. /\ e.pc = "merging" /\ e.path = k.path /\ e.op = k.op /\ e.mode = k.mode /\ e.fair = k.fair
          /\ e.etag = k.etag /\ ~e.mixed /\ e.over = k.over /\ e.hand = seen
      BY <1>3, <1>6 DEF Job
    <3>6. j = e BY <1>2, <3>3, ActorGoes
    <3> HIDE DEF i, e
    <3>7. HeldIn(node', data', e.path) = h /\ data' = data BY <3>4, <3>5
    <3>8. k.over = {} BY <1>3, <3>4 DEF Sound, Pre
    <3>9. k.fair => ~k.mixed BY <1>4, <1>6, <3>4 DEF Seeing, Pre
    <3>10. k.fair => seen = data[k.ino] BY <3>9 DEF R!Contents
    <3>11. k.fair /\ h = k.etag => k.etag \subseteq seen
      BY <1>4, <1>6, <3>4, <3>10 DEF Seeing
    <3> HIDE DEF h
    <3> QED BY <1>2, <3>5, <3>6, <3>7, <3>8, <3>11 DEF Seeing
  <2>9. CASE R!Merge(c)
    <3> DEFINE i == [k EXCEPT !.pc = "writing", !.hand = R!Merged(k)]
    <3>1. R!Goes(c, i) /\ k.pc = "merging" /\ UNCHANGED <<node, data>>
      BY <2>9 DEF R!Merge, R!At, R!Keep, R!disk
    <3>2. /\ i.pc = "writing" /\ i.path = k.path /\ i.op = k.op /\ i.mode = k.mode /\ i.fair = k.fair
          /\ i.etag = k.etag /\ i.mixed = k.mixed /\ i.over = k.over /\ i.hand = k.hand \cup {k.tag}
      BY <1>3 DEF Job, R!Merged
    <3> HIDE DEF i
    <3>3. j = i BY <1>2, <3>1, ActorGoes
    <3>4. HeldIn(node', data', i.path) = h /\ data' = data BY <3>1, <3>2
    <3>5. k.fair => ~k.mixed /\ (h = k.etag => k.etag \subseteq k.hand)
      BY <1>4, <1>6, <3>1 DEF Seeing, Pre
    <3> HIDE DEF h
    <3> QED BY <1>2, <2>2, <3>2, <3>3, <3>4, <3>5 DEF Seeing
  <2>10. CASE R!Lock(c) \/ R!Check(c)
    <3> DEFINE t(pc) == [k EXCEPT !.pc = pc]
    <3>1. UNCHANGED <<node, data>> BY <2>10 DEF R!Lock, R!Check
    <3>2. \/ k.pc = "writing" /\ R!Goes(c, t("checking"))
          \/ k.pc = "checking" /\ R!Matches(k) /\ R!Goes(c, t("renaming"))
          \/ R!Return(c, "mismatch")
      BY <2>10 DEF R!Lock, R!Check, R!At, R!To
    <3>3. ASSUME NEW pc
          PROVE  /\ t(pc).pc = pc /\ t(pc).path = k.path /\ t(pc).op = k.op /\ t(pc).mode = k.mode
                 /\ t(pc).fair = k.fair /\ t(pc).etag = k.etag /\ t(pc).mixed = k.mixed
                 /\ t(pc).over = k.over /\ t(pc).hand = k.hand
      BY <1>3 DEF Job
    <3> HIDE DEF t
    <3>4. R!Matches(k) => h = k.etag BY HeldIs DEF R!Matches
    <3>5. ASSUME NEW pc \in {"checking", "renaming"}, j = t(pc), k.pc \in {"writing", "checking"},
                 pc = "renaming" => R!Matches(k)
          PROVE  Seeing(j, HeldIn(node', data', j.path), data')
      <4>1. HeldIn(node', data', j.path) = h /\ data' = data BY <3>1, <3>3, <3>5
      <4>2. k.fair => ~k.mixed /\ (h = k.etag => k.etag \subseteq k.hand)
        BY <1>4, <1>6, <3>5 DEF Seeing, Pre
      <4>3. pc = "renaming" => h = k.etag BY <3>4, <3>5
      <4> HIDE DEF h
      <4> QED BY <2>2, <3>3, <3>5, <4>1, <4>2, <4>3 DEF Seeing
    <3>6. CASE k.pc = "writing" /\ R!Goes(c, t("checking"))
      BY <1>2, <3>5, <3>6, ActorGoes
    <3>7. CASE k.pc = "checking" /\ R!Matches(k) /\ R!Goes(c, t("renaming"))
      BY <1>2, <3>5, <3>7, ActorGoes
    <3> QED BY <1>2, <2>3, <3>2, <3>6, <3>7
  <2>11. CASE R!Rename(c)
    <3> DEFINE i == [k EXCEPT !.pc = "noting", !.over = R!Held(k.path)]
    <3>1. R!Goes(c, i) /\ k.pc = "renaming" BY <2>11 DEF R!Rename, R!At
    <3>2. i.pc = "noting" /\ i.op = k.op /\ i.mode = k.mode /\ i.fair = k.fair
          /\ i.hand = k.hand /\ i.over = R!Held(k.path)
      BY <1>3 DEF Job
    <3> HIDE DEF i
    <3>3. j = i BY <1>2, <3>1, ActorGoes
    <3>4. k.fair => h = k.etag /\ k.etag \subseteq k.hand BY <1>4, <1>6, <3>1 DEF Seeing
    <3>5. k.fair => R!Held(k.path) \subseteq k.hand BY <3>4, HeldIs
    <3> QED BY <1>2, <3>2, <3>3, <3>5 DEF Seeing, Pre
  <2>12. CASE R!Note(c)
    <3>1. \E r \in Results : R!Return(c, r)
      BY <1>6, <2>12 DEF R!Note, R!After, Results
    <3> QED BY <1>2, <2>3, <3>1
  <2>13. CASE PutDone(c)
    <3> DEFINE o == [k EXCEPT !.over = R!Held(k.path)]
               r == IF k.failed THEN "error" ELSE "ok"
    <3>1. R!Goes(c, R!Returned(o, r)) /\ R!Matches(k) /\ backend = "s3"
          /\ k.pc \in {"writing", "renaming"}
      BY <2>1, <2>13 DEF PutDone
    <3>2. k.pc = "writing" BY <1>3, <2>1, <3>1 DEF Sound, Fits
    <3>3. R!Held(k.path) = k.etag BY <3>1 DEF R!Matches
    <3>4. k.fair => R!Held(k.path) \subseteq k.hand
      <4>1. h = k.etag BY <3>3, HeldIs
      <4> HIDE DEF h
      <4> QED BY <1>4, <1>6, <3>2, <3>3, <4>1 DEF Seeing
    <3>5. o.op = k.op /\ o.mode = k.mode /\ o.fair = k.fair /\ o.over = R!Held(k.path)
          /\ o.hand = k.hand
      BY <1>3 DEF Job
    <3>6. o \in Job BY <1>3, HeldType, OverType
    <3>7. j = R!Returned(o, r) BY <1>2, <3>1, ActorGoes
    <3> HIDE DEF o, r
    <3> QED BY <1>2, <3>4, <3>5, <3>6, <3>7, ReturnedSeeing
  <2> QED BY <2>4, <2>5, <2>6, <2>7, <2>8, <2>9, <2>10, <2>11, <2>12, <2>13, PutObjectCases
          DEF Goings, R!WriteStep
<1> QED BY <1>5, <1>6

\* Every step keeps what a fair patch has read and what its ETag names the same.
LEMMA SeenStep ==
    /\ Types /\ Paths # {} /\ Opened /\ AllSound /\ Tags /\ Owned /\ Seen
    /\ R!Next
    => Seen'
<1> SUFFICES ASSUME Types, Paths # {}, Opened, AllSound, Tags, Owned, Seen, NEW c \in Clients,
                    R!Begin(c) \/ Goings(c), NEW d \in Clients
             PROVE  Seeing(job'[d], HeldIn(node', data', job'[d].path), data')
  BY DEF R!Next, Goings, Seen
<1>1. CASE R!Begin(c)
  <2>1. PICK op \in R!Ops, p \in Paths, q \in Paths, mode \in {"any", "strict", "match"},
             stream \in BOOLEAN :
          job' = [job EXCEPT ![c] = R!Asked(op, p, q, mode, stream)]
    BY <1>1 DEF R!Begin
  <2> DEFINE j == R!Asked(op, p, q, mode, stream)
  <2>2. calls < MaxCalls /\ UNCHANGED <<node, data>> BY <1>1 DEF R!Begin, R!disk
  <2>3. j.pc = "start" /\ j.over = {} /\ ~j.mixed BY <2>2, AskedType
  <2> HIDE DEF j
  <2>4. CASE d = c
    <3>1. job'[d] = j BY <2>1, <2>4 DEF Types, j
    <3> QED BY <2>3, <3>1 DEF Seeing
  <2>5. CASE d # c
    <3>1. job'[d] = job[d] BY <2>1, <2>5 DEF Types
    <3> QED BY <2>2, <3>1 DEF Seen
  <2> QED BY <2>4, <2>5
<1>2. CASE Goings(c)
  <2>1. CASE d = c BY <1>2, <2>1, ActorSeen
  <2>2. CASE d # c BY <1>2, <2>2, OthersSeen
  <2> QED BY <2>1, <2>2
<1> QED BY <1>1, <1>2

-----------------------------------------------------------------------------
(* A move has the content at one of its paths, or in both.                   *)

Undisturbed(k) == k.quiet /\ k.to # k.path

Moving(k, b, nd, ds) ==
    k.op = "move" /\ Undisturbed(k) /\ k.was # {} =>
        /\ k.pc \in {"start", "reading", "writing", "moving", "copying", "filling"} =>
             HeldIn(nd, ds, k.path) = k.was
        /\ k.pc \in {"start", "reading"} => ~k.mixed
        /\ k.pc = "reading" => k.ino = nd[k.path]
        /\ k.pc \in {"writing", "filling"} => k.hand = k.was
        /\ k.pc = "filling" => k.ino = nd[k.to]
        /\ k.pc \in {"noting", "carrying", "removing"} => HeldIn(nd, ds, k.to) = k.was
        /\ k.pc = "carrying" /\ b = "disk" => nd[k.path] = 0
        /\ k.pc = "idle" => k.was \in {HeldIn(nd, ds, k.path), HeldIn(nd, ds, k.to)}
        /\ k.result = "ok" => HeldIn(nd, ds, k.to) = k.was /\ nd[k.path] = 0

AllMoving == \A c \in Clients : Moving(job[c], backend, node, data)

\* A quiet move has its content at one of its paths whatever it is doing.
LEMMA MovingHas ==
    ASSUME NEW k \in Job, NEW b, NEW nd, NEW ds, Sound(k, b), Moving(k, b, nd, ds),
           k.op = "move", Undisturbed(k), k.was # {}
    PROVE  k.was \in {HeldIn(nd, ds, k.path), HeldIn(nd, ds, k.to)}
<1>1. k.pc \in Pcs BY DEF Job
<1>2. k.pc \notin {"merging", "encoding", "closing", "checking", "renaming", "pouring"}
  BY DEF Sound, Fits, R!Conditional
<1>3. k.pc \in {"start", "reading", "writing", "moving", "copying", "filling", "noting",
                "carrying", "removing", "idle"}
  BY <1>1, <1>2 DEF Pcs
<1> QED BY <1>3 DEF Moving

LEMMA ReturnedMoving ==
    ASSUME NEW k, NEW b, NEW r, NEW nd, NEW ds,
           k.op = "move" /\ Undisturbed(k) /\ k.was # {} =>
             /\ k.was \in {HeldIn(nd, ds, k.path), HeldIn(nd, ds, k.to)}
             /\ r = "ok" => HeldIn(nd, ds, k.to) = k.was /\ nd[k.path] = 0
    PROVE  Moving(R!Returned(k, r), b, nd, ds)
<1> DEFINE j == R!Returned(k, r)
<1>1. CASE k.op # "move"
  <2>1. j.op # "move" BY <1>1 DEF R!Returned, R!NoJob
  <2> QED BY <2>1 DEF Moving
<1>2. CASE k.op = "move"
  <2>1. /\ j.pc = "idle" /\ j.op = k.op /\ j.path = k.path /\ j.to = k.to /\ j.quiet = k.quiet
        /\ j.was = k.was /\ j.result = r
    BY <1>2 DEF R!Returned, R!NoJob
  <2> HIDE DEF j
  <2> QED BY <1>2, <2>1 DEF Moving, Undisturbed, j
<1> QED BY <1>1, <1>2

\* j is the same request as k.
Asks(k, j) ==
    /\ j.op = k.op /\ j.path = k.path /\ j.to = k.to /\ j.quiet = k.quiet /\ j.was = k.was
    /\ j.wasMd = k.wasMd /\ j.result = k.result

LEMMA AsksTo ==
    ASSUME NEW k \in Job, NEW pc
    PROVE  LET j == [k EXCEPT !.pc = pc] IN
           /\ Asks(k, j) /\ j.pc = pc /\ j.ino = k.ino /\ j.mixed = k.mixed /\ j.hand = k.hand
           /\ j.carried = k.carried
BY DEF Job, Asks

LEMMA ActorMoving ==
    ASSUME Types, Paths # {}, Opened, AllSound, Apart, AllMoving, NEW c \in Clients, Goings(c)
    PROVE  Moving(job'[c], backend', node', data')
<1> DEFINE k == job[c]
<1>1. PICK j : R!Goes(c, j) /\ Turn(k, j) BY TurnStep
<1>2. job'[c] = j /\ backend' = backend BY <1>1, ActorGoes
<1>3. k \in Job /\ Sound(k, backend) /\ k.path \in Paths /\ k.to \in Paths
  BY JobOf DEF AllSound, Job
<1>4. Moving(k, backend, node, data) BY DEF AllMoving
<1>5. CASE k.op # "move" BY <1>1, <1>2, <1>5 DEF Turn, Moving
<1>6. CASE k.op = "move"
  <2> SUFFICES Moving(j, backend', node', data') BY <1>2
  <2> DEFINE from == HeldIn(node, data, k.path)
             there == HeldIn(node, data, k.to)
             From == HeldIn(node', data', k.path)
             There == HeldIn(node', data', k.to)
             Cares == Undisturbed(k) /\ k.was # {}
  <2>1. Cares => k.was \in {from, there} BY <1>3, <1>4, <1>6, MovingHas
  <2>2. Len(data) \in Nat /\ DOMAIN data = 1 .. Len(data) /\ node[k.path] \in 0 .. Len(data)
        /\ node[k.to] \in 0 .. Len(data)
    BY <1>3 DEF Types
  <2>3. UNCHANGED <<node, data>> => From = from /\ There = there OBVIOUS
  <2>4. ASSUME NEW r, R!Return(c, r),
               Cares => k.was \in {From, There} /\ (r = "ok" => There = k.was /\ node'[k.path] = 0)
        PROVE  Moving(j, backend', node', data')
    <3>1. j = R!Returned(k, r) BY <1>2, <2>4, ActorGoes DEF R!Return
    <3> QED BY <2>4, <3>1, ReturnedMoving
  <2>5. ASSUME NEW pc, R!To(c, pc)
        PROVE  Asks(k, j) /\ j.pc = pc /\ j.mixed = k.mixed /\ j.hand = k.hand
    <3>1. j = [k EXCEPT !.pc = pc] BY <1>2, <2>5, ActorGoes DEF R!To
    <3> QED BY <1>3, <3>1, AsksTo
  <2>6. k.pc # "idle" => k.result = "none" BY <1>3 DEF Sound
  <2>7. Cares /\ node[k.path] # 0 => node[k.to] # node[k.path] BY <1>3 DEF Apart, Undisturbed
  <2> HIDE DEF From, There, from, there
  <2>8. /\ ~R!Merge(c) /\ ~R!Create(c) /\ ~R!Refused(c) /\ ~R!Encode(c) /\ ~R!Close(c) /\ ~R!Lock(c)
        /\ ~R!Check(c) /\ ~R!Rename(c) /\ ~R!PutObject(c) /\ ~R!Delete(c) /\ ~R!CopyOpen(c)
        /\ ~R!CopyPour(c)
    BY <1>3, <1>6
    DEF R!Merge, R!Create, R!Refused, R!Unconditional, R!Encode, R!Close, R!Lock, R!Check, R!Rename,
        R!PutObject, R!Delete, R!CopyOpen, R!CopyPour, R!At, R!Conditional, Sound, Fits, Writes, Moved
  <2>9. CASE R!Refuse(c) \/ R!Fail(c) \/ R!Missing(c)
    BY <2>1, <2>3, <2>4, <2>9 DEF R!Refuse, R!Fail, R!Missing, R!Keep, R!disk
  <2>10. CASE R!Open(c)
    <3> DEFINE i == [k EXCEPT !.pc = "reading", !.ino = node[k.path]]
    <3>1. R!Return(c, "notFound") \/ R!Goes(c, i) BY <2>10 DEF R!Open
    <3>2. k.pc = "start" /\ UNCHANGED <<node, data>> BY <2>10 DEF R!Open, R!At, R!Keep, R!disk
    <3>3. Asks(k, i) /\ i.pc = "reading" /\ i.ino = node[k.path] /\ i.mixed = k.mixed
      BY <1>3 DEF Job, Asks
    <3> HIDE DEF i
    <3>4. CASE R!Goes(c, i)
      <4>1. j = i BY <1>2, <3>4, ActorGoes
      <4>2. Cares => From = k.was /\ ~k.mixed
        BY <1>4, <1>6, <2>3, <3>2 DEF Moving, from
      <4> QED BY <2>6, <3>2, <3>3, <4>1, <4>2 DEF Moving, Asks, Undisturbed, From, There
    <3> QED BY <2>1, <2>3, <2>4, <3>1, <3>2, <3>4
  <2>11. CASE R!Read(c)
    <3>1. PICK seen \in R!Contents(k) :
            LET i == [k EXCEPT !.hand = seen, !.ino = R!None, !.mixed = FALSE] IN
            IF i.op = "read" THEN R!Return(c, "ok")
            ELSE R!Goes(c, [i EXCEPT !.pc = IF i.op = "patch" THEN "merging" ELSE "writing"])
      BY <2>11 DEF R!Read
    <3> DEFINE i == [k EXCEPT !.hand = seen, !.ino = R!None, !.mixed = FALSE]
               e == [i EXCEPT !.pc = IF i.op = "patch" THEN "merging" ELSE "writing"]
    <3>2. i.op = k.op BY <1>3 DEF Job
    <3>3. R!Goes(c, e) BY <1>6, <3>1, <3>2
    <3>4. k.pc = "reading" /\ UNCHANGED <<node, data>> BY <2>11 DEF R!Read, R!At, R!Keep, R!disk
    <3>5. Asks(k, e) /\ e.pc = "writing" /\ e.hand = seen BY <1>3, <1>6 DEF Job, Asks
    <3>6. j = e BY <1>2, <3>3, ActorGoes
    <3> HIDE DEF i, e
    <3>7. Cares => ~k.mixed /\ k.ino = node[k.path] /\ from = k.was
      BY <1>4, <1>6, <3>4 DEF Moving, from
    <3>8. Cares => seen = k.was BY <3>7 DEF R!Contents, from, HeldIn
    <3>9. Cares => From = k.was BY <2>3, <3>4, <3>7
    <3> QED BY <2>6, <3>4, <3>5, <3>6, <3>8, <3>9 DEF Moving, Asks, Undisturbed, From, There
  <2>12. CASE R!Truncate(c)
    <3> DEFINE n == IF node[k.to] = 0 THEN Len(data) + 1 ELSE node[k.to]
               i == [k EXCEPT !.pc = "filling", !.ino = n]
    <3>1. /\ R!Goes(c, i) /\ k.pc = "writing" /\ node' = [node EXCEPT ![k.to] = n]
          /\ data' = IF node[k.to] = 0 THEN Append(data, {}) ELSE [data EXCEPT ![n] = {}]
      BY <1>6, <2>12 DEF R!Truncate, R!Unconditional, R!At, R!Target, R!None
    <3>2. Cares => from = k.was /\ k.hand = k.was /\ node[k.path] # 0
      BY <1>4, <1>6, <3>1 DEF Moving, from, HeldIn
    <3>3. Cares => node'[k.path] = node[k.path] /\ n # node[k.path]
      BY <1>3, <2>2, <2>7, <3>1, <3>2 DEF Types, Undisturbed
    <3>4. node'[k.to] = n BY <1>3, <3>1 DEF Types
    <3> HIDE DEF n
    <3>5. Cares => data'[node[k.path]] = data[node[k.path]]
      BY <2>2, <3>1, <3>2, <3>3 DEF Types
    <3>6. Cares => From = k.was BY <3>2, <3>3, <3>5 DEF From, from, HeldIn
    <3>7. Asks(k, i) /\ i.pc = "filling" /\ i.ino = n /\ i.hand = k.hand BY <1>3 DEF Job, Asks
    <3>8. j = i BY <1>2, <3>1, ActorGoes
    <3> HIDE DEF i
    <3> QED BY <2>6, <3>1, <3>2, <3>4, <3>6, <3>7, <3>8 DEF Moving, Asks, Undisturbed, From, There
  <2>13. CASE R!Fill(c)
    <3> DEFINE i == [k EXCEPT !.pc = "noting", !.ino = R!None]
    <3>1. /\ R!Goes(c, i) /\ k.pc = "filling" /\ data' = [data EXCEPT ![k.ino] = k.hand]
          /\ node' = node
      BY <2>13 DEF R!Fill, R!At
    <3>2. k.ino \in DOMAIN data BY <3>1 DEF Opened, Types
    <3>3. Cares => k.ino = node[k.to] /\ k.hand = k.was BY <1>4, <1>6, <3>1 DEF Moving
    <3>4. Cares => There = k.was BY <2>2, <3>1, <3>2, <3>3 DEF There, HeldIn, Types
    <3>5. Asks(k, i) /\ i.pc = "noting" BY <1>3 DEF Job, Asks
    <3>6. j = i BY <1>2, <3>1, ActorGoes
    <3> HIDE DEF i
    <3> QED BY <2>6, <3>1, <3>4, <3>5, <3>6 DEF Moving, Asks, Undisturbed, From, There
  <2>14. CASE R!Note(c)
    <3>1. k.pc = "noting" /\ UNCHANGED <<node, data>> /\ R!To(c, "removing")
      BY <1>6, <2>14 DEF R!Note, R!After, R!At
    <3>2. Cares => There = k.was BY <1>4, <1>6, <2>3, <3>1 DEF Moving, there
    <3>3. Asks(k, j) /\ j.pc = "removing" BY <2>5, <3>1
    <3> QED BY <2>6, <3>1, <3>2, <3>3 DEF Moving, Asks, Undisturbed, From, There
  <2>15. CASE R!Carried(c)
    <3> DEFINE pc == IF k.op = "move" /\ R!Moves THEN "moving" ELSE "copying"
               i == [k EXCEPT !.pc = pc, !.carried = sidecars[k.path]]
    <3>1. R!Goes(c, i) /\ k.pc = "start" /\ UNCHANGED <<node, data>>
      BY <2>15 DEF R!Carried, R!At, R!Keep, R!disk
    <3>2. Cares => From = k.was BY <1>4, <1>6, <2>3, <3>1 DEF Moving, from
    <3>3. Asks(k, i) /\ i.pc = pc BY <1>3 DEF Job, Asks
    <3>4. j = i BY <1>2, <3>1, ActorGoes
    <3> HIDE DEF i
    <3> QED BY <2>6, <3>1, <3>2, <3>3, <3>4 DEF Moving, Asks, Undisturbed, From, There
  <2>16. CASE R!MoveBytes(c)
    <3>1. /\ k.pc = "moving" /\ node[k.path] # 0 /\ data' = data /\ R!To(c, "carrying")
          /\ k.to # k.path => node' = [node EXCEPT ![k.to] = node[k.path], ![k.path] = 0]
      BY <2>16 DEF R!MoveBytes, R!At, R!None
    <3>2. Cares => from = k.was BY <1>4, <1>6, <3>1 DEF Moving, from
    <3>3. Cares => node'[k.to] = node[k.path] /\ node'[k.path] = 0
      BY <1>3, <3>1 DEF Types, Undisturbed
    <3>4. Cares => There = k.was BY <3>1, <3>2, <3>3 DEF There, from, HeldIn
    <3>5. Asks(k, j) /\ j.pc = "carrying" BY <2>5, <3>1
    <3> QED BY <2>6, <3>1, <3>3, <3>4, <3>5 DEF Moving, Asks, Undisturbed, From, There
  <2>17. CASE R!CopyObject(c)
    <3>1. /\ k.pc = "copying" /\ backend = "s3" /\ data' = Append(data, R!Held(k.path))
          /\ node' = [node EXCEPT ![k.to] = Len(data')] /\ R!To(c, "carrying")
      BY <2>17 DEF R!CopyObject, R!At
    <3>2. Cares => from = k.was BY <1>4, <1>6, <3>1 DEF Moving, from
    <3>3. R!Held(k.path) = from BY HeldIs DEF from
    <3>4. R!Held(k.path) \in SUBSET Val BY <1>3, HeldType
    <3>5. Len(data') = Len(data) + 1 /\ data'[Len(data) + 1] = from
      BY <3>1, <3>3, <3>4, DataAppend
    <3>6. node'[k.to] = Len(data) + 1 BY <1>3, <3>1, <3>5 DEF Types
    <3>7. Cares => There = k.was BY <2>2, <3>2, <3>5, <3>6 DEF There, HeldIn
    <3>8. Asks(k, j) /\ j.pc = "carrying" BY <2>5, <3>1
    <3> QED BY <1>2, <2>6, <3>1, <3>7, <3>8 DEF Moving, Asks, Undisturbed, From, There
  <2>18. CASE R!Carry(c)
    <3>1. /\ k.pc = "carrying" /\ UNCHANGED <<node, data>>
          /\ \/ backend = "disk" /\ R!Return(c, "ok")
             \/ R!To(c, "removing")
      BY <1>6, <2>18 DEF R!Carry, R!After, R!At, R!Moves
    <3>2. Cares => There = k.was /\ (backend = "disk" => node'[k.path] = 0)
      BY <1>4, <1>6, <2>3, <3>1 DEF Moving, there
    <3>3. CASE backend = "disk" /\ R!Return(c, "ok") BY <2>4, <3>2, <3>3
    <3>4. CASE R!To(c, "removing")
      <4>1. Asks(k, j) /\ j.pc = "removing" BY <2>5, <3>4
      <4> QED BY <2>6, <3>1, <3>2, <4>1 DEF Moving, Asks, Undisturbed, From, There
    <3> QED BY <3>1, <3>3, <3>4
  <2>19. CASE R!Remove(c)
    <3>1. /\ k.pc = "removing" /\ data' = data /\ node' = [node EXCEPT ![k.path] = 0]
          /\ R!Return(c, "ok")
      BY <2>19 DEF R!Remove, R!Unlinked, R!At, R!None
    <3>2. Cares => there = k.was BY <1>4, <1>6, <3>1 DEF Moving, there
    <3>3. Cares => node'[k.to] = node[k.to] /\ node'[k.path] = 0
      BY <1>3, <3>1 DEF Types, Undisturbed
    <3>4. Cares => There = k.was BY <3>1, <3>2, <3>3 DEF There, there, HeldIn
    <3> QED BY <2>4, <3>1, <3>3, <3>4
  <2> QED BY <2>8, <2>9, <2>10, <2>11, <2>12, <2>13, <2>14, <2>15, <2>16, <2>17, <2>18, <2>19
          DEF Goings, R!WriteStep, R!MoveStep
<1> QED BY <1>5, <1>6

\* Nobody else's step disturbs a call that stays quiet.
LEMMA OthersMoving ==
    ASSUME Types, Paths # {}, Opened, AllMoving,
           NEW c \in Clients, NEW d \in Clients, d # c, Goings(c)
    PROVE  Moving(job'[d], backend', node', data')
<1>1. PICK j : R!Goes(c, j) BY TurnStep
<1>2. backend' = backend BY <1>1, ActorGoes
<1>3. CASE job'[d] = R!NoJob BY <1>3 DEF R!NoJob, Moving
<1>4. CASE /\ Kept(job[d], job'[d])
           /\ job'[d].quiet => job[d].quiet /\ ~R!Changed
           /\ job'[d].mixed =>
                job[d].mixed \/ (job[d].ino # 0 /\ data'[job[d].ino] # data[job[d].ino])
  <2>1. CASE ~job'[d].quiet BY <2>1 DEF Moving, Undisturbed
  <2>2. CASE job'[d].quiet
    <3>1. UNCHANGED <<node, data>> /\ job[d].quiet /\ (job'[d].mixed => job[d].mixed)
      BY <1>4, <2>2 DEF R!Changed
    <3>2. Moving(job[d], backend, node, data) BY DEF AllMoving
    <3> QED BY <1>2, <1>4, <3>1, <3>2 DEF Moving, Undisturbed, Kept
  <2> QED BY <2>1, <2>2
<1> QED BY <1>1, <1>3, <1>4, Onlooker

\* Every step keeps the content of a quiet move at one of its paths.
LEMMA MovingStep ==
    /\ Types /\ Paths # {} /\ Opened /\ AllSound /\ Apart /\ AllMoving
    /\ R!Next
    => AllMoving'
<1> SUFFICES ASSUME Types, Paths # {}, Opened, AllSound, Apart, AllMoving, NEW c \in Clients,
                    R!Begin(c) \/ Goings(c), NEW d \in Clients
             PROVE  Moving(job'[d], backend', node', data')
  BY DEF R!Next, Goings, AllMoving
<1>1. CASE R!Begin(c)
  <2>1. PICK op \in R!Ops, p \in Paths, q \in Paths, mode \in {"any", "strict", "match"},
             stream \in BOOLEAN :
          job' = [job EXCEPT ![c] = R!Asked(op, p, q, mode, stream)]
    BY <1>1 DEF R!Begin
  <2> DEFINE j == R!Asked(op, p, q, mode, stream)
  <2>2. calls < MaxCalls /\ UNCHANGED <<backend, node, data>> BY <1>1 DEF R!Begin, R!disk
  <2>3. j.pc = "start" /\ j.path = p /\ j.was = R!Held(p) /\ ~j.mixed /\ j.result = "none"
    BY <2>2, AskedType
  <2>4. R!Held(p) = HeldIn(node, data, p) BY HeldIs
  <2> HIDE DEF j
  <2>5. CASE d = c
    <3>1. job'[d] = j BY <2>1, <2>5 DEF Types, j
    <3> QED BY <2>2, <2>3, <2>4, <3>1 DEF Moving
  <2>6. CASE d # c
    <3>1. job'[d] = job[d] BY <2>1, <2>6 DEF Types
    <3> QED BY <2>2, <3>1 DEF AllMoving
  <2> QED BY <2>5, <2>6
<1>2. CASE Goings(c)
  <2>1. CASE d = c BY <1>2, <2>1, ActorMoving
  <2>2. CASE d # c BY <1>2, <2>2, OthersMoving
  <2> QED BY <2>1, <2>2
<1> QED BY <1>1, <1>2

-----------------------------------------------------------------------------
(* The metadata of what is copied or moved is in the caller's hand, then at  *)
(* the other path.                                                           *)

Carrying(k, b, md) ==
    Transfer(k) /\ Undisturbed(k) /\ k.wasMd # 0 =>
        /\ b # "os"
        /\ k.pc = "start" => md[k.path] = k.wasMd
        /\ k.pc \in {"moving", "copying", "pouring", "carrying"} => k.carried = k.wasMd
        /\ k.pc = "removing" => md[k.to] = k.wasMd
        /\ k.result = "ok" => md[k.to] = k.wasMd

AllCarrying == \A c \in Clients : Carrying(job[c], backend, sidecars)

LEMMA ReturnedCarrying ==
    ASSUME NEW k, NEW b, NEW r, NEW md,
           Transfer(k) /\ Undisturbed(k) /\ k.wasMd # 0 =>
             b # "os" /\ (r = "ok" => md[k.to] = k.wasMd)
    PROVE  Carrying(R!Returned(k, r), b, md)
<1> DEFINE j == R!Returned(k, r)
<1>1. CASE k.op \notin {"copy", "move"}
  <2>1. j.op \notin {"copy", "move"} BY <1>1 DEF R!Returned, R!NoJob
  <2> QED BY <2>1 DEF Carrying, Transfer
<1>2. CASE k.op \in {"copy", "move"}
  <2>1. /\ j.pc = "idle" /\ j.op = k.op /\ j.path = k.path /\ j.to = k.to /\ j.quiet = k.quiet
        /\ j.wasMd = k.wasMd /\ j.result = r
    BY <1>2 DEF R!Returned, R!NoJob
  <2> HIDE DEF j
  <2> QED BY <1>2, <2>1 DEF Carrying, Transfer, Undisturbed, j
<1> QED BY <1>1, <1>2

LEMMA ActorCarrying ==
    ASSUME Types, Paths # {}, Opened, AllSound, AllCarrying, NEW c \in Clients, Goings(c)
    PROVE  Carrying(job'[c], backend', sidecars')
<1> DEFINE k == job[c]
<1>1. PICK j : R!Goes(c, j) /\ Turn(k, j) BY TurnStep
<1>2. job'[c] = j /\ backend' = backend BY <1>1, ActorGoes
<1>3. k \in Job /\ Sound(k, backend) /\ k.path \in Paths /\ k.to \in Paths
  BY JobOf DEF AllSound, Job
<1>4. Carrying(k, backend, sidecars) BY DEF AllCarrying
<1>5. CASE ~Transfer(k) BY <1>1, <1>2, <1>5 DEF Turn, Carrying, Transfer
<1>6. CASE Transfer(k)
  <2> SUFFICES Carrying(j, backend', sidecars') BY <1>2
  <2> DEFINE Cares == Undisturbed(k) /\ k.wasMd # 0
  <2>1. Cares => backend # "os" BY <1>4, <1>6 DEF Carrying
  <2>2. ASSUME NEW r, R!Return(c, r), Cares => (r = "ok" => sidecars'[k.to] = k.wasMd)
        PROVE  Carrying(j, backend', sidecars')
    <3>1. j = R!Returned(k, r) BY <1>2, <2>2, ActorGoes DEF R!Return
    <3> QED BY <1>2, <2>1, <2>2, <3>1, ReturnedCarrying
  <2>3. ASSUME NEW pc, R!To(c, pc)
        PROVE  Asks(k, j) /\ j.pc = pc /\ j.carried = k.carried
    <3>1. j = [k EXCEPT !.pc = pc] BY <1>2, <2>3, ActorGoes DEF R!To
    <3> QED BY <1>3, <3>1, AsksTo
  <2>4. k.pc # "idle" /\ k.result = "none" BY <1>3, GoingsBusy DEF Sound
  <2>5. /\ ~R!Merge(c) /\ ~R!Create(c) /\ ~R!Refused(c) /\ ~R!Encode(c) /\ ~R!Close(c) /\ ~R!Lock(c)
        /\ ~R!Check(c) /\ ~R!Rename(c) /\ ~R!PutObject(c) /\ ~R!Delete(c)
    BY <1>3, <1>6
    DEF R!Merge, R!Create, R!Refused, R!Unconditional, R!Encode, R!Close, R!Lock, R!Check, R!Rename,
        R!PutObject, R!Delete, R!At, R!Conditional, Sound, Fits, Writes, Moved, Transfer
  <2>6. CASE R!Open(c) \/ R!Read(c) \/ R!Truncate(c) \/ R!Fill(c) \/ R!Note(c)
    <3>1. backend = "os"
      <4>1. CASE R!Open(c)
        <5>1. ~R!Copies BY <1>6, <4>1 DEF R!Open, Transfer
        <5> QED BY <5>1 DEF R!Copies, Types
      <4>2. CASE ~R!Open(c)
        <5>1. k.pc \in {"reading", "writing", "filling", "noting"}
          BY <2>6, <4>2 DEF R!Read, R!Truncate, R!Unconditional, R!Fill, R!Note, R!At
        <5> QED BY <1>3, <1>6, <5>1 DEF Sound, Fits, Writes, Moved, Transfer
      <4> QED BY <4>1, <4>2
    <3>2. ~Cares BY <2>1, <3>1
    <3>3. ASSUME NEW i, R!Goes(c, i), Asks(k, i) PROVE Carrying(j, backend', sidecars')
      <4>1. j = i BY <1>2, <3>3, ActorGoes
      <4> QED BY <3>2, <3>3, <4>1 DEF Carrying, Asks, Undisturbed
    <3>4. ASSUME NEW r, R!Return(c, r) PROVE Carrying(j, backend', sidecars')
      BY <2>2, <3>2, <3>4
    <3>5. ASSUME NEW pc, R!To(c, pc) PROVE Carrying(j, backend', sidecars')
      BY <2>3, <3>2, <3>5 DEF Carrying, Asks, Undisturbed
    <3>6. CASE R!Open(c)
      <4> DEFINE i == [k EXCEPT !.pc = "reading", !.ino = node[k.path]]
      <4>1. R!Return(c, "notFound") \/ R!Goes(c, i) BY <3>6 DEF R!Open
      <4>2. Asks(k, i) BY <1>3 DEF Job, Asks
      <4> HIDE DEF i
      <4> QED BY <3>3, <3>4, <4>1, <4>2
    <3>7. CASE R!Read(c)
      <4>1. PICK seen \in R!Contents(k) :
              LET i == [k EXCEPT !.hand = seen, !.ino = R!None, !.mixed = FALSE] IN
              IF i.op = "read" THEN R!Return(c, "ok")
              ELSE R!Goes(c, [i EXCEPT !.pc = IF i.op = "patch" THEN "merging" ELSE "writing"])
        BY <3>7 DEF R!Read
      <4> DEFINE i == [k EXCEPT !.hand = seen, !.ino = R!None, !.mixed = FALSE]
                 e == [i EXCEPT !.pc = IF i.op = "patch" THEN "merging" ELSE "writing"]
      <4>2. R!Return(c, "ok") \/ R!Goes(c, e) BY <4>1
      <4>3. Asks(k, e) BY <1>3 DEF Job, Asks
      <4> HIDE DEF i, e
      <4> QED BY <3>3, <3>4, <4>2, <4>3
    <3>8. CASE R!Truncate(c)
      <4> DEFINE n == IF node[R!Target(k)] = R!None THEN Len(data) + 1 ELSE node[R!Target(k)]
                 i == [k EXCEPT !.pc = "filling", !.ino = n]
      <4>1. R!Goes(c, i) BY <3>8 DEF R!Truncate
      <4> HIDE DEF n
      <4>2. Asks(k, i) BY <1>3 DEF Job, Asks
      <4> HIDE DEF i
      <4> QED BY <3>3, <4>1, <4>2
    <3>9. CASE R!Fill(c)
      <4> DEFINE i == [k EXCEPT !.pc = "noting", !.ino = R!None]
      <4>1. R!Goes(c, i) BY <3>9 DEF R!Fill
      <4>2. Asks(k, i) BY <1>3 DEF Job, Asks
      <4> HIDE DEF i
      <4> QED BY <3>3, <4>1, <4>2
    <3>10. CASE R!Note(c) BY <3>4, <3>5, <3>10 DEF R!Note, R!After
    <3> QED BY <2>6, <3>6, <3>7, <3>8, <3>9, <3>10
  <2>7. CASE R!Refuse(c) \/ R!Fail(c) \/ R!Missing(c)
    BY <2>2, <2>7 DEF R!Refuse, R!Fail, R!Missing
  <2>8. CASE R!Carried(c)
    <3> DEFINE pc == IF k.op = "move" /\ R!Moves THEN "moving" ELSE "copying"
               i == [k EXCEPT !.pc = pc, !.carried = sidecars[k.path]]
    <3>1. R!Goes(c, i) /\ k.pc = "start" BY <2>8 DEF R!Carried, R!At
    <3>2. Cares => sidecars[k.path] = k.wasMd BY <1>4, <1>6, <3>1 DEF Carrying
    <3>3. Asks(k, i) /\ i.pc \in {"moving", "copying"} /\ i.carried = sidecars[k.path]
      BY <1>3 DEF Job, Asks
    <3>4. j = i BY <1>2, <3>1, ActorGoes
    <3> HIDE DEF i
    <3> QED BY <1>2, <2>1, <2>4, <3>2, <3>3, <3>4 DEF Carrying, Asks, Undisturbed
  <2>9. CASE R!MoveBytes(c) \/ R!CopyObject(c)
    <3>1. k.pc \in {"moving", "copying"} /\ R!To(c, "carrying")
      BY <2>9 DEF R!MoveBytes, R!CopyObject, R!At
    <3>2. Cares => k.carried = k.wasMd BY <1>4, <1>6, <3>1 DEF Carrying
    <3>3. Asks(k, j) /\ j.pc = "carrying" /\ j.carried = k.carried BY <2>3, <3>1
    <3> QED BY <1>2, <2>1, <2>4, <3>2, <3>3 DEF Carrying, Asks, Undisturbed
  <2>10. CASE R!CopyOpen(c)
    <3> DEFINE n == IF node[k.to] = R!None THEN Len(data) + 1 ELSE node[k.to]
               i == [k EXCEPT !.pc = "pouring", !.ino = node[k.path], !.out = n]
    <3>1. R!Goes(c, i) /\ k.pc = "copying" BY <2>10 DEF R!CopyOpen, R!At
    <3> HIDE DEF n
    <3>2. Cares => k.carried = k.wasMd BY <1>4, <1>6, <3>1 DEF Carrying
    <3>3. Asks(k, i) /\ i.pc = "pouring" /\ i.carried = k.carried BY <1>3 DEF Job, Asks
    <3>4. j = i BY <1>2, <3>1, ActorGoes
    <3> HIDE DEF i
    <3> QED BY <1>2, <2>1, <2>4, <3>2, <3>3, <3>4 DEF Carrying, Asks, Undisturbed
  <2>11. CASE R!CopyPour(c)
    <3> DEFINE i == [k EXCEPT !.pc = "carrying", !.ino = R!None, !.mixed = FALSE]
    <3>1. R!Goes(c, i) /\ k.pc = "pouring" BY <2>11 DEF R!CopyPour, R!At
    <3>2. Cares => k.carried = k.wasMd BY <1>4, <1>6, <3>1 DEF Carrying
    <3>3. Asks(k, i) /\ i.pc = "carrying" /\ i.carried = k.carried BY <1>3 DEF Job, Asks
    <3>4. j = i BY <1>2, <3>1, ActorGoes
    <3> HIDE DEF i
    <3> QED BY <1>2, <2>1, <2>4, <3>2, <3>3, <3>4 DEF Carrying, Asks, Undisturbed
  <2>12. CASE R!Carry(c)
    <3>1. /\ k.pc = "carrying"
          /\ sidecars' = IF k.carried = 0 THEN sidecars ELSE [sidecars EXCEPT ![k.to] = k.carried]
          /\ R!To(c, "removing") \/ \E r \in Results : R!Return(c, r)
      BY <2>12 DEF R!Carry, R!After, R!At, R!None, Results
    <3>2. Cares => k.carried = k.wasMd BY <1>4, <1>6, <3>1 DEF Carrying
    <3>3. Cares => sidecars'[k.to] = k.wasMd BY <1>3, <3>1, <3>2 DEF Types
    <3>4. CASE R!To(c, "removing")
      <4>1. Asks(k, j) /\ j.pc = "removing" BY <2>3, <3>4
      <4> QED BY <1>2, <2>1, <2>4, <3>3, <4>1 DEF Carrying, Asks, Undisturbed
    <3>5. CASE \E r \in Results : R!Return(c, r) BY <2>2, <3>3, <3>5
    <3> QED BY <3>1, <3>4, <3>5
  <2>13. CASE R!Remove(c)
    <3>1. /\ k.pc = "removing" /\ R!Return(c, "ok")
          /\ sidecars' = IF backend = "s3" THEN [sidecars EXCEPT ![k.path] = 0] ELSE sidecars
      BY <2>13 DEF R!Remove, R!Unlinked, R!At, R!None
    <3>2. Cares => sidecars[k.to] = k.wasMd BY <1>4, <1>6, <3>1 DEF Carrying
    <3>3. Cares => sidecars'[k.to] = k.wasMd BY <1>3, <3>1, <3>2 DEF Types, Undisturbed
    <3> QED BY <2>2, <3>1, <3>3
  <2> QED BY <2>5, <2>6, <2>7, <2>8, <2>9, <2>10, <2>11, <2>12, <2>13
          DEF Goings, R!WriteStep, R!MoveStep
<1> QED BY <1>5, <1>6

LEMMA OthersCarrying ==
    ASSUME Types, Paths # {}, Opened, AllCarrying,
           NEW c \in Clients, NEW d \in Clients, d # c, Goings(c)
    PROVE  Carrying(job'[d], backend', sidecars')
<1>1. PICK j : R!Goes(c, j) BY TurnStep
<1>2. backend' = backend BY <1>1, ActorGoes
<1>3. CASE job'[d] = R!NoJob BY <1>3 DEF R!NoJob, Carrying, Transfer
<1>4. CASE /\ Kept(job[d], job'[d])
           /\ job'[d].quiet => job[d].quiet /\ ~R!Changed
  <2>1. CASE ~job'[d].quiet BY <2>1 DEF Carrying, Undisturbed
  <2>2. CASE job'[d].quiet
    <3>1. UNCHANGED sidecars /\ job[d].quiet BY <1>4, <2>2 DEF R!Changed
    <3>2. Carrying(job[d], backend, sidecars) BY DEF AllCarrying
    <3> QED BY <1>2, <1>4, <3>1, <3>2 DEF Carrying, Transfer, Undisturbed, Kept
  <2> QED BY <2>1, <2>2
<1> QED BY <1>1, <1>3, <1>4, Onlooker

\* Every step keeps the metadata of a quiet copy or move with it.
LEMMA CarryingStep ==
    /\ Types /\ Paths # {} /\ Opened /\ AllSound /\ Bare /\ AllCarrying
    /\ R!Next
    => AllCarrying'
<1> SUFFICES ASSUME Types, Paths # {}, Opened, AllSound, Bare, AllCarrying, NEW c \in Clients,
                    R!Begin(c) \/ Goings(c), NEW d \in Clients
             PROVE  Carrying(job'[d], backend', sidecars')
  BY DEF R!Next, Goings, AllCarrying
<1>1. CASE R!Begin(c)
  <2>1. PICK op \in R!Ops, p \in Paths, q \in Paths, mode \in {"any", "strict", "match"},
             stream \in BOOLEAN :
          job' = [job EXCEPT ![c] = R!Asked(op, p, q, mode, stream)]
    BY <1>1 DEF R!Begin
  <2> DEFINE j == R!Asked(op, p, q, mode, stream)
  <2>2. calls < MaxCalls /\ UNCHANGED <<backend, sidecars>> BY <1>1 DEF R!Begin, R!disk
  <2>3. j.pc = "start" /\ j.path = p /\ j.wasMd = sidecars[p] /\ j.result = "none"
    BY <2>2, AskedType
  <2> HIDE DEF j
  <2>4. CASE d = c
    <3>1. job'[d] = j BY <2>1, <2>4 DEF Types, j
    <3> QED BY <2>2, <2>3, <3>1 DEF Carrying, Bare
  <2>5. CASE d # c
    <3>1. job'[d] = job[d] BY <2>1, <2>5 DEF Types
    <3> QED BY <2>2, <3>1 DEF AllCarrying
  <2> QED BY <2>4, <2>5
<1>2. CASE Goings(c)
  <2>1. CASE d = c BY <1>2, <2>1, ActorCarrying
  <2>2. CASE d # c BY <1>2, <2>2, OthersCarrying
  <2> QED BY <2>1, <2>2
<1> QED BY <1>1, <1>2

-----------------------------------------------------------------------------
(* The files there are at first.                                             *)

\* The paths of the first files can be numbered.
LEMMA OrderExists ==
    ASSUME NEW S \in SUBSET Paths
    PROVE  LET order == CHOOSE s \in [1 .. Cardinality(S) -> S] : {s[i] : i \in DOMAIN s} = S IN
           /\ Cardinality(S) \in Nat /\ order \in [1 .. Cardinality(S) -> S]
           /\ {order[i] : i \in DOMAIN order} = S
<1> DEFINE n == Cardinality(S)
           Lists(s) == s \in [1 .. n -> S] /\ {s[i] : i \in DOMAIN s} = S
<1>1. IsFiniteSet(S) BY RoutesAssumption, FS_Subset
<1>2. n \in Nat /\ ExistsBijection(1 .. n, S) BY <1>1, FS_CardinalityType
<1> HIDE DEF n
<1>3. PICK s : s \in [1 .. n -> S] /\ \A t \in S : \E i \in 1 .. n : s[i] = t
  BY <1>2 DEF ExistsBijection, Bijection, Surjection
<1>4. {s[i] : i \in DOMAIN s} = S BY <1>3
<1>5. Lists(s) BY <1>3, <1>4
<1>6. (CHOOSE r \in [1 .. n -> S] : {r[i] : i \in DOMAIN r} = S) = CHOOSE r : Lists(r) OBVIOUS
<1> HIDE DEF Lists
<1>7. Lists(CHOOSE r : Lists(r)) BY <1>5, Zenon
<1> QED BY <1>2, <1>6, <1>7 DEF Lists, n

LEMMA FilesAtFirst ==
    ASSUME R!Init
    PROVE  /\ Paths # {} /\ data \in Seq(SUBSET Val) /\ node \in [Paths -> Nat]
           /\ \A i \in DOMAIN data : \E p \in Paths : data[i] = {p}
           /\ \A p \in Paths : node[p] = 0 \/ (node[p] \in DOMAIN data /\ data[node[p]] = {p})
<1>1. PICK there \in (SUBSET Paths) \ {{}} :
        /\ data = LET order == CHOOSE s \in [1 .. R!Cardinality(there) -> there] :
                                   {s[i] : i \in DOMAIN s} = there
                  IN  [i \in DOMAIN order |-> {order[i]}]
        /\ node = [p \in Paths |-> IF p \in there
                                   THEN CHOOSE i \in DOMAIN data : data[i] = {p}
                                   ELSE 0]
  BY DEF R!Init, R!None
<1>2. R!Cardinality(there) = Cardinality(there) BY DEF R!Cardinality, Cardinality
<1> DEFINE n == Cardinality(there)
           order == CHOOSE s \in [1 .. n -> there] : {s[i] : i \in DOMAIN s} = there
<1>3. n \in Nat /\ order \in [1 .. n -> there] /\ {order[i] : i \in DOMAIN order} = there
  BY OrderExists
<1>4. data = [i \in DOMAIN order |-> {order[i]}] BY <1>1, <1>2
<1> HIDE DEF order, n
<1>5. data = [i \in 1 .. n |-> {order[i]}] /\ DOMAIN data = 1 .. n BY <1>3, <1>4
<1>6. data \in [1 .. n -> SUBSET Val] BY <1>3, <1>5 DEF Val
<1>7. data \in Seq(SUBSET Val) BY <1>3, <1>6
<1>8. \A i \in DOMAIN data : \E p \in Paths : data[i] = {p} BY <1>3, <1>5
<1>9. ASSUME NEW p \in there PROVE \E i \in DOMAIN data : data[i] = {p}
  <2>1. \E i \in 1 .. n : order[i] = p BY <1>3
  <2> QED BY <1>5, <2>1
<1>10. ASSUME NEW p \in Paths
       PROVE  node[p] = 0 \/ (node[p] \in DOMAIN data /\ data[node[p]] = {p})
  <2> DEFINE Is(i) == i \in DOMAIN data /\ data[i] = {p}
  <2>1. CASE p \notin there BY <1>1, <2>1
  <2>2. CASE p \in there
    <3>1. node[p] = CHOOSE i : Is(i) BY <1>1, <2>2
    <3>2. \E i : Is(i) BY <1>9, <2>2
    <3> HIDE DEF Is
    <3>3. Is(CHOOSE i : Is(i)) BY <3>2, Zenon
    <3> QED BY <3>1, <3>3 DEF Is
  <2> QED BY <2>1, <2>2
<1>11. node = [p \in Paths |-> node[p]] BY <1>1
<1>12. \A p \in Paths : node[p] \in Nat BY <1>3, <1>5, <1>10
<1>13. node \in [Paths -> Nat] BY <1>11, <1>12
<1> QED BY <1>7, <1>8, <1>10, <1>13

\* The state of the file routes whenever one of their backends is there.
Intact ==
    /\ backend \in Backends /\ Paths # {}
    /\ Types /\ Opened /\ AllSound /\ Bounds /\ Tags
    /\ Apart /\ Whole /\ First /\ Bare /\ Owned /\ Seen
    /\ AllMoving /\ AllCarrying

\* The files there are at first are intact.
LEMMA IntactInit == R!Init => Intact
<1> SUFFICES ASSUME R!Init PROVE Intact
  OBVIOUS
<1>1. /\ Paths # {} /\ data \in Seq(SUBSET Val) /\ node \in [Paths -> Nat]
      /\ \A i \in DOMAIN data : \E p \in Paths : data[i] = {p}
      /\ \A p \in Paths : node[p] = 0 \/ (node[p] \in DOMAIN data /\ data[node[p]] = {p})
  BY FilesAtFirst
<1>2. /\ backend \in Backends /\ locks = [p \in Paths |-> 0] /\ calls = 0
      /\ job = [c \in Clients |-> R!NoJob] /\ inPlace = {} /\ cut = {}
      /\ firsts = [p \in Paths |-> {}]
      /\ \E stored \in {{}, Paths} :
           /\ backend = "os" => stored = {}
           /\ sidecars = [p \in Paths |-> IF p \in stored THEN p ELSE 0]
  BY DEF R!Init, R!None
<1>3. R!NoJob \in Job /\ R!NoJob.ino = 0 /\ R!NoJob.out = 0 BY <1>1, NoJobType
<1>4. /\ R!NoJob.hand = {} /\ R!NoJob.etag = {} /\ R!NoJob.tag = 0 /\ R!NoJob.pc = "idle"
      /\ R!NoJob.op = "none"
  BY DEF R!NoJob, R!None
<1>5. \A c \in Clients : job[c] = R!NoJob BY <1>2
<1>6. Len(data) \in Nat /\ DOMAIN data = 1 .. Len(data) BY <1>1
<1>7. Types
  <2>1. \A p \in Paths : node[p] <= Len(data) BY <1>1, <1>6
  <2>2. sidecars \in [Paths -> Marks] BY <1>2, RoutesAssumption DEF Marks
  <2>3. job \in [Clients -> Job] BY <1>2, <1>3
  <2>4. \A c \in Clients : job[c].ino <= Len(data) /\ job[c].out <= Len(data)
    BY <1>3, <1>5, <1>6
  <2>5. locks \in [Paths -> Clients \cup {0}] /\ firsts \in [Paths -> SUBSET Nat] BY <1>2
  <2> QED BY <1>1, <1>2, <2>1, <2>2, <2>3, <2>4, <2>5, RoutesAssumption DEF Types
<1>8. Opened BY <1>4, <1>5 DEF Opened
<1>9. AllSound BY <1>5, SoundNoJob DEF AllSound
<1>10. Bounds BY <1>1, <1>2, <1>4, <1>5 DEF Bounds, Known
<1>11. Tags BY <1>4, <1>5 DEF Tags, Pre
<1>12. Apart
  <2>1. ASSUME NEW p \in Paths, NEW q \in Paths, node[p] = node[q], node[p] # 0 PROVE p = q
    <3>1. data[node[p]] = {p} /\ data[node[q]] = {q} BY <1>1, <2>1
    <3>2. {p} = {q} BY <2>1, <3>1
    <3> QED BY <3>2
  <2> QED BY <2>1 DEF Apart
<1>13. Whole
  <2>1. \A i \in DOMAIN data : data[i] # {} BY <1>1
  <2> QED BY <1>2, <2>1 DEF Whole
<1>14. First BY <1>2 DEF First
<1>15. Bare BY <1>2 DEF Bare
<1>16. Owned BY <1>4, <1>5 DEF Owned, Locked
<1>17. Seen BY <1>4, <1>5 DEF Seen, Seeing
<1>18. AllMoving BY <1>4, <1>5 DEF AllMoving, Moving
<1>19. AllCarrying BY <1>4, <1>5 DEF AllCarrying, Carrying, Transfer
<1> QED BY <1>1, <1>2, <1>7, <1>8, <1>9, <1>10, <1>11, <1>12, <1>13, <1>14, <1>15, <1>16, <1>17,
           <1>18, <1>19 DEF Intact

\* Every step keeps the files intact.
LEMMA IntactStep == Intact /\ R!Next => Intact'
<1> SUFFICES ASSUME Intact, R!Next PROVE Intact'
  OBVIOUS
<1> USE DEF Intact
<1>1. Types' BY TypesStep
<1>2. Opened' BY <1>1, OpenedStep
<1>3. AllSound' BY SoundStep
<1>4. Bounds' BY BoundsStep
<1>5. Tags' BY TagsStep
<1>6. Apart' /\ Whole' /\ First' /\ Bare' BY ApartStep, WholeStep, FirstStep, BareStep
<1>7. Owned' /\ Seen' BY OwnedStep, SeenStep
<1>8. AllMoving' /\ AllCarrying' BY MovingStep, CarryingStep
<1>9. backend' = backend BY NextCases
<1> QED BY <1>1, <1>2, <1>3, <1>4, <1>5, <1>6, <1>7, <1>8, <1>9

\* The conditional writers leave the file routes alone.
LEMMA IntactStutter == Intact /\ UNCHANGED routeVars => Intact'
BY DEF Intact, routeVars, Types, Opened, AllSound, Bounds, Tags, Apart, Whole, First, Bare, Owned,
       Seen, AllMoving, AllCarrying

\* Intact files are as FilesIntact says.
LEMMA IntactHas == Intact => R!FilesIntact
<1> SUFFICES ASSUME Intact PROVE R!FilesIntact
  OBVIOUS
<1> USE DEF Intact
<1>1. R!TypeOK
  <2>1. \A c \in Clients : job[c].ino \in 0 .. Len(data) /\ job[c].op \in R!Ops \cup {"none"}
    BY JobOf DEF Job
  <2>2. Len(data) \in Nat BY DEF Types
  <2>3. node \in [Paths -> 0 .. Len(data)] BY <2>2 DEF Types
  <2>4. \A i \in DOMAIN data : data[i] \subseteq Paths \cup 1 .. calls BY DEF Bounds, Known
  <2> QED BY <2>1, <2>3, <2>4 DEF R!TypeOK, Types, Marks, R!None
<1>2. R!MovesKeep
  <2> SUFFICES ASSUME NEW c \in Clients, job[c].op = "move", job[c].quiet,
                      job[c].to # job[c].path, job[c].was # {}
               PROVE  /\ job[c].was \in {R!Held(job[c].path), R!Held(job[c].to)}
                      /\ job[c].result = "ok" =>
                           R!Held(job[c].to) = job[c].was /\ node[job[c].path] = 0
    BY DEF R!MovesKeep, R!None
  <2>1. job[c] \in Job /\ Sound(job[c], backend) BY JobOf DEF AllSound
  <2>2. Moving(job[c], backend, node, data) BY DEF AllMoving
  <2>3. job[c].was \in {HeldIn(node, data, job[c].path), HeldIn(node, data, job[c].to)}
    BY <2>1, <2>2, MovingHas DEF Undisturbed
  <2>4. job[c].result = "ok" =>
          HeldIn(node, data, job[c].to) = job[c].was /\ node[job[c].path] = 0
    BY <2>2 DEF Moving, Undisturbed
  <2> QED BY <2>3, <2>4, HeldIs
<1>3. R!NeverPartial
  <2> SUFFICES ASSUME NEW p \in Paths, node[p] # 0, R!Held(p) = {} PROVE node[p] \in inPlace \cup cut
    BY DEF R!NeverPartial, R!None
  <2>1. R!Held(p) = data[node[p]] BY DEF R!Held, R!None
  <2>2. node[p] \in DOMAIN data BY DEF Types
  <2> QED BY <2>1, <2>2 DEF Whole
<1>4. R!MetadataFollows
  BY DEF R!MetadataFollows, R!None, AllCarrying, Carrying, Transfer, Undisturbed
<1>5. R!CreatedOnce
  <2> SUFFICES ASSUME NEW p \in Paths PROVE R!Cardinality(firsts[p]) <= 1
    BY DEF R!CreatedOnce
  <2>1. R!Cardinality(firsts[p]) = Cardinality(firsts[p]) BY DEF R!Cardinality, Cardinality
  <2>2. firsts[p] = {} \/ \E x \in Nat : firsts[p] = {x} BY DEF First
  <2>3. Cardinality({}) = 0 BY FS_EmptySet
  <2>4. \A x : Cardinality({x}) = 1 BY FS_Singleton
  <2>5. Cardinality(firsts[p]) \in {0, 1} BY <2>2, <2>3, <2>4
  <2> QED BY <2>1, <2>5
<1>6. R!NoUpdateLost BY DEF R!NoUpdateLost, Seen, Seeing
<1> QED BY <1>1, <1>2, <1>3, <1>4, <1>5, <1>6 DEF R!FilesIntact

\* No interleaving of calls, failures and kills loses or tears a file: what a
\* move moves is at one of its paths, nothing is seen in part but what was
\* written in place, metadata goes along, one Strict create at most makes a
\* file, and no patch under an ETag loses an update; for any number of clients,
\* files and calls, on each of the three backends.
THEOREM FilesIntactHolds == MCSpec => []FilesIntact
<1> DEFINE Inv == backend # Direct => Intact
<1>1. MCInit => Inv BY IntactInit DEF MCInit, NoRoutes, RoutesInit
<1>2. Inv /\ [MCNext]_<<vars, routeVars>> => Inv'
  <2> SUFFICES ASSUME Inv, [MCNext]_<<vars, routeVars>> PROVE Inv'
    OBVIOUS
  <2>1. CASE UNCHANGED routeVars
    <3>1. backend' = backend BY <2>1 DEF routeVars
    <3> QED BY <2>1, <3>1, IntactStutter
  <2>2. CASE backend # Direct /\ R!Next BY <2>2, IntactStep
  <2> QED BY <2>1, <2>2 DEF MCNext
<1>3. Inv => FilesIntact BY IntactHas DEF FilesIntact
<1> QED BY <1>1, <1>2, <1>3, PTL DEF MCSpec
==============================================================================
