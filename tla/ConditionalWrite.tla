-------------------------- MODULE ConditionalWrite --------------------------
(* WriteBytesIfMatch of adapters/file (conditional_write.go; ports'          *)
(* osBackend and adapters/smb repeat it): compare and swap on a file with a  *)
(* lock file made by O_CREATE|O_EXCL, a temporary file and a rename.  Each   *)
(* writer is a process that looks at the file, by reading it or by Stat,     *)
(* and then replaces it if it still matches, again and again.  A process may *)
(* be killed at any point, and the removal of its lock may fail; an operator *)
(* may remove the lock it leaves.                                            *)
EXTENDS Naturals, Sequences, FiniteSets

CONSTANTS
    Writers,      \* processes that write conditionally
    Stamps,       \* values of the file system's clock (and size), from 1 on
    MaxTries,     \* bound: attempts to take the lock before the deadline
    MaxVersions   \* bound: contents ever written

ASSUME WriteAssumption ==
    /\ Stamps \subseteq Nat \ {0} /\ 1 \in Stamps
    /\ MaxTries \in Nat \ {0}
    /\ MaxVersions \in Nat \ {0}

ASSUME NoneIsNoWriter == "none" \notin Writers

None == "none"

VARIABLES
    file,     \* the version at the path, or 0
    stamps,   \* the stamp of each version
    meta,     \* the version the metadata sidecar belongs to
    lock,     \* whether the lock file exists, as who made it, or None
    clock,    \* what the file system would stamp a file with now
    phase,    \* where each writer is
    etag,     \* the ifMatch of its call
    tries,    \* failed attempts of its call to take the lock
    temp,     \* the stamp of its temporary file, or 0
    took,     \* history: the version its call has put in place, or 0
    torn,     \* history: versions whose writer failed before their sidecar
    others    \* history: somebody has written or deleted regardless of the lock

vars == <<file, stamps, meta, lock, clock, phase, etag, tries, temp,
          took, torn, others>>
disk == <<file, stamps, meta, others>>

Phases == {"idle", "looked", "locking", "backoff", "reading", "stating",
           "writing", "renaming", "metadata", "releasing", "dead"}
\* Where a writer has the lock.
Holding == {"reading", "stating", "writing", "renaming", "metadata", "releasing"}

TypeOK ==
    /\ stamps \in Seq(Stamps) /\ Len(stamps) <= MaxVersions
    /\ file \in 0 .. Len(stamps)
    /\ meta \in 0 .. Len(stamps)
    /\ lock \in Writers \cup {None}
    /\ clock \in Stamps
    /\ phase \in [Writers -> Phases]
    /\ etag \in [Writers -> [kind : {"strong", "weak"}, val : Nat]]
    /\ tries \in [Writers -> 0 .. MaxTries]
    /\ temp \in [Writers -> Stamps \cup {0}]
    /\ took \in [Writers -> 0 .. Len(stamps)]
    /\ torn \subseteq 1 .. Len(stamps)
    /\ others \in BOOLEAN

Init ==
    /\ file = 1 /\ stamps = <<1>> /\ meta = 1
    /\ lock = None
    /\ clock = 1
    /\ phase = [w \in Writers |-> "idle"]
    /\ etag = [w \in Writers |-> [kind |-> "strong", val |-> 0]]
    /\ tries = [w \in Writers |-> 0]
    /\ temp = [w \in Writers |-> 0]
    /\ took = [w \in Writers |-> 0]
    /\ torn = {}
    /\ others = FALSE

Go(w, from, to) == phase[w] = from /\ phase' = [phase EXCEPT ![w] = to]

-----------------------------------------------------------------------------
(* A call.  The caller has its ETag from the bytes it read, or from Stat.    *)

Look(w) ==
    /\ Go(w, "idle", "looked")
    /\ file # 0
    /\ \E e \in {[kind |-> "strong", val |-> file], [kind |-> "weak", val |-> stamps[file]]} :
        etag' = [etag EXCEPT ![w] = e]
    /\ took' = [took EXCEPT ![w] = 0]
    /\ UNCHANGED <<disk, lock, clock, tries, temp, torn>>

Call(w) ==
    /\ Go(w, "looked", "locking")
    /\ UNCHANGED <<disk, lock, clock, etag, tries, temp, took, torn>>

\* Mutant: the lock file is opened without O_EXCL.
LockIgnored == TRUE
LockFree == lock = None

Acquire(w) ==
    /\ Go(w, "locking", "reading")
    /\ LockFree
    /\ lock' = w
    /\ tries' = [tries EXCEPT ![w] = 0]
    /\ UNCHANGED <<disk, clock, etag, temp, took, torn>>

Blocked(w) ==
    /\ Go(w, "locking", "backoff")
    /\ lock # None
    /\ tries' = [tries EXCEPT ![w] = @ + 1]
    /\ UNCHANGED <<disk, lock, clock, etag, temp, took, torn>>

\* Mutant: no bound on the attempts.
RetryForEver(w) ==
    /\ Go(w, "backoff", "locking")
    /\ tries' = [tries EXCEPT ![w] = 0]
    /\ UNCHANGED <<disk, lock, clock, etag, temp, took, torn>>

Retry(w) ==
    /\ Go(w, "backoff", "locking")
    /\ tries[w] < MaxTries
    /\ UNCHANGED <<disk, lock, clock, etag, tries, temp, took, torn>>

\* The deadline has passed, or the caller's context is done.
GiveUp(w) ==
    /\ Go(w, "backoff", "idle")
    /\ tries' = [tries EXCEPT ![w] = 0]
    /\ UNCHANGED <<disk, lock, clock, etag, temp, took, torn>>

Names(e, v) ==
    /\ v # 0
    /\ e.val = IF e.kind = "strong" THEN v ELSE stamps[v]

\* Mutant: the lock alone is trusted.
ReadLax(w) ==
    /\ \/ file = 0 /\ Go(w, "reading", "releasing")
       \/ file # 0 /\ Go(w, "reading", "writing")
    /\ UNCHANGED <<disk, lock, clock, etag, tries, temp, took, torn>>

\* ReadFile: a missing file is a mismatch, a strong match goes on at once.
Read(w) ==
    /\ \/ file = 0 /\ Go(w, "reading", "releasing")
       \/ /\ file # 0
          /\ IF etag[w].kind = "strong" /\ Names(etag[w], file)
             THEN Go(w, "reading", "writing")
             ELSE Go(w, "reading", "stating")
    /\ UNCHANGED <<disk, lock, clock, etag, tries, temp, took, torn>>

\* Stat, a second look at the file: a weak match is a match too. A Stat that
\* fails is a mismatch.
Stat(w) ==
    /\ \/ /\ etag[w].kind = "weak" /\ Names(etag[w], file)
          /\ Go(w, "stating", "writing")
       \/ Go(w, "stating", "releasing")
    /\ UNCHANGED <<disk, lock, clock, etag, tries, temp, took, torn>>

\* A dry run ends here, having changed nothing.
DryRun(w) ==
    /\ Go(w, "writing", "releasing")
    /\ UNCHANGED <<disk, lock, clock, etag, tries, temp, took, torn>>

\* The bound: a version for this content, and for those about to be renamed.
Room == Len(stamps) + Cardinality({w \in Writers : phase[w] = "renaming"}) < MaxVersions

WriteTemp(w) ==
    /\ Go(w, "writing", "renaming")
    /\ Room
    /\ temp' = [temp EXCEPT ![w] = clock]
    /\ UNCHANGED <<disk, lock, clock, etag, tries, took, torn>>

Committed(w) ==
    /\ stamps' = Append(stamps, temp[w])
    /\ file' = Len(stamps) + 1
    /\ temp' = [temp EXCEPT ![w] = 0]
    /\ took' = [took EXCEPT ![w] = Len(stamps) + 1]

\* Mutant: the lock is given back as soon as the file is in place.
RenameAndUnlock(w) ==
    /\ Go(w, "renaming", "metadata")
    /\ Committed(w)
    /\ lock' = None
    /\ UNCHANGED <<meta, others, clock, etag, tries, torn>>

Rename(w) ==
    /\ Go(w, "renaming", "metadata")
    /\ Committed(w)
    /\ UNCHANGED <<meta, others, lock, clock, etag, tries, torn>>

\* A call that passes metadata, as every call here does, overwrites the sidecar
\* after the rename.
WriteMetadata(w) ==
    /\ Go(w, "metadata", "releasing")
    /\ meta' = took[w]
    /\ UNCHANGED <<file, stamps, others, lock, clock, etag, tries, temp, took, torn>>

Tear(w) == torn' = IF phase[w] = "metadata" THEN torn \cup {took[w]} ELSE torn

\* Opening the lock, reading, writing the temporary file, renaming it or
\* writing the sidecar fails: the temporary file is removed.
Fail(w) ==
    /\ phase[w] \in {"locking", "reading", "writing", "renaming", "metadata"}
    /\ phase' = [phase EXCEPT ![w] = IF @ = "locking" THEN "idle" ELSE "releasing"]
    /\ tries' = [tries EXCEPT ![w] = 0]
    /\ temp' = [temp EXCEPT ![w] = 0]
    /\ Tear(w)
    /\ UNCHANGED <<disk, lock, clock, etag, took>>

\* The lock file is removed, and the error of that ignored: the removal may
\* fail, on smb because it is done in the call's context, which may have ended.
Release(w) ==
    /\ Go(w, "releasing", "idle")
    /\ lock' \in {None, lock}
    /\ UNCHANGED <<disk, clock, etag, tries, temp, took, torn>>

-----------------------------------------------------------------------------
(* The rest of the world.                                                    *)

\* Killing a process that is not in a call changes nothing others can see.
Kill(w) ==
    /\ phase[w] \notin {"idle", "looked", "dead"}
    /\ phase' = [phase EXCEPT ![w] = "dead"]
    /\ tries' = [tries EXCEPT ![w] = 0]
    /\ Tear(w)
    /\ UNCHANGED <<disk, lock, clock, etag, temp, took>>

\* The one who made the lock file is not in the part of a call that needs it.
Abandoned == lock # None /\ phase[lock] \notin Holding

RemoveStaleLock ==
    /\ Abandoned
    /\ lock' = None
    /\ UNCHANGED <<disk, clock, phase, etag, tries, temp, took, torn>>

Tick ==
    /\ clock + 1 \in Stamps
    /\ clock' = clock + 1
    /\ UNCHANGED <<disk, lock, phase, etag, tries, temp, took, torn>>

\* WriteBytes and DeleteBytes take no lock.
OtherWrite ==
    /\ others' = TRUE
    /\ Room
    /\ stamps' = Append(stamps, clock)
    /\ file' = Len(stamps) + 1
    /\ UNCHANGED <<meta, lock, clock, phase, etag, tries, temp, took, torn>>

OtherDelete ==
    /\ others' = TRUE
    /\ file' = 0
    /\ UNCHANGED <<stamps, meta, lock, clock, phase, etag, tries, temp, took,
                   torn>>

WriterStep(w) ==
    \/ Acquire(w) \/ Blocked(w) \/ Retry(w) \/ GiveUp(w)
    \/ Read(w) \/ Stat(w) \/ DryRun(w) \/ WriteTemp(w) \/ Rename(w)
    \/ WriteMetadata(w) \/ Fail(w) \/ Release(w)

Next ==
    \/ RemoveStaleLock \/ Tick \/ OtherWrite \/ OtherDelete
    \/ \E w \in Writers : Look(w) \/ Call(w) \/ WriterStep(w) \/ Kill(w)

Spec == Init /\ [][Next]_vars

\* A living process goes on with its call.
FairSpec == Spec /\ \A w \in Writers : WF_vars(WriterStep(w))

-----------------------------------------------------------------------------
(* Correctness.                                                              *)

\* The lock is what makes the writers take turns: whoever is past it made the
\* lock file that exists, and a killed writer keeps everyone else out.
OneHolder == \A w \in Writers : phase[w] \in Holding => lock = w

\* While all writers are conditional ones, the sidecar is that of the file,
\* unless the file's writer has still to write it or failed before it could:
\* no writer's metadata ends up beside another one's content.
SidecarInStep ==
    meta # file => \/ others
                   \/ file \in torn
                   \/ \E w \in Writers : phase[w] = "metadata" /\ took[w] = file

\* The file changes as ConditionalRegister says, until somebody writes or
\* deletes it regardless of the lock.
AsCall(w) ==
    IF phase[w] \in {"idle", "looked"}
    THEN [state |-> "none", etag |-> [kind |-> "strong", val |-> 0]]
    ELSE [state |-> IF took[w] # 0 THEN "took" ELSE "open", etag |-> etag[w]]
Register == INSTANCE ConditionalRegister WITH call <- [w \in Writers |-> AsCall(w)]
AtomicSwap == Register!RegSpec

\* Every call returns while its process lives, though locks be left behind.
CallsReturn ==
    \A w \in Writers : phase[w] = "locking" ~> phase[w] \in {"idle", "dead"}
=============================================================================
