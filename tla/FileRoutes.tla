----------------------------- MODULE FileRoutes ------------------------------
(* The file routes of api/file (dispatch.go) over the three backends of the  *)
(* repository: adapters/file and adapters/smb ("disk"), adapters/s3 and the  *)
(* private one of ports ("os").  A call is a few operations of the backend,  *)
(* each of which is a few system calls; clients in other processes come in   *)
(* between, and any client may be killed, which is to take no further step.  *)
(* A file's content is the set of the updates it holds, so a patch adds one; *)
(* the empty set is an empty or an incomplete file.  Every call's update is  *)
(* its own, so that no content comes back once it has been replaced.         *)
(* Conditional writes are those of ConditionalWrite, without its retries and *)
(* with strong ETags: the ETag, a hash, is the content.                      *)
EXTENDS Naturals, Sequences, FiniteSets

CONSTANTS
    Clients,
    Paths,
    Backends,   \* a subset of {"disk", "s3", "os"}
    MaxCalls    \* bound: calls of all clients

None == 0

VARIABLES
    backend,
    node,     \* the file at each path: an index of data, or None
    data,     \* the contents of the files there have been
    meta,     \* the metadata stored for each path, or None
    lock,     \* who made the lock file of each path, or None
    job,      \* each client's call
    calls,
    inPlace,  \* history: files somebody wrote in place
    cut,      \* history: files renamed into place although encoding failed
    firsts    \* history: who created the file at a path with Strict, in place

disk == <<node, data, meta, lock>>
history == <<inPlace, cut, firsts>>
vars == <<backend, disk, job, calls, history>>

SomePath == CHOOSE p \in Paths : TRUE
NoJob ==
    [pc |-> "idle", op |-> "none", path |-> SomePath, to |-> SomePath, mode |-> "any",
     stream |-> FALSE, md |-> None, etag |-> {}, tag |-> None, hand |-> {}, over |-> {},
     ino |-> None, out |-> None, carried |-> None, failed |-> FALSE, mixed |-> FALSE,
     result |-> "none", quiet |-> TRUE, fair |-> TRUE, was |-> {}, wasMd |-> None]

Ops == {"read", "create", "patch", "delete", "copy", "move"}
Busy(c) == job[c].pc # "idle"
Held(p) == IF node[p] = None THEN {} ELSE data[node[p]]
Conditional(j) == j.op \in {"create", "patch"} /\ j.mode = "match"
Target(j) == IF j.op \in {"copy", "move"} THEN j.to ELSE j.path

\* What the backend can do beyond reading and writing whole files.
Copies == backend \in {"disk", "s3"}
Moves  == backend = "disk"
Stores == backend \in {"disk", "s3"}

TypeOK ==
    /\ backend \in Backends
    /\ node \in [Paths -> 0 .. Len(data)]
    /\ meta \in [Paths -> Paths \cup 0 .. MaxCalls]
    /\ lock \in [Paths -> Clients \cup {None}]
    /\ \A i \in DOMAIN data : data[i] \subseteq Paths \cup 1 .. calls
    /\ inPlace \cup cut \subseteq DOMAIN data
    /\ \A c \in Clients : job[c].ino \in 0 .. Len(data) /\ job[c].op \in Ops \cup {"none"}

\* Some files exist; on a disk the sidecar of one that was deleted may too.
Init ==
    /\ backend \in Backends
    /\ \E there \in (SUBSET Paths) \ {{}}, stored \in {{}, Paths} :
        /\ backend = "s3" => stored \subseteq there
        /\ backend = "os" => stored = {}
        /\ data = LET order == CHOOSE s \in [1 .. Cardinality(there) -> there] :
                                   {s[i] : i \in DOMAIN s} = there
                  IN  [i \in DOMAIN order |-> {order[i]}]
        /\ node = [p \in Paths |-> IF p \in there
                                   THEN CHOOSE i \in DOMAIN data : data[i] = {p}
                                   ELSE None]
        /\ meta = [p \in Paths |-> IF p \in stored THEN p ELSE None]
    /\ lock = [p \in Paths |-> None]
    /\ job = [c \in Clients |-> NoJob]
    /\ calls = 0
    /\ inPlace = {} /\ cut = {} /\ firsts = [p \in Paths |-> {}]

\* c goes on to j; the others' histories note what it did to the disk.
Changed == <<node', data', meta'>> # <<node, data, meta>>
Sees(k, by) ==
    IF k.pc = "idle" /\ Changed THEN NoJob
    ELSE [k EXCEPT !.quiet = @ /\ ~Changed,
                   !.fair  = @ /\ (Changed => Conditional(by)),
                   !.mixed = @ \/ (k.ino # None /\ data'[k.ino] # data[k.ino])]
Goes(c, j) ==
    /\ job' = [d \in Clients |-> IF d = c THEN j ELSE Sees(job[d], job[c])]
    /\ UNCHANGED <<backend, calls>>
To(c, pc) == Goes(c, [job[c] EXCEPT !.pc = pc])
\* What remains of a call is what its caller could ask about it, until somebody
\* changes the files.
Returned(j, result) ==
    IF j.op \in {"patch", "copy", "move"}
    THEN [NoJob EXCEPT !.op = j.op, !.path = j.path, !.to = j.to,
                       !.mode = j.mode, !.hand = j.hand, !.over = j.over, !.result = result,
                       !.quiet = j.quiet, !.fair = j.fair, !.was = j.was, !.wasMd = j.wasMd]
    ELSE NoJob
Return(c, result) == Goes(c, Returned(job[c], result))
At(c, pc) == job[c].pc = pc
Keep == UNCHANGED <<disk, history>>

-----------------------------------------------------------------------------
(* A call begins.  With mode "match" the caller passes the ETag of what it   *)
(* has seen at the path, which may be out of date.                           *)

\* The call of an operation, on p and, if it has one, to q.
Asked(op, p, q, mode, stream) ==
    [NoJob EXCEPT !.pc = "start", !.op = op, !.path = p, !.to = q, !.mode = mode,
                  !.stream = stream,
                  !.md = IF op = "create" /\ mode = "any" THEN calls + 1 ELSE None,
                  !.etag = Held(p), !.tag = calls + 1,
                  !.was = Held(p), !.wasMd = meta[p]]

Begin(c) ==
    /\ ~Busy(c)
    /\ calls < MaxCalls
    /\ calls' = calls + 1
    /\ \E op \in Ops, p \in Paths, q \in Paths, mode \in {"any", "strict", "match"},
          stream \in BOOLEAN :
        /\ op \notin {"copy", "move"} => q = p
        /\ op \notin {"create", "patch"} => mode = "any"
        /\ op = "patch" => mode # "strict"
        /\ stream => op = "create" /\ mode # "match"
        /\ job' = [job EXCEPT ![c] = Asked(op, p, q, mode, stream)]
    /\ UNCHANGED <<backend, disk, history>>

\* A read-only role, a path that cannot be built, a value that cannot be
\* encoded or a middleware that refuses: nothing has been touched.
Refuse(c) == At(c, "start") /\ Keep /\ Return(c, "error")

\* Reading starts by opening the file...
Open(c) ==
    LET j == job[c] IN
    /\ At(c, "start")
    /\ \/ j.op \in {"read", "patch"}
       \/ j.op \in {"copy", "move"} /\ ~Copies
    /\ Keep
    /\ IF node[j.path] = None
       THEN Return(c, "notFound")
       ELSE Goes(c, [j EXCEPT !.pc = "reading", !.ino = node[j.path]])

\* ...and a file that is written in place meanwhile is read in part.
Contents(j) == {data[j.ino]} \cup IF j.mixed THEN {{}} ELSE {}

Read(c) ==
    /\ At(c, "reading")
    /\ Keep
    /\ \E seen \in Contents(job[c]) :
        LET j == [job[c] EXCEPT !.hand = seen, !.ino = None, !.mixed = FALSE] IN
        IF j.op = "read" THEN Return(c, "ok")
        ELSE Goes(c, [j EXCEPT !.pc = IF j.op = "patch" THEN "merging" ELSE "writing"])

\* Mutant: a patch is the new content.
Replaced(j) == {j.tag}
Merged(j) == j.hand \cup {j.tag}

\* The patch is merged into what was read; what cannot be decoded is an error.
Merge(c) ==
    /\ At(c, "merging")
    /\ Keep
    /\ Goes(c, [job[c] EXCEPT !.pc = "writing", !.hand = Merged(job[c])])

Create(c) ==
    /\ At(c, "start") /\ job[c].op = "create"
    /\ Keep
    /\ Goes(c, [job[c] EXCEPT !.pc = IF job[c].stream THEN "encoding" ELSE "writing",
                              !.hand = {job[c].tag}])

-----------------------------------------------------------------------------
(* Writing on a disk: in place, by a temporary file, or under the lock.      *)

Unconditional(c) == At(c, "writing") /\ backend # "s3" /\ ~Conditional(job[c])

\* Mutant: whether the file is there was looked up before.
WasVacant(j) == j.was = {}
\* O_EXCL looks and creates in one step.
Vacant(j) == node[j.path] = None

Refused(c) ==
    /\ Unconditional(c) /\ job[c].mode = "strict"
    /\ ~Vacant(job[c])
    /\ Keep
    /\ Return(c, "exists")

Truncate(c) ==
    LET j == job[c]
        t == Target(j)
        i == IF node[t] = None THEN Len(data) + 1 ELSE node[t]
    IN
    /\ Unconditional(c)
    /\ j.mode = "strict" => Vacant(j)
    /\ data' = IF node[t] = None THEN Append(data, {}) ELSE [data EXCEPT ![i] = {}]
    /\ node' = [node EXCEPT ![t] = i]
    /\ inPlace' = inPlace \cup {i}
    /\ firsts' = IF j.mode = "strict" THEN [firsts EXCEPT ![t] = @ \cup {j.tag}] ELSE firsts
    /\ UNCHANGED <<meta, lock, cut>>
    /\ Goes(c, [j EXCEPT !.pc = "filling", !.ino = i])

Fill(c) ==
    LET j == job[c] IN
    /\ At(c, "filling")
    /\ data' = [data EXCEPT ![j.ino] = j.hand]
    /\ UNCHANGED <<node, meta, lock, history>>
    /\ Goes(c, [j EXCEPT !.pc = "noting", !.ino = None])

\* A streaming format: MarshalTo may fail half-way, and the writer is closed,
\* which commits it, all the same.
Encode(c) ==
    /\ At(c, "encoding")
    /\ Keep
    /\ \/ To(c, "closing")
       \/ Goes(c, [job[c] EXCEPT !.pc = "closing", !.hand = {}, !.failed = TRUE])

\* Close of the temporary file: Strict is looked at before the rename.  The
\* one of s3 does not look at it.
Close(c) ==
    /\ At(c, "closing")
    /\ Keep
    /\ IF job[c].mode = "strict" /\ backend # "s3" /\ node[job[c].path] # None
       THEN Return(c, "exists")
       ELSE To(c, "renaming")

Lock(c) ==
    /\ At(c, "writing") /\ backend # "s3" /\ Conditional(job[c])
    /\ lock[job[c].path] = None
    /\ lock' = [lock EXCEPT ![job[c].path] = c]
    /\ UNCHANGED <<node, data, meta, history>>
    /\ To(c, "checking")

\* Who is past Lock removes the lock file; that may fail, which is ignored.
Holds(c) ==
    /\ Conditional(job[c]) /\ job[c].pc \in {"checking", "renaming", "noting"}
    /\ lock[job[c].path] = c
Unlocked(c) == \/ UNCHANGED lock
               \/ Holds(c) /\ lock' = [lock EXCEPT ![job[c].path] = None]

\* Mutant: the file need only be there.
MatchesAny(j) == node[j.path] # None
Matches(j) == node[j.path] # None /\ Held(j.path) = j.etag

Check(c) ==
    /\ At(c, "checking")
    /\ UNCHANGED <<node, data, meta, history>>
    /\ IF Matches(job[c])
       THEN To(c, "renaming") /\ UNCHANGED lock
       ELSE Return(c, "mismatch") /\ Unlocked(c)

\* What is put in place of a path in one step.
Put(c, content) ==
    LET p == job[c].path IN
    /\ data' = Append(data, content)
    /\ node' = [node EXCEPT ![p] = Len(data')]
    /\ cut' = IF job[c].failed THEN cut \cup {Len(data')} ELSE cut

\* Mutant: the final path is opened and filled, without a temporary file.
RenameEarly(c) ==
    /\ At(c, "renaming") /\ backend # "s3"
    /\ Put(c, {})
    /\ UNCHANGED <<meta, lock, inPlace, firsts>>
    /\ Goes(c, [job[c] EXCEPT !.pc = "filling", !.over = Held(job[c].path), !.ino = Len(data')])

Rename(c) ==
    /\ At(c, "renaming") /\ backend # "s3"
    /\ Put(c, job[c].hand)
    /\ UNCHANGED <<meta, lock, inPlace, firsts>>
    /\ Goes(c, [job[c] EXCEPT !.pc = "noting", !.over = Held(job[c].path)])

\* The end of a call, or of a move's copying half.
After(c) ==
    LET j == job[c] IN
    IF j.op = "move" THEN To(c, "removing")
    ELSE Return(c, IF j.failed THEN "error" ELSE "ok")

\* The sidecar is overwritten when the call has metadata for it.
Note(c) ==
    LET j == job[c] IN
    /\ At(c, "noting") /\ backend # "s3"
    /\ meta' = IF j.md # None /\ Stores THEN [meta EXCEPT ![j.path] = j.md] ELSE meta
    /\ Unlocked(c)
    /\ UNCHANGED <<node, data, history>>
    /\ After(c)

-----------------------------------------------------------------------------
(* Writing on S3: one request stores content and metadata together.          *)

PutObject(c) ==
    LET j == job[c] IN
    /\ backend = "s3" /\ j.pc \in {"writing", "renaming"}
    /\ UNCHANGED inPlace
    /\ CASE Conditional(j) /\ ~Matches(j) ->
              UNCHANGED <<disk, cut, firsts>> /\ Return(c, "mismatch")
         [] j.mode = "strict" /\ ~j.stream /\ ~Vacant(j) ->
              UNCHANGED <<disk, cut, firsts>> /\ Return(c, "exists")
         [] OTHER ->
              /\ firsts' = IF j.mode = "strict" /\ ~j.stream
                           THEN [firsts EXCEPT ![j.path] = @ \cup {j.tag}] ELSE firsts
              /\ Put(c, j.hand)
              /\ meta' = [meta EXCEPT ![j.path] = j.md]
              /\ UNCHANGED lock
              /\ Goes(c, Returned([j EXCEPT !.over = Held(j.path)],
                                  IF j.failed THEN "error" ELSE "ok"))

-----------------------------------------------------------------------------
(* Deleting, copying and moving.                                             *)

\* The file goes, its sidecar stays.
Unlinked(p) ==
    /\ node' = [node EXCEPT ![p] = None]
    /\ meta' = IF backend = "s3" THEN [meta EXCEPT ![p] = None] ELSE meta
    /\ firsts' = [firsts EXCEPT ![p] = {}]
    /\ UNCHANGED <<data, lock, inPlace, cut>>

Delete(c) ==
    /\ At(c, "start") /\ job[c].op = "delete"
    /\ Unlinked(job[c].path)
    /\ Return(c, "ok")

\* The metadata of the source is read before the source moves.
Carried(c) ==
    /\ At(c, "start") /\ job[c].op \in {"copy", "move"} /\ Copies
    /\ Keep
    /\ Goes(c, [job[c] EXCEPT !.pc = IF job[c].op = "move" /\ Moves THEN "moving" ELSE "copying",
                              !.carried = meta[job[c].path]])

Missing(c) ==
    /\ job[c].pc \in {"moving", "copying"}
    /\ node[job[c].path] = None
    /\ Keep
    /\ Return(c, "error")

MoveBytes(c) ==
    LET j == job[c] IN
    /\ At(c, "moving") /\ node[j.path] # None
    /\ node' = IF j.to = j.path THEN node
               ELSE [node EXCEPT ![j.to] = node[j.path], ![j.path] = None]
    /\ firsts' = [firsts EXCEPT ![j.to] = {}, ![j.path] = {}]
    /\ UNCHANGED <<data, meta, lock, inPlace, cut>>
    /\ To(c, "carrying")

\* CopyBytes on a disk opens the source, truncates the other file and copies;
\* on S3 it is one request, which S3 refuses for one and the same object.
CopyOpen(c) ==
    LET j == job[c]
        i == IF node[j.to] = None THEN Len(data) + 1 ELSE node[j.to]
    IN
    /\ At(c, "copying") /\ backend = "disk" /\ node[j.path] # None
    /\ data' = IF node[j.to] = None THEN Append(data, {}) ELSE [data EXCEPT ![i] = {}]
    /\ node' = [node EXCEPT ![j.to] = i]
    /\ inPlace' = inPlace \cup {i}
    /\ UNCHANGED <<meta, lock, cut, firsts>>
    /\ Goes(c, [j EXCEPT !.pc = "pouring", !.ino = node[j.path], !.out = i])

CopyPour(c) ==
    LET j == job[c] IN
    /\ At(c, "pouring")
    /\ \E seen \in Contents(j) : data' = [data EXCEPT ![j.out] = seen]
    /\ UNCHANGED <<node, meta, lock, history>>
    /\ Goes(c, [j EXCEPT !.pc = "carrying", !.ino = None, !.mixed = FALSE])

CopyObject(c) ==
    LET j == job[c] IN
    /\ At(c, "copying") /\ backend = "s3" /\ node[j.path] # None /\ j.to # j.path
    /\ data' = Append(data, Held(j.path))
    /\ node' = [node EXCEPT ![j.to] = Len(data')]
    /\ meta' = [meta EXCEPT ![j.to] = meta[j.path]]
    /\ cut' = IF node[j.path] \in cut THEN cut \cup {Len(data')} ELSE cut
    /\ UNCHANGED <<lock, inPlace, firsts>>
    /\ To(c, "carrying")

\* Mutant: the metadata is left behind.
CarryNothing(c) == At(c, "carrying") /\ Keep /\ (IF Moves THEN Return(c, "ok") ELSE After(c))

\* If the source had metadata.  A sidecar can be written without its file; to
\* an object that is gone metadata cannot be.
Carry(c) ==
    LET j == job[c] IN
    /\ At(c, "carrying")
    /\ backend = "s3" /\ j.carried # None => node[j.to] # None
    /\ meta' = IF j.carried = None THEN meta ELSE [meta EXCEPT ![j.to] = j.carried]
    /\ UNCHANGED <<node, data, lock, history>>
    /\ IF Moves THEN Return(c, "ok") ELSE After(c)

\* Mutant: a move goes on to the removal though copying failed.
RemoveAnyway(c) ==
    /\ job[c].pc \in {"removing", "filling"} /\ job[c].op = "move"
    /\ Unlinked(job[c].path)
    /\ Return(c, "ok")

Remove(c) ==
    /\ At(c, "removing")
    /\ Unlinked(job[c].path)
    /\ Return(c, "ok")

-----------------------------------------------------------------------------
(* What can go wrong.                                                        *)

\* A system call or a request fails, or the lock is not to be had; the call
\* gives up where it is, without its temporary file.
Fail(c) ==
    /\ Busy(c) /\ ~At(c, "start")
    /\ Unlocked(c)
    /\ UNCHANGED <<node, data, meta, history>>
    /\ Return(c, "error")

WriteStep(c) ==
    \/ Refused(c) \/ Truncate(c) \/ Fill(c) \/ Encode(c) \/ Close(c)
    \/ Lock(c) \/ Check(c) \/ Rename(c) \/ Note(c) \/ PutObject(c)
MoveStep(c) ==
    \/ Delete(c) \/ Carried(c) \/ Missing(c) \/ MoveBytes(c) \/ CopyOpen(c)
    \/ CopyPour(c) \/ CopyObject(c) \/ Carry(c) \/ Remove(c)
Next ==
    \E c \in Clients :
        \/ Begin(c) \/ Refuse(c) \/ Open(c) \/ Read(c) \/ Merge(c)
        \/ Create(c) \/ WriteStep(c) \/ MoveStep(c) \/ Fail(c)

Spec == Init /\ [][Next]_vars

-----------------------------------------------------------------------------
(* Correctness.                                                              *)

\* A move that fails or is killed half-way has not lost the file, and one that
\* returns has moved it: its content is whole at one of the two paths all the
\* time, unless somebody else writes there or it is moved onto itself.
MovesKeep ==
    \A c \in Clients : LET j == job[c] IN
        j.op = "move" /\ j.quiet /\ j.to # j.path /\ j.was # {} =>
            /\ j.was \in {Held(j.path), Held(j.to)}
            /\ j.result = "ok" => Held(j.to) = j.was /\ node[j.path] = None

\* A file is empty or incomplete only if somebody wrote it in place, or put a
\* stream in place whose encoding had failed: whatever is killed or fails,
\* conditional and streamed writes are seen whole.
NeverPartial ==
    \A p \in Paths : node[p] # None /\ Held(p) = {} => node[p] \in inPlace \cup cut

\* Metadata goes with the file that is copied or moved.
MetadataFollows ==
    \A c \in Clients : LET j == job[c] IN
        /\ j.op \in {"copy", "move"} /\ j.quiet /\ j.to # j.path
        /\ j.result = "ok" /\ j.wasMd # None
        => meta[j.to] = j.wasMd

\* Two Strict creates of one file do not both return, however they interleave,
\* unless they are streamed.
CreatedOnce == \A p \in Paths : Cardinality(firsts[p]) <= 1

\* A patch under a strong ETag that is committed holds all that was in the file
\* it replaced, while everybody writes under an ETag and no content comes back:
\* patchCore reads without the lock and does not compare what it read with the
\* ETag, so between two equal contents it could read another.
NoUpdateLost ==
    \A c \in Clients : LET j == job[c] IN
        j.op = "patch" /\ j.mode = "match" /\ j.fair => j.over \subseteq j.hand

FilesIntact ==
    /\ TypeOK
    /\ MovesKeep /\ NeverPartial /\ MetadataFollows /\ CreatedOnce /\ NoUpdateLost
==============================================================================
