------------------------ MODULE ConditionalRegister ------------------------
(* What a conditional write promises (api/file ConditionalWriteBackend): a   *)
(* file that a call replaces in one step, at most once, and only while its   *)
(* ETag is that of the file.  The n-th content ever written is version n;    *)
(* its strong ETag (a hash) is n, its weak one the stamp (time and size) the *)
(* file system gave it.                                                      *)
EXTENDS Naturals, Sequences

CONSTANTS Writers, Stamps

VARIABLES
    file,    \* the version at the path, or 0 when there is none
    stamps,  \* the stamp of each version
    call,    \* each writer's call: "none", "open" or "took", and its ETag
    others   \* somebody has changed the file in another way: no promise holds

regVars == <<file, stamps, call, others>>

Etag == [kind : {"strong", "weak"}, val : Nat]
NoCall == [state |-> "none", etag |-> [kind |-> "strong", val |-> 0]]

Names(e, v) ==
    /\ v # 0
    /\ e.val = IF e.kind = "strong" THEN v ELSE stamps[v]

RegInit ==
    /\ file = 1
    /\ stamps \in [{1} -> Stamps]
    /\ call = [w \in Writers |-> NoCall]
    /\ others = FALSE

Begin(w) ==
    /\ call[w].state = "none"
    /\ call'[w].state = "open" /\ call'[w].etag \in Etag
    /\ call' = [call EXCEPT ![w] = call'[w]]
    /\ UNCHANGED <<file, stamps, others>>

Commit(w) ==
    /\ call[w].state = "open"
    /\ Names(call[w].etag, file)
    /\ file' = Len(stamps) + 1
    /\ \E t \in Stamps : stamps' = Append(stamps, t)
    /\ call' = [call EXCEPT ![w].state = "took"]
    /\ UNCHANGED others

End(w) ==
    /\ call[w].state # "none"
    /\ call' = [call EXCEPT ![w] = NoCall]
    /\ UNCHANGED <<file, stamps, others>>

RegNext == others' \/ \E w \in Writers : Begin(w) \/ Commit(w) \/ End(w)

RegSpec == RegInit /\ [][RegNext]_regVars
=============================================================================
