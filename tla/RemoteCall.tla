----------------------------- MODULE RemoteCall -----------------------------
(* What a reqreply.Client promises the callers of Call and                 *)
(* ReplayDeadLetter, with no broker, topic or correlation in sight: a call *)
(* ends, once, and what it ends with came from a handler that ran for this *)
(* very call. A handler may run again for a request already answered, or   *)
(* after the call has ended; a call may end in a failure whatever was      *)
(* answered.                                                               *)
CONSTANTS Calls, Services, Values

VARIABLES stage,      \* [Calls -> "idle", "asked" or "ended"]
          executions, \* the <<call, service, answer>> that handlers gave
          result      \* [Calls -> how the call ended]

vars == <<stage, executions, result>>

Executed(c, a) == \E s \in Services : <<c, s, a>> \in executions

Init == /\ stage = [c \in Calls |-> "idle"]
        /\ executions = {}
        /\ result = [c \in Calls |-> "none"]

Ask(c) == /\ stage[c] = "idle"
          /\ stage' = [stage EXCEPT ![c] = "asked"]
          /\ UNCHANGED <<executions, result>>

Execute(c, s, a) == /\ stage[c] # "idle"
                    /\ executions' = executions \cup {<<c, s, a>>}
                    /\ UNCHANGED <<stage, result>>

\* "zero" is the zero value without an error, which only a call that was
\* forwarded and answered can end with.
End(c, r) == /\ stage[c] = "asked"
             /\ \/ r = "failed"
                \/ r \in {"value", "error"} /\ Executed(c, r)
                \/ /\ r = "zero"
                   /\ Executed(c, "value")
                   /\ \E s \in Services : Executed(c, s)
             /\ stage' = [stage EXCEPT ![c] = "ended"]
             /\ result' = [result EXCEPT ![c] = r]
             /\ UNCHANGED executions

Ends(c) == \E r \in {"failed", "value", "error", "zero"} : End(c, r)

Next == \/ \E c \in Calls : Ask(c) \/ Ends(c)
        \/ \E c \in Calls, s \in Services, a \in Values : Execute(c, s, a)

Spec == Init /\ [][Next]_vars /\ \A c \in Calls : WF_vars(Ends(c))
=============================================================================
