------------------------------ MODULE FifoLink ------------------------------
(***************************************************************************)
(* What a port or a stream stage promises between one producer side and    *)
(* one consumer: a bounded first-in-first-out link with backpressure.      *)
(* While it is live nothing is lost, duplicated or reordered; once its     *)
(* context has ended it may lose items on the way, but it still delivers   *)
(* the others in order and never twice.                                    *)
(***************************************************************************)
EXTENDS Naturals, Sequences, SequencesExt

CONSTANTS
  Items,      \* what may be sent
  Room        \* how many items fit between sender and receiver

VARIABLES
  live,       \* the context has not ended
  queue,      \* items on their way, oldest first
  received    \* items delivered, oldest first

linkVars == <<live, queue, received>>

Init == live = TRUE /\ queue = <<>> /\ received = <<>>

Put(v) ==
  /\ Len(queue) < Room
  /\ queue' = Append(queue, v)
  /\ UNCHANGED <<live, received>>

Get ==
  /\ queue # <<>>
  /\ received' = Append(received, Head(queue))
  /\ queue' = Tail(queue)
  /\ UNCHANGED live

Break ==
  /\ live' = FALSE
  /\ UNCHANGED <<queue, received>>

Lose ==
  /\ ~live
  /\ \E i \in DOMAIN queue : queue' = RemoveAt(queue, i)
  /\ UNCHANGED <<live, received>>

Next == (\E v \in Items : Put(v)) \/ Get \/ Break \/ Lose

Spec == Init /\ [][Next]_linkVars
=============================================================================
