----------------------------- MODULE MCSources ------------------------------
(***************************************************************************)
(* Where a port's items come from.  The adapter is either the dialled      *)
(* WebSocket of WsDial, with a bounded number of connections, or one of    *)
(* those of SourceAdapters: the variables of the other stay as they are.   *)
(***************************************************************************)
EXTENDS WsDial

CONSTANTS Kinds, Buffers, MaxItems

ASSUME SourcesAssumption == Buffers \subseteq Nat /\ MaxItems \in Nat

VARIABLES
  kind, buffer, drained, cancelled, act, hook, prod, batch, hand, mid, fwd, held,
  dst, closed, got, panicked, made, linked, dir, known

S == INSTANCE SourceAdapters
others == <<kind, buffer, drained, cancelled, act, hook, prod, batch, hand, mid, fwd, held,
            dst, closed, got, panicked, made, linked, dir, known>>

Nothing ==
  /\ kind = "websocket" /\ buffer = 0 /\ drained = FALSE /\ cancelled = FALSE
  /\ act = "returned" /\ hook = FALSE /\ prod = "ended" /\ fwd = "ended"
  /\ closed = TRUE /\ panicked = FALSE /\ batch = <<>> /\ hand = <<>> /\ held = <<>>
  /\ mid = S!Empty /\ dst = S!Empty /\ got = S!Empty
  /\ made = 0 /\ linked = FALSE /\ dir = {} /\ known = {}

MCInit == Init /\ (Nothing \/ S!Init)
MCNext ==
  \/ kind = "websocket" /\ Next /\ UNCHANGED others
  \/ kind # "websocket" /\ S!Next /\ UNCHANGED vars

Dialled(A) == kind = "websocket" /\ A
DialFairness ==
  WF_vars(Dialled(LoopStep)) /\ SF_vars(Dialled(Offer)) /\ WF_vars(Dialled(WriterStep))
MCSpec == MCInit /\ [][MCNext]_<<vars, others>> /\ DialFairness /\ S!Fairness

\* The adapter loses nothing it has accepted while its context lives.
AcceptedArrives == S!AcceptedArrives

\* No goroutine sends to the closed port, and nothing arrives twice.
SendsInTime == S!SendsInTime

\* The end of the context ends the dial loop, but for one wait, and closes the
\* port of every other adapter.
SourcesStop == StopsUnlessStale /\ S!SourceEnds
=============================================================================
