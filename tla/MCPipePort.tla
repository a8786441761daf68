----------------------------- MODULE MCPipePort -----------------------------
(***************************************************************************)
(* PipePort over constants and variables of its own, so that a module can  *)
(* reason about it beside the sink port and the hub.                       *)
(***************************************************************************)
EXTENDS Naturals

CONSTANTS
  Pushes, Ingests, Sinks, Streams, Buffer,
  Side,         \* the pump whose link the refinement takes
  Watched       \* the output whose view it takes

VARIABLES
  connected, pipeDone, calling, source, chan, pump, held, visiting, out, outClosed, done, feed,
  feeding, entered, arrived

\* The context, the calls, the fan-out's turn and the histories have names
\* of their own.
P == INSTANCE PipePort
       WITH Observed <- Side, ctxDone <- pipeDone, push <- calling, turn <- visiting,
            hand <- feeding, accepted <- entered, delivered <- arrived

ASSUME PipeAssumption == P!PipeSizes

PipeSpec == P!Spec
PipeFairSpec == P!FairSpec

\* Each pair of a producer side and an output is a first-in-first-out link.
ProducerSeesFifo == P!ProducerSeesFifo

\* What the pipe accepts reaches every output, or the context ends.
AcceptedDelivered == P!AcceptedDelivered
=============================================================================
