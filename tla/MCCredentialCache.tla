------------------------- MODULE MCCredentialCache -------------------------
(***************************************************************************)
(* CredentialCache over constants and variables of its own, so that a      *)
(* module can reason about it beside the WebSocket hub.                    *)
(***************************************************************************)
EXTENDS Naturals

CONSTANTS Callers, TTL, MaxFetches, MaxTime

VARIABLES now, current, inflight, fetches, fetch, pc, start, on, got, rejected, known

C == INSTANCE CredentialCache

ASSUME CacheAssumption == C!CacheSizes

CacheSpec == C!Spec
CacheFairSpec == C!FairSpec

\* Concurrent callers share one fetch.
SingleFlight == C!SingleFlight

\* A credential is used for its TTL: no shorter, and no longer.
TTLKept == C!TTLKept

\* A credential reported as rejected is not given to a call that begins later.
RejectedNotReused == C!RejectedNotReused

\* Every call returns.
CallsReturn == C!CallsReturn
=============================================================================
