------------------------------- MODULE MCFiles -------------------------------
(***************************************************************************)
(* Files that several processes write: either conditional writers on one   *)
(* file, with the lock's retries, or clients of the file routes on two     *)
(* files.  The variables of the other stay as they are.                    *)
(***************************************************************************)
EXTENDS ConditionalWrite

CONSTANTS Clients, Paths, Backends, MaxCalls, Direct

\* The updates are numbered, and a path stands for what its file held at first.
ASSUME RoutesAssumption ==
  /\ Backends \subseteq {"disk", "s3", "os"}
  /\ IsFiniteSet(Paths) /\ \A p \in Paths : p \notin Nat
  /\ 0 \notin Clients
  /\ MaxCalls \in Nat

VARIABLES backend, node, data, sidecars, locks, job, calls, inPlace, cut, firsts

R == INSTANCE FileRoutes WITH meta <- sidecars, lock <- locks
routeVars == <<backend, node, data, sidecars, locks, job, calls, inPlace, cut, firsts>>

NoRoutes ==
  /\ backend = Direct /\ node = [p \in Paths |-> 0] /\ data = <<>>
  /\ sidecars = node /\ locks = node /\ job = [c \in Clients |-> R!NoJob]
  /\ calls = 0 /\ inPlace = {} /\ cut = {} /\ firsts = [p \in Paths |-> {}]

\* Clients and paths are interchangeable: one path has a file, with metadata
\* where the backend stores any, and one client is the first to call.
FirstPath == R!SomePath
FirstClient == CHOOSE c \in Clients : TRUE

RoutesInit ==
  /\ R!Init
  /\ node[FirstPath] # 0
  /\ backend # "os" => sidecars[FirstPath] # 0
MCInit == Init /\ (NoRoutes \/ RoutesInit)
MCNext ==
  \/ backend = Direct /\ Next /\ UNCHANGED routeVars
  \/ /\ backend # Direct /\ R!Next /\ UNCHANGED vars
     /\ calls = 0 /\ calls' = 1 => job'[FirstClient] # R!NoJob

WriterFairness ==
  \A w \in Writers : WF_vars(backend = Direct /\ WriterStep(w))
MCSpec == MCInit /\ [][MCNext]_<<vars, routeVars>> /\ WriterFairness

\* No interleaving of calls, failures and kills loses or tears a file.
FilesIntact == backend # Direct => R!FilesIntact
=============================================================================
