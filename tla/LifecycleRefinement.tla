------------------------- MODULE LifecycleRefinement -------------------------
(***************************************************************************)
(* The process of Lifecycle keeps ProcessContract: main's way to its end   *)
(* and the state of the gRPC server, seen as the phases of a process.      *)
(***************************************************************************)
EXTENDS LifecycleInvariant

\* While the process is up, its phase is the one of the server.
Phase ==
  IF main = "returned" THEN "left"
  ELSE IF ~Alive THEN "broken"
  ELSE IF server = "new" THEN "starting"
  ELSE IF server = "serving" THEN "open"
  ELSE IF server = "draining" THEN "draining"
  ELSE "drained"

CallStatus ==
  [c \in Calls |-> IF call[c] \in CallRunning THEN "running" ELSE call[c]]

Contract ==
  INSTANCE ProcessContract
  WITH phase <- Phase, status <- CallStatus, marked <- sent

\* main, the goroutine that runs Stop, the worker and the calls together do
\* nothing that the contract does not allow, wherever a signal, a failure or a
\* kill meets them.
ImplementsContract == Contract!Spec
=============================================================================
