----------------------------- MODULE GrpcServer -----------------------------
(***************************************************************************)
(* The gRPC server of internal/app/grpc/app.go: the calls it accepts, the  *)
(* chain of interceptors each of them goes through in a goroutine of its   *)
(* own, and the two ends of its life, Serve and GracefulStop, which are    *)
(* called from different goroutines.                                       *)
(*                                                                         *)
(* What the handlers do is the matter of BookingService and BookingReads:  *)
(* here a handler only takes its time, and may panic.                      *)
(***************************************************************************)
EXTENDS Integers, FiniteSets

CONSTANT Calls

ASSUME GrpcAssumption == IsFiniteSet(Calls)

VARIABLES
  server,   \* new; serving; draining, once GracefulStop was called; stopped
  call,     \* where each call is
  inFlight, \* the gauge grpc_requests_in_flight
  escaped   \* history: the calls that failed and are not in the log of failed
            \* requests, or whose panic left the chain and so ends the process

grpcVars == <<server, call, inFlight, escaped>>

\* How a handler ends.
Outcomes == {"returning", "failing", "panicking"}

InChain == {"handler"} \cup Outcomes
CallRunning == {"accepted"} \cup InChain

GrpcTypeOK ==
  /\ server \in {"new", "serving", "draining", "stopped"}
  /\ call \in [Calls -> {"idle", "answered", "cut"} \cup CallRunning]
  /\ inFlight \in Nat
  /\ escaped \subseteq Calls

GrpcInit ==
  /\ server = "new"
  /\ call = [c \in Calls |-> "idle"]
  /\ inFlight = 0
  /\ escaped = {}

GoCall(c, pc) == call' = [call EXCEPT ![c] = pc]

\* A call that is on its way when the server starts to drain is still served.
Accept(c) ==
  /\ server \in {"serving", "draining"}
  /\ call[c] = "idle"
  /\ GoCall(c, "accepted")
  /\ UNCHANGED <<server, inFlight, escaped>>

\* Mutant: the gauge is only decremented.
EnterChainUncounted(c) ==
  /\ call[c] = "accepted"
  /\ GoCall(c, "handler")
  /\ UNCHANGED <<server, inFlight, escaped>>

\* inFlightUnaryInterceptor counts the call and calls the next one.
EnterChain(c) ==
  /\ call[c] = "accepted"
  /\ inFlight' = inFlight + 1
  /\ GoCall(c, "handler")
  /\ UNCHANGED <<server, escaped>>

\* The handler returns a response or an error, or panics.
HandlerEnds(c) ==
  /\ call[c] = "handler"
  /\ \E how \in Outcomes : GoCall(c, how)
  /\ UNCHANGED <<server, inFlight, escaped>>

\* Mutant: a panic is recovered at the outside of the chain.
RecoveryOutermost == <<"recovery", "inFlight", "logging">>

\* The interceptors, the outermost first. (The one of grpc_prometheus comes before
\* them, and keeps figures of its own.)
Chain == <<"inFlight", "logging", "recovery">>

\* Those that do their work after the call of the next one in a defer statement:
\* a panic that passes them does not skip it.
Deferred == {"inFlight", "recovery"}

\* What interceptor f makes of s, the way the call ends as the next one left it,
\* the gauge, and whether the call is in the log of failed requests.
Leave(f, s) ==
  CASE s.how = "panicking" /\ f \notin Deferred -> s
    [] f = "inFlight" -> [s EXCEPT !.gauge = @ - 1]
    [] f = "logging" -> [s EXCEPT !.logged = (s.how = "failing")]
    [] f = "recovery" -> IF s.how = "panicking" THEN [s EXCEPT !.how = "failing"] ELSE s

Unwound(how) ==
  Leave(Chain[1], Leave(Chain[2], Leave(Chain[3],
    [how |-> how, gauge |-> inFlight, logged |-> FALSE])))

\* The chain is left from the inside to the outside, whichever way the handler
\* ended.
LeaveChain(c) ==
  /\ call[c] \in Outcomes
  /\ LET s == Unwound(call[c])
         silent == s.how = "panicking" \/ (call[c] # "returning" /\ ~s.logged)
     IN  /\ inFlight' = s.gauge
         /\ escaped' = IF silent THEN escaped \cup {c} ELSE escaped
  /\ GoCall(c, "answered")
  /\ UNCHANGED server

CallStep(c) == EnterChain(c) \/ HandlerEnds(c) \/ LeaveChain(c)

\* Mutant: Stop in place of GracefulStop, which does not wait for the calls.
StopAtOnce ==
  /\ server' = "stopped"
  /\ UNCHANGED <<call, inFlight, escaped>>

\* The first thing GracefulStop does: a server that serves starts to drain, one
\* that does not will not serve any more.
BeginGracefulStop ==
  /\ server' = IF server = "serving" THEN "draining" ELSE "stopped"
  /\ UNCHANGED <<call, inFlight, escaped>>

\* GracefulStop ends, and lets Serve end, when no call is running.
Drained ==
  /\ server = "draining"
  /\ \A c \in Calls : call[c] \notin CallRunning
  /\ server' = "stopped"
  /\ UNCHANGED <<call, inFlight, escaped>>

\* The process ends: its calls are cut, and its gauge is gone with it.
ServerDies ==
  /\ server' = "stopped"
  /\ call' = [c \in Calls |-> IF call[c] \in CallRunning THEN "cut" ELSE call[c]]
  /\ inFlight' = 0
  /\ UNCHANGED escaped

\* Whatever way a handler ends, the interceptors contain it: a panic reaches the
\* client as an error and stands in the log of failed requests like one, and the
\* gauge goes on to show the calls that are in the chain, although the panic skips
\* what the interceptors it passes do not defer.
FailuresContained ==
  /\ inFlight = Cardinality({c \in Calls : call[c] \in InChain})
  /\ escaped = {}
=============================================================================
