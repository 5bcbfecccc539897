-------------------------- MODULE LifecycleInvariant --------------------------
(***************************************************************************)
(* The inductive invariant from which LifecycleProofs derives the safety   *)
(* properties of Lifecycle.                                                *)
(***************************************************************************)
EXTENDS Lifecycle

\* How far main is past the steps that open something.
Opened == Running \cup {"notify"}

\* Where Stop has not begun to close what the worker uses.
BeforeClosing == {"off", "wait", "grpc", "client", "outbox", "await"}

\* The server follows main and Stop.
ServerInv ==
  /\ main \in Starting => server = "new" /\ stopper = "off"
  /\ main \in Running => stopper # "off"
  /\ server = "new" => main \notin {"serving", "return"} /\ stopper \in {"off", "wait"}
  /\ server = "serving" => main = "serving" /\ stopper = "wait"
  /\ server = "draining" => main = "serving" /\ stopper = "grpc"
  /\ main = "return" => server = "stopped"

\* Calls run in a server that serves, and the interceptors contain them.
CallInv ==
  /\ (\E c \in Calls : call[c] \in CallRunning) => server \in {"serving", "draining"}
  /\ FailuresContained

\* What App.New opens stays open until Stop closes it: the client after
\* GracefulStop, the producer and the pool after the worker.
ConnInv ==
  /\ main \in Opened \cup {"client", "producer"} => repo # "none"
  /\ main \in Opened \cup {"producer"} => client # "none"
  /\ main \in Opened /\ KafkaEnabled => producer # "none"
  /\ Alive /\ stopper \in {"off", "wait", "grpc"} => client # "closed"
  /\ Alive /\ stopper \in BeforeClosing => producer # "closed" /\ repo # "closed"
  /\ Alive /\ (stopper = "repo" \/ repo = "closed") => producer # "open"

\* The worker that Serve's lock lets Stop know of has ended when Stop goes on.
WorkerInv ==
  /\ worker # "off" => KafkaEnabled /\ main \in Running \ {"run"}
  /\ served /\ Alive => main \in {"serving", "return"}
  /\ main \in Running \ {"run"} /\ KafkaEnabled => outboxCancel = "set"
  /\ served /\ stopper \notin BeforeClosing =>
       \/ worker \in {"off", "done"}
       \/ stopper = "failed" /\ producer # "closed" /\ repo # "closed"

\* Stop waits for the worker only when Run has started one, which then goes on
\* until the process ends.
AwaitInv ==
  /\ Alive /\ stopper = "grpc" => server \in {"draining", "stopped"}
  /\ Alive /\ outboxCancel = "set" => worker # "off"
  /\ stopper = "await" => outboxCancel = "set" /\ canceled

\* The reminders in the worker's hands are not marked, and the one it is about
\* to mark is on Kafka.
HandInv ==
  /\ batch \cap sent = {}
  /\ hand \notin batch \cup sent
  /\ worker = "mark" => hand \in delivered

\* The process can still send a reminder without marking it.
MaySlip ==
  /\ Alive
  /\ worker # "mark"
  /\ ~canceled \/ worker = "send"
  /\ producer # "closed"

CopyInv ==
  copies + Cardinality(delivered \ sent) + (IF MaySlip THEN 1 ELSE 0)
    <= lives + faults

LifecycleInv ==
  /\ LifecycleTypeOK
  /\ ServerInv
  /\ CallInv
  /\ ConnInv
  /\ WorkerInv
  /\ AwaitInv
  /\ HandInv
  /\ CopyInv
=============================================================================
