------------------------------ MODULE Lifecycle ------------------------------
(***************************************************************************)
(* The life of the process: main, App.New, App.Run and App.Stop, with the  *)
(* gRPC server of GrpcServer and the outbox worker.                        *)
(*                                                                         *)
(* Three goroutines share the App. main builds it, starts the worker and   *)
(* blocks in Serve; the stopper waits for a signal and then runs App.Stop; *)
(* the worker polls. The process ends with main, whatever the others do.   *)
(* The reminders of the outbox and what Kafka has outlive it.              *)
(***************************************************************************)
EXTENDS GrpcServer

CONSTANTS
  Reminders,     \* rows of outbox_messages that are due
  NoReminder,
  KafkaEnabled,  \* kafka.enabled of the configuration
  MaxLives,      \* bound: how often the process is started
  MaxFaults      \* bound: how often Kafka or an UPDATE fails

ASSUME LifecycleAssumption ==
  /\ IsFiniteSet(Reminders)
  /\ NoReminder \notin Reminders
  /\ KafkaEnabled \in BOOLEAN
  /\ MaxLives \in Nat \ {0}
  /\ MaxFaults \in Nat

VARIABLES
  main,          \* what main does next, or how the process ended
  signaled,      \* stopCtx is done
  served,        \* Serve locked the server before GracefulStop did
  stopper,       \* where the goroutine that calls App.Stop is
  client, producer, repo,  \* the connections of the App
  outboxCancel,  \* the field of the App, written by Run
  canceled,      \* the context of the worker is canceled
  worker,        \* where the worker is
  batch,         \* the reminders it still has to handle
  hand,          \* the one it is handling
  sent,          \* the rows marked as sent
  delivered,     \* the reminders that Kafka has
  copies,        \* history: how often Kafka got a reminder it already had
  lives, faults

goVars == <<signaled, served>>
stopVars == <<stopper, outboxCancel, canceled>>
connVars == <<client, producer, repo>>
handVars == <<worker, batch, hand>>
tableVars == <<sent, delivered, copies>>
lifecycleVars == <<grpcVars, main, goVars, stopVars, connVars, handVars, tableVars,
                   lives, faults>>

Starting == {"repo", "client", "producer", "notify"}
Running == {"run", "listen", "serve", "serving", "return"}
Ended == {"returned", "exited", "killed"}

LifecycleTypeOK ==
  /\ GrpcTypeOK
  /\ main \in Starting \cup Running \cup Ended
  /\ signaled \in BOOLEAN /\ served \in BOOLEAN
  /\ stopper \in {"off", "wait", "grpc", "client", "outbox", "await", "producer",
                  "repo", "metrics", "stopped", "failed"}
  /\ client \in {"none", "open", "closed"}
  /\ producer \in {"none", "open", "closed"}
  /\ repo \in {"none", "open", "closed"}
  /\ outboxCancel \in {"nil", "set"} /\ canceled \in BOOLEAN
  /\ worker \in {"off", "wait", "list", "next", "send", "mark", "done"}
  /\ batch \in SUBSET Reminders
  /\ hand \in Reminders \cup {NoReminder}
  /\ (hand = NoReminder) <=> (worker \notin {"send", "mark"})
  /\ sent \in SUBSET Reminders /\ delivered \in SUBSET Reminders
  /\ copies \in Nat
  /\ lives \in 1..MaxLives /\ faults \in 0..MaxFaults

LifecycleInit ==
  /\ GrpcInit
  /\ main = "repo"
  /\ signaled = FALSE /\ served = FALSE
  /\ stopper = "off" /\ outboxCancel = "nil" /\ canceled = FALSE
  /\ client = "none" /\ producer = "none" /\ repo = "none"
  /\ worker = "off" /\ batch = {} /\ hand = NoReminder
  /\ sent = {} /\ delivered = {} /\ copies = 0
  /\ lives = 1 /\ faults = 0

\* A goroutine runs only while main has not ended.
Alive == main \notin Ended

\* The other goroutines are gone, wherever they were.
EndProcess(how) ==
  /\ main' = how
  /\ ServerDies
  /\ worker' = "off" /\ batch' = {} /\ hand' = NoReminder

GoMain(from, to) == main = from /\ main' = to

-----------------------------------------------------------------------------
\* main and App.New: a failure closes what was opened, and main exits.

NewRepository ==
  /\ \/ GoMain("repo", "client") /\ repo' = "open"
     \/ GoMain("repo", "exited") /\ UNCHANGED repo
  /\ UNCHANGED <<grpcVars, handVars, client, producer>>

NewResourceClient ==
  /\ \/ GoMain("client", "producer") /\ client' = "open" /\ UNCHANGED repo
     \/ GoMain("client", "exited") /\ repo' = "closed" /\ UNCHANGED client
  /\ UNCHANGED <<grpcVars, handVars, producer>>

InitProducer ==
  /\ \/ /\ GoMain("producer", "notify")
        /\ producer' = IF KafkaEnabled THEN "open" ELSE "none"
        /\ UNCHANGED <<client, repo>>
     \/ /\ KafkaEnabled
        /\ GoMain("producer", "exited")
        /\ client' = "closed" /\ repo' = "closed"
        /\ UNCHANGED producer
  /\ UNCHANGED <<grpcVars, handVars>>

NewApp ==
  /\ NewRepository \/ NewResourceClient \/ InitProducer
  /\ UNCHANGED <<goVars, stopVars>>

\* signal.NotifyContext, and the goroutine that waits for the signal.
NotifyContext ==
  /\ GoMain("notify", "run")
  /\ stopper' = "wait"
  /\ UNCHANGED <<grpcVars, goVars, connVars, handVars, outboxCancel, canceled>>

\* App.Run starts the worker, if there is one.
StartWorker ==
  /\ GoMain("run", "listen")
  /\ outboxCancel' = IF KafkaEnabled THEN "set" ELSE "nil"
  /\ worker' = IF KafkaEnabled THEN "wait" ELSE "off"
  /\ UNCHANGED <<grpcVars, goVars, connVars, stopper, canceled, batch, hand>>

Listen ==
  /\ \/ GoMain("listen", "serve") /\ UNCHANGED <<grpcVars, handVars>>
     \/ main = "listen" /\ EndProcess("exited")
  /\ UNCHANGED <<goVars, connVars, stopVars>>

\* A server that was stopped before returns ErrServerStopped: no error to Run.
Serve ==
  /\ \/ /\ server = "new"
        /\ GoMain("serve", "serving")
        /\ server' = "serving"
        /\ served' = TRUE
     \/ /\ server = "stopped"
        /\ GoMain("serve", "return")
        /\ UNCHANGED <<server, served>>
  /\ UNCHANGED <<call, inFlight, escaped, signaled, connVars, handVars, stopVars>>

ServeFails ==
  /\ main = "serving"
  /\ server = "serving"
  /\ EndProcess("exited")
  /\ UNCHANGED <<goVars, connVars, stopVars>>

\* Mutant: main waits for App.Stop to be through.
ServeReturnsAfterStop ==
  /\ server = "stopped" /\ stopper = "stopped"
  /\ GoMain("serving", "return")
  /\ UNCHANGED <<grpcVars, goVars, connVars, handVars, stopVars>>

\* Serve returns when GracefulStop is through.
ServeReturns ==
  /\ server = "stopped"
  /\ GoMain("serving", "return")
  /\ UNCHANGED <<grpcVars, goVars, connVars, handVars, stopVars>>

\* The deferred calls of main, which close the tracer and the log, are through.
MainReturns ==
  /\ main = "return"
  /\ EndProcess("returned")
  /\ UNCHANGED <<goVars, connVars, stopVars>>

\* What main does unless something fails.
MainStep ==
  /\ \/ NewApp \/ NotifyContext \/ StartWorker \/ Listen
     \/ Serve \/ ServeReturns \/ MainReturns
  /\ UNCHANGED <<tableVars, lives, faults>>

-----------------------------------------------------------------------------
\* The signal and App.Stop

\* A second signal is swallowed: the context stays registered until main ends.
Signal ==
  /\ main \in Running
  /\ ~signaled
  /\ signaled' = TRUE
  /\ UNCHANGED <<grpcVars, main, served, connVars, handVars, stopVars>>

GoStop(from, to) == stopper = from /\ stopper' = to

StopGRPC ==
  /\ signaled
  /\ GoStop("wait", "grpc")
  /\ BeginGracefulStop
  /\ UNCHANGED <<connVars, outboxCancel, canceled>>

\* Mutant: GracefulStop runs in a goroutine of its own.
GracefulStopBegun ==
  /\ GoStop("grpc", "client")
  /\ UNCHANGED <<grpcVars, connVars, outboxCancel, canceled>>

GracefulStopReturns ==
  /\ server = "stopped"
  /\ GoStop("grpc", "client")
  /\ UNCHANGED <<grpcVars, connVars, outboxCancel, canceled>>

\* An error of Close ends Stop.
CloseResourceClient ==
  /\ GoStop("client", "outbox") \/ GoStop("client", "failed")
  /\ client' = "closed"
  /\ UNCHANGED <<grpcVars, producer, repo, outboxCancel, canceled>>

\* Mutant: the worker is canceled and not waited for.
StopOutboxNoWait ==
  /\ GoStop("outbox", "producer")
  /\ canceled' = (outboxCancel = "set")
  /\ UNCHANGED <<grpcVars, connVars, outboxCancel>>

\* Mutant: outboxDone is waited for whether there is a worker or not.
StopOutboxWaits ==
  /\ GoStop("outbox", "await")
  /\ canceled' = (outboxCancel = "set")
  /\ UNCHANGED <<grpcVars, connVars, outboxCancel>>

\* Nothing orders Run's write of outboxCancel before this read but the lock of
\* the gRPC server, when Serve took it before GracefulStop. Without it the read
\* may find nil, whatever was written.
StopOutbox ==
  /\ \/ /\ outboxCancel = "set"
        /\ GoStop("outbox", "await")
        /\ canceled' = TRUE
     \/ /\ outboxCancel = "nil" \/ ~served
        /\ GoStop("outbox", "producer")
        /\ UNCHANGED canceled
  /\ UNCHANGED <<grpcVars, connVars, outboxCancel>>

\* <-a.outboxDone
OutboxDone ==
  /\ worker = "done"
  /\ GoStop("await", "producer")
  /\ UNCHANGED <<grpcVars, connVars, outboxCancel, canceled>>

CloseProducer ==
  /\ GoStop("producer", "repo")
  /\ producer' = IF producer = "open" THEN "closed" ELSE producer
  /\ UNCHANGED <<grpcVars, client, repo, outboxCancel, canceled>>

\* An error of Close ends Stop, with the pool closed all the same.
CloseRepo ==
  /\ GoStop("repo", "metrics") \/ GoStop("repo", "failed")
  /\ repo' = "closed"
  /\ UNCHANGED <<grpcVars, client, producer, outboxCancel, canceled>>

\* An error is logged.
StopMetrics ==
  /\ GoStop("metrics", "stopped")
  /\ UNCHANGED <<grpcVars, connVars, outboxCancel, canceled>>

StopStep ==
  /\ Alive
  /\ \/ StopGRPC \/ GracefulStopReturns \/ CloseResourceClient
     \/ StopOutbox \/ OutboxDone \/ CloseProducer \/ CloseRepo \/ StopMetrics
  /\ UNCHANGED <<main, goVars, handVars, tableVars, lives, faults>>

-----------------------------------------------------------------------------
\* The worker: Worker.Run and processBatch, and what cancels them.

GoWorker(from, to) == worker = from /\ worker' = to

\* When the tick and the end of the context are both there, select picks one.
Tick ==
  /\ GoWorker("wait", "list")
  /\ UNCHANGED <<grpcVars, main, batch, hand, tableVars, faults>>

WorkerReturns ==
  /\ canceled
  /\ GoWorker("wait", "done")
  /\ UNCHANGED <<grpcVars, main, batch, hand, tableVars, faults>>

\* Any rows that were not sent: the schedule and the limit are OutboxWorker's.
ListDue ==
  /\ repo = "open" /\ ~canceled
  /\ GoWorker("list", "next")
  /\ batch' \in SUBSET (Reminders \ sent)
  /\ UNCHANGED <<grpcVars, main, hand, tableVars, faults>>

ListFails ==
  /\ GoWorker("list", "wait")
  /\ UNCHANGED <<grpcVars, main, batch, hand, tableVars, faults>>

BatchDone ==
  /\ batch = {}
  /\ GoWorker("next", "wait")
  /\ UNCHANGED <<grpcVars, main, batch, hand, tableVars, faults>>

\* Mutant: the context is not looked at before a reminder is sent.
TakeNextUnchecked ==
  /\ \E r \in batch :
       /\ batch' = batch \ {r}
       /\ hand' = r
       /\ GoWorker("next", "send")
  /\ UNCHANGED <<grpcVars, main, tableVars, faults>>

\* ProduceEvent refuses when the context is canceled; to put the reminder off
\* fails then, too.
TakeNext ==
  /\ \E r \in batch :
       /\ batch' = batch \ {r}
       /\ \/ ~canceled /\ GoWorker("next", "send") /\ hand' = r
          \/ canceled /\ GoWorker("next", "next") /\ UNCHANGED hand
  /\ UNCHANGED <<grpcVars, main, tableVars, faults>>

Deliver ==
  /\ delivered' = delivered \cup {hand}
  /\ copies' = IF hand \in delivered THEN copies + 1 ELSE copies
  /\ UNCHANGED sent

SendReminder ==
  /\ producer = "open"
  /\ GoWorker("send", "mark")
  /\ Deliver
  /\ UNCHANGED <<grpcVars, main, batch, hand, faults>>

\* Kafka reports an error, although it may have the reminder. To put it off
\* changes its schedule only.
SendFails ==
  /\ producer = "open"
  /\ faults < MaxFaults /\ faults' = faults + 1
  /\ GoWorker("send", "next") /\ hand' = NoReminder
  /\ Deliver \/ UNCHANGED tableVars
  /\ UNCHANGED <<grpcVars, main, batch>>

\* sarama refuses the message when it is closing, and panics when it is closed.
SendOnClosedProducer ==
  /\ worker = "send"
  /\ producer = "closed"
  /\ \/ /\ worker' = "next" /\ hand' = NoReminder
        /\ UNCHANGED <<grpcVars, main, batch>>
     \/ EndProcess("exited")
  /\ UNCHANGED <<tableVars, faults>>

DropHand == GoWorker("mark", "next") /\ hand' = NoReminder

MarkSent ==
  /\ repo = "open"
  /\ DropHand
  /\ sent' = sent \cup {hand}
  /\ UNCHANGED <<grpcVars, main, batch, delivered, copies, faults>>

\* The UPDATE is never sent, or canceled under way.
MarkRefused ==
  /\ canceled \/ repo = "closed"
  /\ DropHand
  /\ UNCHANGED <<grpcVars, main, batch, tableVars, faults>>

\* The database reports an error; the row may be marked all the same.
MarkFails ==
  /\ repo = "open"
  /\ faults < MaxFaults /\ faults' = faults + 1
  /\ DropHand
  /\ sent' = sent \cup {hand} \/ UNCHANGED sent
  /\ UNCHANGED <<grpcVars, main, batch, delivered, copies>>

WorkerStep ==
  /\ Alive
  /\ \/ Tick \/ WorkerReturns \/ ListDue \/ ListFails \/ BatchDone \/ TakeNext
     \/ SendReminder \/ SendFails \/ SendOnClosedProducer
     \/ MarkSent \/ MarkRefused \/ MarkFails
  /\ UNCHANGED <<goVars, connVars, stopVars, lives>>

-----------------------------------------------------------------------------
\* The server, the end of the process, and its next start

ServeCalls ==
  /\ Alive
  /\ \/ \E c \in Calls : Accept(c) \/ CallStep(c)
     \/ Drained
  /\ UNCHANGED <<main, goVars, connVars, stopVars, handVars, tableVars, lives,
                 faults>>

\* At any time: SIGKILL, a panic, a signal before NotifyContext.
Kill ==
  /\ Alive
  /\ EndProcess("killed")
  /\ UNCHANGED <<goVars, connVars, stopVars, tableVars, lives, faults>>

Boot ==
  /\ ~Alive
  /\ lives < MaxLives
  /\ lives' = lives + 1
  /\ main' = "repo" /\ server' = "new"
  /\ signaled' = FALSE /\ served' = FALSE
  /\ stopper' = "off" /\ outboxCancel' = "nil" /\ canceled' = FALSE
  /\ client' = "none" /\ producer' = "none" /\ repo' = "none"
  /\ UNCHANGED <<call, inFlight, escaped, handVars, tableVars, faults>>

\* The process ended for the last time of the model.
SystemOff ==
  /\ ~Alive
  /\ lives = MaxLives
  /\ UNCHANGED lifecycleVars

MainFails == ServeFails /\ UNCHANGED <<tableVars, lives, faults>>

SignalArrives == Signal /\ UNCHANGED <<tableVars, lives, faults>>

LifecycleNext ==
  \/ MainStep \/ MainFails
  \/ SignalArrives \/ StopStep
  \/ WorkerStep
  \/ ServeCalls
  \/ Kill \/ Boot \/ SystemOff

LifecycleSpec == LifecycleInit /\ [][LifecycleNext]_lifecycleVars

\* The goroutines run, and the handlers end: GracefulStop has no time limit and
\* the handlers have none of their own. Nothing is assumed of the worker, of
\* Accept, which stands for the clients, or of what fails.
LifecycleFairness ==
  /\ WF_lifecycleVars(MainStep)
  /\ WF_lifecycleVars(StopStep)
  /\ WF_lifecycleVars(ServeCalls /\ Drained)
  /\ \A c \in Calls : WF_lifecycleVars(ServeCalls /\ CallStep(c))

LifecycleFairSpec == LifecycleSpec /\ LifecycleFairness

-----------------------------------------------------------------------------
\* Properties

\* Stop closes nothing under a call: while a handler runs, the connections it
\* may use are open.
CallsUseOpenConnections ==
  (\E c \in Calls : call[c] = "handler") =>
    client = "open" /\ repo = "open" /\ producer # "closed"

\* Stop closes the producer and the pool only when the worker has ended, unless
\* the signal came before Serve: outboxCancel may then be read too early.
WorkerUsesOpenConnections ==
  worker \in {"list", "next", "send", "mark"} /\ served =>
    producer = "open" /\ repo = "open"

\* When main returns because it was told to stop, every call has its answer.
ReturnCutsNoCall == main = "return" => \A c \in Calls : call[c] \notin CallRunning

\* The reminders that Kafka has twice, with those it has and the table does not
\* know of and that will be sent again, are no more than the failures and the
\* starts of the process: an orderly stop, which cancels the worker between
\* sending and marking, costs one reminder, not the rest of the batch.
CopiesBounded == copies + Cardinality(delivered \ sent) <= lives + faults

\* Whoever waits in a process that was told to stop waits for somebody who will
\* answer: main in Serve for a Stop that is to come or has reached the server,
\* GracefulStop for a server that drains, which serves the calls on their way and
\* is then through, or has stopped, Stop for a worker that exists and whose context
\* is canceled, and the worker for connections it has.
WaitsAreAnswered ==
  /\ main = "serving" /\ signaled => stopper = "wait" \/ server # "serving"
  /\ Alive /\ stopper = "grpc" => server \in {"draining", "stopped"}
  /\ Alive /\ stopper = "await" => worker # "off" /\ canceled
  /\ worker # "off" => producer # "none" /\ repo # "none"

\* A signal ends the process, however far it has come in starting and even if
\* Stop gives up.
SignalEndsProcess == signaled ~> ~Alive

\* What the messages of Stop and of the goroutine that calls it, "application
\* stopped" or an error, take for granted: main returns when Stop has ended.
ReturnAfterStop == main = "returned" => stopper \in {"stopped", "failed"}
=============================================================================
