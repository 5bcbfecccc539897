--------------------------- MODULE LifecycleProofs ---------------------------
(***************************************************************************)
(* Proofs that Lifecycle keeps the safety properties it states, for every  *)
(* set of calls and reminders and any number of starts and failures. The   *)
(* argument is the inductive invariant LifecycleInv, part by part.         *)
(***************************************************************************)
EXTENDS LifecycleInvariant, FiniteSetTheorems, TLAPS

-----------------------------------------------------------------------------
\* Sets of calls and of reminders

\* A finite set with one element more, or one less.
LEMMA OneMore ==
  ASSUME NEW S, IsFiniteSet(S), NEW x, x \notin S
  PROVE  Cardinality(S \cup {x}) = Cardinality(S) + 1
  BY FS_AddElement

LEMMA OneLess ==
  ASSUME NEW S, IsFiniteSet(S), NEW x \in S
  PROVE  Cardinality(S \ {x}) = Cardinality(S) - 1
  BY FS_RemoveElement

\* The calls that the gauge counts.
Counted == {c \in Calls : call[c] \in InChain}

LEMMA CountedFinite == IsFiniteSet(Counted) /\ Cardinality(Counted) \in Nat
<1>1. Counted \subseteq Calls
  BY DEF Counted
<1> QED
  BY <1>1, GrpcAssumption, FS_Subset, FS_CardinalityType

LEMMA CountedFiniteNext == IsFiniteSet(Counted') /\ Cardinality(Counted') \in Nat
<1>1. Counted' \subseteq Calls
  BY DEF Counted
<1> QED
  BY <1>1, GrpcAssumption, FS_Subset, FS_CardinalityType

\* The reminders that Kafka has and the table does not know of.
LEMMA UnknownFinite ==
  ASSUME LifecycleTypeOK
  PROVE  IsFiniteSet(delivered \ sent) /\ Cardinality(delivered \ sent) \in Nat
  BY LifecycleAssumption, FS_Subset, FS_CardinalityType DEF LifecycleTypeOK

LEMMA UnknownFiniteNext ==
  ASSUME LifecycleTypeOK'
  PROVE  IsFiniteSet((delivered \ sent)') /\ Cardinality((delivered \ sent)') \in Nat
<1>1. (delivered \ sent)' \subseteq Reminders
  BY DEF LifecycleTypeOK
<1> QED
  BY <1>1, LifecycleAssumption, FS_Subset, FS_CardinalityType

-----------------------------------------------------------------------------
\* The initial states

LEMMA InitInv == LifecycleInit => LifecycleInv
<1> SUFFICES ASSUME LifecycleInit PROVE LifecycleInv
  OBVIOUS
<1>1. LifecycleTypeOK
  <2>1. GrpcTypeOK
    BY DEF LifecycleInit, GrpcInit, GrpcTypeOK
  <2>2. lives \in 1..MaxLives /\ faults \in 0..MaxFaults /\ copies \in Nat
    BY LifecycleAssumption DEF LifecycleInit
  <2>3. sent \in SUBSET Reminders /\ delivered \in SUBSET Reminders /\ batch \in SUBSET Reminders
    BY DEF LifecycleInit
  <2> QED
    BY <2>1, <2>2, <2>3 DEF LifecycleInit, LifecycleTypeOK, Starting
<1>2. ServerInv /\ ConnInv /\ WorkerInv /\ AwaitInv /\ HandInv
  BY LifecycleAssumption
  DEF LifecycleInit, GrpcInit, ServerInv, ConnInv, WorkerInv, AwaitInv, HandInv, Starting, Running,
      Opened, BeforeClosing
<1>3. CallInv
  <2>1. {c \in Calls : call[c] \in InChain} = {}
    BY DEF LifecycleInit, GrpcInit, InChain, Outcomes
  <2> QED
    BY <2>1, FS_EmptySet
    DEF LifecycleInit, GrpcInit, CallInv, FailuresContained, CallRunning, InChain, Outcomes
<1>4. CopyInv
  <2>1. delivered \ sent = {}
    BY DEF LifecycleInit
  <2> QED
    BY <2>1, FS_EmptySet DEF LifecycleInit, CopyInv
<1> QED
  BY <1>1, <1>2, <1>3, <1>4 DEF LifecycleInv

-----------------------------------------------------------------------------
\* The server

LEMMA ServerStep == LifecycleInv /\ [LifecycleNext]_lifecycleVars => ServerInv'
<1> SUFFICES ASSUME LifecycleInv, [LifecycleNext]_lifecycleVars
             PROVE  ServerInv'
  OBVIOUS
<1> USE DEF ServerInv, Starting, Running, Ended, Alive, GoMain, GoStop, EndProcess, ServerDies
<1>1. ServerInv
  BY DEF LifecycleInv
<1>2. CASE MainStep
  BY <1>1, <1>2
  DEF MainStep, NewApp, NewRepository, NewResourceClient, InitProducer, NotifyContext,
      StartWorker, Listen, Serve, ServeReturns, MainReturns, grpcVars, stopVars
<1>3. CASE MainFails \/ SignalArrives
  BY <1>1, <1>3 DEF MainFails, ServeFails, SignalArrives, Signal, grpcVars, stopVars
<1>4. CASE StopStep
  BY <1>1, <1>4
  DEF StopStep, StopGRPC, BeginGracefulStop, GracefulStopReturns, CloseResourceClient,
      StopOutbox, OutboxDone, CloseProducer, CloseRepo, StopMetrics, grpcVars
<1>5. CASE WorkerStep
  BY <1>1, <1>5
  DEF WorkerStep, Tick, WorkerReturns, ListDue, ListFails, BatchDone, TakeNext,
      SendReminder, SendFails, SendOnClosedProducer, MarkSent, MarkRefused, MarkFails,
      grpcVars, stopVars
<1>6. CASE ServeCalls
  BY <1>1, <1>6
  DEF ServeCalls, Accept, CallStep, EnterChain, HandlerEnds, LeaveChain, Drained, stopVars
<1>7. CASE Kill \/ Boot
  BY <1>1, <1>7 DEF Kill, Boot, stopVars
<1>8. CASE SystemOff \/ UNCHANGED lifecycleVars
  BY <1>1, <1>8 DEF SystemOff, lifecycleVars, grpcVars, stopVars
<1> QED
  BY <1>2, <1>3, <1>4, <1>5, <1>6, <1>7, <1>8 DEF LifecycleNext

-----------------------------------------------------------------------------
\* The calls and the gauge

\* Whichever way the handler ends, the chain gives the count back and leaves no
\* panic and no failure that is not logged.
LEMMA ChainUnwinds ==
  ASSUME NEW how \in Outcomes, inFlight \in Nat
  PROVE  /\ Unwound(how).gauge = inFlight - 1
         /\ Unwound(how).how # "panicking"
         /\ how # "returning" => Unwound(how).logged
<1> DEFINE start == [how |-> how, gauge |-> inFlight, logged |-> FALSE]
           end == IF how = "returning" THEN "returning" ELSE "failing"
<1>1. Leave("recovery", start) = [how |-> end, gauge |-> inFlight, logged |-> FALSE]
  BY DEF Leave, Deferred, Outcomes
<1>2. Leave("logging", Leave("recovery", start))
        = [how |-> end, gauge |-> inFlight, logged |-> (how # "returning")]
  BY <1>1 DEF Leave, Deferred
<1>3. Leave("inFlight", Leave("logging", Leave("recovery", start)))
        = [how |-> end, gauge |-> inFlight - 1, logged |-> (how # "returning")]
  BY <1>2 DEF Leave, Deferred
<1>4. Unwound(how) = Leave("inFlight", Leave("logging", Leave("recovery", start)))
  BY DEF Unwound, Chain
<1>5. Unwound(how) = [how |-> end, gauge |-> inFlight - 1, logged |-> (how # "returning")]
  BY <1>3, <1>4
<1>6. end # "panicking"
  OBVIOUS
<1> HIDE DEF end
<1>7. /\ Unwound(how).gauge = inFlight - 1
      /\ Unwound(how).how = end
      /\ Unwound(how).logged = (how # "returning")
  BY <1>5
<1> QED
  BY <1>6, <1>7

\* A call that goes on changes the set that the gauge counts by itself only.
LEMMA CallMoves ==
  ASSUME LifecycleTypeOK, CallInv, NEW c \in Calls, Accept(c) \/ CallStep(c)
  PROVE  /\ call' \in [Calls -> {"idle", "answered", "cut"} \cup CallRunning]
         /\ inFlight' \in Nat
         /\ FailuresContained'
         /\ (\E d \in Calls : call'[d] \in CallRunning) => server \in {"serving", "draining"}
         /\ server' = server
<1> USE DEF LifecycleTypeOK, GrpcTypeOK, CallInv, CallRunning, InChain, Outcomes, GoCall
<1>1. call' \in [Calls -> {"idle", "answered", "cut"} \cup CallRunning]
  BY DEF Accept, CallStep, EnterChain, HandlerEnds, LeaveChain
<1>2. inFlight' \in Nat /\ FailuresContained'
  <2> SUFFICES inFlight' \in Nat /\ inFlight' = Cardinality(Counted') /\ escaped' = {}
    BY DEF FailuresContained, Counted
  <2>1. inFlight = Cardinality(Counted) /\ escaped = {}
    BY DEF FailuresContained, Counted
  <2>2. CASE Accept(c) \/ HandlerEnds(c)
    <3>1. Counted' = Counted
      BY <2>2 DEF Accept, HandlerEnds, Counted
    <3> QED
      BY <2>1, <2>2, <3>1 DEF Accept, HandlerEnds
  <2>3. CASE EnterChain(c)
    <3>1. Counted' = Counted \cup {c} /\ c \notin Counted
      BY <2>3 DEF EnterChain, Counted
    <3>2. Cardinality(Counted') = Cardinality(Counted) + 1
      BY <3>1, OneMore, CountedFinite
    <3> QED
      BY <2>1, <2>3, <3>2, CountedFinite DEF EnterChain
  <2>4. CASE LeaveChain(c)
    <3>1. Counted' = Counted \ {c} /\ c \in Counted
      BY <2>4 DEF LeaveChain, Counted
    <3>2. Cardinality(Counted') = Cardinality(Counted) - 1
      BY <3>1, OneLess, CountedFinite
    <3>3. inFlight' = inFlight - 1 /\ escaped' = escaped
      BY <2>4, ChainUnwinds DEF LeaveChain
    <3> QED
      BY <2>1, <3>2, <3>3, CountedFinite, CountedFiniteNext
  <2> QED
    BY <2>2, <2>3, <2>4 DEF CallStep
<1>3. (\E d \in Calls : call'[d] \in CallRunning) => server \in {"serving", "draining"}
  BY DEF Accept, CallStep, EnterChain, HandlerEnds, LeaveChain
<1>4. server' = server
  BY DEF Accept, CallStep, EnterChain, HandlerEnds, LeaveChain
<1> QED
  BY <1>1, <1>2, <1>3, <1>4

\* A process that ends leaves no call running and nothing counted.
LEMMA ServerDiesCalls ==
  ASSUME LifecycleTypeOK, CallInv, ServerDies
  PROVE  GrpcTypeOK' /\ CallInv'
<1>1. call' \in [Calls -> {"idle", "answered", "cut"}]
  BY DEF ServerDies, LifecycleTypeOK, GrpcTypeOK, CallRunning, InChain, Outcomes
<1>2. {c \in Calls : call'[c] \in InChain} = {}
  BY <1>1 DEF InChain, Outcomes
<1>3. FailuresContained'
  BY <1>2, FS_EmptySet DEF FailuresContained, ServerDies, CallInv
<1> QED
  BY <1>1, <1>3
  DEF GrpcTypeOK, CallInv, FailuresContained, ServerDies, CallRunning, InChain, Outcomes

\* Every step leaves the calls alone, but for theirs and the end of the process.
LEMMA CallCases ==
  ASSUME LifecycleInv, [LifecycleNext]_lifecycleVars
  PROVE  \/ \E c \in Calls : Accept(c) \/ CallStep(c)
         \/ ServerDies
         \/ /\ UNCHANGED <<call, inFlight, escaped>>
            /\ server' # server =>
                 \/ server' \in {"serving", "draining"}
                 \/ server = "new" /\ server' = "stopped"
                 \/ Drained
                 \/ server' = "new" /\ server \in {"new", "stopped"}
<1> USE DEF EndProcess
<1>1. CASE MainStep
  BY <1>1
  DEF MainStep, NewApp, NewRepository, NewResourceClient, InitProducer, NotifyContext,
      StartWorker, Listen, Serve, ServeReturns, MainReturns, grpcVars
<1>2. CASE MainFails \/ SignalArrives
  BY <1>2 DEF MainFails, ServeFails, SignalArrives, Signal, grpcVars
<1>3. CASE StopStep
  <2>1. ServerInv /\ GrpcTypeOK
    BY DEF LifecycleInv, LifecycleTypeOK
  <2> QED
    BY <1>3, <2>1
    DEF StopStep, StopGRPC, BeginGracefulStop, GracefulStopReturns, CloseResourceClient,
        StopOutbox, OutboxDone, CloseProducer, CloseRepo, StopMetrics, grpcVars,
        ServerInv, GrpcTypeOK, GoStop
<1>4. CASE WorkerStep
  BY <1>4
  DEF WorkerStep, Tick, WorkerReturns, ListDue, ListFails, BatchDone, TakeNext,
      SendReminder, SendFails, SendOnClosedProducer, MarkSent, MarkRefused, MarkFails,
      grpcVars
<1>5. CASE ServeCalls
  BY <1>5 DEF ServeCalls, Drained
<1>6. CASE Kill \/ Boot
  <2>1. ServerInv /\ GrpcTypeOK
    BY DEF LifecycleInv, LifecycleTypeOK
  <2> QED
    BY <1>6, <2>1 DEF Kill, Boot, ServerInv, GrpcTypeOK, Alive, Ended
<1>7. CASE SystemOff \/ UNCHANGED lifecycleVars
  BY <1>7 DEF SystemOff, lifecycleVars, grpcVars
<1> QED
  BY <1>1, <1>2, <1>3, <1>4, <1>5, <1>6, <1>7 DEF LifecycleNext

LEMMA GrpcStep ==
  LifecycleInv /\ [LifecycleNext]_lifecycleVars => GrpcTypeOK' /\ CallInv'
<1> SUFFICES ASSUME LifecycleInv, [LifecycleNext]_lifecycleVars
             PROVE  GrpcTypeOK' /\ CallInv'
  OBVIOUS
<1>1. LifecycleTypeOK /\ CallInv /\ GrpcTypeOK
  BY DEF LifecycleInv, LifecycleTypeOK
<1>2. CASE \E c \in Calls : Accept(c) \/ CallStep(c)
  BY <1>1, <1>2, CallMoves DEF GrpcTypeOK, CallInv, FailuresContained
<1>3. CASE ServerDies
  BY <1>1, <1>3, ServerDiesCalls
<1>4. CASE /\ UNCHANGED <<call, inFlight, escaped>>
           /\ server' # server =>
                \/ server' \in {"serving", "draining"}
                \/ server = "new" /\ server' = "stopped"
                \/ Drained
                \/ server' = "new" /\ server \in {"new", "stopped"}
  <2>1. FailuresContained'
    BY <1>1, <1>4 DEF CallInv, FailuresContained
  <2>2. (\E c \in Calls : call'[c] \in CallRunning) => server' \in {"serving", "draining"}
    BY <1>1, <1>4 DEF CallInv, Drained
  <2> QED
    BY <1>1, <1>4, <2>1, <2>2 DEF GrpcTypeOK, CallInv, Drained
<1> QED
  BY <1>2, <1>3, <1>4, CallCases

-----------------------------------------------------------------------------
\* main, Stop, the connections and the worker

LEMMA StepTypes == LifecycleInv /\ [LifecycleNext]_lifecycleVars =>
  /\ main' \in Starting \cup Running \cup Ended
  /\ signaled' \in BOOLEAN /\ served' \in BOOLEAN
  /\ stopper' \in {"off", "wait", "grpc", "client", "outbox", "await", "producer",
                   "repo", "metrics", "stopped", "failed"}
  /\ outboxCancel' \in {"nil", "set"} /\ canceled' \in BOOLEAN
<1> SUFFICES ASSUME LifecycleInv, [LifecycleNext]_lifecycleVars
             PROVE
  /\ main' \in Starting \cup Running \cup Ended
  /\ signaled' \in BOOLEAN /\ served' \in BOOLEAN
  /\ stopper' \in {"off", "wait", "grpc", "client", "outbox", "await", "producer",
                   "repo", "metrics", "stopped", "failed"}
  /\ outboxCancel' \in {"nil", "set"} /\ canceled' \in BOOLEAN
  OBVIOUS
<1> USE DEF LifecycleTypeOK, Starting, Running, Ended, Alive, GoMain, GoStop, GoWorker, EndProcess
<1>1. LifecycleTypeOK
  BY DEF LifecycleInv
<1>2. CASE MainStep
  <2>1. CASE NewApp
    BY <1>1, <1>2, <2>1
    DEF MainStep, NewApp, NewRepository, NewResourceClient, InitProducer, grpcVars, goVars,
        stopVars, handVars
  <2>2. CASE NotifyContext \/ StartWorker
    BY <1>1, <1>2, <2>2
    DEF MainStep, NotifyContext, StartWorker, grpcVars, goVars, connVars, handVars
  <2>3. CASE Listen \/ MainReturns
    BY <1>1, <1>2, <2>3
    DEF MainStep, Listen, MainReturns, grpcVars, goVars, stopVars, connVars, handVars
  <2>4. CASE Serve \/ ServeReturns
    BY <1>1, <1>2, <2>4
    DEF MainStep, Serve, ServeReturns, grpcVars, goVars, stopVars, connVars, handVars
  <2> QED
    BY <1>2, <2>1, <2>2, <2>3, <2>4 DEF MainStep
<1>3. CASE MainFails \/ SignalArrives
  <2>1. CASE MainFails
    BY <1>1, <2>1 DEF MainFails, ServeFails, goVars, stopVars, connVars
  <2>2. CASE SignalArrives
    BY <1>1, <2>2 DEF SignalArrives, Signal, stopVars, connVars
  <2> QED
    BY <1>3, <2>1, <2>2
<1>4. CASE StopStep
  BY <1>1, <1>4
  DEF StopStep, StopGRPC, BeginGracefulStop, GracefulStopReturns, CloseResourceClient,
      StopOutbox, OutboxDone, CloseProducer, CloseRepo, StopMetrics, grpcVars, goVars,
      connVars, handVars, tableVars
<1>5. CASE WorkerStep
  BY <1>1, <1>5
  DEF WorkerStep, Tick, WorkerReturns, ListDue, ListFails, BatchDone, TakeNext,
      SendReminder, SendFails, SendOnClosedProducer, MarkSent, MarkRefused, MarkFails,
      DropHand, Deliver, grpcVars, goVars, stopVars, connVars, tableVars
<1>6. CASE ServeCalls
  BY <1>1, <1>6 DEF ServeCalls, goVars, stopVars, connVars, handVars, tableVars
<1>7. CASE Kill \/ Boot
  BY <1>1, <1>7 DEF Kill, Boot, goVars, stopVars, connVars, handVars, tableVars
<1>8. CASE SystemOff \/ UNCHANGED lifecycleVars
  BY <1>1, <1>8 DEF SystemOff, lifecycleVars, grpcVars, goVars, stopVars, connVars, handVars, tableVars
<1> QED
  BY <1>2, <1>3, <1>4, <1>5, <1>6, <1>7, <1>8 DEF LifecycleNext

LEMMA ConnTypes == LifecycleInv /\ [LifecycleNext]_lifecycleVars =>
  /\ client' \in {"none", "open", "closed"}
  /\ producer' \in {"none", "open", "closed"}
  /\ repo' \in {"none", "open", "closed"}
<1> SUFFICES ASSUME LifecycleInv, [LifecycleNext]_lifecycleVars
             PROVE
  /\ client' \in {"none", "open", "closed"}
  /\ producer' \in {"none", "open", "closed"}
  /\ repo' \in {"none", "open", "closed"}
  OBVIOUS
<1> USE DEF LifecycleTypeOK, Starting, Running, Ended, Alive, GoMain, GoStop, GoWorker, EndProcess
<1>1. LifecycleTypeOK
  BY DEF LifecycleInv
<1>2. CASE MainStep
  BY <1>1, <1>2
  DEF MainStep, NewApp, NewRepository, NewResourceClient, InitProducer, NotifyContext,
      StartWorker, Listen, Serve, ServeReturns, MainReturns, grpcVars, goVars, stopVars,
      connVars, handVars, tableVars
<1>3. CASE MainFails \/ SignalArrives
  BY <1>1, <1>3
  DEF MainFails, ServeFails, SignalArrives, Signal, grpcVars, goVars, stopVars, connVars,
      handVars, tableVars
<1>4. CASE StopStep
  BY <1>1, <1>4
  DEF StopStep, StopGRPC, BeginGracefulStop, GracefulStopReturns, CloseResourceClient,
      StopOutbox, OutboxDone, CloseProducer, CloseRepo, StopMetrics, grpcVars, goVars,
      connVars, handVars, tableVars
<1>5. CASE WorkerStep
  BY <1>1, <1>5
  DEF WorkerStep, Tick, WorkerReturns, ListDue, ListFails, BatchDone, TakeNext,
      SendReminder, SendFails, SendOnClosedProducer, MarkSent, MarkRefused, MarkFails,
      DropHand, Deliver, grpcVars, goVars, stopVars, connVars, tableVars
<1>6. CASE ServeCalls
  BY <1>1, <1>6 DEF ServeCalls, goVars, stopVars, connVars, handVars, tableVars
<1>7. CASE Kill \/ Boot
  BY <1>1, <1>7 DEF Kill, Boot, goVars, stopVars, connVars, handVars, tableVars
<1>8. CASE SystemOff \/ UNCHANGED lifecycleVars
  BY <1>1, <1>8 DEF SystemOff, lifecycleVars, grpcVars, goVars, stopVars, connVars, handVars, tableVars
<1> QED
  BY <1>2, <1>3, <1>4, <1>5, <1>6, <1>7, <1>8 DEF LifecycleNext

LEMMA HandTypes == LifecycleInv /\ [LifecycleNext]_lifecycleVars =>
  /\ worker' \in {"off", "wait", "list", "next", "send", "mark", "done"}
  /\ batch' \in SUBSET Reminders
  /\ hand' \in Reminders \cup {NoReminder}
  /\ (hand' = NoReminder) <=> (worker' \notin {"send", "mark"})
<1> SUFFICES ASSUME LifecycleInv, [LifecycleNext]_lifecycleVars
             PROVE
  /\ worker' \in {"off", "wait", "list", "next", "send", "mark", "done"}
  /\ batch' \in SUBSET Reminders
  /\ hand' \in Reminders \cup {NoReminder}
  /\ (hand' = NoReminder) <=> (worker' \notin {"send", "mark"})
  OBVIOUS
<1> USE LifecycleAssumption DEF LifecycleTypeOK, WorkerInv, Starting, Running, Ended, Alive, GoMain, GoStop, GoWorker, EndProcess
<1>1. LifecycleTypeOK /\ WorkerInv
  BY DEF LifecycleInv
<1>2. CASE MainStep
  <2>1. CASE NewApp
    BY <1>1, <1>2, <2>1
    DEF MainStep, NewApp, NewRepository, NewResourceClient, InitProducer, grpcVars, goVars,
        stopVars, handVars
  <2>2. CASE NotifyContext \/ StartWorker
    BY <1>1, <1>2, <2>2
    DEF MainStep, NotifyContext, StartWorker, grpcVars, goVars, connVars, handVars
  <2>3. CASE Listen \/ MainReturns
    BY <1>1, <1>2, <2>3
    DEF MainStep, Listen, MainReturns, grpcVars, goVars, stopVars, connVars, handVars
  <2>4. CASE Serve \/ ServeReturns
    BY <1>1, <1>2, <2>4
    DEF MainStep, Serve, ServeReturns, grpcVars, goVars, stopVars, connVars, handVars
  <2> QED
    BY <1>2, <2>1, <2>2, <2>3, <2>4 DEF MainStep
<1>3. CASE MainFails \/ SignalArrives
  BY <1>1, <1>3
  DEF MainFails, ServeFails, SignalArrives, Signal, grpcVars, goVars, stopVars, connVars,
      handVars, tableVars
<1>4. CASE StopStep
  BY <1>1, <1>4
  DEF StopStep, StopGRPC, BeginGracefulStop, GracefulStopReturns, CloseResourceClient,
      StopOutbox, OutboxDone, CloseProducer, CloseRepo, StopMetrics, grpcVars, goVars,
      connVars, handVars, tableVars
<1>5. CASE WorkerStep
  BY <1>1, <1>5
  DEF WorkerStep, Tick, WorkerReturns, ListDue, ListFails, BatchDone, TakeNext,
      SendReminder, SendFails, SendOnClosedProducer, MarkSent, MarkRefused, MarkFails,
      DropHand, Deliver, grpcVars, goVars, stopVars, connVars, tableVars
<1>6. CASE ServeCalls
  BY <1>1, <1>6 DEF ServeCalls, goVars, stopVars, connVars, handVars, tableVars
<1>7. CASE Kill \/ Boot
  BY <1>1, <1>7 DEF Kill, Boot, goVars, stopVars, connVars, handVars, tableVars
<1>8. CASE SystemOff \/ UNCHANGED lifecycleVars
  BY <1>1, <1>8 DEF SystemOff, lifecycleVars, grpcVars, goVars, stopVars, connVars, handVars, tableVars
<1> QED
  BY <1>2, <1>3, <1>4, <1>5, <1>6, <1>7, <1>8 DEF LifecycleNext

LEMMA TableTypes == LifecycleInv /\ [LifecycleNext]_lifecycleVars =>
  /\ sent' \in SUBSET Reminders /\ delivered' \in SUBSET Reminders
  /\ copies' \in Nat
  /\ lives' \in 1..MaxLives /\ faults' \in 0..MaxFaults
<1> SUFFICES ASSUME LifecycleInv, [LifecycleNext]_lifecycleVars
             PROVE
  /\ sent' \in SUBSET Reminders /\ delivered' \in SUBSET Reminders
  /\ copies' \in Nat
  /\ lives' \in 1..MaxLives /\ faults' \in 0..MaxFaults
  OBVIOUS
<1> USE LifecycleAssumption DEF LifecycleTypeOK, Starting, Running, Ended, Alive, GoMain, GoStop, GoWorker, EndProcess
<1>1. LifecycleTypeOK
  BY DEF LifecycleInv
<1>2. CASE MainStep
  BY <1>1, <1>2
  DEF MainStep, NewApp, NewRepository, NewResourceClient, InitProducer, NotifyContext,
      StartWorker, Listen, Serve, ServeReturns, MainReturns, grpcVars, goVars, stopVars,
      connVars, handVars, tableVars
<1>3. CASE MainFails \/ SignalArrives
  BY <1>1, <1>3
  DEF MainFails, ServeFails, SignalArrives, Signal, grpcVars, goVars, stopVars, connVars,
      handVars, tableVars
<1>4. CASE StopStep
  BY <1>1, <1>4
  DEF StopStep, StopGRPC, BeginGracefulStop, GracefulStopReturns, CloseResourceClient,
      StopOutbox, OutboxDone, CloseProducer, CloseRepo, StopMetrics, grpcVars, goVars,
      connVars, handVars, tableVars
<1>5. CASE WorkerStep
  BY <1>1, <1>5
  DEF WorkerStep, Tick, WorkerReturns, ListDue, ListFails, BatchDone, TakeNext,
      SendReminder, SendFails, SendOnClosedProducer, MarkSent, MarkRefused, MarkFails,
      DropHand, Deliver, grpcVars, goVars, stopVars, connVars, tableVars
<1>6. CASE ServeCalls
  BY <1>1, <1>6 DEF ServeCalls, goVars, stopVars, connVars, handVars, tableVars
<1>7. CASE Kill \/ Boot
  BY <1>1, <1>7 DEF Kill, Boot, goVars, stopVars, connVars, handVars, tableVars
<1>8. CASE SystemOff \/ UNCHANGED lifecycleVars
  BY <1>1, <1>8 DEF SystemOff, lifecycleVars, grpcVars, goVars, stopVars, connVars, handVars, tableVars
<1> QED
  BY <1>2, <1>3, <1>4, <1>5, <1>6, <1>7, <1>8 DEF LifecycleNext

LEMMA ConnStep == LifecycleInv /\ [LifecycleNext]_lifecycleVars => ConnInv'
<1> SUFFICES ASSUME LifecycleInv, [LifecycleNext]_lifecycleVars
             PROVE  ConnInv'
  OBVIOUS
<1> USE DEF LifecycleTypeOK, ServerInv, ConnInv, Opened, BeforeClosing, Starting, Running, Ended, Alive, GoMain, GoStop, GoWorker, EndProcess
<1>1. LifecycleTypeOK /\ ServerInv /\ ConnInv
  BY DEF LifecycleInv
<1>2. CASE MainStep
  <2>1. CASE NewApp
    BY <1>1, <1>2, <2>1
    DEF MainStep, NewApp, NewRepository, NewResourceClient, InitProducer, grpcVars, goVars,
        stopVars, handVars
  <2>2. CASE NotifyContext \/ StartWorker
    BY <1>1, <1>2, <2>2
    DEF MainStep, NotifyContext, StartWorker, grpcVars, goVars, connVars, handVars
  <2>3. CASE Listen \/ MainReturns
    BY <1>1, <1>2, <2>3
    DEF MainStep, Listen, MainReturns, grpcVars, goVars, stopVars, connVars, handVars
  <2>4. CASE Serve \/ ServeReturns
    BY <1>1, <1>2, <2>4
    DEF MainStep, Serve, ServeReturns, grpcVars, goVars, stopVars, connVars, handVars
  <2> QED
    BY <1>2, <2>1, <2>2, <2>3, <2>4 DEF MainStep
<1>3. CASE MainFails \/ SignalArrives
  BY <1>1, <1>3
  DEF MainFails, ServeFails, SignalArrives, Signal, grpcVars, goVars, stopVars, connVars,
      handVars, tableVars
<1>4. CASE StopStep
  <2>1. CASE StopGRPC \/ GracefulStopReturns \/ CloseResourceClient
    BY <1>1, <1>4, <2>1
    DEF StopStep, StopGRPC, BeginGracefulStop, GracefulStopReturns, CloseResourceClient,
        grpcVars, connVars
  <2>2. CASE StopOutbox \/ OutboxDone
    BY <1>1, <1>4, <2>2 DEF StopStep, StopOutbox, OutboxDone, grpcVars, connVars
  <2>3. CASE CloseProducer \/ CloseRepo \/ StopMetrics
    BY <1>1, <1>4, <2>3 DEF StopStep, CloseProducer, CloseRepo, StopMetrics, grpcVars, connVars
  <2> QED
    BY <1>4, <2>1, <2>2, <2>3 DEF StopStep
<1>5. CASE WorkerStep
  BY <1>1, <1>5
  DEF WorkerStep, Tick, WorkerReturns, ListDue, ListFails, BatchDone, TakeNext,
      SendReminder, SendFails, SendOnClosedProducer, MarkSent, MarkRefused, MarkFails,
      DropHand, Deliver, grpcVars, goVars, stopVars, connVars, tableVars
<1>6. CASE ServeCalls
  BY <1>1, <1>6 DEF ServeCalls, goVars, stopVars, connVars, handVars, tableVars
<1>7. CASE Kill \/ Boot
  BY <1>1, <1>7 DEF Kill, Boot, goVars, stopVars, connVars, handVars, tableVars
<1>8. CASE SystemOff \/ UNCHANGED lifecycleVars
  BY <1>1, <1>8 DEF SystemOff, lifecycleVars, grpcVars, goVars, stopVars, connVars, handVars, tableVars
<1> QED
  BY <1>2, <1>3, <1>4, <1>5, <1>6, <1>7, <1>8 DEF LifecycleNext

LEMMA WorkerInvStep == LifecycleInv /\ [LifecycleNext]_lifecycleVars => WorkerInv'
<1> SUFFICES ASSUME LifecycleInv, [LifecycleNext]_lifecycleVars
             PROVE  WorkerInv'
  OBVIOUS
<1> USE DEF LifecycleTypeOK, ServerInv, ConnInv, WorkerInv, Opened, BeforeClosing, Starting, Running, Ended, Alive, GoMain, GoStop, GoWorker, EndProcess
<1>1. LifecycleTypeOK /\ ServerInv /\ ConnInv /\ WorkerInv
  BY DEF LifecycleInv
<1>2. CASE MainStep
  BY <1>1, <1>2
  DEF MainStep, NewApp, NewRepository, NewResourceClient, InitProducer, NotifyContext,
      StartWorker, Listen, Serve, ServeReturns, MainReturns, grpcVars, goVars, stopVars,
      connVars, handVars, tableVars
<1>3. CASE MainFails \/ SignalArrives
  BY <1>1, <1>3
  DEF MainFails, ServeFails, SignalArrives, Signal, grpcVars, goVars, stopVars, connVars,
      handVars, tableVars
<1>4. CASE StopStep
  BY <1>1, <1>4
  DEF StopStep, StopGRPC, BeginGracefulStop, GracefulStopReturns, CloseResourceClient,
      StopOutbox, OutboxDone, CloseProducer, CloseRepo, StopMetrics, grpcVars, goVars,
      connVars, handVars, tableVars
<1>5. CASE WorkerStep
  BY <1>1, <1>5
  DEF WorkerStep, Tick, WorkerReturns, ListDue, ListFails, BatchDone, TakeNext,
      SendReminder, SendFails, SendOnClosedProducer, MarkSent, MarkRefused, MarkFails,
      DropHand, Deliver, grpcVars, goVars, stopVars, connVars, tableVars
<1>6. CASE ServeCalls
  BY <1>1, <1>6 DEF ServeCalls, goVars, stopVars, connVars, handVars, tableVars
<1>7. CASE Kill \/ Boot
  BY <1>1, <1>7 DEF Kill, Boot, goVars, stopVars, connVars, handVars, tableVars
<1>8. CASE SystemOff \/ UNCHANGED lifecycleVars
  BY <1>1, <1>8 DEF SystemOff, lifecycleVars, grpcVars, goVars, stopVars, connVars, handVars, tableVars
<1> QED
  BY <1>2, <1>3, <1>4, <1>5, <1>6, <1>7, <1>8 DEF LifecycleNext

LEMMA AwaitStep == LifecycleInv /\ [LifecycleNext]_lifecycleVars => AwaitInv'
<1> SUFFICES ASSUME LifecycleInv, [LifecycleNext]_lifecycleVars
             PROVE  AwaitInv'
  OBVIOUS
<1> USE DEF LifecycleTypeOK, ServerInv, ConnInv, WorkerInv, AwaitInv, Opened, BeforeClosing, Starting, Running, Ended, Alive, GoMain, GoStop, GoWorker, EndProcess
<1>1. LifecycleTypeOK /\ ServerInv /\ ConnInv /\ WorkerInv /\ AwaitInv
  BY DEF LifecycleInv
<1>2. CASE MainStep
  BY <1>1, <1>2
  DEF MainStep, NewApp, NewRepository, NewResourceClient, InitProducer, NotifyContext,
      StartWorker, Listen, Serve, ServeReturns, MainReturns, grpcVars, goVars, stopVars,
      connVars, handVars, tableVars
<1>3. CASE MainFails \/ SignalArrives
  BY <1>1, <1>3
  DEF MainFails, ServeFails, SignalArrives, Signal, grpcVars, goVars, stopVars, connVars,
      handVars, tableVars
<1>4. CASE StopStep
  BY <1>1, <1>4
  DEF StopStep, StopGRPC, BeginGracefulStop, GracefulStopReturns, CloseResourceClient,
      StopOutbox, OutboxDone, CloseProducer, CloseRepo, StopMetrics, grpcVars, goVars,
      connVars, handVars, tableVars
<1>5. CASE WorkerStep
  BY <1>1, <1>5
  DEF WorkerStep, Tick, WorkerReturns, ListDue, ListFails, BatchDone, TakeNext,
      SendReminder, SendFails, SendOnClosedProducer, MarkSent, MarkRefused, MarkFails,
      DropHand, Deliver, grpcVars, goVars, stopVars, connVars, tableVars
<1>6. CASE ServeCalls
  BY <1>1, <1>6
  DEF ServeCalls, Accept, CallStep, EnterChain, HandlerEnds, LeaveChain, Drained, goVars,
      stopVars, connVars, handVars, tableVars
<1>7. CASE Kill \/ Boot
  BY <1>1, <1>7 DEF Kill, Boot, goVars, stopVars, connVars, handVars, tableVars
<1>8. CASE SystemOff \/ UNCHANGED lifecycleVars
  BY <1>1, <1>8 DEF SystemOff, lifecycleVars, grpcVars, goVars, stopVars, connVars, handVars, tableVars
<1> QED
  BY <1>2, <1>3, <1>4, <1>5, <1>6, <1>7, <1>8 DEF LifecycleNext

LEMMA HandStep == LifecycleInv /\ [LifecycleNext]_lifecycleVars => HandInv'
<1> SUFFICES ASSUME LifecycleInv, [LifecycleNext]_lifecycleVars
             PROVE  HandInv'
  OBVIOUS
<1> USE LifecycleAssumption DEF LifecycleTypeOK, HandInv, Starting, Running, Ended, Alive, GoMain, GoStop, GoWorker, EndProcess
<1>1. LifecycleTypeOK /\ HandInv
  BY DEF LifecycleInv
<1>2. CASE MainStep
  BY <1>1, <1>2
  DEF MainStep, NewApp, NewRepository, NewResourceClient, InitProducer, NotifyContext,
      StartWorker, Listen, Serve, ServeReturns, MainReturns, grpcVars, goVars, stopVars,
      connVars, handVars, tableVars
<1>3. CASE MainFails \/ SignalArrives
  BY <1>1, <1>3
  DEF MainFails, ServeFails, SignalArrives, Signal, grpcVars, goVars, stopVars, connVars,
      handVars, tableVars
<1>4. CASE StopStep
  BY <1>1, <1>4
  DEF StopStep, StopGRPC, BeginGracefulStop, GracefulStopReturns, CloseResourceClient,
      StopOutbox, OutboxDone, CloseProducer, CloseRepo, StopMetrics, grpcVars, goVars,
      connVars, handVars, tableVars
<1>5. CASE WorkerStep
  BY <1>1, <1>5
  DEF WorkerStep, Tick, WorkerReturns, ListDue, ListFails, BatchDone, TakeNext,
      SendReminder, SendFails, SendOnClosedProducer, MarkSent, MarkRefused, MarkFails,
      DropHand, Deliver, grpcVars, goVars, stopVars, connVars, tableVars
<1>6. CASE ServeCalls
  BY <1>1, <1>6 DEF ServeCalls, goVars, stopVars, connVars, handVars, tableVars
<1>7. CASE Kill \/ Boot
  BY <1>1, <1>7 DEF Kill, Boot, goVars, stopVars, connVars, handVars, tableVars
<1>8. CASE SystemOff \/ UNCHANGED lifecycleVars
  BY <1>1, <1>8 DEF SystemOff, lifecycleVars, grpcVars, goVars, stopVars, connVars, handVars, tableVars
<1> QED
  BY <1>2, <1>3, <1>4, <1>5, <1>6, <1>7, <1>8 DEF LifecycleNext

LEMMA TypeStep == LifecycleInv /\ [LifecycleNext]_lifecycleVars => LifecycleTypeOK'
  BY GrpcStep, StepTypes, ConnTypes, HandTypes, TableTypes DEF LifecycleTypeOK

-----------------------------------------------------------------------------
\* Copies and reminders that Kafka has and the table does not know of

\* What Kafka is given is a copy, or one reminder more that the table does not
\* know of.
LEMMA DeliverAddsOne ==
  ASSUME LifecycleTypeOK, LifecycleTypeOK', HandInv, hand # NoReminder, Deliver
  PROVE  copies' + Cardinality((delivered \ sent)') = copies + Cardinality(delivered \ sent) + 1
<1>1. hand \in Reminders /\ hand \notin sent /\ copies \in Nat
  BY DEF LifecycleTypeOK, HandInv
<1>2. CASE hand \in delivered
  <2>1. (delivered \ sent)' = delivered \ sent /\ copies' = copies + 1
    BY <1>1, <1>2 DEF Deliver
  <2>2. Cardinality((delivered \ sent)') = Cardinality(delivered \ sent)
    BY <2>1
  <2> QED
    BY <1>1, <2>1, <2>2, UnknownFinite
<1>3. CASE hand \notin delivered
  <2>1. (delivered \ sent)' = (delivered \ sent) \cup {hand} /\ copies' = copies
    BY <1>1, <1>3 DEF Deliver
  <2>2. Cardinality((delivered \ sent)') = Cardinality(delivered \ sent) + 1
    BY <1>3, <2>1, OneMore, UnknownFinite
  <2> QED
    BY <1>1, <2>1, <2>2, UnknownFinite
<1> QED
  BY <1>2, <1>3

\* To mark the reminder in hand takes it from them.
LEMMA MarkTakesOne ==
  ASSUME LifecycleTypeOK, HandInv, worker = "mark",
         sent' = sent \cup {hand}, UNCHANGED delivered
  PROVE  Cardinality((delivered \ sent)') = Cardinality(delivered \ sent) - 1
<1>1. hand \in delivered \ sent
  BY DEF LifecycleTypeOK, HandInv
<1>2. (delivered \ sent)' = (delivered \ sent) \ {hand}
  OBVIOUS
<1> QED
  BY <1>1, <1>2, OneLess, UnknownFinite

\* Every step but those of the worker that send and mark, and a new start,
\* leaves the tables alone and does not make a slip possible.
LEMMA CopyCases ==
  ASSUME LifecycleInv, [LifecycleNext]_lifecycleVars
  PROVE  \/ UNCHANGED <<tableVars, lives, faults>> /\ (MaySlip' => MaySlip)
         \/ WorkerStep /\ \/ SendReminder \/ SendFails
                          \/ MarkSent \/ MarkRefused \/ MarkFails
         \/ Boot
<1> USE DEF MaySlip, Alive, Starting, Running, Ended, GoMain, GoStop, GoWorker, EndProcess
<1>1. ServerInv /\ ConnInv /\ WorkerInv
  BY DEF LifecycleInv
<1>2. CASE MainStep
  <2>1. CASE NewApp
    BY <1>1, <1>2, <2>1
    DEF MainStep, NewApp, NewRepository, NewResourceClient, InitProducer, stopVars, handVars,
        ServerInv, ConnInv, BeforeClosing
  <2>2. CASE NotifyContext \/ StartWorker
    BY <1>1, <1>2, <2>2 DEF MainStep, NotifyContext, StartWorker, connVars, handVars, WorkerInv
  <2>3. CASE Listen \/ Serve \/ ServeReturns \/ MainReturns
    BY <1>2, <2>3
    DEF MainStep, Listen, Serve, ServeReturns, MainReturns, stopVars, connVars, handVars
  <2> QED
    BY <1>2, <2>1, <2>2, <2>3 DEF MainStep
<1>3. CASE MainFails \/ SignalArrives
  BY <1>3 DEF MainFails, ServeFails, SignalArrives, Signal, stopVars, connVars, handVars
<1>4. CASE StopStep
  <2>1. UNCHANGED <<main, handVars, tableVars, lives, faults>>
    BY <1>4 DEF StopStep
  <2>2. (canceled => canceled') /\ (producer = "closed" => producer' = "closed")
    BY <1>4
    DEF StopStep, StopGRPC, GracefulStopReturns, CloseResourceClient, StopOutbox,
        OutboxDone, CloseProducer, CloseRepo, StopMetrics, connVars
  <2> QED
    BY <2>1, <2>2 DEF handVars
<1>5. CASE WorkerStep
  <2>1. CASE SendOnClosedProducer
    BY <1>5, <2>1 DEF WorkerStep, SendOnClosedProducer, stopVars, connVars
  <2>2. CASE Tick \/ WorkerReturns \/ ListDue \/ ListFails \/ BatchDone \/ TakeNext
    BY <1>5, <2>2
    DEF WorkerStep, Tick, WorkerReturns, ListDue, ListFails, BatchDone, TakeNext,
        stopVars, connVars
  <2> QED
    BY <1>5, <2>1, <2>2 DEF WorkerStep
<1>6. CASE ServeCalls
  BY <1>6 DEF ServeCalls, stopVars, connVars, handVars
<1>7. CASE Kill
  BY <1>7 DEF Kill
<1>8. CASE SystemOff \/ UNCHANGED lifecycleVars
  BY <1>8 DEF SystemOff, lifecycleVars, stopVars, connVars, handVars
<1> QED
  BY <1>2, <1>3, <1>4, <1>5, <1>6, <1>7, <1>8 DEF LifecycleNext

LEMMA SumIsNat == \A a, b \in Nat : a + b \in Nat
  OBVIOUS

LEMMA CopyStep == LifecycleInv /\ [LifecycleNext]_lifecycleVars => CopyInv'
<1> SUFFICES ASSUME LifecycleInv, [LifecycleNext]_lifecycleVars
             PROVE  CopyInv'
  OBVIOUS
<1>1. LifecycleTypeOK /\ ConnInv /\ WorkerInv /\ HandInv /\ CopyInv
  BY DEF LifecycleInv
<1>2. LifecycleTypeOK'
  BY TypeStep
<1>3. PICK old \in Nat : old = copies + Cardinality(delivered \ sent)
  BY <1>1, UnknownFinite DEF LifecycleTypeOK
<1>4. PICK new \in Nat : new = copies' + Cardinality((delivered \ sent)')
  BY <1>2, UnknownFiniteNext DEF LifecycleTypeOK
<1>5. lives \in Nat /\ faults \in Nat /\ lives' \in Nat /\ faults' \in Nat
  BY <1>1, <1>2, LifecycleAssumption DEF LifecycleTypeOK
<1> PICK paid \in Nat : paid = lives + faults
  BY <1>5
<1> PICK pays \in Nat : pays = lives' + faults'
  BY <1>5, SumIsNat
<1>6. old + (IF MaySlip THEN 1 ELSE 0) <= paid
  BY <1>1, <1>3 DEF CopyInv
<1>7. SUFFICES new + (IF MaySlip' THEN 1 ELSE 0) <= pays
  BY <1>4 DEF CopyInv
<1>8. CASE UNCHANGED <<tableVars, lives, faults>> /\ (MaySlip' => MaySlip)
  <2>1. new = old
    BY <1>3, <1>4, <1>8 DEF tableVars
  <2> QED
    BY <1>5, <1>6, <1>8, <2>1
<1>9. CASE Boot
  <2>1. new = old /\ lives' = lives + 1 /\ faults' = faults
    BY <1>3, <1>4, <1>9 DEF Boot, tableVars
  <2> QED
    BY <1>5, <1>6, <2>1
<1>10. CASE WorkerStep /\ SendReminder
  <2>1. hand # NoReminder /\ Deliver
    BY <1>1, <1>10 DEF SendReminder, GoWorker, LifecycleTypeOK
  <2>2. new = old + 1
    BY <1>1, <1>2, <1>3, <1>4, <2>1, DeliverAddsOne
  <2>3. MaySlip /\ ~MaySlip' /\ lives' = lives /\ faults' = faults
    BY <1>10 DEF WorkerStep, SendReminder, GoWorker, MaySlip
  <2> QED
    BY <1>5, <1>6, <2>2, <2>3
<1>11. CASE WorkerStep /\ SendFails
  <2>1. hand # NoReminder
    BY <1>1, <1>11 DEF SendFails, GoWorker, LifecycleTypeOK
  <2>2. new <= old + 1
    <3>1. CASE Deliver
      BY <1>1, <1>2, <1>3, <1>4, <2>1, <3>1, DeliverAddsOne
    <3>2. CASE UNCHANGED tableVars
      BY <1>3, <1>4, <3>2 DEF tableVars
    <3> QED
      BY <1>11, <3>1, <3>2 DEF SendFails
  <2>3. MaySlip /\ lives' = lives /\ faults' = faults + 1
    BY <1>11 DEF WorkerStep, SendFails, GoWorker, MaySlip
  <2> QED
    BY <1>5, <1>6, <2>2, <2>3
<1>12. CASE WorkerStep /\ (MarkSent \/ MarkFails)
  <2>1. copies' = copies /\ worker = "mark"
    BY <1>12 DEF MarkSent, MarkFails, DropHand, GoWorker
  <2>2. new = old - 1 \/ (new = old /\ faults' = faults + 1)
    <3>1. CASE sent' = sent \cup {hand} /\ UNCHANGED delivered
      <4>1. Cardinality((delivered \ sent)') = Cardinality(delivered \ sent) - 1
        BY <1>1, <2>1, <3>1, MarkTakesOne
      <4>2. copies \in Nat /\ Cardinality(delivered \ sent) \in Nat
        BY <1>1, UnknownFinite DEF LifecycleTypeOK
      <4> QED
        BY <1>3, <1>4, <2>1, <4>1, <4>2
    <3>2. CASE MarkFails /\ UNCHANGED <<sent, delivered>>
      BY <1>3, <1>4, <2>1, <3>2 DEF MarkFails
    <3> QED
      BY <1>12, <3>1, <3>2 DEF MarkSent, MarkFails
  <2>3. lives' = lives /\ (faults' = faults \/ faults' = faults + 1)
    BY <1>12 DEF WorkerStep, MarkSent, MarkFails
  <2>4. ~MaySlip
    BY <2>1 DEF MaySlip
  <2>5. CASE new = old - 1
    <3>1. ASSUME faults' = faults PROVE pays = paid
      BY <1>5, <2>3, <3>1
    <3>2. ASSUME faults' = faults + 1 PROVE pays = paid + 1
      BY <1>5, <2>3, <3>2
    <3> QED
      BY <1>6, <2>3, <2>4, <2>5, <3>1, <3>2
  <2>6. CASE new = old /\ faults' = faults + 1
    <3>1. pays = paid + 1
      BY <1>5, <2>3, <2>6
    <3> QED
      BY <1>6, <2>4, <2>6, <3>1
  <2> QED
    BY <2>2, <2>5, <2>6
<1>13. CASE WorkerStep /\ MarkRefused
  <2>1. new = old /\ lives' = lives /\ faults' = faults
    BY <1>3, <1>4, <1>13 DEF WorkerStep, MarkRefused, tableVars
  <2>2. ~MaySlip'
    <3>1. canceled' = canceled /\ producer' = producer /\ worker' = "next"
      BY <1>13 DEF WorkerStep, MarkRefused, DropHand, GoWorker, stopVars, connVars
    <3>2. canceled \/ producer = "closed"
      BY <1>1, <1>13
      DEF WorkerStep, MarkRefused, DropHand, GoWorker, ConnInv, WorkerInv, LifecycleTypeOK, Opened
    <3> QED
      BY <3>1, <3>2 DEF MaySlip
  <2> QED
    BY <1>5, <1>6, <2>1, <2>2
<1> QED
  BY <1>8, <1>9, <1>10, <1>11, <1>12, <1>13, CopyCases

-----------------------------------------------------------------------------
\* The theorems

LEMMA InvStep == LifecycleInv /\ [LifecycleNext]_lifecycleVars => LifecycleInv'
  BY TypeStep, ServerStep, GrpcStep, ConnStep, WorkerInvStep, AwaitStep, HandStep, CopyStep DEF LifecycleInv

LEMMA Invariance == LifecycleSpec => []LifecycleInv
  BY InitInv, InvStep, PTL DEF LifecycleSpec

\* Every variable keeps its type.
THEOREM LifecycleTypes == LifecycleSpec => []LifecycleTypeOK
<1>1. LifecycleInv => LifecycleTypeOK
  BY DEF LifecycleInv
<1> QED
  BY <1>1, Invariance, PTL

\* No handler runs with a connection of the App closed under it: Stop closes them
\* only after GracefulStop has waited for the handlers.
THEOREM CallsAreSafe == LifecycleSpec => []CallsUseOpenConnections
<1>1. LifecycleInv => CallsUseOpenConnections
  BY DEF LifecycleInv, LifecycleTypeOK, ServerInv, CallInv, ConnInv, CallsUseOpenConnections, CallRunning,
         InChain, Alive, Ended, Running, Opened, BeforeClosing
<1> QED
  BY <1>1, Invariance, PTL

\* The worker never works with a closed producer or pool, if Serve came before
\* the signal.
THEOREM WorkerIsSafe == LifecycleSpec => []WorkerUsesOpenConnections
<1>1. LifecycleInv => WorkerUsesOpenConnections
  BY DEF LifecycleInv, LifecycleTypeOK, ConnInv, WorkerInv, WorkerUsesOpenConnections,
         Alive, Ended, Running, Opened, BeforeClosing
<1> QED
  BY <1>1, Invariance, PTL

\* main never returns from Run with a call under way.
THEOREM ReturnIsGraceful == LifecycleSpec => []ReturnCutsNoCall
<1>1. LifecycleInv => ReturnCutsNoCall
  BY DEF LifecycleInv, ServerInv, CallInv, ReturnCutsNoCall
<1> QED
  BY <1>1, Invariance, PTL

\* No goroutine of a process that was told to stop waits for what cannot come:
\* what is left between the signal and the end is that handlers end and that
\* the goroutines run.
THEOREM WaitsEnd == LifecycleSpec => []WaitsAreAnswered
<1>1. LifecycleInv => WaitsAreAnswered
  <2> SUFFICES ASSUME LifecycleInv PROVE WaitsAreAnswered
    OBVIOUS
  <2>1. /\ main = "serving" /\ signaled => stopper = "wait" \/ server # "serving"
        /\ Alive /\ stopper = "grpc" => server \in {"draining", "stopped"}
        /\ Alive /\ stopper = "await" => worker # "off" /\ canceled
    BY DEF LifecycleInv, ServerInv, AwaitInv
  <2>2. worker # "off" => producer # "none" /\ repo # "none"
    BY DEF LifecycleInv, ConnInv, WorkerInv, Opened, Running
  <2> QED
    BY <2>1, <2>2 DEF WaitsAreAnswered
<1> QED
  BY <1>1, Invariance, PTL

\* No failure and no panic of a handler gets past the interceptors.
THEOREM FailuresAreContained == LifecycleSpec => []FailuresContained
<1>1. LifecycleInv => FailuresContained
  BY DEF LifecycleInv, CallInv
<1> QED
  BY <1>1, Invariance, PTL

\* A reminder is sent again only for a failure or a start of the process: one
\* for each, however large the batches and wherever Stop meets the worker.
THEOREM CopiesAreBounded == LifecycleSpec => []CopiesBounded
<1>1. LifecycleInv => CopiesBounded
  <2> SUFFICES ASSUME LifecycleInv PROVE CopiesBounded
    OBVIOUS
  <2>1. LifecycleTypeOK /\ CopyInv
    BY DEF LifecycleInv
  <2>2. copies + Cardinality(delivered \ sent) \in Nat /\ lives \in Nat /\ faults \in Nat
    BY <2>1, UnknownFinite, LifecycleAssumption DEF LifecycleTypeOK
  <2> QED
    BY <2>1, <2>2 DEF CopyInv, CopiesBounded
<1> QED
  BY <1>1, Invariance, PTL
=============================================================================
