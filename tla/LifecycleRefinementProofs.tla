---------------------- MODULE LifecycleRefinementProofs ----------------------
(***************************************************************************)
(* The proof that the process of Lifecycle keeps ProcessContract: every    *)
(* step is one of the contract or leaves it unchanged. Serve is Open, the  *)
(* begin of GracefulStop a Close, its end a Drain, the return of main a    *)
(* Leave, and every other end of the process a Break.                      *)
(***************************************************************************)
EXTENDS LifecycleRefinement, LifecycleProofs

-----------------------------------------------------------------------------
\* The contract's view of the process

\* Outside of Serve and GracefulStop no call is running.
LEMMA NoneRunning ==
  ASSUME LifecycleInv, server \in {"new", "stopped"}
  PROVE  \A c \in Calls : call[c] \notin CallRunning
BY DEF LifecycleInv, CallInv

\* Most steps are invisible.
LEMMA Invisible ==
  ASSUME UNCHANGED <<main, server, call, sent, delivered>>
  PROVE  UNCHANGED Contract!contractVars
BY DEF Contract!contractVars, Phase, CallStatus, Alive

\* A step within the life of the process, that of a server that stays as it is.
LEMMA SamePhase ==
  ASSUME Alive, Alive', server' = server
  PROVE  Phase' = Phase
BY DEF Phase, Alive, Ended

LEMMA UpIsNotDown == Alive => Phase \notin Contract!Down
BY DEF Phase, Alive, Ended, Contract!Down

\* Every end of the process but the return of main is a Break.
LEMMA EndBreaks ==
  ASSUME LifecycleInv, Alive, NEW how \in {"exited", "killed"}, EndProcess(how),
         UNCHANGED <<sent, delivered>>
  PROVE  Contract!Break
<1>1. Phase' = "broken"
  BY DEF EndProcess, Phase, Alive, Ended
<1>2. CallStatus' = [c \in Calls |-> IF CallStatus[c] = "running" THEN "cut" ELSE CallStatus[c]]
  BY DEF EndProcess, ServerDies, CallStatus, CallRunning, InChain, Outcomes, LifecycleInv, LifecycleTypeOK, GrpcTypeOK
<1> QED BY <1>1, <1>2, UpIsNotDown DEF Contract!Break

-----------------------------------------------------------------------------
\* The steps of main

LEMMA MainImplements ==
  ASSUME LifecycleInv, MainStep
  PROVE  Contract!Next \/ UNCHANGED Contract!contractVars
<1>1. ServerInv /\ LifecycleTypeOK
  BY DEF LifecycleInv
<1>2. UNCHANGED <<sent, delivered>>
  BY DEF MainStep, tableVars
<1>3. CASE NewApp
  <2>1. /\ main \in Starting /\ server = "new"
        /\ UNCHANGED <<server, call>>
        /\ main' \in Starting \cup {"exited"}
    BY <1>1, <1>3 DEF NewApp, NewRepository, NewResourceClient, InitProducer, GoMain, ServerInv,
       Starting, grpcVars
  <2>2. CASE main' \in Starting
    BY <1>2, <2>1, <2>2 DEF Contract!contractVars, Phase, CallStatus, Alive, Ended, Starting
  <2>3. CASE main' = "exited"
    <3>1. Phase = "starting" /\ Phase' = "broken"
      BY <2>1, <2>3 DEF Phase, Alive, Ended, Starting
    <3>2. \A c \in Calls : call[c] \in {"idle", "answered", "cut"}
      <4>1. server \in {"new", "stopped"}
        BY <2>1
      <4>2. \A c \in Calls : call[c] \notin CallRunning
        BY <4>1, NoneRunning
      <4> QED BY <1>1, <4>2 DEF LifecycleTypeOK, GrpcTypeOK
    <3>3. \A c \in Calls : CallStatus[c] # "running"
      BY <3>2 DEF CallStatus, CallRunning, InChain, Outcomes
    <3>4. CallStatus' = [c \in Calls |-> IF CallStatus[c] = "running" THEN "cut" ELSE CallStatus[c]]
      BY <2>1, <3>3 DEF CallStatus
    <3> QED BY <1>2, <3>1, <3>4 DEF Contract!Next, Contract!Break, Contract!Down
  <2> QED BY <2>1, <2>2, <2>3
<1>4. CASE NotifyContext \/ StartWorker \/ ServeReturns
  <2>1. Alive /\ Alive' /\ UNCHANGED <<server, call>>
    BY <1>4 DEF NotifyContext, StartWorker, ServeReturns, GoMain, Alive, Ended, grpcVars
  <2> QED BY <1>2, <2>1, SamePhase DEF Contract!contractVars, CallStatus
<1>5. CASE Listen
  <2>1. Alive
    BY <1>5 DEF Listen, GoMain, Alive, Ended
  <2>2. CASE EndProcess("exited")
    BY <1>2, <2>1, <2>2, EndBreaks DEF Contract!Next
  <2>3. CASE ~EndProcess("exited")
    <3>1. Alive' /\ UNCHANGED <<server, call>>
      BY <1>5, <2>3 DEF Listen, GoMain, Alive, Ended, grpcVars
    <3> QED BY <1>2, <2>1, <3>1, SamePhase DEF Contract!contractVars, CallStatus
  <2> QED BY <2>2, <2>3
<1>6. CASE Serve
  <2>1. Alive /\ Alive' /\ UNCHANGED call
    BY <1>6 DEF Serve, GoMain, Alive, Ended
  <2>2. CASE server = "new"
    <3>1. Phase = "starting" /\ Phase' = "open"
      BY <1>6, <2>1, <2>2 DEF Serve, GoMain, Phase, Alive, Ended
    <3> QED BY <1>2, <2>1, <3>1 DEF Contract!Next, Contract!Open, CallStatus
  <2>3. CASE server # "new"
    <3>1. server' = server
      BY <1>6, <2>3 DEF Serve
    <3> QED BY <1>2, <2>1, <3>1, SamePhase DEF Contract!contractVars, CallStatus
  <2> QED BY <2>2, <2>3
<1>7. CASE MainReturns
  <2>1. server = "stopped" /\ Alive
    BY <1>1, <1>7 DEF MainReturns, ServerInv, Alive, Ended
  <2>2. Phase = "drained" /\ Phase' = "left"
    BY <1>7, <2>1 DEF MainReturns, EndProcess, Phase, Alive, Ended
  <2>3. CallStatus' = CallStatus
    BY <1>1, <1>7, <2>1, NoneRunning
    DEF MainReturns, EndProcess, ServerDies, CallStatus, LifecycleTypeOK, GrpcTypeOK
  <2> QED BY <1>2, <2>2, <2>3 DEF Contract!Next, Contract!Leave
<1> QED BY <1>3, <1>4, <1>5, <1>6, <1>7 DEF MainStep

-----------------------------------------------------------------------------
\* The steps of Stop, of the worker and of the calls

LEMMA StopImplements ==
  ASSUME LifecycleInv, StopStep
  PROVE  Contract!Next \/ UNCHANGED Contract!contractVars
<1>1. Alive /\ Alive' /\ UNCHANGED <<main, sent, delivered>>
  BY DEF StopStep, tableVars, Alive
<1>2. CASE StopGRPC
  <2>1. server' = (IF server = "serving" THEN "draining" ELSE "stopped") /\ UNCHANGED call
    BY <1>2 DEF StopGRPC, BeginGracefulStop
  <2>2. server # "draining" /\ server \in {"new", "serving", "draining", "stopped"}
    BY <1>2 DEF StopGRPC, GoStop, LifecycleInv, ServerInv, LifecycleTypeOK, GrpcTypeOK
  <2>3. CallStatus' = CallStatus
    BY <2>1 DEF CallStatus
  <2>4. CASE server = "stopped"
    BY <1>1, <2>1, <2>3, <2>4, SamePhase DEF Contract!contractVars
  <2>5. CASE server # "stopped"
    <3>1. \/ Phase = "starting" /\ Phase' = "drained"
          \/ Phase = "open" /\ Phase' = "draining"
      BY <1>1, <2>1, <2>2, <2>5 DEF Phase, Alive, Ended
    <3> QED BY <1>1, <2>3, <3>1 DEF Contract!Next, Contract!Close
  <2> QED BY <2>4, <2>5
<1>3. CASE ~StopGRPC
  <2>1. UNCHANGED <<server, call>>
    BY <1>3 DEF StopStep, GracefulStopReturns, CloseResourceClient, StopOutbox, OutboxDone,
       CloseProducer, CloseRepo, StopMetrics, grpcVars
  <2> QED BY <1>1, <2>1, Invisible
<1> QED BY <1>2, <1>3

\* Kafka gets the reminder in hand, which is not marked.
LEMMA DeliverSends ==
  ASSUME LifecycleInv, Alive, worker = "send", Deliver, UNCHANGED <<main, server, call>>
  PROVE  Contract!Send(hand) /\ hand \in Reminders
<1>1. hand \in Reminders /\ hand \notin sent
  BY DEF LifecycleInv, LifecycleTypeOK, HandInv
<1>2. UNCHANGED <<Phase, CallStatus, sent>>
  BY DEF Phase, CallStatus, Alive, Deliver
<1> QED BY <1>1, <1>2, UpIsNotDown DEF Deliver, Contract!Send

LEMMA HandMarks ==
  ASSUME LifecycleInv, Alive, worker = "mark", sent' = sent \cup {hand},
         UNCHANGED <<main, server, call, delivered>>
  PROVE  Contract!Mark(hand) /\ hand \in Reminders
<1>1. hand \in Reminders /\ hand \in delivered \ sent
  BY DEF LifecycleInv, LifecycleTypeOK, HandInv
<1>2. UNCHANGED <<Phase, CallStatus>>
  BY DEF Phase, CallStatus, Alive
<1> QED BY <1>1, <1>2, UpIsNotDown DEF Contract!Mark

LEMMA WorkerImplements ==
  ASSUME LifecycleInv, WorkerStep
  PROVE  Contract!Next \/ UNCHANGED Contract!contractVars
<1>1. Alive
  BY DEF WorkerStep
<1>2. CASE SendReminder \/ SendFails
  <2>1. worker = "send" /\ UNCHANGED <<main, server, call>>
    BY <1>2 DEF SendReminder, SendFails, GoWorker, grpcVars
  <2>2. CASE Deliver
    BY <1>1, <2>1, <2>2, DeliverSends DEF Contract!Next
  <2>3. CASE ~Deliver
    BY <1>2, <2>1, <2>3, Invisible DEF SendReminder, SendFails, tableVars
  <2> QED BY <2>2, <2>3
<1>3. CASE MarkSent \/ MarkFails
  <2>1. worker = "mark" /\ UNCHANGED <<main, server, call, delivered>>
    BY <1>3 DEF MarkSent, MarkFails, DropHand, GoWorker, grpcVars
  <2>2. CASE sent' = sent \cup {hand}
    BY <1>1, <2>1, <2>2, HandMarks DEF Contract!Next
  <2>3. CASE UNCHANGED sent
    BY <2>1, <2>3, Invisible
  <2> QED BY <1>3, <2>2, <2>3 DEF MarkSent, MarkFails
<1>4. CASE SendOnClosedProducer
  <2>1. CASE EndProcess("exited")
    BY <1>1, <1>4, <2>1, EndBreaks DEF SendOnClosedProducer, tableVars, Contract!Next
  <2>2. CASE ~EndProcess("exited")
    BY <1>4, <2>2, Invisible DEF SendOnClosedProducer, tableVars, grpcVars
  <2> QED BY <2>1, <2>2
<1>5. CASE \/ Tick \/ WorkerReturns \/ ListDue \/ ListFails \/ BatchDone \/ TakeNext
           \/ MarkRefused
  <2>1. UNCHANGED <<main, server, call, sent, delivered>>
    BY <1>5 DEF Tick, WorkerReturns, ListDue, ListFails, BatchDone, TakeNext, MarkRefused,
       DropHand, grpcVars, tableVars
  <2> QED BY <2>1, Invisible
<1> QED BY <1>2, <1>3, <1>4, <1>5 DEF WorkerStep

LEMMA ServeCallsImplements ==
  ASSUME LifecycleInv, ServeCalls
  PROVE  Contract!Next \/ UNCHANGED Contract!contractVars
<1>1. Alive /\ Alive' /\ UNCHANGED <<main, sent, delivered>>
  BY DEF ServeCalls, tableVars, Alive
<1>2. /\ server = "serving" => Phase = "open"
      /\ server = "draining" => Phase = "draining"
  BY <1>1 DEF Phase, Alive, Ended
<1>3. call \in [Calls -> {"idle", "answered", "cut"} \cup CallRunning]
  BY DEF LifecycleInv, LifecycleTypeOK, GrpcTypeOK
<1>4. ASSUME NEW c \in Calls, Accept(c)
      PROVE  Contract!Take(c)
  <2>1. CallStatus[c] = "idle" /\ CallStatus' = [CallStatus EXCEPT ![c] = "running"]
    BY <1>3, <1>4 DEF Accept, GoCall, CallStatus, CallRunning, InChain, Outcomes
  <2> QED BY <1>1, <1>2, <1>4, <2>1, SamePhase DEF Accept, Contract!Take
<1>5. ASSUME NEW c \in Calls, EnterChain(c) \/ HandlerEnds(c)
      PROVE  UNCHANGED Contract!contractVars
  <2>1. CallStatus' = CallStatus
    BY <1>3, <1>5 DEF EnterChain, HandlerEnds, GoCall, CallStatus, CallRunning, InChain, Outcomes
  <2> QED BY <1>1, <1>5, <2>1, SamePhase DEF EnterChain, HandlerEnds, Contract!contractVars
<1>6. ASSUME NEW c \in Calls, LeaveChain(c)
      PROVE  Contract!Answer(c)
  <2>1. CallStatus[c] = "running" /\ CallStatus' = [CallStatus EXCEPT ![c] = "answered"]
    BY <1>3, <1>6 DEF LeaveChain, GoCall, CallStatus, CallRunning, InChain, Outcomes
  <2>2. server \in {"serving", "draining"}
    BY <1>6 DEF LeaveChain, LifecycleInv, CallInv, CallRunning, InChain, Outcomes
  <2> QED BY <1>1, <1>2, <1>6, <2>1, <2>2, SamePhase DEF LeaveChain, Contract!Answer
<1>7. CASE Drained
  <2>1. Phase' = "drained"
    BY <1>1, <1>7 DEF Drained, Phase, Alive, Ended
  <2>2. CallStatus' = CallStatus /\ \A c \in Calls : CallStatus[c] # "running"
    BY <1>3, <1>7 DEF Drained, CallStatus, CallRunning, InChain, Outcomes
  <2> QED BY <1>1, <1>2, <1>7, <2>1, <2>2 DEF Drained, Contract!Next, Contract!Drain
<1> QED BY <1>4, <1>5, <1>6, <1>7 DEF ServeCalls, CallStep, Contract!Next

-----------------------------------------------------------------------------
\* The refinement

LEMMA InitKeepsContract == LifecycleInit => Contract!Init
BY DEF LifecycleInit, GrpcInit, Contract!Init, Phase, CallStatus, Alive, Ended, CallRunning, InChain,
   Outcomes

LEMMA StepKeepsContract ==
  LifecycleInv /\ [LifecycleNext]_lifecycleVars => [Contract!Next]_(Contract!contractVars)
<1> SUFFICES ASSUME LifecycleInv, [LifecycleNext]_lifecycleVars
             PROVE  Contract!Next \/ UNCHANGED Contract!contractVars
  OBVIOUS
<1>1. CASE MainStep
  BY <1>1, MainImplements
<1>2. CASE MainFails
  <2>1. Alive /\ EndProcess("exited") /\ UNCHANGED <<sent, delivered>>
    BY <1>2 DEF MainFails, ServeFails, Alive, Ended, tableVars
  <2> QED BY <2>1, EndBreaks DEF Contract!Next
<1>3. CASE SignalArrives
  BY <1>3, Invisible DEF SignalArrives, Signal, grpcVars, tableVars
<1>4. CASE StopStep
  BY <1>4, StopImplements
<1>5. CASE WorkerStep
  BY <1>5, WorkerImplements
<1>6. CASE ServeCalls
  BY <1>6, ServeCallsImplements
<1>7. CASE Kill
  BY <1>7, EndBreaks DEF Kill, tableVars, Contract!Next
<1>8. CASE Boot
  <2>1. Phase \in Contract!Down /\ Phase' = "starting" /\ CallStatus' = CallStatus
    BY <1>8 DEF Boot, Phase, Alive, Ended, CallStatus, Contract!Down
  <2> QED BY <1>8, <2>1 DEF Boot, tableVars, Contract!Next, Contract!Restart
<1>9. CASE SystemOff \/ UNCHANGED lifecycleVars
  BY <1>9, Invisible DEF SystemOff, lifecycleVars, grpcVars, tableVars
<1> QED
  BY <1>1, <1>2, <1>3, <1>4, <1>5, <1>6, <1>7, <1>8, <1>9 DEF LifecycleNext

\* For every set of calls and reminders, every number of lives and failures and
\* every interleaving of the goroutines: a call is taken only by a process that
\* is open or draining, is answered once, and is cut only when the process
\* breaks; a process that leaves in order cuts none; a reminder is marked only
\* when users have it, and not sent after that.
THEOREM ProcessKeepsContract == LifecycleSpec => ImplementsContract
BY InitKeepsContract, StepKeepsContract, Invariance, PTL
   DEF LifecycleSpec, ImplementsContract, Contract!Spec
=============================================================================
