---------------------------- MODULE BookingSystem ----------------------------
(***************************************************************************)
(* The running service: the gRPC calls of BookingService and the goroutine *)
(* of OutboxWorker that App.Run starts beside them, over one database and  *)
(* one Kafka. They meet in the table outbox_messages: CreateBooking fills  *)
(* it, the worker empties it, CancelBooking deletes what it has not sent.  *)
(***************************************************************************)
EXTENDS BookingService, OutboxWorker

systemVars == <<vars, workerVars>>

SystemTypeOK == TypeOK /\ WorkerTypeOK

SystemInit == Init /\ WorkerInit

\* App.New creates a worker only when Kafka is enabled.
Worker ==
  /\ KafkaEnabled
  /\ WorkerStep \/ WorkerError
  /\ UNCHANGED <<createVars, cancelVars, events, crashes>>

SystemFinished ==
  /\ Finished
  /\ workerPC = "wait" /\ Due = {}
  /\ UNCHANGED workerVars

SystemNext ==
  \/ Calls /\ UNCHANGED workerVars
  \/ Worker
  \/ Crash /\ WorkerRestart
  \/ Clock /\ UNCHANGED workerVars
  \/ SystemFinished

SystemSpec == SystemInit /\ [][SystemNext]_systemVars

\* The requests of calls and worker are answered, the ticker of the worker
\* keeps ticking, and time passes.
SystemFairness ==
  /\ \A b \in Bookings : WF_systemVars(CreateStep(b) /\ UNCHANGED workerVars)
  /\ \A c \in Cancels : WF_systemVars(CancelStep(c) /\ UNCHANGED workerVars)
  /\ WF_systemVars(Worker /\ WorkerStep)
  /\ WF_systemVars(Clock /\ UNCHANGED workerVars)

SystemFairSpec == SystemSpec /\ SystemFairness

-----------------------------------------------------------------------------
\* Properties

\* A reminder is never sent before its time, however often it is put off.
NeverEarly ==
  [][\A o \in OutboxIds : delivered'[o] > delivered[o] =>
       now >= ScheduledAt(bookings[o[1]], o[2])]_systemVars

\* A row is marked as sent only when Kafka has the reminder.
SentWasDelivered ==
  \A o \in DOMAIN outbox : outbox[o].sent => delivered[o] > 0

\* A reminder is sent twice only because something failed in between: an
\* answer of Kafka, the UPDATE of the row, or the process.
DuplicatesNeedFaults ==
  \A o \in OutboxIds : delivered[o] <= 1 + faults + crashes

\* The worker takes up no reminder of a booking that is canceled: the ones it
\* still sends are those it had listed when the cancelation committed.
NoCanceledReminderListed ==
  [][batch = <<>> => \A i \in DOMAIN batch' : Confirmed(batch'[i][1])]_systemVars

\* A reminder is done with once its row says so, or once its booking is canceled
\* and the worker has it no longer in hand.
Settled(o) ==
  \/ o \in DOMAIN outbox /\ outbox[o].sent
  \/ Canceled(o[1]) /\ o \notin Range(batch)

\* What is done with stays so and is never sent again: no late UPDATE of the
\* worker, no retry and no new process brings a reminder back.
SettledForGood ==
  [][\A o \in OutboxIds :
       Settled(o) => Settled(o)' /\ delivered'[o] = delivered[o]]_systemVars

\* A reminder that Kafka refuses does not stand in the way of the others: before
\* the worker tries it again, whatever was due at that time has been tried or was
\* canceled, however small the batches are and even over a crash.
TakenInTurn ==
  workerPC = "produce" => ahead[Head(batch)] \cap DOMAIN outbox = {}

\* Every reminder is sent or, with its booking, canceled in the end, whatever
\* errors and crashes come between.
EveryReminderSettled ==
  \A o \in OutboxIds :
    (o \in DOMAIN outbox) ~> (o \notin DOMAIN outbox \/ outbox[o].sent)
=============================================================================
