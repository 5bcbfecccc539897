------------------------ MODULE BookingSystemProofs ------------------------
(***************************************************************************)
(* Proofs that the calls and the worker together keep the properties of    *)
(* BookingSystem and those of BookingService. A step of a call is seen by  *)
(* the worker as a change of the tables (OutboxOfCalls), a step of the     *)
(* worker by the calls as an update of rows of the outbox (RowsOfWorker).  *)
(***************************************************************************)
EXTENDS SystemInvariant, BookingServiceProofs, FiniteSetTheorems

-----------------------------------------------------------------------------
\* The batch

\* Handling the first of several different messages leaves the others.
LEMMA TailOfBatch ==
  ASSUME NEW S, NEW s \in Seq(S), s # <<>>, IsInjective(s)
  PROVE  /\ Head(s) \in Range(s) /\ Head(s) \in S
         /\ Tail(s) \in Seq(S) /\ IsInjective(Tail(s))
         /\ Range(Tail(s)) = Range(s) \ {Head(s)}
         /\ Len(s) = 1 <=> Tail(s) = <<>>
<1>1. /\ Len(s) \in Nat \ {0} /\ DOMAIN s = 1..Len(s)
      /\ Head(s) = s[1] /\ s[1] \in S
      /\ Tail(s) \in Seq(S) /\ DOMAIN Tail(s) = 1..(Len(s) - 1)
      /\ \A i \in 1..(Len(s) - 1) : Tail(s)[i] = s[i + 1]
  OBVIOUS
<1>2. IsInjective(Tail(s))
  BY <1>1 DEF IsInjective
<1>3. Range(Tail(s)) = Range(s) \ {Head(s)}
  <2>1. ASSUME NEW o \in Range(s), o # Head(s)
        PROVE  o \in Range(Tail(s))
    <3>1. PICK i \in 1..Len(s) : o = s[i]
      BY <1>1 DEF Range
    <3>2. i - 1 \in 1..(Len(s) - 1) /\ Tail(s)[i - 1] = o
      BY <1>1, <2>1, <3>1
    <3> QED BY <1>1, <3>2 DEF Range
  <2>2. ASSUME NEW o \in Range(Tail(s))
        PROVE  o \in Range(s) /\ o # Head(s)
    <3>1. PICK i \in 1..(Len(s) - 1) : o = Tail(s)[i]
      BY <1>1, <2>2 DEF Range
    <3>2. i + 1 \in 1..Len(s) /\ o = s[i + 1] /\ i + 1 # 1
      BY <1>1, <3>1
    <3> QED BY <1>1, <3>2 DEF Range, IsInjective
  <2> QED BY <2>1, <2>2
<1>4. Len(s) = 1 <=> Tail(s) = <<>>
  <2>1. Tail(s) = <<>> <=> Len(Tail(s)) = 0
    BY <1>1
  <2> QED BY <1>1, <2>1
<1>5. Head(s) \in Range(s)
  BY <1>1 DEF Range
<1> QED BY <1>1, <1>2, <1>3, <1>4, <1>5

LEMMA DueCounted == SInv => Due \subseteq OutboxIds /\ IsFiniteSet(Due) /\ Cardinality(Due) \in Nat
<1> SUFFICES ASSUME SInv PROVE Due \subseteq OutboxIds /\ IsFiniteSet(Due) /\ Cardinality(Due) \in Nat
  OBVIOUS
<1>1. Due \subseteq OutboxIds
  BY DEF Due, SInv, IInv, TypeOK, StorageTypeOK, IsTable
<1>2. IsFiniteSet(Kinds)
  <2>1. Kinds = {"start"} \cup {"end"}
    BY DEF Kinds
  <2> QED BY <2>1, FS_Singleton, FS_AddElement
<1>3. IsFiniteSet(OutboxIds)
  BY <1>2, WorkerAssumption, FS_Product DEF OutboxIds
<1> QED BY <1>1, <1>3, FS_Subset, FS_CardinalityType

\* A poll takes up some of the rows that are due, each of them once.
LEMMA BatchOfDue ==
  ASSUME SInv, Due # {}, NEW s \in DueBatches
  PROVE  s \in Seq(OutboxIds) /\ s # <<>> /\ IsInjective(s) /\ Range(s) \subseteq Due
<1> DEFINE n == IF Cardinality(Due) < BatchSize THEN Cardinality(Due) ELSE BatchSize
<1>1. Due \subseteq OutboxIds
  BY DueCounted
<1>2. Cardinality(Due) \in Nat \ {0}
  BY DueCounted, FS_EmptySet
<1>3. n \in Nat \ {0}
  BY <1>2, WorkerAssumption
<1>4. s \in [1..n -> Due] /\ IsInjective(s)
  BY DEF DueBatches
<1> HIDE DEF n
<1>5. s \in Seq(OutboxIds) /\ s # <<>>
  BY <1>1, <1>3, <1>4
<1>6. Range(s) \subseteq Due
  BY <1>4 DEF Range
<1> QED BY <1>4, <1>5, <1>6

-----------------------------------------------------------------------------
\* What a step is to the others

\* A step is a step of BookingService, at which the worker does nothing or is
\* restarted, or a step of the worker.
LEMMA SystemSteps ==
  ASSUME [SystemNext]_systemVars
  PROVE  \/ [Next]_vars /\ UNCHANGED workerVars
         \/ Crash /\ [Next]_vars /\ WorkerRestart
         \/ Worker
BY DEF SystemNext, systemVars, Next, SystemFinished, Finished

\* To the worker, a step of a call leaves the reminders of the confirmed
\* bookings alone, and the only new ones are those of a new booking.
LEMMA OutboxOfCalls ==
  ASSUME IInv, [Next]_vars
  PROVE  /\ \A o \in DOMAIN outbox :
              Confirmed(o[1])' => o \in DOMAIN outbox' /\ outbox'[o] = outbox[o]
         /\ \A o \in DOMAIN outbox' :
              \/ o \in DOMAIN outbox /\ outbox'[o] = outbox[o]
              \/ /\ o[1] \notin DOMAIN bookings
                 /\ o[1] \in DOMAIN bookings'
                 /\ outbox'[o] = [scheduledAt |-> Scheduled(o)', sent |-> FALSE]
<1> USE DEF IInv, TypeOK, StorageTypeOK, IsTable
<1>1. \A o \in DOMAIN outbox : o[1] \in DOMAIN bookings
  BY DEF RemindersFollowBooking
<1>2. ASSUME NEW b \in Bookings, CommitCreate(b)
      PROVE  /\ \A o \in DOMAIN outbox : o \in DOMAIN outbox' /\ outbox'[o] = outbox[o]
             /\ \A o \in DOMAIN outbox' \ DOMAIN outbox :
                  /\ o[1] \notin DOMAIN bookings
                  /\ o[1] \in DOMAIN bookings'
                  /\ outbox'[o] = [scheduledAt |-> Scheduled(o)', sent |-> FALSE]
  <2>1. b \notin DOMAIN bookings
    BY <1>2 DEF CommitCreate, RowsOfCalls
  <2>2. CommitCreateTx(b, NewRow(createReq[b]), planned[b])
    BY <1>2 DEF CommitCreate
  <2> QED BY <1>1, <2>1, <2>2 DEF CommitCreateTx, Scheduled
<1>3. ASSUME NEW c \in Cancels, CommitCancel(c)
      PROVE  /\ \A o \in DOMAIN outbox :
                  Confirmed(o[1])' => o \in DOMAIN outbox' /\ outbox'[o] = outbox[o]
             /\ \A o \in DOMAIN outbox' : o \in DOMAIN outbox /\ outbox'[o] = outbox[o]
  <2>1. PICK b \in DOMAIN bookings : CommitCancelTx(b)
    BY <1>3 DEF CommitCancel, LocksHeld, Confirmed
  <2>2. bookings'[b] = [bookings[b] EXCEPT !.status = "canceled"]
    BY <2>1, CommitCancelTables
  <2>3. bookings[b] \in BookingRow
    BY <2>1
  <2>4. ~Confirmed(b)'
    BY <2>2, <2>3 DEF Confirmed, BookingRow
  <2>5. /\ DOMAIN outbox' = DOMAIN outbox \ UnsentOf(b)
        /\ \A o \in DOMAIN outbox' : outbox'[o] = outbox[o]
    BY <2>1, CommitCancelTables
  <2> QED BY <2>4, <2>5 DEF UnsentOf
<1>4. CASE UNCHANGED <<bookings, outbox>>
  BY <1>4
<1> QED BY <1>2, <1>3, <1>4, TableSteps

\* An UPDATE by id changes one row, if it is there.
LEMMA UpdateOfRow ==
  ASSUME StorageTypeOK, NEW o, NEW row, UpdateRow(o, row)
  PROVE  outbox' = [x \in DOMAIN outbox |-> IF x = o THEN row ELSE outbox[x]]
BY DEF UpdateRow, StorageTypeOK, IsTable

\* To the calls, a step of the worker updates rows of the outbox, of which
\* none goes from sent to unsent.
LEMMA RowsOfWorker ==
  ASSUME SInv, Worker
  PROVE  /\ UNCHANGED <<now, bookings, bookingLock, outboxLock, createVars,
                        cancelVars, events, crashes>>
         /\ outbox' \in [DOMAIN outbox -> OutboxRow]
         /\ \A o \in DOMAIN outbox : outbox[o].sent => outbox'[o].sent
<1>1. UNCHANGED <<now, bookings, bookingLock, outboxLock, createVars,
                  cancelVars, events, crashes>>
  BY DEF Worker, WorkerStep, WorkerError, Poll, ProduceReminder, MarkOutboxSent,
         RescheduleOutbox, Reschedule, storageVars
<1>2. StorageTypeOK /\ \A o \in DOMAIN outbox : outbox[o] \in OutboxRow
  BY DEF SInv, IInv, TypeOK, StorageTypeOK, IsTable
<1>3. ASSUME NEW o, NEW row, UpdateRow(o, row),
             o \in DOMAIN outbox => row \in OutboxRow /\ (outbox[o].sent => row.sent)
      PROVE  /\ outbox' \in [DOMAIN outbox -> OutboxRow]
             /\ \A x \in DOMAIN outbox : outbox[x].sent => outbox'[x].sent
  BY <1>2, <1>3, UpdateOfRow
<1> DEFINE h == Head(batch)
<1>4. CASE MarkOutboxSent
  <2>1. UpdateRow(h, [outbox[h] EXCEPT !.sent = TRUE])
    BY <1>4 DEF MarkOutboxSent
  <2>2. h \in DOMAIN outbox =>
          /\ [outbox[h] EXCEPT !.sent = TRUE] \in OutboxRow
          /\ [outbox[h] EXCEPT !.sent = TRUE].sent
    BY <1>2 DEF OutboxRow
  <2> QED BY <1>1, <1>3, <2>1, <2>2
<1>5. CASE RescheduleOutbox
  <2>1. UpdateRow(h, [outbox[h] EXCEPT !.scheduledAt = nextAttempt])
    BY <1>5 DEF RescheduleOutbox, Reschedule
  <2>2. nextAttempt \in Int
    BY DEF SInv, WInv, WorkerTypeOK
  <2>3. h \in DOMAIN outbox =>
          /\ [outbox[h] EXCEPT !.scheduledAt = nextAttempt] \in OutboxRow
          /\ [outbox[h] EXCEPT !.scheduledAt = nextAttempt].sent = outbox[h].sent
    BY <1>2, <2>2 DEF OutboxRow
  <2> QED BY <1>1, <1>3, <2>1, <2>3
<1>6. CASE UNCHANGED outbox
  BY <1>1, <1>6 DEF SInv, IInv, TypeOK, StorageTypeOK, IsTable
<1> QED
  BY <1>4, <1>5, <1>6 DEF Worker, WorkerStep, WorkerError, Poll, ProduceReminder, storageVars

\* The calls' invariant does not mind the worker.
LEMMA IInvWorkerStep ==
  ASSUME SInv, Worker
  PROVE  IInv'
<1> USE RowsOfWorker DEF createVars, cancelVars
<1>1. TypeOK'
  BY DEF SInv, IInv, TypeOK, StorageTypeOK, IsTable
<1>2. RemindersFollowBooking'
  BY DEF SInv, IInv, RemindersFollowBooking, UnsentOf, Confirmed, Canceled
<1>3. (RequestsKept /\ RowsOfCalls /\ Checked /\ ConflictOnlyByRace)'
  BY DEF SInv, IInv, RequestsKept, RowsOfCalls, Checked, ConflictOnlyByRace, InConflict,
         Confirmed, Target
<1>4. (LocksHeld /\ LocksOwned /\ OneWinner /\ EventsOfCalls)'
  BY DEF SInv, IInv, LocksHeld, LocksOwned, OneWinner, EventsOfCalls, Confirmed, Canceled, Target
<1>5. (RightsKept /\ TruthfulAnswers)'
  BY DEF SInv, IInv, RightsKept, TruthfulAnswers, Authorized, MayCancel, Confirmed,
         Canceled, Target
<1> QED BY <1>1, <1>2, <1>3, <1>4, <1>5 DEF IInv

-----------------------------------------------------------------------------
\* The worker's invariant, one lemma for each kind of step

\* The rows the worker can see have reminders of bookings that exist, at times
\* that are numbers.
LEMMA ScheduleTypes ==
  ASSUME SInv
  PROVE  /\ now \in Nat
         /\ \A o \in OutboxIds : o[1] \in DOMAIN bookings => Scheduled(o) \in Int
         /\ \A o \in DOMAIN outbox :
              /\ o \in OutboxIds
              /\ o[1] \in DOMAIN bookings
              /\ outbox[o] \in OutboxRow
              /\ outbox[o].scheduledAt \in Int
              /\ ~outbox[o].sent => Confirmed(o[1])
         /\ \A o \in Range(batch) : o \in OutboxIds
         /\ delivered \in [OutboxIds -> Nat]
         /\ nextAttempt \in Nat /\ faults \in Nat /\ crashes \in Nat
<1> USE DEF SInv, IInv, TypeOK, StorageTypeOK, IsTable, WInv, WorkerTypeOK
<1>1. ASSUME NEW o \in OutboxIds, o[1] \in DOMAIN bookings
      PROVE  Scheduled(o) \in Int
  <2>1. bookings[o[1]] \in BookingRow
    BY <1>1
  <2> QED BY <2>1, StorageAssumption DEF Scheduled, ScheduledAt, BookingRow
<1>2. ASSUME NEW o \in DOMAIN outbox
      PROVE  /\ o \in OutboxIds
             /\ o[1] \in DOMAIN bookings
             /\ outbox[o] \in OutboxRow
             /\ outbox[o].scheduledAt \in Int
             /\ ~outbox[o].sent => Confirmed(o[1])
  <2>1. o \in OutboxIds /\ o[1] \in DOMAIN bookings /\ outbox[o] \in OutboxRow
    BY <1>2 DEF RemindersFollowBooking
  <2>2. bookings[o[1]].status \in Status
    BY <2>1 DEF BookingRow
  <2>3. ~outbox[o].sent => ~Canceled(o[1])
    BY <1>2, <2>1 DEF RemindersFollowBooking, UnsentOf, OutboxIds
  <2> QED BY <2>1, <2>2, <2>3 DEF OutboxRow, Confirmed, Canceled, Status
<1>3. \A o \in Range(batch) : o \in OutboxIds
  BY DEF Range
<1>4. faults \in Nat /\ crashes \in Nat
  BY ServiceAssumption, WorkerAssumption
<1> QED BY <1>1, <1>2, <1>3, <1>4

\* The end of the work on a message.
LEMMA NextOfBatch ==
  ASSUME SInv, workerPC # "wait", NextMessage
  PROVE  /\ Head(batch) \in Range(batch)
         /\ batch' \in Seq(OutboxIds) /\ IsInjective(batch)'
         /\ Range(batch') = Range(batch) \ {Head(batch)}
         /\ workerPC' \in {"wait", "produce"}
         /\ workerPC' = "wait" <=> batch' = <<>>
<1>1. batch \in Seq(OutboxIds) /\ batch # <<>> /\ IsInjective(batch)
  BY DEF SInv, WInv, WorkerTypeOK, BatchKnown
<1> QED BY <1>1, TailOfBatch DEF NextMessage, IsInjective

\* The message in hand.
LEMMA HeadOfBatch ==
  ASSUME SInv, workerPC # "wait"
  PROVE  Head(batch) \in Range(batch) /\ Head(batch) \in OutboxIds /\ batch # <<>>
BY TailOfBatch DEF SInv, WInv, WorkerTypeOK, BatchKnown

\* The turns have their type after every step of the worker.
LEMMA AheadTyped ==
  ASSUME SInv, UNCHANGED ahead \/ TakesTurn(Head(batch)) \/ RescheduleOutbox
  PROVE  ahead' \in [OutboxIds -> SUBSET OutboxIds]
<1>1. ahead \in [OutboxIds -> SUBSET OutboxIds] /\ DOMAIN outbox \subseteq OutboxIds
  BY DEF SInv, WInv, WorkerTypeOK, IInv, TypeOK, StorageTypeOK, IsTable
<1>2. CASE UNCHANGED ahead \/ TakesTurn(Head(batch))
  BY <1>1, <1>2 DEF TakesTurn
<1>3. CASE RescheduleOutbox
  BY <1>1, <1>3 DEF RescheduleOutbox, Reschedule
<1> QED BY <1>2, <1>3

\* The tables as the worker sees them after a step of a call.
LEMMA TablesAfterCalls ==
  ASSUME SInv, [Next]_vars
  PROVE  /\ now' >= now /\ crashes' >= crashes /\ crashes' \in Nat
         /\ \A o \in OutboxIds : o[1] \in DOMAIN bookings =>
              o[1] \in DOMAIN bookings' /\ Scheduled(o)' = Scheduled(o)
<1>1. now' >= now /\ crashes' >= crashes /\ crashes' \in Nat
  BY ScheduleTypes DEF Next, Calls, Clock, Tick, vars, storageVars, CreateStep, CancelStep, ReceiveCreate,
     GetResource, CheckConflict, InsertBooking, InsertOutbox, CommitCreate, PublishCreate, CreateError,
     ReceiveCancel, GetTarget, UpdateStatus, DeleteReminders, CommitCancel, VerifyCanceled,
     PublishCancel, CancelError, Crash, Finished
<1>2. ASSUME NEW o \in OutboxIds, o[1] \in DOMAIN bookings
      PROVE  o[1] \in DOMAIN bookings' /\ Scheduled(o)' = Scheduled(o)
  BY <1>2, RowsKept DEF SInv, Scheduled, ScheduledAt
<1> QED BY <1>1, <1>2

\* What a step of a call leaves of the rows, and what its new ones are like.
LEMMA RowsAfterCalls ==
  ASSUME SInv, [Next]_vars, UNCHANGED delivered
  PROVE  /\ \A o \in DOMAIN outbox' : outbox'[o].scheduledAt >= Scheduled(o)'
         /\ SentWasDelivered'
         /\ \A o \in OutboxIds : o[1] \notin DOMAIN bookings' => delivered[o] = 0
<1> DEFINE IsNew(o) == /\ o[1] \notin DOMAIN bookings
                       /\ o[1] \in DOMAIN bookings'
                       /\ outbox'[o] = [scheduledAt |-> Scheduled(o)', sent |-> FALSE]
<1>1. IInv /\ OnTime /\ MarkAfterSend /\ SendsCounted
  BY DEF SInv, WInv
<1>2. \A o \in DOMAIN outbox' : IsNew(o) \/ (o \in DOMAIN outbox /\ outbox'[o] = outbox[o])
  BY <1>1, OutboxOfCalls
<1>3. ASSUME NEW o \in DOMAIN outbox', IsNew(o)
      PROVE  outbox'[o].scheduledAt >= Scheduled(o)' /\ ~outbox'[o].sent
  <2>1. IInv'
    BY <1>1, IInvStep
  <2>2. outbox'[o].scheduledAt \in Int
    BY <1>3, <2>1 DEF IInv, TypeOK, StorageTypeOK, IsTable, OutboxRow
  <2> QED BY <1>3, <2>2
<1>4. ASSUME NEW o \in DOMAIN outbox', o \in DOMAIN outbox, outbox'[o] = outbox[o]
      PROVE  /\ outbox'[o].scheduledAt >= Scheduled(o)'
             /\ outbox'[o].sent => delivered[o] > 0
  <2>1. outbox[o].scheduledAt >= Scheduled(o) /\ (outbox[o].sent => delivered[o] > 0)
    BY <1>1, <1>4 DEF OnTime, MarkAfterSend, SentWasDelivered
  <2>2. o \in OutboxIds /\ o[1] \in DOMAIN bookings
    BY <1>4, ScheduleTypes
  <2>3. Scheduled(o)' = Scheduled(o)
    BY <2>2, TablesAfterCalls
  <2> QED BY <1>4, <2>1, <2>3
<1>5. \A o \in OutboxIds : o[1] \notin DOMAIN bookings' => delivered[o] = 0
  BY <1>1, TablesAfterCalls DEF SendsCounted
<1> HIDE DEF IsNew
<1> QED BY <1>2, <1>3, <1>4, <1>5 DEF SentWasDelivered

LEMMA CallsKeepWInv ==
  ASSUME SInv, [Next]_vars, UNCHANGED workerVars
  PROVE  WInv'
<1> USE DEF workerVars
<1>1. IInv /\ WInv
  BY DEF SInv
<1>2. WorkerTypeOK'
  BY <1>1 DEF WInv, WorkerTypeOK
<1>3. BatchKnown'
  <2>1. IsInjective(batch)'
    BY <1>1 DEF WInv, BatchKnown, IsInjective
  <2>2. ASSUME NEW o \in Range(batch)
        PROVE  /\ o[1] \in DOMAIN bookings'
               /\ Confirmed(o[1])' => o \in DOMAIN outbox'
               /\ o \in DOMAIN outbox' => ~outbox'[o].sent
    <3>1. o \in OutboxIds /\ o[1] \in DOMAIN bookings
      BY <1>1, ScheduleTypes DEF WInv, BatchKnown
    <3>2. o[1] \in DOMAIN bookings' /\ (Confirmed(o[1])' => Confirmed(o[1]))
      BY <1>1, <3>1, RowsKept
    <3> QED BY <1>1, <3>2, OutboxOfCalls DEF WInv, BatchKnown
  <2> QED BY <2>1, <2>2 DEF BatchKnown
<1>4. OnTime'
  <2>1. ASSUME NEW o \in Range(batch)
        PROVE  /\ now' >= Scheduled(o)' /\ Scheduled(o)' = Scheduled(o)
    <3>1. o \in OutboxIds /\ o[1] \in DOMAIN bookings /\ now >= Scheduled(o)
      BY <1>1, ScheduleTypes DEF WInv, BatchKnown, OnTime
    <3>2. now' \in Nat
      BY IInvStep, <1>1 DEF IInv, TypeOK, StorageTypeOK
    <3> QED BY <3>1, <3>2, ScheduleTypes, TablesAfterCalls
  <2>2. workerPC = "reschedule" => nextAttempt >= Scheduled(Head(batch))'
    BY <1>1, <2>1, HeadOfBatch DEF WInv, OnTime
  <2>3. Range(batch') = Range(batch)
    OBVIOUS
  <2> QED BY <2>1, <2>2, <2>3, RowsAfterCalls DEF OnTime
<1>5. MarkAfterSend'
  BY <1>1, RowsAfterCalls DEF WInv, MarkAfterSend
<1>6. SendsCounted'
  <2>1. ASSUME NEW o \in OutboxIds
        PROVE  delivered[o] <= 1 + faults + crashes'
    BY <1>1, ScheduleTypes, TablesAfterCalls DEF WInv, SendsCounted, DuplicatesNeedFaults
  <2>2. ASSUME NEW o \in OutboxIds, MaySend(o)'
        PROVE  delivered[o] <= faults + crashes'
    <3>1. CASE MaySend(o)
      BY <1>1, <3>1, ScheduleTypes, TablesAfterCalls DEF WInv, SendsCounted
    <3>2. CASE ~MaySend(o)
      <4>1. o \in DOMAIN outbox' /\ ~(o \in DOMAIN outbox /\ outbox'[o] = outbox[o])
        BY <2>2, <3>2 DEF MaySend
      <4>2. o[1] \notin DOMAIN bookings
        BY <1>1, <4>1, OutboxOfCalls
      <4> QED BY <1>1, <4>2, ScheduleTypes, TablesAfterCalls DEF WInv, SendsCounted
    <3> QED BY <3>1, <3>2
  <2> QED BY <2>1, <2>2, RowsAfterCalls DEF SendsCounted, DuplicatesNeedFaults
<1> QED BY <1>2, <1>3, <1>4, <1>5, <1>6 DEF WInv

LEMMA RestartKeepsWInv ==
  ASSUME SInv, [Next]_vars, Crash, WorkerRestart
  PROVE  WInv'
<1> USE DEF WorkerRestart
<1>1. IInv /\ WInv
  BY DEF SInv
<1>2. Range(batch') = {} /\ IsInjective(batch)'
  BY DEF Range, IsInjective
<1>3. WorkerTypeOK'
  BY <1>1 DEF WInv, WorkerTypeOK
<1>4. BatchKnown' /\ OnTime' /\ MarkAfterSend'
  BY <1>2, RowsAfterCalls DEF BatchKnown, OnTime, MarkAfterSend
<1>5. SendsCounted'
  <2>1. crashes' = crashes + 1 /\ UNCHANGED bookings
    BY DEF Crash
  <2> QED BY <1>1, <2>1, ScheduleTypes, RowsAfterCalls DEF WInv, SendsCounted, DuplicatesNeedFaults
<1> QED BY <1>3, <1>4, <1>5 DEF WInv

LEMMA PollKeepsWInv ==
  ASSUME SInv, Worker, Poll
  PROVE  WInv'
<1>1. /\ batch' \in Seq(OutboxIds) /\ batch' # <<>> /\ IsInjective(batch')
      /\ Range(batch') \subseteq Due
  BY BatchOfDue DEF Poll
<1>2. /\ UNCHANGED <<now, bookings, outbox, crashes, nextAttempt, delivered, faults, ahead>>
      /\ workerPC = "wait" /\ workerPC' = "produce"
  BY DEF Worker, Poll, storageVars
<1>3. WInv
  BY DEF SInv
<1>4. WorkerTypeOK'
  BY <1>1, <1>2, <1>3 DEF WInv, WorkerTypeOK
<1>5. BatchKnown'
  <2>1. \A o \in Due : o[1] \in DOMAIN bookings /\ o \in DOMAIN outbox /\ ~outbox[o].sent
    BY ScheduleTypes DEF Due
  <2>2. IsInjective(batch)'
    BY <1>1 DEF IsInjective
  <2> QED BY <1>1, <1>2, <2>1, <2>2 DEF BatchKnown, Confirmed
<1>6. OnTime'
  <2>1. ASSUME NEW o \in Due
        PROVE  now >= Scheduled(o)
    <3>1. o \in DOMAIN outbox /\ outbox[o].scheduledAt <= now
      BY <2>1 DEF Due
    <3>2. outbox[o].scheduledAt >= Scheduled(o)
      BY <1>3, <3>1 DEF WInv, OnTime
    <3>3. now \in Int /\ outbox[o].scheduledAt \in Int /\ Scheduled(o) \in Int
      BY <3>1, ScheduleTypes
    <3> QED BY <3>1, <3>2, <3>3
  <2> QED BY <1>1, <1>2, <1>3, <2>1 DEF WInv, OnTime, Scheduled
<1>7. MarkAfterSend'
  BY <1>2, <1>3 DEF WInv, MarkAfterSend, SentWasDelivered
<1>8. SendsCounted'
  <2>1. \A o \in OutboxIds : MaySend(o)' => MaySend(o)
    BY <1>1, <1>2 DEF MaySend, Due
  <2> QED BY <1>2, <1>3, <2>1 DEF WInv, SendsCounted, DuplicatesNeedFaults
<1> QED BY <1>4, <1>5, <1>6, <1>7, <1>8 DEF WInv

LEMMA ProduceKeepsWInv ==
  ASSUME SInv, Worker, ProduceReminder
  PROVE  WInv'
<1> DEFINE h == Head(batch)
<1>1. h \in OutboxIds /\ h \in Range(batch) /\ batch # <<>>
  BY HeadOfBatch DEF ProduceReminder
<1>2. /\ UNCHANGED <<now, bookings, outbox, crashes, batch, nextAttempt, faults>>
      /\ workerPC = "produce" /\ workerPC' = "mark"
      /\ delivered' = [delivered EXCEPT ![h] = @ + 1]
  BY DEF Worker, ProduceReminder, storageVars
<1>3. WInv
  BY DEF SInv
<1>4. /\ delivered' \in [OutboxIds -> Nat] /\ delivered'[h] = delivered[h] + 1
      /\ \A o \in OutboxIds \ {h} : delivered'[o] = delivered[o]
  BY <1>1, <1>2, ScheduleTypes
<1>5. WorkerTypeOK'
  <2>1. ahead' \in [OutboxIds -> SUBSET OutboxIds]
    BY AheadTyped DEF ProduceReminder
  <2> QED BY <1>2, <1>3, <1>4, <2>1 DEF WInv, WorkerTypeOK
<1>6. BatchKnown' /\ OnTime'
  BY <1>2, <1>3 DEF WInv, BatchKnown, OnTime, Scheduled, Confirmed, IsInjective
<1>7. MarkAfterSend'
  BY <1>1, <1>2, <1>3, <1>4, ScheduleTypes DEF WInv, MarkAfterSend, SentWasDelivered
<1>8. SendsCounted'
  <2>1. MaySend(h)
    BY <1>1, <1>2 DEF MaySend
  <2>2. \A o \in OutboxIds : MaySend(o)' => o # h /\ MaySend(o)
    BY <1>2 DEF MaySend
  <2>3. h[1] \in DOMAIN bookings
    BY <1>1, <1>3 DEF WInv, BatchKnown
  <2> QED
    BY <1>1, <1>2, <1>3, <1>4, <2>1, <2>2, <2>3, ScheduleTypes
    DEF WInv, SendsCounted, DuplicatesNeedFaults
<1> QED BY <1>5, <1>6, <1>7, <1>8 DEF WInv

\* The end of the work on the current message, whatever became of its row: the
\* other rows are as they were, and its own, if it is there, is sent or put off
\* or unchanged.
LEMMA MessageKeepsWInv ==
  ASSUME SInv, Worker, workerPC \in {"mark", "reschedule"}, NextMessage,
         UNCHANGED delivered, nextAttempt' = 0 \/ UNCHANGED nextAttempt,
         faults' \in {faults, faults + 1}, faults' \in 0..MaxFaults,
         UNCHANGED ahead \/ RescheduleOutbox,
         \A o \in DOMAIN outbox : o # Head(batch) => outbox'[o] = outbox[o],
         Head(batch) \in DOMAIN outbox =>
           /\ outbox'[Head(batch)].scheduledAt >= Scheduled(Head(batch))
           /\ outbox'[Head(batch)].sent =>
                outbox[Head(batch)].sent \/ workerPC = "mark"
           /\ workerPC = "mark" =>
                outbox'[Head(batch)].sent \/ faults' = faults + 1
  PROVE  WInv'
<1>0. PICK h : h = Head(batch)
  OBVIOUS
<1>1. /\ h \in Range(batch) /\ h \in OutboxIds
      /\ batch' \in Seq(OutboxIds) /\ IsInjective(batch)'
      /\ Range(batch') = Range(batch) \ {h}
      /\ workerPC' \in {"wait", "produce"}
      /\ workerPC' = "wait" <=> batch' = <<>>
  BY <1>0, NextOfBatch, HeadOfBatch
<1>2. /\ UNCHANGED <<now, bookings, crashes>>
      /\ DOMAIN outbox' = DOMAIN outbox
  BY RowsOfWorker
<1>3. WInv
  BY DEF SInv
<1>4. WorkerTypeOK'
  <2>1. nextAttempt' \in Nat
    BY ScheduleTypes
  <2> QED BY <1>1, <1>3, <2>1, AheadTyped DEF WInv, WorkerTypeOK
<1>5. BatchKnown'
  BY <1>0, <1>1, <1>2, <1>3 DEF WInv, BatchKnown, Confirmed
<1>6. OnTime'
  BY <1>0, <1>1, <1>2, <1>3 DEF WInv, OnTime, Scheduled
<1>7. MarkAfterSend'
  <2>1. \A o \in DOMAIN outbox : outbox'[o].sent => delivered[o] > 0
    BY <1>0, <1>2, <1>3 DEF WInv, MarkAfterSend, SentWasDelivered
  <2> QED BY <1>1, <1>2, <2>1 DEF MarkAfterSend, SentWasDelivered
<1>8. SendsCounted'
  <2>1. ASSUME NEW o \in OutboxIds, MaySend(o)', o # h
        PROVE  MaySend(o)
    BY <1>0, <1>1, <1>2, <2>1 DEF MaySend
  <2>2. ASSUME MaySend(h)'
        PROVE  MaySend(h) \/ faults' = faults + 1
    <3>1. h \in DOMAIN outbox /\ ~outbox'[h].sent
      BY <1>1, <1>2, <2>2 DEF MaySend
    <3> QED BY <1>0, <1>1, <3>1 DEF MaySend
  <2>3. \A o \in OutboxIds : delivered[o] <= 1 + faults + crashes
    BY <1>3 DEF WInv, SendsCounted, DuplicatesNeedFaults
  <2>4. \A o \in OutboxIds : MaySend(o)' => delivered[o] <= faults' + crashes
    BY <1>3, <2>1, <2>2, <2>3, ScheduleTypes DEF WInv, SendsCounted
  <2> QED
    BY <1>2, <1>3, <2>3, <2>4, ScheduleTypes DEF WInv, SendsCounted, DuplicatesNeedFaults
<1> QED BY <1>4, <1>5, <1>6, <1>7, <1>8 DEF WInv

LEMMA MarkKeepsWInv ==
  ASSUME SInv, Worker, MarkOutboxSent
  PROVE  WInv'
<1> DEFINE h == Head(batch)
<1>1. outbox' = [x \in DOMAIN outbox |->
                   IF x = h THEN [outbox[h] EXCEPT !.sent = TRUE] ELSE outbox[x]]
  BY UpdateOfRow DEF MarkOutboxSent, SInv, IInv, TypeOK
<1>2. ASSUME h \in DOMAIN outbox
      PROVE  outbox'[h].sent /\ outbox'[h].scheduledAt >= Scheduled(h)
  <2>1. outbox[h] \in OutboxRow /\ outbox[h].scheduledAt >= Scheduled(h)
    BY <1>2, ScheduleTypes DEF SInv, WInv, OnTime
  <2>2. outbox'[h] = [outbox[h] EXCEPT !.sent = TRUE]
    BY <1>1, <1>2
  <2> QED BY <2>1, <2>2 DEF OutboxRow
<1>3. faults \in 0..MaxFaults
  BY DEF SInv, WInv, WorkerTypeOK
<1> QED BY <1>1, <1>2, <1>3, MessageKeepsWInv DEF MarkOutboxSent

LEMMA RescheduleKeepsWInv ==
  ASSUME SInv, Worker, RescheduleOutbox
  PROVE  WInv'
<1> DEFINE h == Head(batch)
<1>1. outbox' = [x \in DOMAIN outbox |->
                   IF x = h THEN [outbox[h] EXCEPT !.scheduledAt = nextAttempt]
                   ELSE outbox[x]]
  BY UpdateOfRow DEF RescheduleOutbox, Reschedule, SInv, IInv, TypeOK
<1>2. ASSUME h \in DOMAIN outbox
      PROVE  outbox'[h].sent = outbox[h].sent /\ outbox'[h].scheduledAt >= Scheduled(h)
  <2>1. outbox[h] \in OutboxRow /\ nextAttempt >= Scheduled(h)
    BY <1>2, ScheduleTypes DEF SInv, WInv, OnTime, RescheduleOutbox, Reschedule
  <2>2. outbox'[h] = [outbox[h] EXCEPT !.scheduledAt = nextAttempt]
    BY <1>1, <1>2
  <2> QED BY <2>1, <2>2 DEF OutboxRow
<1>3. faults \in 0..MaxFaults
  BY DEF SInv, WInv, WorkerTypeOK
<1> QED BY <1>1, <1>2, <1>3, MessageKeepsWInv DEF RescheduleOutbox, Reschedule

LEMMA ErrorKeepsWInv ==
  ASSUME SInv, Worker, WorkerError
  PROVE  WInv'
<1> DEFINE h == Head(batch)
<1>1. /\ UNCHANGED <<now, bookings, outbox, crashes>>
      /\ faults' = faults + 1 /\ faults' \in 0..MaxFaults
  BY WorkerAssumption, ScheduleTypes DEF Worker, WorkerError, storageVars
<1>2. CASE UpdateError
  <2>1. h \in DOMAIN outbox => outbox[h].scheduledAt >= Scheduled(h)
    BY DEF SInv, WInv, OnTime
  <2> QED BY <1>1, <1>2, <2>1, MessageKeepsWInv DEF UpdateError
<1>3. CASE ProduceError
  <2>1. h \in OutboxIds /\ h \in Range(batch) /\ batch # <<>>
    BY <1>3, HeadOfBatch DEF ProduceError
  <2>2. /\ UNCHANGED batch
        /\ workerPC = "produce" /\ workerPC' = "reschedule"
        /\ nextAttempt' = now + RetryBackoff
        /\ UNCHANGED delivered \/ delivered' = [delivered EXCEPT ![h] = @ + 1]
    BY <1>3 DEF ProduceError
  <2>3. WInv
    BY DEF SInv
  <2>4. /\ delivered' \in [OutboxIds -> Nat]
        /\ delivered'[h] \in {delivered[h], delivered[h] + 1}
        /\ \A o \in OutboxIds \ {h} : delivered'[o] = delivered[o]
    BY <2>1, <2>2, ScheduleTypes
  <2>5. WorkerTypeOK'
    <3>1. nextAttempt' \in Nat
      BY <2>2, ScheduleTypes, WorkerAssumption
    <3>2. ahead' \in [OutboxIds -> SUBSET OutboxIds]
      BY <1>3, AheadTyped DEF ProduceError
    <3> QED BY <1>1, <2>2, <2>3, <2>4, <3>1, <3>2 DEF WInv, WorkerTypeOK
  <2>6. BatchKnown'
    BY <1>1, <2>2, <2>3 DEF WInv, BatchKnown, Confirmed, IsInjective
  <2>7. OnTime'
    <3>1. h[1] \in DOMAIN bookings /\ now >= Scheduled(h)
      BY <2>1, <2>3 DEF WInv, BatchKnown, OnTime
    <3>2. now + RetryBackoff >= Scheduled(h)
      BY <2>1, <3>1, ScheduleTypes, WorkerAssumption
    <3> QED BY <1>1, <2>2, <2>3, <3>2 DEF WInv, OnTime, Scheduled
  <2>8. MarkAfterSend'
    BY <1>1, <2>2, <2>3, <2>4, ScheduleTypes DEF WInv, MarkAfterSend, SentWasDelivered
  <2>9. SendsCounted'
    <3>1. MaySend(h)
      BY <2>1, <2>2 DEF MaySend
    <3>2. \A o \in OutboxIds : MaySend(o)' => MaySend(o)
      BY <1>1, <2>2 DEF MaySend
    <3>3. h[1] \in DOMAIN bookings
      BY <2>1, <2>3 DEF WInv, BatchKnown
    <3>4. /\ \A o \in OutboxIds : delivered[o] <= 1 + faults + crashes
          /\ \A o \in OutboxIds : MaySend(o) => delivered[o] <= faults + crashes
          /\ \A o \in OutboxIds : o[1] \notin DOMAIN bookings => delivered[o] = 0
      BY <2>3 DEF WInv, SendsCounted, DuplicatesNeedFaults
    <3>5. ASSUME NEW o \in OutboxIds
          PROVE  /\ delivered'[o] <= 1 + faults' + crashes
                 /\ MaySend(o)' => delivered'[o] <= faults' + crashes
                 /\ o[1] \notin DOMAIN bookings => delivered'[o] = 0
      <4>1. CASE o = h
        BY <4>1, <1>1, <2>1, <2>4, <3>1, <3>3, <3>4, ScheduleTypes
      <4>2. CASE o # h
        BY <4>2, <1>1, <2>4, <3>2, <3>4, ScheduleTypes
      <4> QED BY <4>1, <4>2
    <3> QED BY <1>1, <3>5 DEF SendsCounted, DuplicatesNeedFaults
  <2> QED BY <2>5, <2>6, <2>7, <2>8, <2>9 DEF WInv
<1> QED BY <1>2, <1>3 DEF WorkerError

-----------------------------------------------------------------------------
\* The invariant

LEMMA InitSInv == SystemInit => SInv
<1> SUFFICES ASSUME SystemInit PROVE SInv
  OBVIOUS
<1>1. IInv
  BY InitIInv DEF SystemInit
<1>2. Range(batch) = {} /\ DOMAIN outbox = {}
  BY DEF SystemInit, Init, StorageInit, WorkerInit, Range
<1>3. WorkerTypeOK
  BY WorkerAssumption DEF SystemInit, WorkerInit, WorkerTypeOK
<1>4. BatchKnown /\ OnTime /\ MarkAfterSend
  BY <1>2 DEF SystemInit, WorkerInit, BatchKnown, IsInjective, OnTime, MarkAfterSend, SentWasDelivered
<1>5. SendsCounted
  BY DEF SystemInit, Init, WorkerInit, SendsCounted, DuplicatesNeedFaults
<1> QED BY <1>1, <1>3, <1>4, <1>5 DEF SInv, WInv

LEMMA SInvStep == SInv /\ [SystemNext]_systemVars => SInv'
<1> SUFFICES ASSUME SInv, [SystemNext]_systemVars PROVE SInv'
  OBVIOUS
<1>1. CASE [Next]_vars /\ UNCHANGED workerVars
  BY <1>1, IInvStep, CallsKeepWInv DEF SInv
<1>2. CASE Crash /\ [Next]_vars /\ WorkerRestart
  BY <1>2, IInvStep, RestartKeepsWInv DEF SInv
<1>3. CASE Worker
  <2>1. Poll \/ ProduceReminder \/ MarkOutboxSent \/ RescheduleOutbox \/ WorkerError
    BY <1>3 DEF Worker, WorkerStep
  <2> QED
    BY <1>3, <2>1, IInvWorkerStep, PollKeepsWInv, ProduceKeepsWInv, MarkKeepsWInv,
       RescheduleKeepsWInv, ErrorKeepsWInv DEF SInv
<1> QED BY <1>1, <1>2, <1>3, SystemSteps

LEMMA SystemInvariance == SystemSpec => []SInv
BY InitSInv, SInvStep, PTL DEF SystemSpec

\* Calls and worker together have only states of the types declared.
THEOREM SystemTypeCorrect == SystemSpec => []SystemTypeOK
<1>1. SInv => SystemTypeOK
  BY DEF SInv, IInv, WInv, SystemTypeOK
<1> QED BY <1>1, SystemInvariance, PTL

\* The worker, whatever fails and whenever bookings are canceled, leaves the
\* reminders in step with the bookings: it never brings back a deleted row.
THEOREM RemindersInStepWithWorker == SystemSpec => []RemindersFollowBooking
<1>1. SInv => RemindersFollowBooking
  BY DEF SInv, IInv
<1> QED BY <1>1, SystemInvariance, PTL

\* The promises of the calls do not depend on the worker being at rest.
THEOREM CallsKeepPromises ==
  SystemSpec => [](/\ ConflictOnlyByRace /\ TruthfulAnswers
                   /\ OneCancelEvent /\ EventsMatchTables /\ LocksOwned)
<1>1. SInv => /\ ConflictOnlyByRace /\ TruthfulAnswers
              /\ OneCancelEvent /\ EventsMatchTables /\ LocksOwned
  BY EventsOfInvariant DEF SInv, IInv
<1> QED BY <1>1, SystemInvariance, PTL

\* Beside the worker, too, a booking only ever changes by its cancelation.
THEOREM RowsOnlyCanceledWithWorker == SystemSpec => BookingsOnlyCanceled
<1>1. SInv /\ [SystemNext]_systemVars =>
        [\A b \in DOMAIN bookings :
           /\ b \in DOMAIN bookings'
           /\ bookings'[b] \in {bookings[b],
                                [bookings[b] EXCEPT !.status = "canceled"]}]_vars
  <2>1. ASSUME SInv, Worker
        PROVE  bookings' = bookings
    BY <2>1, RowsOfWorker
  <2> QED BY <2>1, SystemSteps, OnlyCanceledStep DEF SInv
<1> QED BY <1>1, SystemInvariance, PTL DEF SystemSpec, BookingsOnlyCanceled

\* Nor does anything beside the calls cancel a booking.
THEOREM CancelationsAuthorizedWithWorker == SystemSpec => CanceledByRight
<1>1. SInv /\ [SystemNext]_systemVars => [RightfulStep]_vars
  <2>1. ASSUME SInv, Worker
        PROVE  RightfulStep
    BY <2>1, RowsOfWorker DEF RightfulStep, Canceled
  <2> QED BY <2>1, SystemSteps, RightfulStepHolds DEF SInv
<1> QED BY <1>1, SystemInvariance, PTL DEF SystemSpec, CanceledByRight, RightfulStep

\* And serial checks are enough beside the worker.
THEOREM SerialChecksSufficeWithWorker == SystemSpec => ConflictsNeedOverlap
<1>1. SystemInit => SeesAll /\ NoConflictingBookings
  BY DEF SystemInit, Init, StorageInit, SeesAll, NoConflictingBookings, InConflict, Confirmed
<1>2. /\ SInv /\ ChecksDoNotOverlap /\ [SystemNext]_systemVars
      /\ SeesAll /\ NoConflictingBookings
      => (SeesAll /\ NoConflictingBookings)'
  <2>1. ASSUME SInv, SeesAll, NoConflictingBookings, Worker
        PROVE  (SeesAll /\ NoConflictingBookings)'
    BY <2>1, RowsOfWorker
    DEF createVars, SeesAll, PastCheck, NoConflictingBookings, InConflict, Confirmed
  <2> QED BY <2>1, SystemSteps, SeesAllStep, NoConflictStep DEF SInv
<1> QED BY <1>1, <1>2, SystemInvariance, PTL DEF SystemSpec, ConflictsNeedOverlap

\* No row says sent_at of a reminder that Kafka has not got.
THEOREM SentMeansDelivered == SystemSpec => []SentWasDelivered
<1>1. SInv => SentWasDelivered
  BY DEF SInv, WInv, MarkAfterSend
<1> QED BY <1>1, SystemInvariance, PTL

\* Every copy of a reminder after the first is paid for by a failed request or
\* a crash, for batches and backoffs of any size.
THEOREM CopiesArePaidFor == SystemSpec => []DuplicatesNeedFaults
<1>1. SInv => DuplicatesNeedFaults
  BY DEF SInv, WInv, SendsCounted
<1> QED BY <1>1, SystemInvariance, PTL

\* A reminder is written to Kafka only by a step whose message is in hand.
LEMMA OnlyHeadIsSent ==
  ASSUME SInv, [SystemNext]_systemVars, NEW o \in OutboxIds, delivered'[o] > delivered[o]
  PROVE  o \in Range(batch)
<1>1. delivered' # delivered
  BY ScheduleTypes
<1>2. ProduceReminder \/ ProduceError
  BY <1>1, SystemSteps DEF workerVars, WorkerRestart, Worker, WorkerStep, WorkerError, Poll,
     MarkOutboxSent, RescheduleOutbox, Reschedule, UpdateError
<1>3. delivered' = [delivered EXCEPT ![Head(batch)] = @ + 1] /\ workerPC # "wait"
  BY <1>1, <1>2 DEF ProduceReminder, ProduceError
<1>4. o = Head(batch)
  BY <1>3, ScheduleTypes
<1> QED BY <1>3, <1>4, HeadOfBatch

\* Reminders, also the ones put off any number of times, never leave before the
\* time they were scheduled for when the booking was made.
THEOREM RemindersNeverEarly == SystemSpec => NeverEarly
<1>1. SInv /\ [SystemNext]_systemVars =>
        [\A o \in OutboxIds : delivered'[o] > delivered[o] =>
           now >= ScheduledAt(bookings[o[1]], o[2])]_systemVars
  BY OnlyHeadIsSent DEF SInv, WInv, OnTime, Scheduled
<1> QED BY <1>1, SystemInvariance, PTL DEF SystemSpec, NeverEarly

\* The worker takes up reminders of confirmed bookings only, so that those of a
\* canceled booking stop with the batch in hand.
THEOREM CanceledNeverListed == SystemSpec => NoCanceledReminderListed
<1>1. SInv /\ [SystemNext]_systemVars =>
        [batch = <<>> => \A i \in DOMAIN batch' : Confirmed(batch'[i][1])]_systemVars
  <2> SUFFICES ASSUME SInv, SystemNext \/ UNCHANGED systemVars, batch = <<>>,
                      NEW i \in DOMAIN batch'
               PROVE  Confirmed(batch'[i][1]) \/ UNCHANGED systemVars
    OBVIOUS
  <2>1. workerPC = "wait"
    BY DEF SInv, WInv, WorkerTypeOK
  <2>2. CASE Poll
    <3>1. Due # {} /\ batch' \in DueBatches
      BY <2>2 DEF Poll
    <3>2. batch'[i] \in Due
      BY <3>1, BatchOfDue DEF Range
    <3> QED BY <3>2, ScheduleTypes DEF Due
  <2>3. CASE ~Poll
    <3>1. batch' = <<>>
      BY <2>1, <2>3, SystemSteps DEF workerVars, WorkerRestart, Worker, WorkerStep, WorkerError,
         ProduceReminder, MarkOutboxSent, RescheduleOutbox, Reschedule, ProduceError, UpdateError
    <3> QED BY <3>1
  <2> QED BY <2>2, <2>3
<1> QED BY <1>1, SystemInvariance, PTL DEF SystemSpec, NoCanceledReminderListed

\* The worker lists no reminder that is done with.
LEMMA DoneNotListed ==
  ASSUME SInv, [SystemNext]_systemVars, NEW o \in OutboxIds, Settled(o)
  PROVE  o \notin Range(batch) /\ o \notin Range(batch')
<1>1. o \notin Range(batch)
  BY DEF SInv, WInv, BatchKnown, Settled
<1>2. CASE Poll
  <2>1. Range(batch') \subseteq Due
    BY <1>2, BatchOfDue DEF Poll
  <2>2. o \notin Due
    BY ScheduleTypes DEF Settled, Due, Confirmed, Canceled
  <2> QED BY <1>1, <2>1, <2>2
<1>3. CASE NextMessage /\ workerPC # "wait"
  BY <1>1, <1>3, NextOfBatch
<1>4. CASE batch' = batch \/ batch' = <<>>
  BY <1>1, <1>4 DEF Range
<1> QED
  BY <1>2, <1>3, <1>4, SystemSteps DEF workerVars, WorkerRestart, Worker, WorkerStep, WorkerError,
     ProduceReminder, MarkOutboxSent, RescheduleOutbox, Reschedule, ProduceError, UpdateError

\* A reminder that was sent and marked, or whose booking was canceled before the
\* worker took it up, is not sent again: whatever the worker still writes, and
\* whichever process it runs in.
THEOREM SettledStaysSettled == SystemSpec => SettledForGood
<1>1. SInv /\ [SystemNext]_systemVars =>
        [\A o \in OutboxIds :
           Settled(o) => Settled(o)' /\ delivered'[o] = delivered[o]]_systemVars
  <2> SUFFICES ASSUME SInv, [SystemNext]_systemVars, NEW o \in OutboxIds, Settled(o)
               PROVE  Settled(o)' /\ delivered'[o] = delivered[o]
    OBVIOUS
  <2>1. o \notin Range(batch) /\ o \notin Range(batch')
    BY DoneNotListed
  <2>2. delivered'[o] = delivered[o]
    <3>1. CASE ProduceReminder \/ ProduceError
      <4>1. Head(batch) \in Range(batch) /\ delivered \in [OutboxIds -> Nat]
        BY <3>1, HeadOfBatch, ScheduleTypes DEF ProduceReminder, ProduceError
      <4> QED BY <2>1, <3>1, <4>1 DEF ProduceReminder, ProduceError
    <3>2. CASE UNCHANGED delivered
      BY <3>2
    <3> QED
      BY <3>1, <3>2, SystemSteps DEF workerVars, WorkerRestart, Worker, WorkerStep, WorkerError,
         Poll, MarkOutboxSent, RescheduleOutbox, Reschedule, UpdateError
  <2>3. ASSUME Canceled(o[1])
        PROVE  Settled(o)'
    <3>1. Canceled(o[1])'
      <4>1. CASE Worker
        BY <2>3, <4>1, RowsOfWorker DEF Canceled
      <4>2. CASE [Next]_vars
        BY <2>3, <4>2, RowsKept DEF SInv, Canceled
      <4> QED BY <4>1, <4>2, SystemSteps
    <3> QED BY <2>1, <3>1 DEF Settled
  <2>4. ASSUME o \in DOMAIN outbox, outbox[o].sent
        PROVE  Settled(o)'
    <3>1. CASE Worker
      BY <2>4, <3>1, RowsOfWorker DEF Settled
    <3>2. CASE [Next]_vars
      <4>1. CASE Confirmed(o[1])'
        BY <2>4, <3>2, <4>1, OutboxOfCalls DEF SInv, Settled
      <4>2. CASE ~Confirmed(o[1])'
        <5>1. o[1] \in DOMAIN bookings
          BY <2>4, ScheduleTypes
        <5>2. o[1] \in DOMAIN bookings' /\ bookings'[o[1]] \in BookingRow
          BY <3>2, <5>1, RowsKept, IInvStep DEF SInv, IInv, TypeOK, StorageTypeOK, IsTable
        <5>3. bookings'[o[1]].status \in Status
          BY <5>2 DEF BookingRow
        <5>4. Canceled(o[1])'
          BY <4>2, <5>2, <5>3 DEF Canceled, Confirmed, Status
        <5> QED BY <2>1, <5>4 DEF Settled
      <4> QED BY <4>1, <4>2
    <3> QED BY <3>1, <3>2, SystemSteps
  <2> QED BY <2>2, <2>3, <2>4 DEF Settled
<1> QED BY <1>1, SystemInvariance, PTL DEF SystemSpec, SettledForGood
=============================================================================
