------------------------------ MODULE TurnProofs ------------------------------
(***************************************************************************)
(* Proof that a reminder that Kafka refuses lets the others go first       *)
(* (TakenInTurn): TInv is inductive relative to the invariant SInv of      *)
(* BookingSystemProofs.                                                    *)
(***************************************************************************)
EXTENDS BookingSystemProofs

-----------------------------------------------------------------------------
\* What the turns depend on

LEMMA TurnTypes ==
  ASSUME SInv
  PROVE  /\ ahead \in [OutboxIds -> SUBSET OutboxIds]
         /\ batch \in Seq(OutboxIds)
BY DEF SInv, WInv, WorkerTypeOK

\* No step of a call brings back a reminder that somebody is behind.
LEMMA CallsKeepTurns ==
  ASSUME SInv, TInv, [Next]_vars, UNCHANGED ahead
  PROVE  /\ TurnsKept'
         /\ \A o \in OutboxIds : \A p \in ahead[o] :
              p \in DOMAIN outbox' => p \in DOMAIN outbox
<1>1. TurnsKept /\ IInv
  BY DEF TInv, SInv
<1>2. ASSUME NEW x \in DOMAIN outbox', x[1] \in DOMAIN bookings
      PROVE  x \in DOMAIN outbox /\ outbox'[x] = outbox[x]
  BY <1>1, <1>2, OutboxOfCalls
<1>3. \A x \in OutboxIds : x[1] \in DOMAIN bookings => x[1] \in DOMAIN bookings'
  BY TablesAfterCalls
<1>4. ASSUME NEW o \in OutboxIds
      PROVE  /\ ahead[o] # {} => o[1] \in DOMAIN bookings'
             /\ \A p \in ahead[o] :
                  /\ p[1] \in DOMAIN bookings'
                  /\ p \in DOMAIN outbox' => p \in DOMAIN outbox
                  /\ p \in DOMAIN outbox' /\ o \in DOMAIN outbox' =>
                       ~outbox'[p].sent /\ outbox'[p].scheduledAt < outbox'[o].scheduledAt
  <2>1. ahead[o] # {} => o[1] \in DOMAIN bookings
    BY <1>1 DEF TurnsKept
  <2>2. ASSUME NEW p \in ahead[o]
        PROVE  /\ p \in OutboxIds /\ p[1] \in DOMAIN bookings
               /\ p \in DOMAIN outbox /\ o \in DOMAIN outbox =>
                    ~outbox[p].sent /\ outbox[p].scheduledAt < outbox[o].scheduledAt
    BY <1>1, TurnTypes DEF TurnsKept
  <2> QED BY <1>2, <1>3, <2>1, <2>2
<1> QED BY <1>4 DEF TurnsKept

-----------------------------------------------------------------------------
\* The steps

LEMMA CallsKeepTInv ==
  ASSUME SInv, TInv, [Next]_vars, UNCHANGED workerVars
  PROVE  TInv'
<1>1. UNCHANGED <<ahead, batch, workerPC>>
  BY DEF workerVars
<1>2. HandInOrder'
  <2> SUFFICES ASSUME NEW i \in 1..Len(batch), NEW p \in ahead[batch[i]], p \in DOMAIN outbox'
               PROVE  \E j \in 1..(i - 1) : batch[j] = p
    BY <1>1 DEF HandInOrder
  <2>1. batch[i] \in OutboxIds
    BY TurnTypes
  <2>2. p \in DOMAIN outbox
    BY <1>1, <2>1, CallsKeepTurns
  <2> QED BY <2>2 DEF TInv, HandInOrder
<1>3. HeadTried'
  BY <1>1 DEF TInv, HeadTried
<1> QED BY <1>1, <1>2, <1>3, CallsKeepTurns DEF TInv

LEMMA RestartKeepsTInv ==
  ASSUME SInv, TInv, [Next]_vars, WorkerRestart
  PROVE  TInv'
<1>1. UNCHANGED ahead /\ batch' = <<>> /\ workerPC' = "wait"
  BY DEF WorkerRestart
<1>2. HandInOrder' /\ HeadTried'
  BY <1>1 DEF HandInOrder, HeadTried
<1> QED BY <1>1, <1>2, CallsKeepTurns DEF TInv

\* The query returns the most overdue reminders first.
LEMMA PollKeepsTInv ==
  ASSUME SInv, TInv, Worker, Poll
  PROVE  TInv'
<1>1. /\ UNCHANGED <<now, bookings, outbox, ahead>>
      /\ workerPC' = "produce" /\ batch' \in DueBatches
  BY DEF Worker, Poll, storageVars
<1>2. batch' \in Seq(OutboxIds) /\ Range(batch') \subseteq Due
  BY BatchOfDue DEF Poll
<1>3. HandInOrder'
  <2> SUFFICES ASSUME NEW i \in 1..Len(batch'), NEW p \in ahead[batch'[i]], p \in DOMAIN outbox
               PROVE  \E j \in 1..(i - 1) : batch'[j] = p
    BY <1>1 DEF HandInOrder
  <2>1. batch'[i] \in OutboxIds /\ batch'[i] \in Due
    BY <1>2 DEF Range
  <2>2. batch'[i] \in DOMAIN outbox /\ outbox[batch'[i]].scheduledAt <= now
    BY <2>1 DEF Due
  <2>3. ~outbox[p].sent /\ outbox[p].scheduledAt < outbox[batch'[i]].scheduledAt
    BY <2>1, <2>2 DEF TInv, TurnsKept
  <2>4. p \in Due
    <3>1. /\ outbox[p].scheduledAt \in Int /\ now \in Int
          /\ outbox[batch'[i]].scheduledAt \in Int
      BY <2>2, ScheduleTypes
    <3> QED BY <2>2, <2>3, <3>1 DEF Due
  <2>5. PICK n \in Nat :
          /\ batch' \in [1..n -> Due]
          /\ \A k \in 1..n : \A o \in Due :
               outbox[o].scheduledAt < outbox[batch'[k]].scheduledAt
                 => \E j \in 1..(k - 1) : batch'[j] = o
    <3> DEFINE n == IF Cardinality(Due) < BatchSize THEN Cardinality(Due) ELSE BatchSize
    <3>1. batch' \in [1..n -> Due]
      BY <1>1 DEF DueBatches
    <3>2. n \in Nat
      BY DueCounted, WorkerAssumption
    <3> QED BY <1>1, <3>1, <3>2 DEF DueBatches
  <2>6. i \in 1..n
    BY <1>2, <2>5
  <2> QED BY <2>3, <2>4, <2>5, <2>6
<1>4. TurnsKept' /\ HeadTried'
  BY <1>1 DEF TInv, TurnsKept, HeadTried
<1> QED BY <1>3, <1>4 DEF TInv

LEMMA AttemptKeepsTInv ==
  ASSUME SInv, TInv, UNCHANGED <<bookings, outbox, batch>>, workerPC # "wait",
         TakesTurn(Head(batch))
  PROVE  TInv'
<1>1. batch \in Seq(OutboxIds) /\ batch # <<>> /\ ahead \in [OutboxIds -> SUBSET OutboxIds]
  BY HeadOfBatch, TurnTypes
<1>2. Head(batch) = batch[1]
  BY <1>1
<1>3. \A o \in OutboxIds : ahead'[o] = ahead[o] \ {Head(batch)}
  BY DEF TakesTurn
<1>4. TurnsKept'
  BY <1>3 DEF TInv, TurnsKept
<1>5. HandInOrder'
  <2> SUFFICES ASSUME NEW i \in 1..Len(batch), NEW p \in ahead'[batch[i]], p \in DOMAIN outbox
               PROVE  \E j \in 1..(i - 1) : batch[j] = p
    BY DEF HandInOrder
  <2>1. p \in ahead[batch[i]]
    BY <1>1, <1>3
  <2> QED BY <2>1 DEF TInv, HandInOrder
<1>6. HeadTried'
  BY <1>3 DEF HeadTried
<1> QED BY <1>4, <1>5, <1>6 DEF TInv

\* The next message has its turn when the first is done with: all that come
\* before it were before it in the batch.
LEMMA NextKeepsOrder ==
  ASSUME SInv, TInv, workerPC \in {"mark", "reschedule"}, NextMessage,
         DOMAIN outbox' = DOMAIN outbox,
         \A o \in OutboxIds : o # Head(batch) => ahead'[o] = ahead[o]
  PROVE  HandInOrder' /\ HeadTried'
<1>1. batch \in Seq(OutboxIds) /\ batch # <<>> /\ IsInjective(batch)
  BY HeadOfBatch DEF SInv, WInv, WorkerTypeOK, BatchKnown
<1>2. /\ Len(batch) \in Nat /\ DOMAIN batch = 1..Len(batch) /\ Head(batch) = batch[1]
      /\ Len(batch') = Len(batch) - 1
      /\ \A i \in 1..(Len(batch) - 1) : batch'[i] = batch[i + 1]
  BY <1>1 DEF NextMessage
<1>3. HandInOrder'
  <2> SUFFICES ASSUME NEW i \in 1..Len(batch'), NEW p \in ahead'[batch'[i]], p \in DOMAIN outbox
               PROVE  \E j \in 1..(i - 1) : batch'[j] = p
    BY DEF HandInOrder
  <2>1. i + 1 \in 1..Len(batch) /\ batch'[i] = batch[i + 1]
    BY <1>2
  <2>2. batch[i + 1] \in OutboxIds /\ batch[i + 1] # Head(batch)
    BY <1>1, <1>2, <2>1 DEF IsInjective
  <2>3. p \in ahead[batch[i + 1]]
    BY <2>1, <2>2
  <2>4. PICK j \in 1..i : batch[j] = p
    BY <2>1, <2>3 DEF TInv, HandInOrder
  <2>5. j # 1
    BY <1>2, <2>2, <2>3, <2>4 DEF TInv, HeadTried
  <2>6. j - 1 \in 1..(i - 1) /\ batch'[j - 1] = p
    BY <1>2, <2>4, <2>5
  <2> QED BY <2>6
<1>4. HeadTried'
  BY NextOfBatch DEF HeadTried
<1> QED BY <1>3, <1>4

LEMMA MarkKeepsTInv ==
  ASSUME SInv, TInv, Worker, MarkOutboxSent \/ (UpdateError /\ UNCHANGED outbox)
  PROVE  TInv'
<1>1. /\ workerPC \in {"mark", "reschedule"} /\ NextMessage
      /\ UNCHANGED <<ahead, bookings>>
  BY RowsOfWorker DEF MarkOutboxSent, UpdateError
<1>2. /\ DOMAIN outbox' = DOMAIN outbox
      /\ \A o \in DOMAIN outbox : outbox'[o].scheduledAt = outbox[o].scheduledAt
      /\ \A o \in DOMAIN outbox : o # Head(batch) => outbox'[o] = outbox[o]
  <2>1. CASE MarkOutboxSent
    <3>1. outbox' = [x \in DOMAIN outbox |->
                       IF x = Head(batch) THEN [outbox[Head(batch)] EXCEPT !.sent = TRUE]
                       ELSE outbox[x]]
      BY <2>1, UpdateOfRow DEF MarkOutboxSent, SInv, IInv, TypeOK
    <3>2. \A o \in DOMAIN outbox : outbox[o] \in OutboxRow
      BY ScheduleTypes
    <3> QED BY <3>1, <3>2 DEF OutboxRow
  <2>2. CASE UNCHANGED outbox
    BY <2>2
  <2> QED BY <2>1, <2>2
<1>3. TurnsKept'
  <2>1. \A o \in OutboxIds : Head(batch) \notin ahead[o]
    BY <1>1 DEF TInv, HeadTried
  <2> QED BY <1>1, <1>2, <2>1 DEF TInv, TurnsKept
<1> QED BY <1>1, <1>2, <1>3, NextKeepsOrder DEF TInv

\* A reminder that is put off is due after those it lets go first.
LEMMA RescheduleKeepsTInv ==
  ASSUME SInv, TInv, Worker, RescheduleOutbox
  PROVE  TInv'
<1> DEFINE h == Head(batch)
           before == {p \in DOMAIN outbox \ {h} :
                        ~outbox[p].sent /\ outbox[p].scheduledAt <= RefusedAt}
<1>1. /\ workerPC = "reschedule" /\ NextMessage /\ UNCHANGED bookings
      /\ ahead' = [ahead EXCEPT ![h] = before]
  BY RowsOfWorker DEF RescheduleOutbox, Reschedule
<1>2. h \in OutboxIds /\ h[1] \in DOMAIN bookings
  BY <1>1, HeadOfBatch DEF SInv, WInv, BatchKnown
<1>3. ahead'[h] = before /\ \A o \in OutboxIds : o # h => ahead'[o] = ahead[o]
  BY <1>1, <1>2, TurnTypes
<1>4. outbox' = [x \in DOMAIN outbox |->
                   IF x = h THEN [outbox[h] EXCEPT !.scheduledAt = nextAttempt]
                   ELSE outbox[x]]
  BY UpdateOfRow DEF RescheduleOutbox, Reschedule, SInv, IInv, TypeOK
<1>5. /\ DOMAIN outbox' = DOMAIN outbox
      /\ \A o \in DOMAIN outbox : o # h => outbox'[o] = outbox[o]
      /\ h \in DOMAIN outbox => outbox'[h].scheduledAt = nextAttempt
  <2>1. h \in DOMAIN outbox => outbox[h] \in OutboxRow
    BY ScheduleTypes
  <2> QED BY <1>4, <2>1 DEF OutboxRow
<1>6. ASSUME NEW p \in before
      PROVE  /\ p \in DOMAIN outbox /\ p # h /\ p[1] \in DOMAIN bookings
             /\ ~outbox[p].sent /\ outbox[p].scheduledAt < nextAttempt
  <2>1. outbox[p].scheduledAt \in Int /\ nextAttempt \in Int /\ p[1] \in DOMAIN bookings
    BY ScheduleTypes
  <2> QED BY <2>1, WorkerAssumption DEF RefusedAt
<1> HIDE DEF h, before
<1>7. ASSUME NEW o \in OutboxIds
      PROVE  /\ ahead'[o] # {} => o[1] \in DOMAIN bookings
             /\ \A p \in ahead'[o] :
                  /\ p[1] \in DOMAIN bookings
                  /\ p \in DOMAIN outbox /\ o \in DOMAIN outbox =>
                       ~outbox'[p].sent /\ outbox'[p].scheduledAt < outbox'[o].scheduledAt
  <2>1. CASE o = h
    BY <1>2, <1>3, <1>5, <1>6, <2>1
  <2>2. CASE o # h
    <3>1. ahead'[o] = ahead[o] /\ h \notin ahead[o]
      BY <1>1, <1>3, <2>2 DEF TInv, HeadTried, h
    <3> QED BY <1>5, <2>2, <3>1 DEF TInv, TurnsKept
  <2> QED BY <2>1, <2>2
<1>8. TurnsKept'
  BY <1>1, <1>5, <1>7 DEF TurnsKept
<1>9. HandInOrder' /\ HeadTried'
  BY <1>1, <1>3, <1>5, NextKeepsOrder DEF h
<1> QED BY <1>8, <1>9 DEF TInv

-----------------------------------------------------------------------------
\* The theorem

LEMMA InitTInv == SystemInit => TInv
<1> SUFFICES ASSUME SystemInit PROVE TInv
  OBVIOUS
<1>1. /\ \A o \in OutboxIds : ahead[o] = {}
      /\ batch = <<>> /\ workerPC = "wait"
  BY DEF SystemInit, WorkerInit
<1> QED BY <1>1 DEF TInv, TurnsKept, HandInOrder, HeadTried

LEMMA TInvStep == SInv /\ TInv /\ [SystemNext]_systemVars => TInv'
<1> SUFFICES ASSUME SInv, TInv, [SystemNext]_systemVars PROVE TInv'
  OBVIOUS
<1>1. CASE [Next]_vars /\ UNCHANGED workerVars
  BY <1>1, CallsKeepTInv
<1>2. CASE [Next]_vars /\ WorkerRestart
  BY <1>2, RestartKeepsTInv
<1>3. CASE Worker
  <2>1. CASE Poll
    BY <1>3, <2>1, PollKeepsTInv
  <2>2. CASE ProduceReminder \/ (WorkerError /\ ProduceError)
    <3>1. /\ workerPC # "wait" /\ TakesTurn(Head(batch))
          /\ UNCHANGED <<bookings, outbox, batch>>
      BY <2>2 DEF ProduceReminder, ProduceError, WorkerError, storageVars
    <3> QED BY <3>1, AttemptKeepsTInv
  <2>3. CASE MarkOutboxSent \/ (WorkerError /\ UpdateError)
    BY <1>3, <2>3, MarkKeepsTInv DEF WorkerError, storageVars
  <2>4. CASE RescheduleOutbox
    BY <1>3, <2>4, RescheduleKeepsTInv
  <2> QED BY <1>3, <2>1, <2>2, <2>3, <2>4 DEF Worker, WorkerStep, WorkerError
<1> QED BY <1>1, <1>2, <1>3, SystemSteps

\* For any number of bookings and any batch size, interval and number of faults:
\* before a reminder that Kafka refused is tried again, all that were due when it
\* was refused have been tried, or are gone with their bookings.
THEOREM RemindersTakeTurns == SystemSpec => []TakenInTurn
<1>1. SInv /\ TInv => TakenInTurn
  <2> SUFFICES ASSUME SInv, TInv, workerPC = "produce", NEW p \in ahead[Head(batch)] \cap DOMAIN outbox
               PROVE  FALSE
    BY DEF TakenInTurn
  <2>1. batch \in Seq(OutboxIds) /\ batch # <<>>
    BY HeadOfBatch, TurnTypes
  <2>2. 1 \in 1..Len(batch) /\ Head(batch) = batch[1]
    BY <2>1
  <2>3. \E j \in 1..(1 - 1) : batch[j] = p
    BY <2>2 DEF TInv, HandInOrder
  <2> QED BY <2>3
<1>2. SystemSpec => []TInv
  BY InitTInv, TInvStep, SystemInvariance, PTL DEF SystemSpec
<1> QED BY <1>1, <1>2, SystemInvariance, PTL
=============================================================================
