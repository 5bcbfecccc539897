---------------------------- MODULE OutboxWorker ----------------------------
(***************************************************************************)
(* The outbox worker of internal/outbox/worker.go: one goroutine that, at  *)
(* every tick of its poll interval, lists the due rows of outbox_messages, *)
(* and for each one sends the reminder to Kafka and then records in the    *)
(* table that it was sent, or when to try again.                           *)
(*                                                                         *)
(* Its statements on the table run outside any transaction: between two of *)
(* them the calls of BookingService run freely. Any of them may fail, and  *)
(* so may Kafka, with or without having taken the message: WorkerError.    *)
(***************************************************************************)
EXTENDS Storage, Sequences

CONSTANTS
  BatchSize,     \* the LIMIT of the query
  RetryBackoff,  \* how long after an error of Kafka the reminder is due again
  MaxFaults      \* bound: how often a request of the worker fails

\* There are finitely many UUIDs.
ASSUME WorkerAssumption ==
  /\ IsFiniteSet(Bookings)
  /\ BatchSize \in Nat \ {0}
  /\ RetryBackoff \in Nat \ {0}
  /\ MaxFaults \in Nat

VARIABLES
  workerPC,     \* where the worker is in processBatch
  batch,        \* the messages it still has to handle, the current one first
  nextAttempt,  \* the time of the retry it is about to record
  delivered,    \* how often each reminder was written to its topic
  faults,
  ahead         \* history: of each reminder that was put off, the ones that were
                \* due when Kafka refused it and have not been tried since

workerVars == <<workerPC, batch, nextAttempt, delivered, faults, ahead>>

WorkerTypeOK ==
  /\ workerPC \in {"wait", "produce", "mark", "reschedule"}
  /\ batch \in Seq(OutboxIds)
  /\ (workerPC = "wait") <=> (batch = <<>>)
  /\ nextAttempt \in Nat
  /\ delivered \in [OutboxIds -> Nat]
  /\ faults \in 0..MaxFaults
  /\ ahead \in [OutboxIds -> SUBSET OutboxIds]

WorkerInit ==
  /\ workerPC = "wait"
  /\ batch = <<>>
  /\ nextAttempt = 0
  /\ delivered = [o \in OutboxIds |-> 0]
  /\ faults = 0
  /\ ahead = [o \in OutboxIds |-> {}]

-----------------------------------------------------------------------------
\* ListDueOutbox

\* Mutants: the query forgets the schedule, or the rows that were sent.
DueEarly == {o \in DOMAIN outbox : ~outbox[o].sent}
DueAgain == {o \in DOMAIN outbox : outbox[o].scheduledAt <= now}

Due == {o \in DOMAIN outbox : ~outbox[o].sent /\ outbox[o].scheduledAt <= now}

\* The results the query may return: the first rows in the order of their
\* times, those of equal times in any order.
DueBatches ==
  LET n == IF Cardinality(Due) < BatchSize THEN Cardinality(Due) ELSE BatchSize
  IN {s \in [1..n -> Due] :
        /\ IsInjective(s)
        /\ \A i \in 1..n : \A o \in Due :
             outbox[o].scheduledAt < outbox[s[i]].scheduledAt
               => \E j \in 1..(i - 1) : s[j] = o}

\* A poll that finds no row due changes nothing, like one that fails.
Poll ==
  /\ workerPC = "wait"
  /\ Due # {}
  /\ batch' \in DueBatches
  /\ workerPC' = "produce"
  /\ UNCHANGED <<storageVars, nextAttempt, delivered, faults, ahead>>

-----------------------------------------------------------------------------
\* processBatch, for the current message

\* The transaction of a CancelBooking call has deleted the row and not ended:
\* an UPDATE of the row waits for it.
RowLocked(o) == o \in DOMAIN outbox /\ outboxLock[o[1]] # NoCancel

\* Mutant: the row is written back whole, as a row read earlier is saved.
SaveRow(o, row) ==
  outbox' = [x \in DOMAIN outbox \cup {o} |->
               IF x # o THEN outbox[x]
               ELSE IF o \in DOMAIN outbox THEN row
               ELSE [scheduledAt |-> nextAttempt, sent |-> workerPC = "mark"]]

\* An UPDATE by id: of a row that was deleted meanwhile, it changes nothing
\* and reports no error.
UpdateRow(o, row) ==
  outbox' = IF o \in DOMAIN outbox THEN [outbox EXCEPT ![o] = row] ELSE outbox

\* Mutant: the loop runs once too often.
NextMessageOneTooMany ==
  /\ batch' = Tail(batch)
  /\ workerPC' = IF batch = <<>> THEN "wait" ELSE "produce"

NextMessage ==
  /\ batch' = Tail(batch)
  /\ workerPC' = IF Len(batch) = 1 THEN "wait" ELSE "produce"

\* The reminder that is tried has its turn.
TakesTurn(o) == ahead' = [x \in OutboxIds |-> ahead[x] \ {o}]

ProduceReminder ==
  /\ workerPC = "produce"
  /\ TakesTurn(Head(batch))
  /\ delivered' = [delivered EXCEPT ![Head(batch)] = @ + 1]
  /\ workerPC' = "mark"
  /\ UNCHANGED <<storageVars, batch, nextAttempt, faults>>

MarkOutboxSent ==
  /\ workerPC = "mark"
  /\ ~RowLocked(Head(batch))
  /\ UpdateRow(Head(batch), [outbox[Head(batch)] EXCEPT !.sent = TRUE])
  /\ NextMessage
  /\ UNCHANGED <<now, bookings, bookingLock, outboxLock, nextAttempt, delivered,
                 faults, ahead>>

\* When Kafka refused the reminder it is about to put off.
RefusedAt == nextAttempt - RetryBackoff

Reschedule(o, time) ==
  /\ workerPC = "reschedule"
  /\ ~RowLocked(o)
  /\ UpdateRow(o, [outbox[o] EXCEPT !.scheduledAt = time])
  /\ ahead' = [ahead EXCEPT ![o] =
                 {p \in DOMAIN outbox \ {o} :
                    ~outbox[p].sent /\ outbox[p].scheduledAt <= RefusedAt}]
  /\ NextMessage
  /\ nextAttempt' = 0
  /\ UNCHANGED <<now, bookings, bookingLock, outboxLock, delivered, faults>>

\* Mutant: the backoff is added to the time at which the reminder was due.
RescheduleFromSchedule ==
  Reschedule(Head(batch), outbox[Head(batch)].scheduledAt + RetryBackoff)

\* The retry is timed before the UPDATE is sent, and so before it waits.
RescheduleOutbox == Reschedule(Head(batch), nextAttempt)

WorkerStep == Poll \/ ProduceReminder \/ MarkOutboxSent \/ RescheduleOutbox

-----------------------------------------------------------------------------
\* Errors

\* Mutant: the error is not looked at.
ProduceErrorIgnored ==
  /\ workerPC = "produce"
  /\ TakesTurn(Head(batch))
  /\ workerPC' = "mark"
  /\ UNCHANGED <<batch, nextAttempt, delivered>>

\* Kafka reports an error, although it may have taken the message.
ProduceError ==
  /\ workerPC = "produce"
  /\ TakesTurn(Head(batch))
  /\ \/ UNCHANGED delivered
     \/ delivered' = [delivered EXCEPT ![Head(batch)] = @ + 1]
  /\ workerPC' = "reschedule"
  /\ nextAttempt' = now + RetryBackoff
  /\ UNCHANGED batch

\* The UPDATE fails: the error is logged and the row stays due.
UpdateError ==
  /\ workerPC \in {"mark", "reschedule"}
  /\ NextMessage
  /\ nextAttempt' = 0
  /\ UNCHANGED <<delivered, ahead>>

\* The bounds of the model: the number of errors, and none so late that the
\* retry would fall after the end of the clock.
WorkerError ==
  /\ faults < MaxFaults
  /\ now + RetryBackoff <= MaxTime
  /\ ProduceError \/ UpdateError
  /\ faults' = faults + 1
  /\ UNCHANGED storageVars

\* The worker of a new process starts with nothing in hand.
WorkerRestart ==
  /\ workerPC' = "wait"
  /\ batch' = <<>>
  /\ nextAttempt' = 0
  /\ UNCHANGED <<delivered, faults, ahead>>
=============================================================================
