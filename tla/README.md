# Verification of the Oregon booking service

TLA+ modules of the booking service (`src/`, Go), TLC runs over small
instances, and TLAPS proofs of its main safety properties for every instance.

    tlasany BookingSystem.tla
    tlc -workers 2 -config delivery.cfg MCBookingSystem
    tlc -workers 2 -config lifecycle.cfg LifecycleRefinement
    tlapm BookingRefinementProofs.tla

## 1. The system

Clients call a gRPC server. A call of the **booking service**
(`internal/service/booking.go`) asks the **resource service** about the
resource, reads and writes **PostgreSQL** through the **repository**
(`internal/repository/postgres/storage.go`), and publishes an event on
**Kafka** (`internal/brokers/kafka/producer.go`). Beside the calls one goroutine,
the **outbox worker** (`internal/outbox/worker.go`), sends the reminders that
`CreateBooking` has left in the table `outbox_messages`. `internal/app/app.go` and
`cmd/booking/main.go` start the parts and stop them.

| Component | State | Operations | What makes it correct |
|---|---|---|---|
| Booking service | none of its own: the local variables of the calls in flight | `CreateBooking`, `UserCancelBooking`, `AdminCancelBooking`; reads: `GetBooking`, `ListBookingsByUser`, `ListBookingsByResource` | no two bookings of a user too close; cancelation only by the owner or an administrator; answers that are true, and never older than earlier ones; one event per change, after the commit |
| Repository | tables `bookings`, `outbox_messages`, row locks | a transaction to create, a transaction to cancel, the conflict query, the reads, three statements of the worker | booking and reminders change together; one winner among concurrent cancelations; no lock survives its transaction |
| Outbox worker | the batch in hand | poll, send, mark, reschedule | reminders neither early nor lost, doubled only by a failure, none taken up for a canceled booking |
| Kafka producer | connection | `ProduceEvent`, `Close` | an error is reported when the message may not be there |
| Resource client | connection | `GetResource` (`ChangeResourceStatus` is never called) | status and type are the ones of the resource |
| gRPC handlers | none | one per call | arguments tested, errors mapped to codes |
| gRPC server | listening or not, calls in flight and their gauge | `Serve`, `GracefulStop`, the interceptors | no call is cut by a stop; a handler that fails or panics is contained: counted back, logged, answered |
| Lifecycle (`App`, `main`) | which parts run, which connections are open | `New`, `Run`, `Stop`, the signal | parts stop in order, none outlives what it uses; a signal ends the process |
| Metrics endpoint, configuration, models, events | — | — | plumbing and data |

**Interactions.** Calls meet each other only in the two tables, and the worker
only in `outbox_messages`. There is no lock in the process and no transaction
above READ COMMITTED. What holds is due to the order of the statements, to two
`WHERE` clauses (`status = 'confirmed'`, `sent_at IS NULL`) and to row locks.

**What is hard.** Two creations between each other's query and insert; several
cancelations at once; a failure or a crash between any two requests, a lost
`COMMIT` answer among them; a cancelation between the moment the worker lists a
reminder and the moment it updates its row; a Kafka error for a message that
was taken; the LIMIT of the poll, and reminders that Kafka refuses at the head of it; handlers that panic under the interceptors; bookings made and canceled while a list is read; a process that three goroutines
end together. `PROJECT.json` lists each at
its line, with the properties that would catch it going wrong.

## 2. Modules

    Storage ─┬─ BookingService ─┬─ BookingInvariant ─┬─ MCBookingService
             │        │         │         │    │     └─ BookingServiceProofs ──┐
             │        │    BookingReads   │    │               │               │
             │        │         │         │    │               │               │
             │        │         └─ ReadsInvariant ─┬───────────┼───────── ReadsProofs
             │        │                   │        └─ MCBookingReads
             └─ OutboxWorker              │                    │
                      │                   │                    │
               BookingSystem ─── SystemInvariant ──── BookingSystemProofs ─── TurnProofs
                                          │                    │
    BookingLedger ───────────── BookingRefinement ── BookingRefinementProofs
                                          └─ MCBookingSystem

    GrpcServer ── Lifecycle ── LifecycleInvariant ──── LifecycleProofs
                                      │                      │
    ProcessContract ───────── LifecycleRefinement ── LifecycleRefinementProofs

Lines lead from a module to those that extend it; `BookingRefinement` instantiates `BookingLedger`, and `LifecycleRefinement` `ProcessContract`.
`BookingReads` and `BookingSystem` are two compositions over `BookingService`, with the calls that read and with the worker. `Lifecycle` looks
at the same process from outside: it keeps what starting and stopping depend on, and leaves to the others what a call or a batch does.

**Storage** – the database as every connection sees it, and the clock. Tables are
functions from the ids of their rows. A reminder is identified by its booking and
its kind (start or end of the booking): the code writes one of each. Statements
are operators (`HasBookingConflict`, `MatchesUpdate`, `UnsentOf`). What a transaction
writes becomes visible at `CommitCreateTx` or `CommitCancelTx`. The locks are two functions from
bookings to the transaction of a cancelation: the row that its UPDATE has changed
(`bookingLock`), and the reminders that its DELETE has found (`outboxLock`).

**BookingService** – the three calls that change state. A call is a member of
`Bookings` (a `CreateBooking`, named by the id its row would get) or of `Cancels`,
with a program counter. Each action is one request to the outside with the local
computation around it:

| Action | Code |
|---|---|
| `ReceiveCreate` | handler, range and clock tests (`booking.go` 113-125) |
| `GetResource` | 127-141; not available or an error ends the call |
| `CheckConflict` | 141-150, `HasBookingConflict` |
| `InsertBooking` | 152-168, `BEGIN`, `INSERT INTO bookings` (`storage.go` 78-87) |
| `InsertOutbox` | `storage.go` 89-99 |
| `CommitCreate` | `storage.go` 101-106; the answer may be lost |
| `PublishCreate` | 178-187, 353-370 |
| `ReceiveCancel` | metadata, role test (259-262, 295-302) |
| `GetTarget` | 264-275: the read, and the comparison of the owner |
| `UpdateStatus` | `BEGIN`, `UPDATE ... WHERE status = 'confirmed'` (`storage.go` 465-503) |
| `DeleteReminders` | 505-512 |
| `CommitCancel` | 514-521; the answer may be lost |
| `VerifyCanceled` | 523-538 |
| `PublishCancel` | `booking.go` 283-287, 310-314 |
| `CreateError`, `CancelError` | any of these requests failing, with the rollback |
| `Crash` | the process dies; PostgreSQL ends its transactions |

`planned` keeps the reminders that a call has built. `seen` is a history variable,
set by `CheckConflict` to the bookings whose rows the query could see; nothing else reads it.

**OutboxWorker** – `processBatch`: `Poll` (`ListDueOutbox`), then for each message
`ProduceReminder` and `MarkOutboxSent`, or `ProduceError` and `RescheduleOutbox`. Its
UPDATEs wait for rows that a cancelation has deleted and not committed, and change nothing
when the row is gone. `WorkerError` fails any of its requests. `delivered` counts what Kafka got. `ahead` is a history variable: for each reminder that was
put off, the ones that were due when Kafka refused it and have not been tried since. Only `TakenInTurn` reads it.

**BookingSystem** – the calls and the worker over one database. `Crash` also
resets the worker.

**BookingInvariant**, **SystemInvariant** – the inductive invariants (section 5).

**BookingLedger** – what the service promises, with no call, transaction, request or batch in it: each booking has
a status, each reminder is `none`, `pending`, `taken` or `sent`, and `told` is what Kafka has. A booking and its reminders are
made in one step, a cancelation drops the reminders that wait in the same step, only what is so is announced, a reminder is sent
only while it is taken, and is settled as sent only when it was told and its booking is not canceled.

**BookingRefinement** – the running service as a ledger. The status is the one of the committed row; a reminder is taken
when it is in the worker's batch, whatever its row says meanwhile, else as its row says; `told` is the events and the
reminders delivered. `ImplementsLedger` says that `BookingSystem` implements the ledger under this mapping.

**BookingReads** – the calls that read, beside those that change state:

| Action | Code |
|---|---|
| `ReceiveRead` | the handlers' tests of the fields (`handler.go` 64-67, 124-127, 137-152) and of the range (`booking.go` 336-338) |
| `Query` | the SELECT: `storage.go` 344-369, 385-413, 540-560; `NotFound` for `GetBooking` without a row (325-327) |
| `Scan` | the rows come in and become the answer: `storage.go` 582-613, `handler.go` 164-188 |
| `ReadError` | any of these failing; `GetBooking` answers `NotFound` to every error (`handler.go` 69-73) |

A member of `Reads` is a client that makes one call after the other. `rows` is what the query found, `told` a history variable: what all clients
together had been told, by any call, when the call was made. Nothing but properties reads it.

**GrpcServer** – the server and the calls in it. A call is accepted, counted by the interceptor (`EnterChain`), handled, and leaves. The handler returns, fails or
panics (`HandlerEnds`), and `LeaveChain` unwinds the chain in the order of `Chain`: what an interceptor does after the call of the next one is skipped by a panic that passes it,
unless it is in a defer (`Deferred`, `grpc/app.go` 94-149). `escaped` is a history variable, the calls whose panic left the chain or whose failure is not in the log.
`BeginGracefulStop` and `Drained` are the two ends of `GracefulStop`.

**Lifecycle** – the process as three goroutines over one `App`:

| Goroutine | Steps | Code |
|---|---|---|
| `main` | `NewRepository`, `NewResourceClient`, `InitProducer`, each with its failure and what it closes | `app.go` 31-113, `storage.go` 31-57 |
| | `NotifyContext`, `StartWorker`, `Listen`, `Serve`, `ServeReturns`, `MainReturns` | `main.go` 68-87, `app.go` 119-144, `grpc/app.go` 65-83 |
| the stopper | `Signal`, `StopGRPC`, `GracefulStopReturns`, `CloseResourceClient`, `StopOutbox`, `OutboxDone`, `CloseProducer`, `CloseRepo`, `StopMetrics` | `main.go` 71-81, `app.go` 146-232 |
| the worker | `Tick`, `WorkerReturns`, `ListDue`, `BatchDone`, `TakeNext`, `SendReminder`, `MarkSent` and their failures | `worker.go` 56-114 |

The process ends by `EndProcess`, when main returns or exits, when the worker sends on a closed producer (sarama panics) or by `Kill`; the other goroutines end wherever they are. `Boot` starts it
again with the tables as they were (`docker-compose.yml` 134: `restart: unless-stopped`). `served` records that `Serve` took the lock of the server before
`GracefulStop` did. Only this orders Run's write of `outboxCancel` before Stop's read; without it the read is a data race, and `StopOutbox` may find either value.

**ProcessContract** – what clients, users and operators may expect of the process, without goroutines, connections or queues. It opens, drains
and leaves, and may break at any time. It takes calls while it is open or draining, answers each at most once, is drained only when none is running, and cuts one only by
breaking. Reminders go out while it is up, and never once they are marked.

**LifecycleRefinement** – `Lifecycle` seen as that contract. The phase is the state of the server while main is alive, and else how main ended:
`left` when it returned, `broken` when it exited or was killed. `Serve` is `Open`, the two ends of `GracefulStop` are `Close` and `Drain`, the return of main is `Leave`.
`ImplementsContract` says that `Lifecycle` implements the contract under this mapping.

**LifecycleInvariant**, **ReadsInvariant** – their inductive invariants (section 5).

The `MC*` modules only give values to constants that a `.cfg` cannot write. Operators
under a comment "Mutant" are wrong versions of the operator that follows them, used
to confirm that each property is sensitive to a plausible mistake; no specification uses them.

### What the abstraction leaves out

- Names, locations, payloads and keys: copies of the request and of the resource that no decision reads.
- Resources have the three types of `0001_resources.sql`. A type "unspecified" would be treated as a device is.
- A client cancels a booking it can see, or an id that is nobody's (`UnknownBooking`). Ids are
  random UUIDs: nobody knows the id of a row that is not committed.
- A canceled context is an error at the next request (`CreateError`, `CancelError`).
- A crash ends the transactions of the process at once. In PostgreSQL the connections close shortly after.
- A `COMMIT` whose answer is lost takes effect, or does not, in the step that ends the call with an error (`storage.go` 101, 514). In PostgreSQL it may still be on its way
  then, and take effect shortly after the call has returned. The stretch from query to commit of which `ConflictsNeedOverlap` speaks ends with the transaction, not with the
  answer: a repair that lets the next call in when a failed one returns would have to reckon with this.
- The interceptor of `grpc_prometheus` is outside of the three that are modelled, and keeps figures of its own.
- Events on Kafka are a set. The five retries inside sarama are idempotent, and are part of `ProduceEvent`.
- One replica of the service. Two replicas would share the tables exactly as two calls do, but there would be two workers,
  which the code does not coordinate.
- A creation or cancelation with a missing field ends in the handler and never reaches the service. The fields of
  a read are tested in the model, as its client goes on.
- In `BookingReads` a query sees the rows committed at one moment, and the later moment at which the answer leaves is a step of its own. A list
  of equal starts comes in any order.
- In `Lifecycle` any set of unsent rows may be due and be listed: the schedule and the LIMIT are `OutboxWorker`'s. A call is only where it is in the server.
  The log file, the tracer and the metrics listener hold nothing that others wait for. The deadline of the container's stop is among the cases of `Kill`.
- A poll that fails, or that finds nothing due, changes nothing and is a stuttering step.

## 3. Runs

| Run | Checks | Shows |
|---|---|---|
| `conflicts` | `TypeOK`, `ConflictOnlyByRace`, `ConflictsNeedOverlap` | two bookings closer than the gap exist only when each call's query ran before the other's row was visible, and in no behaviour that keeps the stretches from query to commit apart; the strict comparison at exactly the gap is among the cases |
| `cancels` | `OneCancelEvent`, `EventsMatchTables`, `TruthfulAnswers`, `CanceledByRight`, `LocksOwned`, `BookingsOnlyCanceled` | three cancelations at once by owner, administrator, stranger and unauthenticated callers, with errors and a crash; the call whose COMMIT cancels is one of somebody entitled, whoever else tries; no lock is left behind |
| `reminders` | `RemindersFollowBooking` | the tables stay in step while the clock passes reminders' times |
| `calls_end` | `EveryCallEnds` | no call waits for ever on a row lock |
| `delivery` | `SystemTypeOK`, `SentWasDelivered`, `DuplicatesNeedFaults`, `RemindersFollowBooking`, `NeverEarly`, `NoCanceledReminderListed`, `SettledForGood`, `ImplementsLedger` | the worker against a creation, a cancelation, two failures and a crash; what is done with stays so; every step is one of the ledger's or invisible in it |
| `reminders_settle` | `TakenInTurn`, `EveryReminderSettled` | with a LIMIT of one, a reminder that Kafka refused lets those go first that were due with it, and every reminder is sent or canceled in the end |
| `reads` | `ReadTypeOK`, `ReadsNeverGoBack`, `AnswersMatchRequest` | a client that gets and lists, call after call, beside two creations, a cancelation, errors and a crash |
| `lifecycle` | `LifecycleTypeOK`, `CallsUseOpenConnections`, `WorkerUsesOpenConnections`, `ReturnCutsNoCall`, `FailuresContained`, `CopiesBounded`, `WaitsAreAnswered`, `SignalEndsProcess`, `ImplementsContract` | two lives of the process with failures at start, handlers that fail or panic, a signal at any time, Stop that gives up, a kill and a restart; every step is one of the contract's or invisible in it |
| `race` | `NoConflictingBookings` | **violated**: finding 1 |
| `no_kafka` | `NoRemindersWithoutKafka` | **violated**: finding 2 |
| `shutdown` | `ReturnAfterStop` | **violated**: finding 3 |
| `not_found` | `NotFoundMeansAbsent` | **violated**: finding 4 |

**Bounds.** `Instants` (what clients may ask for), `MaxTime` (the clock), `MaxCrashes`, `MaxFaults`
(errors of the worker; errors of calls are not bounded, a failed call has ended). An error of the
worker is not taken so late that its retry would fall after `MaxTime` (`now + RetryBackoff <= MaxTime`).
`WorkerAssumption` asks for a `RetryBackoff` above zero; the code has one minute (`worker.go` 17, 101). Without it a refused reminder would stay where it is in the order.
A unit of time stands for 15 minutes: `BookingGap` and `ReminderAdvance` are 1, as both constants of the code are equal.
Four instants hold two bookings that overlap, touch, are exactly a gap apart, and (with `device`) need no check. Two creations are enough for conflicts, a
relation between two bookings. Three cancelations let one wait for another while a third fails.
With one booking there are two reminders, so `BatchSize` 2 has a batch with a
message in hand and one that waits, and `BatchSize` 1 has the LIMIT leave one out.
`cancels` uses symmetry of `Cancels`: calls differ only in their requests. Runs with liveness use none.
`reads`: one client that goes on calling is enough to compare an answer with all that was said before it, by whomever, as `told` gathers every answer. With three instants and the
ranges from 1 to 2, from 2 to 3 and from 2 to 2 there are bookings that fill a range, contain it, end where it begins and begin where it ends, two that start together, and a range that is refused. Reminders are no matter of the reads: `ReminderAdvance` 3 puts them before the clock's start.
`lifecycle`: with `MaxLives` 2, `MaxFaults` 1 and two reminders a stop can meet a batch before, between and after its messages, and the next process find what was left; two calls let one drain while the other has ended.

**Deadlock** is checked in every run. `Finished` and `SystemFinished` let the
system stop only when all calls have been answered and no reminder is due, `SystemOff` only when the process has ended in its last life.
A client that reads never stops.

**Fairness.** Weak fairness of each call's own steps (`CreateStep`, `CancelStep`): a
request to the database, Kafka or the resource service is answered, and a waiting UPDATE goes
on when the lock is gone. In the system also of the worker's steps (a ticker that does not
stop, and one goroutine) and of the clock. Errors, clients and crashes are never fair, so that no
call or reminder depends on a failure to make progress.
In `Lifecycle` weak fairness of main, of the stopper, of each call in its chain and of `Drained`: goroutines are scheduled, and handlers end. The second
is assumed, and for the handlers of this service it is what `EveryCallEnds` says; a handler that never ended would hold up `GracefulStop`, which has no time limit, until the process is killed. None of
the worker, which need not do anything for the process to end: when it is slow, main ends first. None of `Accept`, `Signal`, `Kill` or what fails.

## 4. Findings

1. `race`: `CreateBooking` checks for conflicts in one statement and inserts in another
   transaction, and no constraint backs the check (`booking.go` 142, 168). Two calls of one user can both
   pass. `ConflictOnlyByRace` is what does hold. `ConflictsNeedOverlap` says
   what a repair has to do and no more: keep calls of one user and type of resource apart from query to commit. Both are proved.
2. `no_kafka`: without Kafka `app.go` 61 hands the service a nil `*kafka.Producer` in a non-nil interface,
   so the test in `buildReminderOutboxes` (`booking.go` 190) does not fire and reminders pile up that no worker sends.

3. `shutdown`: `main` returns when `GracefulStop` is through (`main.go` 83) and does not wait for the goroutine in `App.Stop`, whose last steps, and the
   message "application stopped", are cut off wherever they are. `logs/booking.log` 6-10 is such an end. `WorkerUsesOpenConnections` and `CopiesBounded` say what holds in spite of it.
4. `not_found`: `GetBooking` answers `NotFound` to every error (`handler.go` 71-72, with a TODO), so a failed query
   tells a client that a booking made before does not exist. `ReadsNeverGoBack` holds of the answers that show bookings.

## 5. Proofs

The theorems hold for all values of the constants that `StorageAssumption`, `ServiceAssumption` and, for the system,
`WorkerAssumption` allow: any number of bookings, users, resources, calls, crashes and errors, any gap, limit and backoff.
The last one says that there are finitely many UUIDs, without which the number of due rows would mean nothing. The reads have
`ReadsAssumption` (requests are requests, and again finitely many UUIDs, so that a list is a list), the lifecycle
`GrpcAssumption` and `LifecycleAssumption` (finitely many calls and reminders, which are counted).

### The calls (`BookingServiceProofs`)

| Theorem | Statement |
|---|---|
| `TypeCorrect` | `Spec => []TypeOK` |
| `ConflictsComeFromRaces` | `Spec => []ConflictOnlyByRace` |
| `RemindersInStep` | `Spec => []RemindersFollowBooking` |
| `AnswersHold` | `Spec => []TruthfulAnswers` |
| `CancelationsAuthorized` | `Spec => CanceledByRight` |
| `OneEventPerCancelation` | `Spec => []OneCancelEvent` |
| `EventsFollowCommits` | `Spec => []EventsMatchTables` |
| `RowsOnlyCanceled` | `Spec => BookingsOnlyCanceled` |
| `LocksAreOwned` | `Spec => []LocksOwned` |
| `SerialChecksSuffice` | `Spec => ConflictsNeedOverlap` |
| `CollidesIsTooClose`, `CollidesIsSymmetric` | what the time test of the conflict query means, for all times and gaps |

None of the safety properties is inductive. `IInv` adds what running calls rely on:

- `RequestsKept`: a running call still has the request it was made with;
- `RowsOfCalls`: a row is visible from its call's COMMIT on, so an id is never used twice;
- `Checked`: between check and COMMIT the request collides with nothing the query saw that is still
  confirmed. Rows never move, and a canceled one never comes back;
- `LocksHeld`: between UPDATE and COMMIT the booking stays confirmed and its lock is the call's own.
  This is why only one cancelation can commit;
- `OneWinner`, `EventsOfCalls`: from that lock to one call past COMMIT, to one event;
- `LocksOwned` itself: who holds a lock is running and past the statement that may wait, so whoever waits for a lock waits for a transaction that waits for nobody;
- `RightsKept`: a cancelation past its tests is authorized, and the ownership read before the transaction is still true in it, as `user` never changes. Only a COMMIT
  cancels a booking, and it is the one of the call that this is said of (`RightfulStepHolds`).

The proof has `InitIInv`, one lemma per conjunct for the step, `IInvStep`, `Invariance`,
and the theorems as consequences. The lemmas `CreateCases` and `CancelCases` say
what a step looks like to one call: somebody else's, its own, or a crash.
`SerialChecksSuffice` has a temporal hypothesis, so its invariant holds only of the behaviours it speaks of. `SeesAll`, a call past its check
has seen every row of its user and type, is kept by each step between states of `ChecksDoNotOverlap` (`SeesAllStep`): a row that appears would be another call's past its
check. With it and `Checked` a commit makes no conflict (`NoConflictStep`), and PTL puts the two together under `[]ChecksDoNotOverlap`. The hypothesis is about
what the calls do and excludes nothing that one user's calls in sequence would do; the runs have behaviours of both kinds.
TLC has checked `IInv` as an invariant on the instances of `conflicts`, `cancels` and `reminders`.

### Calls and worker (`BookingSystemProofs`)

| Theorem | Statement |
|---|---|
| `SystemTypeCorrect` | `SystemSpec => []SystemTypeOK` |
| `RemindersInStepWithWorker` | `SystemSpec => []RemindersFollowBooking` |
| `CallsKeepPromises` | `SystemSpec => [](...)` of `ConflictOnlyByRace`, `TruthfulAnswers`, `OneCancelEvent`, `EventsMatchTables`, `LocksOwned` |
| `RowsOnlyCanceledWithWorker` | `SystemSpec => BookingsOnlyCanceled` |
| `CancelationsAuthorizedWithWorker` | `SystemSpec => CanceledByRight` |
| `SerialChecksSufficeWithWorker` | `SystemSpec => ConflictsNeedOverlap` |
| `SentMeansDelivered` | `SystemSpec => []SentWasDelivered` |
| `CopiesArePaidFor` | `SystemSpec => []DuplicatesNeedFaults` |
| `RemindersNeverEarly` | `SystemSpec => NeverEarly` |
| `CanceledNeverListed` | `SystemSpec => NoCanceledReminderListed` |
| `SettledStaysSettled` | `SystemSpec => SettledForGood` |

The invariant is `SInv == IInv /\ WInv`, where `WInv` says what the worker knows although its statements run outside any transaction:

- `BatchKnown`: the messages in hand are different, and the row of each is unsent, and gone only if its booking was canceled;
- `OnTime`: no row, and no retry about to be recorded, is scheduled before the reminder's first time, and what is in hand was due;
- `MarkAfterSend`: about to be marked means delivered;
- `SendsCounted`: a reminder that may still be sent has been sent at most once per failure so far.

The argument is one of non-interference. `RowsOfWorker` says what a step of the worker is to the calls: an update of
existing rows of the outbox that never makes a sent one unsent. So it preserves `IInv` (`IInvWorkerStep`). `OutboxOfCalls` says
what a step of a call is to the worker: it deletes no row of a booking that stays confirmed, and adds only rows of a new one. `SystemSteps` splits
a step of the system into these two and the crash, and there is one lemma for each action of the worker.
`SettledStaysSettled` needs no more than `SInv`: by `BatchKnown` no settled reminder is in the batch, so the worker neither sends it nor touches its row (`DoneNotListed` is the case of
a poll); a cancelation deletes only unsent rows, and nobody else writes one of an existing booking.
TLC has checked `SInv` and `TInv` on the instances of `delivery` and `reminders_settle`.

### Turns (`TurnProofs`)

`RemindersTakeTurns` is `SystemSpec => []TakenInTurn`: before a reminder that Kafka refused is tried again, every one that was due when it was refused has been tried, or is gone with its
booking. So repeated failures at the head of the order starve nobody, however small the LIMIT. The property speaks of the moment before a send; `TInv`, inductive beside `SInv`, of all others:

- `TurnsKept`: whoever is ahead of a refused reminder and still there is unsent and scheduled strictly earlier. It was due when the other was refused, and the other is put off to a later time
  (`RetryBackoff` is not zero), counted from the refusal and not from its old schedule;
- `HandInOrder`: in the batch, whoever is ahead comes first, as the poll takes the rows in the order of their times;
- `HeadTried`: the reminder just tried is ahead of nobody.

### The ledger (`BookingRefinementProofs`)

`SystemImplementsLedger` is `SystemSpec => ImplementsLedger`: `InitImplements` for the initial states, `StepImplements` for a step from a state of `SInv`. There is a
lemma for each kind of visible step: `CommitCreateBooks`, `CommitCancelCancels`, `PublishAnnounces`, `PollTakesUp`, `SendReminds`,
`MarkSettles`, `RescheduleSettles` (which, like a failed update, is a `PutsBack`), `CrashImplements`. `RowInHand` is where the
worker's ignorance of cancelations is settled: its UPDATE by id finds no row exactly when the booking was canceled.

`LedgerPromises` is about the ledger alone, and says that it is worth implementing: `Ledger!Spec => []Ledger!Truthful /\ Ledger!LastWord`. What is announced is so, only confirmed bookings
have reminders that wait, and a reminder that was not taken up before its booking was canceled is never sent. `SystemKeepsPromises` carries both over to the running service
through the refinement. The invariant is `Truthful` with the types of the ledger.

### The reads (`ReadsProofs`)

| Theorem | Statement |
|---|---|
| `ReadTypes` | `ReadsSpec => []ReadTypeOK` |
| `ReadsAreMonotonic` | `ReadsSpec => []ReadsNeverGoBack` |
| `AnswersAreExact` | `ReadsSpec => []AnswersMatchRequest` |
| `SelectedIsInUse` | the range test of the list of a resource finds a booking exactly when both share an instant, for all times |

`ReadIInv` is `IInv` with the types and

- `RangesNotEmpty`: every booking begins before it ends, from the test in `CreateBooking` on. Without it the range test would find bookings that occupy no instant;
- `ToldIsTrue`: what was told when a read was made is so, and stays so;
- `RowsFound`: the rows found satisfy both properties from the query on, whatever is committed before the answer.

`StepIsNext` makes a step of the system of reads one of `BookingService` or none, so that `IInv` is kept by the theorem that is there. `TruthfulAnswers`
and `HoldsKept` (rows are only made and canceled) give `ToldIsTrue`; `QueryFinds` shows that a list has every row that matches, `RowsKeepMatching` that a later cancelation leaves it valid.

### The lifecycle (`LifecycleProofs`)

| Theorem | Statement |
|---|---|
| `LifecycleTypes` | `LifecycleSpec => []LifecycleTypeOK` |
| `CallsAreSafe` | `LifecycleSpec => []CallsUseOpenConnections` |
| `WorkerIsSafe` | `LifecycleSpec => []WorkerUsesOpenConnections` |
| `ReturnIsGraceful` | `LifecycleSpec => []ReturnCutsNoCall` |
| `FailuresAreContained` | `LifecycleSpec => []FailuresContained` |
| `CopiesAreBounded` | `LifecycleSpec => []CopiesBounded` |
| `WaitsEnd` | `LifecycleSpec => []WaitsAreAnswered` |

`LifecycleInv` relates the goroutines to each other:

- `ServerInv`, `CallInv`: the server is where main and Stop have brought it, and runs calls only from `Serve` to the end of `GracefulStop`;
- `FailuresContained` itself: the lemma `ChainUnwinds` computes what is left of each outcome of a handler when the chain has been left, and the count follows for any number of calls;
- `ConnInv`: what `New` has opened stays open until its place in the order of Stop;
- `WorkerInv`: past `OutboxDone` the worker has ended. It needs `served`, which is why `WorkerUsesOpenConnections` exempts a signal before `Serve`:
  there `StopOutbox` may overlook the worker, which then meets a closed producer;
- `AwaitInv`: what Stop waits for has been told to end, and what main waits for is still to come or has reached the server;
- `HandInv`, `CopyInv`: every copy, and every reminder delivered and not marked, is paid for by a fault or a life. `MaySlip` is the allowance the life still has: it is spent when a reminder is sent,
  returned when its row is marked, and gone with the context of the worker.

### The contract of the process (`LifecycleRefinementProofs`)

`ProcessKeepsContract` is `LifecycleSpec => ImplementsContract`, from `LifecycleInv`, with a lemma for each goroutine: `MainImplements`, `StopImplements`,
the worker's, the calls', the end and the restart. Most steps are invisible (`Invisible`). Where the invariant is needed is where the contract asks for more than
the code tests at that place: the return of main must find the server drained and no call running (`ServerInv`, `NoneRunning`), a failure of
`New` must find no call to cut, and a reminder that is sent or marked must not be marked already (`HandInv`). `EndBreaks` covers every other end of the process.

### Only model-checked

The liveness properties, `EveryCallEnds`, `EveryReminderSettled` and `SignalEndsProcess`: liveness under fairness and `ENABLED` are outside the prover's reach.
Of each the part that is safety is a theorem: nobody waits for a lock whose owner is gone or waits itself (`LocksAreOwned`), a reminder that has been settled stays so
(`SettledStaysSettled`), and nobody in a process that was told to stop waits for one who will not answer (`WaitsEnd`). What stays with TLC is that these waits end
under the fairness assumed, on the instances of the three runs.

## 6. Not modelled

- Handlers: the tests of the fields of creations and cancelations, which end the call before it has any effect; the error codes other than `NotFound`, the conversion to protobuf.
- `ChangeResourceStatus` of the resource client: nothing calls it.
- The metrics endpoint and the stream interceptor (the services have no streams), logging, tracing: no state that a decision reads.
- Configuration: read once, and the constant `KafkaEnabled` is what it decides. The marshalling of payloads.
- What splits the metadata of a caller into roles (`parseRoles`, `hasRole`): a caller is a user, and an administrator or not.

Two hazards of `PROJECT.json` have no property, as nothing in the repository says what should hold: a booking committed after its start (`CreateBooking` tests the start on arrival
and promises nothing of the commit), the order of two events on two topics.

## 7. How the project grew

1. `Storage`, `BookingService`, `BookingInvariant`, `OutboxWorker`, `BookingSystem`, their runs, the proofs of the service.
2. `SystemInvariant`, `BookingSystemProofs`: the safety properties of calls and worker as theorems.
3. `BookingLedger`, `BookingRefinement` and the proof that `BookingSystem` implements it.
4. `GrpcServer`, `Lifecycle`, `LifecycleInvariant`, `LifecycleProofs`: the process from start to end.
5. `BookingReads`, `ReadsInvariant`, `ReadsProofs`: the calls that read.
6. `ProcessContract`, `LifecycleRefinement` and the proof that `Lifecycle` implements it; what serial checks would ensure, whose locks are whose, what stays settled,
   who answers the waits of a stop, as properties and theorems.
7. `TurnProofs`: whose turn it is after a refusal; handlers that fail and panic through the interceptors, in the order and with the defers they have; a cancelation by right as a property of the COMMIT that cancels.

Next, if the code grows: the handlers' tests and codes as operators, once clients decide on them; two replicas of the service with a worker each.
