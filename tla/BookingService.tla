--------------------------- MODULE BookingService ---------------------------
(***************************************************************************)
(* The calls of internal/service/booking.go that change state, down to the *)
(* statements they run through internal/repository/postgres/storage.go:    *)
(* CreateBooking, UserCancelBooking and AdminCancelBooking.                *)
(*                                                                         *)
(* gRPC runs every call in a goroutine of its own, so the calls interleave *)
(* between any two requests they make to the resource service, to the      *)
(* database or to Kafka: each action below is one such request, with the   *)
(* local computation around it. Any request may fail (network, deadline,   *)
(* context canceled): CreateError and CancelError. The process may crash   *)
(* and be restarted.                                                       *)
(***************************************************************************)
EXTENDS Storage

CONSTANTS
  Instants,        \* bound: the times a client may ask for
  Callers,         \* what the metadata of a call may say: a user, admin or not
  BookingGap,      \* the gap kept between two bookings of a user
  NoRequest,
  NoUser,          \* x-user-id is absent or blank
  UnknownBooking,  \* an id that belongs to no booking
  KafkaEnabled,    \* kafka.enabled of the configuration
  MaxCrashes       \* bound: how often the process dies

ASSUME ServiceAssumption ==
  /\ Instants \subseteq Nat
  /\ NoUser \notin Users
  /\ Callers \subseteq [user: Users \cup {NoUser}, admin: BOOLEAN]
  /\ BookingGap \in Nat
  /\ UnknownBooking \notin Bookings
  /\ KafkaEnabled \in BOOLEAN
  /\ MaxCrashes \in Nat

VARIABLES
  createPC,   \* where each CreateBooking call is
  createReq,  \* its request, while it runs
  planned,    \* the reminders it has built
  seen,       \* history: the bookings its conflict query could see
  cancelPC,   \* where each UserCancelBooking or AdminCancelBooking call is
  cancelReq,  \* its request, with the claims found in its metadata
  events,     \* the events on Kafka: a topic, and the call that produced it
  crashes

createVars == <<createPC, createReq, planned, seen>>
cancelVars == <<cancelPC, cancelReq>>
vars == <<storageVars, createVars, cancelVars, events, crashes>>

-----------------------------------------------------------------------------
\* Requests and program counters. A call is idle until the client makes it.

CreateRequest ==
  [user: Users, resource: Resources, startsAt: Instants, endsAt: Instants]

CancelRequest ==
  [api: {"user", "admin"}, target: Bookings \cup {UnknownBooking},
   caller: Callers]

CreateRunning == {"resource", "check", "insert", "outbox", "commit", "publish"}
CreateEnded == {"ok", "failed", "lost"}

CancelRunning == {"get", "update", "delete", "commit", "verify", "publish"}
CancelEnded ==
  {"ok", "denied", "not_found", "already_canceled", "failed", "lost"}

Events ==
  ({"user_booking"} \X Bookings) \cup ({"user_cancel", "admin_cancel"} \X Cancels)

TypeOK ==
  /\ StorageTypeOK
  /\ createPC \in [Bookings -> {"idle"} \cup CreateRunning \cup CreateEnded]
  /\ createReq \in [Bookings -> CreateRequest \cup {NoRequest}]
  /\ planned \in [Bookings -> SUBSET Kinds]
  /\ seen \in [Bookings -> SUBSET Bookings]
  /\ cancelPC \in [Cancels -> {"idle"} \cup CancelRunning \cup CancelEnded]
  /\ cancelReq \in [Cancels -> CancelRequest \cup {NoRequest}]
  /\ events \subseteq Events
  /\ crashes \in 0..MaxCrashes

Init ==
  /\ StorageInit
  /\ createPC = [b \in Bookings |-> "idle"]
  /\ createReq = [b \in Bookings |-> NoRequest]
  /\ planned = [b \in Bookings |-> {}]
  /\ seen = [b \in Bookings |-> {}]
  /\ cancelPC = [c \in Cancels |-> "idle"]
  /\ cancelReq = [c \in Cancels |-> NoRequest]
  /\ events = {}
  /\ crashes = 0

-----------------------------------------------------------------------------
\* Kafka

\* app.New hands the service a *kafka.Producer as an EventProducer, also when
\* initProducer returned none: the interface then holds a nil pointer and is
\* not nil itself, so that no test s.producer == nil of the service succeeds.
ServiceHasProducer == TRUE

\* ProduceEvent: on a nil *kafka.Producer it only returns an error, which the
\* service logs, as it does when the broker does not answer.
Produce(topic, call) ==
  \/ /\ ServiceHasProducer /\ KafkaEnabled
     /\ events' = events \cup {<<topic, call>>}
  \/ UNCHANGED events

-----------------------------------------------------------------------------
\* CreateBooking

GoCreate(b, pc) ==
  /\ createPC' = [createPC EXCEPT ![b] = pc]
  /\ UNCHANGED createReq

EndCreate(b, pc) ==
  /\ createPC' = [createPC EXCEPT ![b] = pc]
  /\ createReq' = [createReq EXCEPT ![b] = NoRequest]

\* The range of the request and the clock are tested once, on arrival.
ReceiveCreate(b) ==
  /\ createPC[b] = "idle"
  /\ \/ \E req \in CreateRequest :
          /\ req.startsAt < req.endsAt
          /\ req.startsAt > now
          /\ createReq' = [createReq EXCEPT ![b] = req]
          /\ createPC' = [createPC EXCEPT ![b] = "resource"]
     \/ /\ \E req \in CreateRequest : \/ req.startsAt >= req.endsAt
                                      \/ req.startsAt <= now
        /\ EndCreate(b, "failed")
  /\ UNCHANGED <<storageVars, planned, seen, cancelVars, events, crashes>>

RequiresConflictCheck(type) == type \in {"meeting_room", "workspace"}

\* The resource service answers; a resource that is not available ends the call.
GetResource(b) ==
  /\ createPC[b] = "resource"
  /\ \/ GoCreate(b, IF RequiresConflictCheck(TypeOf[createReq[b].resource])
                    THEN "check" ELSE "insert")
     \/ EndCreate(b, "failed")
  /\ UNCHANGED <<storageVars, planned, seen, cancelVars, events, crashes>>

\* Mutant: the query is given no gap.
ConflictFoundNoGap(b) ==
  LET req == createReq[b]
  IN HasBookingConflict(req.user, TypeOf[req.resource],
                        req.startsAt, req.endsAt, 0)

ConflictFound(b) ==
  LET req == createReq[b]
  IN HasBookingConflict(req.user, TypeOf[req.resource],
                        req.startsAt, req.endsAt, BookingGap)

CheckConflict(b) ==
  /\ createPC[b] = "check"
  /\ \/ /\ ~ConflictFound(b)
        /\ GoCreate(b, "insert")
        /\ seen' = [seen EXCEPT ![b] = DOMAIN bookings]
     \/ /\ ConflictFound(b)
        /\ EndCreate(b, "failed")
        /\ UNCHANGED seen
  /\ UNCHANGED <<storageVars, planned, cancelVars, events, crashes>>

\* Mutant: the type of the row is the resource itself.
NewRowUntyped(req) ==
  [user |-> req.user, resource |-> req.resource, type |-> req.resource,
   startsAt |-> req.startsAt, endsAt |-> req.endsAt, status |-> "confirmed"]

NewRow(req) ==
  [user |-> req.user, resource |-> req.resource, type |-> TypeOf[req.resource],
   startsAt |-> req.startsAt, endsAt |-> req.endsAt, status |-> "confirmed"]

\* buildReminderOutboxes: a reminder for each end of the booking whose time
\* has not passed.
ReminderKinds(req) ==
  {k \in Kinds : ServiceHasProducer /\ ScheduledAt(NewRow(req), k) > now}

\* buildReminderOutboxes, BEGIN and INSERT INTO bookings. When the payload of
\* the reminders cannot be marshalled the booking is made without them.
InsertBooking(b) ==
  /\ createPC[b] = "insert"
  /\ \E kinds \in {ReminderKinds(createReq[b]), {}} :
       /\ planned' = [planned EXCEPT ![b] = kinds]
       /\ GoCreate(b, IF kinds = {} THEN "commit" ELSE "outbox")
  /\ UNCHANGED <<storageVars, seen, cancelVars, events, crashes>>

\* Mutant: the COMMIT is forgotten.
InsertOutboxUncommitted(b) ==
  /\ createPC[b] = "outbox"
  /\ GoCreate(b, "publish")
  /\ UNCHANGED <<storageVars, planned, seen, cancelVars, events, crashes>>

\* The rows inserted stay invisible until the COMMIT.
InsertOutbox(b) ==
  /\ createPC[b] = "outbox"
  /\ GoCreate(b, "commit")
  /\ UNCHANGED <<storageVars, planned, seen, cancelVars, events, crashes>>

\* COMMIT, whose answer may be lost.
CommitCreate(b) ==
  /\ createPC[b] = "commit"
  /\ CommitCreateTx(b, NewRow(createReq[b]), planned[b])
  /\ GoCreate(b, "publish") \/ EndCreate(b, "failed")
  /\ UNCHANGED <<now, bookingLock, outboxLock, planned, seen, cancelVars,
                 events, crashes>>

PublishCreate(b) ==
  /\ createPC[b] = "publish"
  /\ Produce("user_booking", b)
  /\ EndCreate(b, "ok")
  /\ UNCHANGED <<storageVars, planned, seen, cancelVars, crashes>>

\* The request of the step fails before it has any effect: the call returns
\* the error, after a ROLLBACK if a transaction is open.
CreateError(b) ==
  /\ createPC[b] \in CreateRunning \ {"publish"}
  /\ EndCreate(b, "failed")
  /\ UNCHANGED <<storageVars, planned, seen, cancelVars, events, crashes>>

CreateStep(b) ==
  \/ GetResource(b)
  \/ CheckConflict(b)
  \/ InsertBooking(b)
  \/ InsertOutbox(b)
  \/ CommitCreate(b)
  \/ PublishCreate(b)

-----------------------------------------------------------------------------
\* UserCancelBooking and AdminCancelBooking

Target(c) == cancelReq[c].target

GoCancel(c, pc) ==
  /\ cancelPC' = [cancelPC EXCEPT ![c] = pc]
  /\ UNCHANGED cancelReq

\* authFromContext, and hasRole for AdminCancelBooking.
Authorized(req) ==
  /\ req.caller.user # NoUser
  /\ req.api = "admin" => req.caller.admin

\* A client knows the ids of the bookings it has been shown: the id of a row
\* that is not committed is known to nobody.
ReceiveCancel(c) ==
  /\ cancelPC[c] = "idle"
  /\ \E req \in CancelRequest :
       /\ req.target \in DOMAIN bookings \cup {UnknownBooking}
       /\ cancelReq' = [cancelReq EXCEPT ![c] = req]
       /\ cancelPC' = [cancelPC EXCEPT ![c] =
            IF ~Authorized(req) THEN "denied"
            ELSE IF req.api = "user" THEN "get" ELSE "update"]
  /\ UNCHANGED <<storageVars, createVars, events, crashes>>

\* Mutant: the owner is not compared.
AnyCaller(c) == TRUE

OwnsTarget(c) == bookings[Target(c)].user = cancelReq[c].caller.user

\* UserCancelBooking reads the booking in a statement of its own to compare
\* its owner with the caller.
GetTarget(c) ==
  /\ cancelPC[c] = "get"
  /\ \/ /\ Target(c) \notin DOMAIN bookings
        /\ GoCancel(c, "not_found")
     \/ /\ Target(c) \in DOMAIN bookings
        /\ GoCancel(c, IF OwnsTarget(c) THEN "update" ELSE "denied")
  /\ UNCHANGED <<storageVars, createVars, events, crashes>>

\* BEGIN and UPDATE ... WHERE status = 'confirmed'. A row that another
\* transaction has updated is waited for, then its status is tested again.
UpdateStatus(c) ==
  /\ cancelPC[c] = "update"
  /\ \/ /\ MatchesUpdate(Target(c))
        /\ bookingLock[Target(c)] = NoCancel
        /\ bookingLock' = [bookingLock EXCEPT ![Target(c)] = c]
        /\ GoCancel(c, "delete")
     \/ /\ ~MatchesUpdate(Target(c))
        /\ GoCancel(c, "verify")
        /\ UNCHANGED bookingLock
  /\ UNCHANGED <<now, bookings, outbox, outboxLock, createVars, events, crashes>>

\* DELETE FROM outbox_messages.
DeleteReminders(c) ==
  /\ cancelPC[c] = "delete"
  /\ outboxLock' = [outboxLock EXCEPT ![Target(c)] = c]
  /\ GoCancel(c, "commit")
  /\ UNCHANGED <<now, bookings, outbox, bookingLock, createVars, events, crashes>>

\* COMMIT, whose answer may be lost.
CommitCancel(c) ==
  /\ cancelPC[c] = "commit"
  /\ CommitCancelTx(Target(c))
  /\ GoCancel(c, "publish") \/ GoCancel(c, "failed")
  /\ ReleaseLocks(Target(c))
  /\ UNCHANGED <<now, createVars, events, crashes>>

\* The UPDATE has found no row and its transaction is rolled back: a read
\* tells a booking that is canceled already from one that does not exist.
VerifyCanceled(c) ==
  /\ cancelPC[c] = "verify"
  /\ GoCancel(c, IF Target(c) \in DOMAIN bookings
                 THEN "already_canceled" ELSE "not_found")
  /\ UNCHANGED <<storageVars, createVars, events, crashes>>

CancelTopic(req) == IF req.api = "user" THEN "user_cancel" ELSE "admin_cancel"

PublishCancel(c) ==
  /\ cancelPC[c] = "publish"
  /\ Produce(CancelTopic(cancelReq[c]), c)
  /\ GoCancel(c, "ok")
  /\ UNCHANGED <<storageVars, createVars, crashes>>

\* The request of the step fails: the call returns the error, after a ROLLBACK
\* if the transaction has updated the booking.
CancelError(c) ==
  /\ cancelPC[c] \in CancelRunning \ {"publish"}
  /\ GoCancel(c, "failed")
  /\ IF cancelPC[c] \in {"delete", "commit"}
     THEN ReleaseLocks(Target(c))
     ELSE UNCHANGED <<bookingLock, outboxLock>>
  /\ UNCHANGED <<now, bookings, outbox, createVars, events, crashes>>

CancelStep(c) ==
  \/ GetTarget(c)
  \/ UpdateStatus(c)
  \/ DeleteReminders(c)
  \/ CommitCancel(c)
  \/ VerifyCanceled(c)
  \/ PublishCancel(c)

-----------------------------------------------------------------------------
\* The process and the specification

\* The process dies and is restarted: the calls it was running are lost, and
\* the database ends their transactions.
Crash ==
  /\ crashes < MaxCrashes
  /\ crashes' = crashes + 1
  /\ createPC' = [b \in Bookings |->
       IF createPC[b] \in CreateRunning THEN "lost" ELSE createPC[b]]
  /\ createReq' = [b \in Bookings |-> NoRequest]
  /\ cancelPC' = [c \in Cancels |->
       IF cancelPC[c] \in CancelRunning THEN "lost" ELSE cancelPC[c]]
  /\ ReleaseAllLocks
  /\ UNCHANGED <<now, bookings, outbox, planned, seen, cancelReq, events>>

\* The calls of this instance have all been made and answered.
Finished ==
  /\ \A b \in Bookings : createPC[b] \in CreateEnded
  /\ \A c \in Cancels : cancelPC[c] \in CancelEnded
  /\ UNCHANGED vars

Calls ==
  \/ \E b \in Bookings : ReceiveCreate(b) \/ CreateStep(b) \/ CreateError(b)
  \/ \E c \in Cancels : ReceiveCancel(c) \/ CancelStep(c) \/ CancelError(c)

Clock == Tick /\ UNCHANGED <<createVars, cancelVars, events, crashes>>

Next == Calls \/ Crash \/ Clock \/ Finished

Spec == Init /\ [][Next]_vars

\* Every request to the database, to Kafka and to the resource service is
\* answered; an UPDATE that waits for a row lock is answered once the lock is
\* released. Clients, errors and crashes are not fair: no call may count on a
\* failure to end.
Fairness ==
  /\ \A b \in Bookings : WF_vars(CreateStep(b))
  /\ \A c \in Cancels : WF_vars(CancelStep(c))

FairSpec == Spec /\ Fairness

-----------------------------------------------------------------------------
\* Properties

\* Two confirmed bookings of one user, of one checked type of resource, closer
\* to each other than the gap: what CheckConflict is there to prevent.
InConflict(a, b) ==
  /\ Confirmed(a) /\ Confirmed(b)
  /\ bookings[a].user = bookings[b].user
  /\ bookings[a].type = bookings[b].type
  /\ RequiresConflictCheck(bookings[b].type)
  /\ Collides(bookings[a], bookings[b].startsAt, bookings[b].endsAt, BookingGap)

\* No two confirmed bookings of a user are in conflict. The code does not
\* ensure it: HasBookingConflict and the INSERT are two transactions.
NoConflictingBookings ==
  \A a, b \in Bookings : a # b => ~InConflict(a, b)

\* What the check does ensure: two bookings in conflict were made by calls that
\* raced, each one's query having run before the other one's row was visible.
ConflictOnlyByRace ==
  \A a, b \in Bookings : a # b /\ InConflict(a, b) => a \notin seen[b]

\* CreateBooking between the end of its check and the end of its transaction. (A
\* COMMIT whose answer is lost is taken to be over when the call is; until the
\* server has ended the transaction the stretch goes on.)
PastCheck(b) ==
  /\ createPC[b] \in {"insert", "outbox", "commit"}
  /\ RequiresConflictCheck(TypeOf[createReq[b].resource])

ChecksDoNotOverlap ==
  \A a, b \in Bookings :
    a # b /\ PastCheck(a) /\ PastCheck(b) =>
      \/ createReq[a].user # createReq[b].user
      \/ TypeOf[createReq[a].resource] # TypeOf[createReq[b].resource]

\* That stretch is all the code would have to serialise, for each user and type
\* of resource: as long as no two such calls are in it at once, however all
\* calls interleave otherwise, no two bookings are ever in conflict.
ConflictsNeedOverlap == []ChecksDoNotOverlap => []NoConflictingBookings

\* Bookings and reminders stay in step through commits, rollbacks and crashes:
\* a confirmed booking has every reminder its call has built, a canceled one
\* has none left to send, and no reminder is without its booking.
RemindersFollowBooking ==
  /\ \A b \in Bookings :
       /\ Confirmed(b) => {k \in Kinds : <<b, k>> \in DOMAIN outbox} = planned[b]
       /\ Canceled(b) => UnsentOf(b) = {}
  /\ \A o \in DOMAIN outbox : o[1] \in DOMAIN bookings

\* However many users and administrators cancel a booking at once, one call
\* at most announces the cancelation, on one of the two topics.
OneCancelEvent ==
  \A e, f \in events :
    /\ e[1] # "user_booking" /\ f[1] # "user_booking"
    /\ Target(e[2]) = Target(f[2])
    => e = f

\* An event is on Kafka only when what it announces is committed, and on the
\* topic of the API that was called.
EventsMatchTables ==
  \A e \in events :
    IF e[1] = "user_booking"
    THEN e[2] \in DOMAIN bookings
    ELSE Canceled(Target(e[2])) /\ e[1] = CancelTopic(cancelReq[e[2]])

\* The caller owns the booking, or is an administrator using the API for
\* administrators.
MayCancel(req) ==
  IF req.api = "admin" THEN req.caller.admin
  ELSE req.caller.user = bookings[req.target].user

\* The answers of the calls are true of the tables, and stay true: of a
\* booking made, of one canceled by this call or before it, of one that does
\* not exist, and of a caller who may not cancel it.
TruthfulAnswers ==
  /\ \A b \in Bookings : createPC[b] = "ok" => b \in DOMAIN bookings
  /\ \A c \in Cancels :
       /\ cancelPC[c] \in {"ok", "already_canceled"} => Canceled(Target(c))
       /\ cancelPC[c] = "not_found" => Target(c) \notin DOMAIN bookings
       /\ cancelPC[c] = "denied" /\ Authorized(cancelReq[c])
            => Target(c) \in DOMAIN bookings /\ ~MayCancel(cancelReq[c])

\* A booking becomes canceled in the COMMIT of a call for that booking whose
\* caller is known and entitled to cancel it, although the claims and the owner
\* are tested before the transaction begins. A call of somebody entitled that
\* runs beside it, or has failed, is no excuse.
CanceledByRight ==
  [][\A b \in Bookings : ~Canceled(b) /\ Canceled(b)' =>
       \E c \in Cancels :
         /\ cancelPC[c] = "commit" /\ cancelPC'[c] # "commit"
         /\ Target(c) = b
         /\ Authorized(cancelReq[c]) /\ MayCancel(cancelReq[c])]_vars

\* The booking table only grows, and a row never changes but from confirmed
\* to canceled.
BookingsOnlyCanceled ==
  [][\A b \in DOMAIN bookings :
       /\ b \in DOMAIN bookings'
       /\ bookings'[b] \in {bookings[b],
                            [bookings[b] EXCEPT !.status = "canceled"]}]_vars

\* Without Kafka no worker runs, so no reminder should wait for one
\* (buildReminderOutboxes returns none when the producer is nil).
NoRemindersWithoutKafka == KafkaEnabled \/ DOMAIN outbox = {}

\* A lock belongs to the transaction of a call that is running, on the booking
\* it cancels, and past the only statement that may wait: whoever waits for a
\* lock waits for a transaction that waits for nobody, and no answer, error or
\* crash leaves a booking or its reminders locked.
LocksOwned ==
  \A b \in Bookings :
    /\ bookingLock[b] # NoCancel =>
         /\ cancelPC[bookingLock[b]] \in {"delete", "commit"}
         /\ Target(bookingLock[b]) = b
    /\ outboxLock[b] # NoCancel =>
         /\ cancelPC[outboxLock[b]] = "commit"
         /\ bookingLock[b] = outboxLock[b]

\* Every call a client has made ends, whatever the row locks it meets.
EveryCallEnds ==
  /\ \A b \in Bookings :
       (createPC[b] \in CreateRunning) ~> (createPC[b] \in CreateEnded)
  /\ \A c \in Cancels :
       (cancelPC[c] \in CancelRunning) ~> (cancelPC[c] \in CancelEnded)
=============================================================================
