------------------------------- MODULE Storage -------------------------------
(***************************************************************************)
(* The PostgreSQL database of the booking service as                       *)
(* internal/repository/postgres/storage.go uses it: the tables bookings    *)
(* and outbox_messages as every connection sees them (committed rows, READ *)
(* COMMITTED), the row locks that a running transaction of CancelBooking   *)
(* holds, and the wall clock that time.Now and now() read.                 *)
(*                                                                         *)
(* A statement is an operator on the tables. The transactions themselves   *)
(* are sequences of steps of their callers (BookingService); what a        *)
(* transaction writes becomes visible at its COMMIT, which is why the two  *)
(* commits below are the only operators that change the booking table.     *)
(***************************************************************************)
EXTENDS Integers, FiniteSets, Functions

CONSTANTS
  Bookings,         \* the ids gen_random_uuid() can give to bookings; the id
                    \* given to the row of a CreateBooking call names the call
  Users,
  Resources,
  TypeOf,           \* the type of each resource, as the resource service says
  Cancels,          \* calls of CancelBooking: each one runs one transaction
  NoCancel,         \* the owner of a row that is not locked
  ReminderAdvance,  \* 15 minutes
  MaxTime           \* bound: the clock stops here

ResourceTypes == {"meeting_room", "workspace", "device"}

ASSUME StorageAssumption ==
  /\ TypeOf \in [Resources -> ResourceTypes]
  /\ NoCancel \notin Cancels
  /\ ReminderAdvance \in Nat
  /\ MaxTime \in Nat

VARIABLES
  now,          \* the clock
  bookings,     \* table bookings: a function from the ids of its rows
  outbox,       \* table outbox_messages: a function from the ids of its rows
  bookingLock,  \* the transaction that has updated a booking and not ended
  outboxLock    \* the transaction that has deleted the unsent rows of a
                \* booking and not ended

storageVars == <<now, bookings, outbox, bookingLock, outboxLock>>

-----------------------------------------------------------------------------
\* The rows

Status == {"confirmed", "canceled"}

BookingRow ==
  [user: Users, resource: Resources, type: ResourceTypes,
   startsAt: Nat, endsAt: Nat, status: Status]

\* A reminder is written once per booking and kind, to the topic of its kind.
Kinds == {"start", "end"}
OutboxIds == Bookings \X Kinds
OutboxRow == [scheduledAt: Int, sent: BOOLEAN]

IsTable(table, Ids, Rows) ==
  /\ DOMAIN table \subseteq Ids
  /\ table \in [DOMAIN table -> Rows]

StorageTypeOK ==
  /\ now \in Nat
  /\ IsTable(bookings, Bookings, BookingRow)
  /\ IsTable(outbox, OutboxIds, OutboxRow)
  /\ bookingLock \in [Bookings -> Cancels \cup {NoCancel}]
  /\ outboxLock \in [Bookings -> Cancels \cup {NoCancel}]

StorageInit ==
  /\ now = 0
  /\ bookings = [b \in {} |-> {}]
  /\ outbox = [o \in {} |-> {}]
  /\ bookingLock = [b \in Bookings |-> NoCancel]
  /\ outboxLock = [b \in Bookings |-> NoCancel]

-----------------------------------------------------------------------------
\* SELECT statements

Confirmed(b) == b \in DOMAIN bookings /\ bookings[b].status = "confirmed"
Canceled(b) == b \in DOMAIN bookings /\ bookings[b].status = "canceled"

\* The time test of the conflict query: checkStart and checkEnd are the
\* bounds of the new booking, moved outwards by gap.
Collides(row, startsAt, endsAt, gap) ==
  /\ row.startsAt < endsAt + gap
  /\ row.endsAt > startsAt - gap

\* HasBookingConflict: the user's confirmed bookings of the same type of
\* resource, whichever the resource.
HasBookingConflict(user, type, startsAt, endsAt, gap) ==
  \E b \in DOMAIN bookings :
    /\ bookings[b].user = user
    /\ bookings[b].status = "confirmed"
    /\ bookings[b].type = type
    /\ Collides(bookings[b], startsAt, endsAt, gap)

\* Mutants: the UPDATE forgets the status, or skips a row that is locked.
MatchesAnyRow(b) == b \in DOMAIN bookings
MatchesUnlockedRow(b) == Confirmed(b) /\ bookingLock[b] = NoCancel

\* The WHERE clause of the UPDATE of CancelBooking.
MatchesUpdate(b) == Confirmed(b)

\* The outbox rows of a booking with sent_at IS NULL.
UnsentOf(b) == {o \in DOMAIN outbox : o[1] = b /\ ~outbox[o].sent}

-----------------------------------------------------------------------------
\* Transactions: what COMMIT makes visible, and the end of the locks

ScheduledAt(row, kind) ==
  (IF kind = "start" THEN row.startsAt ELSE row.endsAt) - ReminderAdvance

\* CreateBooking: INSERT INTO bookings and one INSERT INTO outbox_messages
\* for each reminder.
CommitCreateTx(b, row, kinds) ==
  LET new == {b} \X kinds
  IN /\ bookings' = [x \in DOMAIN bookings \cup {b} |->
                       IF x = b THEN row ELSE bookings[x]]
     /\ outbox' = [o \in DOMAIN outbox \cup new |->
                     IF o \in new
                     THEN [scheduledAt |-> ScheduledAt(row, o[2]), sent |-> FALSE]
                     ELSE outbox[o]]

\* Mutants: the DELETE is forgotten; the row itself is deleted.
CommitCancelKeepingReminders(b) ==
  /\ bookings' = [bookings EXCEPT ![b].status = "canceled"]
  /\ UNCHANGED outbox
CommitCancelDeletingRow(b) ==
  /\ bookings' = Restrict(bookings, DOMAIN bookings \ {b})
  /\ outbox' = Restrict(outbox, DOMAIN outbox \ UnsentOf(b))

\* CancelBooking: the status update, and the DELETE of the unsent reminders.
\* The rows deleted are the ones the DELETE found: they stay locked from the
\* DELETE to the COMMIT, and no statement adds rows to an existing booking.
CommitCancelTx(b) ==
  /\ bookings' = [bookings EXCEPT ![b].status = "canceled"]
  /\ outbox' = Restrict(outbox, DOMAIN outbox \ UnsentOf(b))

\* Mutant: the transaction is left open.
KeepLocks(b) == UNCHANGED <<bookingLock, outboxLock>>

\* The end of the transaction of CancelBooking on b, by COMMIT or ROLLBACK.
ReleaseLocks(b) ==
  /\ bookingLock' = [bookingLock EXCEPT ![b] = NoCancel]
  /\ outboxLock' = [outboxLock EXCEPT ![b] = NoCancel]

\* The server ends every open transaction when the service's process dies.
ReleaseAllLocks ==
  /\ bookingLock' = [b \in Bookings |-> NoCancel]
  /\ outboxLock' = [b \in Bookings |-> NoCancel]

-----------------------------------------------------------------------------

Tick ==
  /\ now < MaxTime
  /\ now' = now + 1
  /\ UNCHANGED <<bookings, outbox, bookingLock, outboxLock>>

=============================================================================
