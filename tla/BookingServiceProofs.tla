------------------------ MODULE BookingServiceProofs ------------------------
(***************************************************************************)
(* Proofs that BookingService keeps the safety properties it states, for   *)
(* every set of calls, users and resources, every gap and any number of    *)
(* crashes. The argument is one inductive invariant, IInv: a lemma shows   *)
(* that it holds initially, and one lemma for each of its parts that no    *)
(* step breaks that part.                                                  *)
(***************************************************************************)
EXTENDS BookingInvariant, TLAPS

-----------------------------------------------------------------------------
\* The conflict query

\* What the query of HasBookingConflict calls a collision is that the two slots
\* are less than the gap apart; slots that are exactly the gap apart, or that
\* touch when the gap is zero, do not collide.
THEOREM CollidesIsTooClose ==
  ASSUME NEW row \in BookingRow, NEW s \in Nat, NEW e \in Nat, NEW gap \in Nat
  PROVE  Collides(row, s, e, gap) <=>
           ~(row.endsAt + gap <= s \/ e + gap <= row.startsAt)
BY DEF Collides, BookingRow

\* The query does not depend on which of two bookings is made first.
THEOREM CollidesIsSymmetric ==
  ASSUME NEW a \in BookingRow, NEW b \in BookingRow, NEW gap \in Nat
  PROVE  Collides(a, b.startsAt, b.endsAt, gap) <=> Collides(b, a.startsAt, a.endsAt, gap)
BY DEF Collides, BookingRow

-----------------------------------------------------------------------------
\* Types

LEMMA InitTypeOK == Init => TypeOK
  BY ServiceAssumption, StorageAssumption
  DEF Init, StorageInit, TypeOK, StorageTypeOK, IsTable, CreateRunning, CreateEnded, CancelRunning, CancelEnded, Events

\* The shape of every row a CreateBooking call inserts.
LEMMA NewRowType ==
  ASSUME NEW req \in CreateRequest
  PROVE  NewRow(req) \in BookingRow
  BY ServiceAssumption, StorageAssumption
  DEF NewRow, CreateRequest, BookingRow, Status, ResourceTypes

LEMMA CommitCreateType ==
  ASSUME StorageTypeOK, NEW b \in Bookings, NEW row \in BookingRow,
         NEW kinds \in SUBSET Kinds, CommitCreateTx(b, row, kinds)
  PROVE  /\ IsTable(bookings', Bookings, BookingRow)
         /\ IsTable(outbox', OutboxIds, OutboxRow)
<1>1. IsTable(bookings', Bookings, BookingRow)
  BY DEF CommitCreateTx, StorageTypeOK, IsTable
<1>2. ASSUME NEW k \in Kinds
      PROVE  ScheduledAt(row, k) \in Int
  BY StorageAssumption DEF ScheduledAt, BookingRow
<1>3. IsTable(outbox', OutboxIds, OutboxRow)
  <2> DEFINE new == {b} \X kinds
  <2>1. new \subseteq OutboxIds /\ \A o \in new : o[2] \in Kinds
    BY DEF OutboxIds
  <2>2. \A o \in new : [scheduledAt |-> ScheduledAt(row, o[2]), sent |-> FALSE] \in OutboxRow
    BY <1>2, <2>1 DEF OutboxRow
  <2>3. outbox' = [o \in DOMAIN outbox \cup new |->
                     IF o \in new
                     THEN [scheduledAt |-> ScheduledAt(row, o[2]), sent |-> FALSE]
                     ELSE outbox[o]]
    BY DEF CommitCreateTx
  <2> QED BY <2>1, <2>2, <2>3 DEF StorageTypeOK, IsTable
<1> QED BY <1>1, <1>3

LEMMA CommitCancelType ==
  ASSUME StorageTypeOK, NEW b \in DOMAIN bookings, CommitCancelTx(b)
  PROVE  /\ IsTable(bookings', Bookings, BookingRow)
         /\ IsTable(outbox', OutboxIds, OutboxRow)
<1>1. bookings[b] \in BookingRow
  BY DEF StorageTypeOK, IsTable
<1>2. [bookings[b] EXCEPT !.status = "canceled"] \in BookingRow
  BY <1>1 DEF BookingRow, Status
<1>3. IsTable(bookings', Bookings, BookingRow)
  BY <1>1, <1>2 DEF CommitCancelTx, StorageTypeOK, IsTable
<1>4. IsTable(outbox', OutboxIds, OutboxRow)
  BY DEF CommitCancelTx, StorageTypeOK, IsTable, Restrict
<1> QED BY <1>3, <1>4
-----------------------------------------------------------------------------

LEMMA TypeOKStep ==
  ASSUME IInv, [Next]_vars
  PROVE  TypeOK'
<1> USE DEF IInv, TypeOK, StorageTypeOK, storageVars, createVars, cancelVars,
            CreateRunning, CreateEnded, CancelRunning, CancelEnded,
            GoCreate, EndCreate, GoCancel, Target
<1> SUFFICES ASSUME Next PROVE TypeOK'
  BY DEF vars
<1>1. ASSUME NEW b \in Bookings, ReceiveCreate(b) PROVE TypeOK'
  BY <1>1 DEF ReceiveCreate
<1>2. ASSUME NEW b \in Bookings, GetResource(b) PROVE TypeOK'
  BY <1>2 DEF GetResource
<1>3. ASSUME NEW b \in Bookings, CheckConflict(b) PROVE TypeOK'
  BY <1>3 DEF CheckConflict, IsTable
<1>4. ASSUME NEW b \in Bookings, InsertBooking(b) PROVE TypeOK'
  BY <1>4 DEF InsertBooking, ReminderKinds
<1>5. ASSUME NEW b \in Bookings, InsertOutbox(b) PROVE TypeOK'
  BY <1>5 DEF InsertOutbox
<1>6. ASSUME NEW b \in Bookings, CommitCreate(b) PROVE TypeOK'
  <2>1. NewRow(createReq[b]) \in BookingRow
    BY <1>6, NewRowType DEF CommitCreate, RequestsKept
  <2>2. IsTable(bookings', Bookings, BookingRow) /\ IsTable(outbox', OutboxIds, OutboxRow)
    BY <1>6, <2>1, CommitCreateType DEF CommitCreate
  <2> QED BY <1>6, <2>2 DEF CommitCreate
<1>7. ASSUME NEW b \in Bookings, PublishCreate(b) PROVE TypeOK'
  BY <1>7 DEF PublishCreate, Produce, Events
<1>8. ASSUME NEW b \in Bookings, CreateError(b) PROVE TypeOK'
  BY <1>8 DEF CreateError
<1>9. ASSUME NEW c \in Cancels, ReceiveCancel(c) PROVE TypeOK'
  BY <1>9 DEF ReceiveCancel
<1>10. ASSUME NEW c \in Cancels, GetTarget(c) PROVE TypeOK'
  BY <1>10 DEF GetTarget
<1>11. ASSUME NEW c \in Cancels, UpdateStatus(c) PROVE TypeOK'
  BY <1>11 DEF UpdateStatus
<1>12. ASSUME NEW c \in Cancels, DeleteReminders(c) PROVE TypeOK'
  BY <1>12 DEF DeleteReminders
<1>13. ASSUME NEW c \in Cancels, CommitCancel(c) PROVE TypeOK'
  <2>1. Target(c) \in DOMAIN bookings
    BY <1>13 DEF CommitCancel, LocksHeld, Confirmed
  <2>2. IsTable(bookings', Bookings, BookingRow) /\ IsTable(outbox', OutboxIds, OutboxRow)
    BY <1>13, <2>1, CommitCancelType DEF CommitCancel
  <2> QED BY <1>13, <2>2 DEF CommitCancel, ReleaseLocks
<1>14. ASSUME NEW c \in Cancels, VerifyCanceled(c) PROVE TypeOK'
  BY <1>14 DEF VerifyCanceled
<1>15. ASSUME NEW c \in Cancels, PublishCancel(c) PROVE TypeOK'
  BY <1>15 DEF PublishCancel, Produce, Events, CancelTopic
<1>16. ASSUME NEW c \in Cancels, CancelError(c) PROVE TypeOK'
  BY <1>16 DEF CancelError, ReleaseLocks
<1>17. CASE Crash
  BY <1>17, ServiceAssumption DEF Crash, ReleaseAllLocks
<1>18. CASE Clock
  BY <1>18 DEF Clock, Tick
<1>19. CASE Finished
  BY <1>19 DEF Finished, vars
<1> QED
  BY <1>1, <1>2, <1>3, <1>4, <1>5, <1>6, <1>7, <1>8, <1>9, <1>10, <1>11, <1>12,
     <1>13, <1>14, <1>15, <1>16, <1>17, <1>18, <1>19 DEF Next, Calls, Clock, CreateStep, CancelStep
-----------------------------------------------------------------------------
\* What a step does to the tables

LEMMA CommitCancelTables ==
  ASSUME StorageTypeOK, NEW b \in DOMAIN bookings, CommitCancelTx(b)
  PROVE  /\ DOMAIN bookings' = DOMAIN bookings
         /\ \A x \in DOMAIN bookings \ {b} : bookings'[x] = bookings[x]
         /\ bookings'[b] = [bookings[b] EXCEPT !.status = "canceled"]
         /\ DOMAIN outbox' = DOMAIN outbox \ UnsentOf(b)
         /\ \A o \in DOMAIN outbox' : outbox'[o] = outbox[o]
BY DEF CommitCancelTx, StorageTypeOK, IsTable, Restrict

\* A step leaves both tables alone, or commits a call.
LEMMA TableSteps ==
  ASSUME [Next]_vars
  PROVE  \/ UNCHANGED <<bookings, outbox>>
         \/ \E b \in Bookings : CommitCreate(b)
         \/ \E c \in Cancels : CommitCancel(c)
BY DEF Next, Calls, Clock, vars, storageVars, CreateStep, CancelStep, ReceiveCreate, GetResource, CheckConflict,
       InsertBooking, InsertOutbox, PublishCreate, CreateError, ReceiveCancel, GetTarget, UpdateStatus,
       DeleteReminders, VerifyCanceled, PublishCancel, CancelError, Crash, Tick, Finished

\* A step moves CreateBooking calls, or leaves all that they keep alone; and so
\* for the calls that cancel.
LEMMA CreateMoves ==
  ASSUME [Next]_vars
  PROVE  \/ UNCHANGED createVars
         \/ \E b \in Bookings : ReceiveCreate(b) \/ CreateStep(b) \/ CreateError(b)
         \/ Crash
BY DEF Next, Calls, Clock, vars, createVars, CancelStep, ReceiveCancel, GetTarget, UpdateStatus,
       DeleteReminders, CommitCancel, VerifyCanceled, PublishCancel, CancelError, Finished

LEMMA CancelMoves ==
  ASSUME [Next]_vars
  PROVE  \/ UNCHANGED <<cancelVars, bookingLock, outboxLock>>
         \/ \E c \in Cancels : ReceiveCancel(c) \/ CancelStep(c) \/ CancelError(c)
         \/ Crash
BY DEF Next, Calls, Clock, vars, cancelVars, storageVars, CreateStep, ReceiveCreate, GetResource,
       CheckConflict, InsertBooking, InsertOutbox, CommitCreate, PublishCreate, CreateError,
       Tick, Finished

\* The step as one call sees it: it is another one's, it is its own, or the
\* process dies.
LEMMA CreateCases ==
  ASSUME IInv, [Next]_vars, NEW b \in Bookings
  PROVE  \/ /\ createPC'[b] = createPC[b]
            /\ createReq'[b] = createReq[b]
            /\ planned'[b] = planned[b]
            /\ seen'[b] = seen[b]
         \/ ReceiveCreate(b) \/ CreateStep(b) \/ CreateError(b)
         \/ Crash
<1> USE DEF IInv, TypeOK, createVars
<1>1. ASSUME NEW x \in Bookings \ {b}, ReceiveCreate(x) \/ CreateStep(x) \/ CreateError(x)
      PROVE  /\ createPC'[b] = createPC[b]
             /\ createReq'[b] = createReq[b]
             /\ planned'[b] = planned[b]
             /\ seen'[b] = seen[b]
  BY <1>1 DEF ReceiveCreate, CreateStep, GetResource, CheckConflict, InsertBooking, InsertOutbox,
              CommitCreate, PublishCreate, CreateError, GoCreate, EndCreate
<1> QED BY <1>1, CreateMoves

LEMMA CancelCases ==
  ASSUME IInv, [Next]_vars, NEW c \in Cancels
  PROVE  \/ /\ cancelPC'[c] = cancelPC[c]
            /\ cancelReq'[c] = cancelReq[c]
         \/ ReceiveCancel(c) \/ CancelStep(c) \/ CancelError(c)
         \/ Crash
<1> USE DEF IInv, TypeOK, cancelVars
<1>1. ASSUME NEW d \in Cancels \ {c}, ReceiveCancel(d) \/ CancelStep(d) \/ CancelError(d)
      PROVE  /\ cancelPC'[c] = cancelPC[c]
             /\ cancelReq'[c] = cancelReq[c]
  BY <1>1 DEF ReceiveCancel, CancelStep, GetTarget, UpdateStatus, DeleteReminders, CommitCancel,
              VerifyCanceled, PublishCancel, CancelError, GoCancel
<1> QED BY <1>1, CancelMoves

LEMMA OnlyCanceledStep ==
  ASSUME IInv, [Next]_vars, NEW b \in DOMAIN bookings
  PROVE  /\ b \in DOMAIN bookings'
         /\ bookings'[b] \in {bookings[b],
                              [bookings[b] EXCEPT !.status = "canceled"]}
<1>1. ASSUME NEW a \in Bookings, CommitCreate(a)
      PROVE  b \in DOMAIN bookings' /\ bookings'[b] = bookings[b]
  BY <1>1 DEF CommitCreate, CommitCreateTx, IInv, RowsOfCalls
<1>2. ASSUME NEW c \in Cancels, CommitCancel(c)
      PROVE  /\ b \in DOMAIN bookings'
             /\ bookings'[b] \in {bookings[b],
                                  [bookings[b] EXCEPT !.status = "canceled"]}
  <2>1. Target(c) \in DOMAIN bookings
    BY <1>2 DEF CommitCancel, IInv, LocksHeld, Confirmed
  <2> QED BY <1>2, <2>1, CommitCancelTables DEF CommitCancel, IInv, TypeOK
<1> QED BY <1>1, <1>2, TableSteps

\* The same, in the terms of the invariants: slots never change, and a booking
\* may become canceled but not confirmed again.
LEMMA RowsKept ==
  ASSUME IInv, [Next]_vars, NEW b \in DOMAIN bookings
  PROVE  /\ b \in DOMAIN bookings'
         /\ bookings'[b].user = bookings[b].user
         /\ bookings'[b].type = bookings[b].type
         /\ bookings'[b].startsAt = bookings[b].startsAt
         /\ bookings'[b].endsAt = bookings[b].endsAt
         /\ Confirmed(b)' => Confirmed(b)
         /\ Canceled(b) => Canceled(b)'
<1>1. bookings[b] \in BookingRow
  BY DEF IInv, TypeOK, StorageTypeOK, IsTable
<1> QED BY <1>1, OnlyCanceledStep DEF Confirmed, Canceled, BookingRow

-----------------------------------------------------------------------------
\* The parts of the invariant, one lemma each

LEMMA RowsOfCallsStep ==
  ASSUME IInv, [Next]_vars
  PROVE  RowsOfCalls'
<1> USE DEF IInv, TypeOK, StorageTypeOK, RowsOfCalls, GoCreate, EndCreate
<1>1. ASSUME NEW b \in Bookings, CommitCreate(b) PROVE RowsOfCalls'
  <2>1. DOMAIN bookings' = DOMAIN bookings \cup {b}
    BY <1>1 DEF CommitCreate, CommitCreateTx
  <2>2. \E pc \in {"publish", "failed"} : createPC' = [createPC EXCEPT ![b] = pc]
    BY <1>1 DEF CommitCreate
  <2> QED BY <2>1, <2>2
<1>2. ASSUME NEW c \in Cancels, CommitCancel(c) PROVE RowsOfCalls'
  <2>1. DOMAIN bookings' = DOMAIN bookings
    BY <1>2 DEF CommitCancel, CommitCancelTx
  <2> QED BY <1>2, <2>1 DEF CommitCancel, createVars
<1>3. ASSUME NEW b \in Bookings, ReceiveCreate(b) \/ CreateStep(b) \/ CreateError(b),
             UNCHANGED bookings
      PROVE  RowsOfCalls'
  <2>1. CASE PublishCreate(b)
    BY <2>1, <1>3 DEF PublishCreate
  <2>2. CASE ~PublishCreate(b) /\ ~CommitCreate(b)
    <3>1. /\ createPC[b] \notin {"publish", "ok", "failed", "lost"}
          /\ \E pc \in {"resource", "check", "insert", "outbox", "commit", "failed"} :
               createPC' = [createPC EXCEPT ![b] = pc]
      BY <2>2, <1>3 DEF ReceiveCreate, CreateStep, GetResource, CheckConflict,
           InsertBooking, InsertOutbox, CreateError, CreateRunning
    <3> QED BY <3>1, <1>3
  <2> QED BY <1>1, <2>1, <2>2
<1>4. CASE Crash
  BY <1>4 DEF Crash, CreateRunning, IsTable
<1>5. CASE UNCHANGED <<bookings, createPC>>
  BY <1>5
<1>6. ASSUME NEW b \in Bookings, ReceiveCreate(b) \/ CreateStep(b) \/ CreateError(b)
      PROVE  CommitCreate(b) \/ UNCHANGED bookings
  BY <1>6 DEF ReceiveCreate, CreateStep, GetResource, CheckConflict, InsertBooking, InsertOutbox,
              PublishCreate, CreateError, storageVars
<1> QED
  BY <1>1, <1>2, <1>3, <1>4, <1>5, <1>6, TableSteps, CreateMoves DEF createVars
LEMMA RequestsKeptStep ==
  ASSUME IInv, [Next]_vars
  PROVE  RequestsKept'
<1> USE DEF IInv, TypeOK, RequestsKept, CreateRunning, CancelRunning
<1>1. ASSUME NEW b \in Bookings, createPC'[b] \in CreateRunning
      PROVE  createReq'[b] \in CreateRequest
  BY <1>1, CreateCases DEF ReceiveCreate, CreateStep, GetResource, CheckConflict, InsertBooking,
     InsertOutbox, CommitCreate, PublishCreate, CreateError, GoCreate, EndCreate, Crash
<1>2. ASSUME NEW c \in Cancels, cancelPC'[c] # "idle"
      PROVE  /\ cancelReq'[c] \in CancelRequest
             /\ cancelReq'[c].target \in DOMAIN bookings \cup {UnknownBooking}
  BY <1>2, CancelCases DEF ReceiveCancel, CancelStep, GetTarget, UpdateStatus, DeleteReminders,
     CommitCancel, VerifyCanceled, PublishCancel, CancelError, GoCancel, Crash, Target
<1> QED BY <1>1, <1>2, RowsKept DEF Target
LEMMA CheckedStep ==
  ASSUME IInv, [Next]_vars
  PROVE  Checked'
<1> USE DEF IInv, TypeOK
<1>1. ASSUME NEW b \in Bookings
      PROVE  seen[b] \subseteq DOMAIN bookings /\ seen'[b] \subseteq DOMAIN bookings
  BY CreateCases DEF Checked, ReceiveCreate, CreateStep, GetResource, CheckConflict, InsertBooking,
     InsertOutbox, CommitCreate, PublishCreate, CreateError, Crash
<1>2. ASSUME NEW b \in Bookings
      PROVE  seen'[b] \subseteq DOMAIN bookings'
  BY <1>1, RowsKept
<1>3. ASSUME NEW b \in Bookings,
             createPC'[b] \in {"insert", "outbox", "commit"},
             RequiresConflictCheck(NewRow(createReq'[b]).type),
             NEW a \in seen'[b], Confirmed(a)',
             bookings'[a].user = NewRow(createReq'[b]).user,
             bookings'[a].type = NewRow(createReq'[b]).type
      PROVE  ~Collides(bookings'[a], NewRow(createReq'[b]).startsAt,
                       NewRow(createReq'[b]).endsAt, BookingGap)
  <2>1. /\ a \in DOMAIN bookings /\ Confirmed(a)
        /\ bookings'[a].user = bookings[a].user
        /\ bookings'[a].type = bookings[a].type
        /\ bookings'[a].startsAt = bookings[a].startsAt
        /\ bookings'[a].endsAt = bookings[a].endsAt
    BY <1>1, <1>3, RowsKept
  <2>2. CASE CheckConflict(b)
    <3>1. ~ConflictFound(b) /\ createReq'[b] = createReq[b]
      BY <2>2, <1>3 DEF CheckConflict, GoCreate, EndCreate
    <3> QED
      BY <2>1, <3>1, <1>3 DEF ConflictFound, HasBookingConflict, Collides, NewRow, Confirmed
  <2>3. CASE GetResource(b)
    BY <2>3, <1>3 DEF GetResource, GoCreate, EndCreate, NewRow
  <2>4. CASE ~CheckConflict(b) /\ ~GetResource(b)
    <3>1. /\ createPC[b] \in {"insert", "outbox", "commit"}
          /\ createReq'[b] = createReq[b]
          /\ a \in seen[b]
      BY <2>4, <1>3, CreateCases DEF ReceiveCreate, CreateStep, InsertBooking, InsertOutbox,
         CommitCreate, PublishCreate, CreateError, GoCreate, EndCreate, Crash, CreateRunning
    <3> QED BY <2>1, <3>1, <1>3 DEF Checked, Collides
  <2> QED BY <2>2, <2>3, <2>4
<1> QED BY <1>2, <1>3 DEF Checked, NewRow

LEMMA ConflictOnlyByRaceStep ==
  ASSUME IInv, [Next]_vars
  PROVE  ConflictOnlyByRace'
<1> SUFFICES ASSUME NEW a \in Bookings, NEW b \in Bookings, a # b, InConflict(a, b)'
             PROVE  a \notin seen'[b]
  BY DEF ConflictOnlyByRace
<1> USE DEF IInv, TypeOK, StorageTypeOK, IsTable
<1>1. ASSUME NEW x \in {a, b}, x \in DOMAIN bookings
      PROVE  /\ Confirmed(x)
             /\ bookings'[x].user = bookings[x].user
             /\ bookings'[x].type = bookings[x].type
             /\ bookings'[x].startsAt = bookings[x].startsAt
             /\ bookings'[x].endsAt = bookings[x].endsAt
  BY <1>1, RowsKept DEF InConflict
\* A row that exists keeps its view, and nobody has a row in view that does not.
<1>2. b \in DOMAIN bookings => seen'[b] = seen[b]
  BY CreateCases DEF RowsOfCalls, ReceiveCreate, CreateStep, GetResource, CheckConflict,
     InsertBooking, InsertOutbox, CommitCreate, PublishCreate, CreateError, Crash
<1>3. a \in DOMAIN bookings /\ b \in DOMAIN bookings => a \notin seen'[b]
  BY <1>1, <1>2 DEF ConflictOnlyByRace, InConflict, Collides
<1>4. ASSUME NEW x \in Bookings, CommitCreate(x), x = a \/ x = b
      PROVE  a \notin seen'[b]
  <2>1. /\ seen' = seen /\ x \notin DOMAIN bookings
        /\ DOMAIN bookings' = DOMAIN bookings \cup {x}
        /\ bookings'[x] = NewRow(createReq[x])
    BY <1>4 DEF CommitCreate, CommitCreateTx, RowsOfCalls
  <2>2. CASE x = a
    BY <2>1, <2>2 DEF Checked
  <2>3. CASE x = b /\ a \in DOMAIN bookings
    BY <2>1, <2>3, <1>4, <1>1 DEF Checked, InConflict, Confirmed, CommitCreate, Collides
  <2>4. CASE x = b /\ a \notin DOMAIN bookings
    BY <2>1, <2>4 DEF Checked
  <2> QED BY <1>4, <2>2, <2>3, <2>4
<1>5. ASSUME NEW x \in Bookings, CommitCreate(x)
      PROVE  DOMAIN bookings' = DOMAIN bookings \cup {x}
  BY <1>5 DEF CommitCreate, CommitCreateTx
<1>6. ASSUME NEW c \in Cancels, CommitCancel(c)
      PROVE  DOMAIN bookings' = DOMAIN bookings
  BY <1>6 DEF CommitCancel, CommitCancelTx
<1>7. a \in DOMAIN bookings' /\ b \in DOMAIN bookings'
  BY DEF InConflict, Confirmed
<1> QED BY <1>3, <1>4, <1>5, <1>6, <1>7, TableSteps
LEMMA RemindersStep ==
  ASSUME IInv, [Next]_vars
  PROVE  RemindersFollowBooking'
<1> USE DEF IInv, TypeOK, StorageTypeOK, IsTable
<1>1. ASSUME NEW b \in Bookings, b \in DOMAIN bookings
      PROVE  planned'[b] = planned[b]
  BY <1>1, CreateCases DEF RowsOfCalls, ReceiveCreate, CreateStep, GetResource, CheckConflict,
     InsertBooking, InsertOutbox, CommitCreate, PublishCreate, CreateError, Crash
<1>2. CASE UNCHANGED <<bookings, outbox>>
  BY <1>1, <1>2 DEF RemindersFollowBooking, Confirmed, Canceled, UnsentOf
<1>3. ASSUME NEW x \in Bookings, CommitCreate(x)
      PROVE  RemindersFollowBooking'
  <2>1. /\ x \notin DOMAIN bookings
        /\ DOMAIN bookings' = DOMAIN bookings \cup {x}
        /\ bookings'[x].status = "confirmed"
        /\ \A b \in DOMAIN bookings : bookings'[b] = bookings[b]
    BY <1>3 DEF CommitCreate, CommitCreateTx, RowsOfCalls, NewRow
  <2>2. /\ DOMAIN outbox' = DOMAIN outbox \cup ({x} \X planned[x])
        /\ \A o \in DOMAIN outbox : o[1] # x
        /\ \A o \in DOMAIN outbox : outbox'[o] = outbox[o]
        /\ planned' = planned
    BY <1>3, <2>1 DEF CommitCreate, CommitCreateTx, RemindersFollowBooking
  <2>3. ASSUME NEW b \in Bookings, Confirmed(b)'
        PROVE  {k \in Kinds : <<b, k>> \in DOMAIN outbox'} = planned'[b]
    <3>1. CASE b = x
      BY <2>2, <3>1
    <3>2. CASE b # x
      BY <2>1, <2>2, <2>3, <3>2 DEF Confirmed, RemindersFollowBooking
    <3> QED BY <3>1, <3>2
  <2>4. ASSUME NEW b \in Bookings, Canceled(b)'
        PROVE  UnsentOf(b)' = {}
    BY <2>1, <2>2, <2>4 DEF Canceled, RemindersFollowBooking, UnsentOf
  <2>5. \A o \in DOMAIN outbox' : o[1] \in DOMAIN bookings'
    BY <2>1, <2>2 DEF RemindersFollowBooking
  <2> QED BY <2>3, <2>4, <2>5 DEF RemindersFollowBooking
<1>4. ASSUME NEW c \in Cancels, CommitCancel(c)
      PROVE  RemindersFollowBooking'
  <2> DEFINE t == Target(c)
  <2>1. t \in DOMAIN bookings /\ CommitCancelTx(t)
    BY <1>4 DEF CommitCancel, LocksHeld, Confirmed
  <2>2. /\ DOMAIN bookings' = DOMAIN bookings
        /\ \A b \in DOMAIN bookings \ {t} : bookings'[b] = bookings[b]
        /\ bookings'[t].status = "canceled"
        /\ DOMAIN outbox' = DOMAIN outbox \ UnsentOf(t)
        /\ \A o \in DOMAIN outbox' : outbox'[o] = outbox[o]
    <3>1. bookings[t] \in BookingRow
      BY <2>1
    <3> QED BY <2>1, <3>1, CommitCancelTables DEF BookingRow
  <2>3. ASSUME NEW b \in Bookings, Confirmed(b)'
        PROVE  {k \in Kinds : <<b, k>> \in DOMAIN outbox'} = planned'[b]
    <3>1. b # t /\ Confirmed(b) /\ planned'[b] = planned[b]
      BY <1>1, <2>2, <2>3 DEF Confirmed
    <3> QED BY <2>2, <3>1 DEF RemindersFollowBooking, UnsentOf
  <2>4. ASSUME NEW b \in Bookings, Canceled(b)'
        PROVE  UnsentOf(b)' = {}
    BY <2>2, <2>4 DEF Canceled, RemindersFollowBooking, UnsentOf
  <2>5. \A o \in DOMAIN outbox' : o[1] \in DOMAIN bookings'
    BY <2>2 DEF RemindersFollowBooking
  <2> QED BY <2>3, <2>4, <2>5 DEF RemindersFollowBooking
<1> QED BY <1>2, <1>3, <1>4, TableSteps

LEMMA LocksHeldStep ==
  ASSUME IInv, [Next]_vars
  PROVE  LocksHeld'
<1> USE DEF IInv, TypeOK, StorageTypeOK, IsTable
<1> SUFFICES ASSUME NEW c \in Cancels, cancelPC'[c] \in {"delete", "commit"}
             PROVE  Confirmed(Target(c))' /\ bookingLock'[Target(c)'] = c
  BY DEF LocksHeld
<1>1. CASE UpdateStatus(c)
  BY <1>1 DEF UpdateStatus, GoCancel, MatchesUpdate, Confirmed, Target
<1>2. CASE DeleteReminders(c)
  BY <1>2 DEF DeleteReminders, GoCancel, LocksHeld, Confirmed, Target
\* Any other step that matters is one of another call, which holds no lock on
\* the same booking.
<1>3. CASE ~UpdateStatus(c) /\ ~DeleteReminders(c)
  <2>1. /\ cancelPC'[c] = cancelPC[c] /\ Target(c)' = Target(c)
        /\ Confirmed(Target(c)) /\ bookingLock[Target(c)] = c
    BY <1>3, CancelCases DEF ReceiveCancel, CancelStep, GetTarget, CommitCancel, VerifyCanceled,
       PublishCancel, CancelError, GoCancel, Crash, LocksHeld, Target, CancelRunning
  <2>2. ASSUME NEW d \in Cancels, CancelStep(d) \/ CancelError(d) \/ ReceiveCancel(d)
        PROVE  bookingLock'[Target(c)] = c
    <3>1. d # c
      BY <1>3, <2>1, <2>2 DEF ReceiveCancel, CancelStep, GetTarget, CommitCancel, VerifyCanceled,
         PublishCancel, CancelError, GoCancel
    <3>2. cancelPC[d] \in {"delete", "commit"} => Target(d) # Target(c)
      BY <2>1, <3>1 DEF LocksHeld
    <3> QED
      BY <2>1, <2>2, <3>1, <3>2, StorageAssumption
      DEF ReceiveCancel, CancelStep, GetTarget, UpdateStatus, DeleteReminders, CommitCancel,
          VerifyCanceled, PublishCancel, CancelError, ReleaseLocks, storageVars, LocksHeld, Confirmed
  <2>3. ~Crash
    BY <2>1 DEF Crash, CancelRunning
  <2>4. bookingLock'[Target(c)] = c
    BY <2>1, <2>2, <2>3, CancelMoves
  <2>5. Target(c) \in DOMAIN bookings'
    BY <2>1, RowsKept DEF Confirmed
  <2>6. bookings'[Target(c)] = bookings[Target(c)]
    <3>1. ASSUME NEW x \in Bookings, CommitCreate(x)
          PROVE  bookings'[Target(c)] = bookings[Target(c)]
      BY <2>1, <3>1 DEF CommitCreate, CommitCreateTx, Confirmed, RowsOfCalls
    <3>2. ASSUME NEW d \in Cancels, CommitCancel(d)
          PROVE  bookings'[Target(c)] = bookings[Target(c)]
      <4>1. d # c
        BY <1>3, <2>1, <3>2 DEF CommitCancel, GoCancel
      <4>2. Target(d) # Target(c)
        BY <2>1, <3>2, <4>1 DEF CommitCancel, LocksHeld
      <4> QED BY <2>1, <3>2, <4>2 DEF CommitCancel, CommitCancelTx, Confirmed
    <3> QED BY <3>1, <3>2, TableSteps
  <2> QED BY <2>1, <2>4, <2>5, <2>6 DEF Confirmed
<1> QED BY <1>1, <1>2, <1>3
LEMMA LocksOwnedStep ==
  ASSUME IInv, [Next]_vars
  PROVE  LocksOwned'
<1> USE DEF IInv, TypeOK, StorageTypeOK, IsTable, storageVars, cancelVars, Target
<1>1. CASE UNCHANGED <<cancelVars, bookingLock, outboxLock>>
  BY <1>1 DEF LocksOwned
<1>2. CASE Crash
  BY <1>2 DEF Crash, ReleaseAllLocks, LocksOwned
<1>3. ASSUME NEW c \in Cancels, UpdateStatus(c)
      PROVE  LocksOwned'
  BY <1>3, StorageAssumption DEF UpdateStatus, GoCancel, LocksOwned, MatchesUpdate, Confirmed
<1>4. ASSUME NEW c \in Cancels, DeleteReminders(c)
      PROVE  LocksOwned'
  BY <1>4 DEF DeleteReminders, GoCancel, LocksOwned, LocksHeld, Confirmed
<1>5. ASSUME NEW c \in Cancels, CommitCancel(c)
      PROVE  LocksOwned'
  BY <1>5, StorageAssumption DEF CommitCancel, ReleaseLocks, GoCancel, LocksOwned, LocksHeld, Confirmed
<1>6. ASSUME NEW c \in Cancels, CancelError(c)
      PROVE  LocksOwned'
  BY <1>6, StorageAssumption
  DEF CancelError, ReleaseLocks, GoCancel, LocksOwned, LocksHeld, Confirmed
\* A call that takes or releases no lock holds none.
<1>7. ASSUME NEW c \in Cancels,
             ReceiveCancel(c) \/ GetTarget(c) \/ VerifyCanceled(c) \/ PublishCancel(c)
      PROVE  LocksOwned'
  BY <1>7, StorageAssumption
  DEF ReceiveCancel, GetTarget, VerifyCanceled, PublishCancel, GoCancel, LocksOwned
<1> QED
  BY <1>1, <1>2, <1>3, <1>4, <1>5, <1>6, <1>7, CancelMoves DEF CancelStep

LEMMA OneWinnerStep ==
  ASSUME IInv, [Next]_vars
  PROVE  OneWinner'
<1> USE DEF IInv, TypeOK, OneWinner
\* A call that has won was one of those already, or it is committing.
<1>1. ASSUME NEW c \in Cancels, cancelPC'[c] \in {"publish", "ok"}
      PROVE  /\ Target(c)' = Target(c)
             /\ cancelPC[c] \in {"publish", "ok"} \/ CommitCancel(c)
  BY <1>1, CancelCases DEF ReceiveCancel, CancelStep, GetTarget, UpdateStatus, DeleteReminders,
     CommitCancel, VerifyCanceled, PublishCancel, CancelError, GoCancel, Crash, Target, CancelRunning
<1>2. ASSUME NEW c \in Cancels, CommitCancel(c)
      PROVE  /\ Confirmed(Target(c)) /\ Canceled(Target(c))'
             /\ \A d \in Cancels \ {c} : ~CommitCancel(d)
  <2>1. Target(c) \in DOMAIN bookings /\ Confirmed(Target(c))
    BY <1>2 DEF CommitCancel, LocksHeld, Confirmed
  <2>2. bookings[Target(c)] \in BookingRow
    BY <2>1 DEF StorageTypeOK, IsTable
  <2>3. Canceled(Target(c))'
    <3>1. Target(c)' = Target(c)
      BY <1>2 DEF CommitCancel, GoCancel, Target
    <3>2. /\ Target(c) \in DOMAIN bookings'
          /\ bookings'[Target(c)] = [bookings[Target(c)] EXCEPT !.status = "canceled"]
      BY <1>2, <2>1, CommitCancelTables DEF CommitCancel
    <3>3. bookings'[Target(c)].status = "canceled"
      BY <2>2, <3>2 DEF BookingRow
    <3> QED BY <3>1, <3>2, <3>3 DEF Canceled
  <2>4. \A d \in Cancels \ {c} : ~CommitCancel(d)
    BY <1>2 DEF CommitCancel, GoCancel
  <2> QED BY <2>1, <2>3, <2>4
<1>3. ASSUME NEW c \in Cancels, cancelPC'[c] \in {"publish", "ok"}
      PROVE  Canceled(Target(c))'
  BY <1>1, <1>2, <1>3, RowsKept DEF Canceled
<1>4. ASSUME NEW c \in Cancels, NEW d \in Cancels,
             cancelPC'[c] \in {"publish", "ok"}, cancelPC'[d] \in {"publish", "ok"},
             Target(c)' = Target(d)'
      PROVE  c = d
  BY <1>1, <1>2, <1>4 DEF Confirmed, Canceled
<1> QED BY <1>3, <1>4

LEMMA EventsOfCallsStep ==
  ASSUME IInv, [Next]_vars
  PROVE  EventsOfCalls'
<1> USE DEF IInv, TypeOK, EventsOfCalls, Events
\* A call that has ended well stays so, with its request.
<1>1. ASSUME NEW b \in Bookings, createPC[b] = "ok"
      PROVE  createPC'[b] = "ok"
  BY <1>1, CreateCases DEF ReceiveCreate, CreateStep, GetResource, CheckConflict, InsertBooking,
     InsertOutbox, CommitCreate, PublishCreate, CreateError, Crash, CreateRunning
<1>2. ASSUME NEW c \in Cancels, cancelPC[c] = "ok"
      PROVE  cancelPC'[c] = "ok" /\ cancelReq'[c] = cancelReq[c]
  BY <1>2, CancelCases DEF ReceiveCancel, CancelStep, GetTarget, UpdateStatus, DeleteReminders,
     CommitCancel, VerifyCanceled, PublishCancel, CancelError, Crash, CancelRunning
<1>3. ASSUME NEW e \in events
      PROVE  IF e[1] = "user_booking"
             THEN createPC'[e[2]] = "ok"
             ELSE cancelPC'[e[2]] = "ok" /\ e[1] = CancelTopic(cancelReq'[e[2]])
  BY <1>1, <1>2, <1>3
<1>4. ASSUME NEW b \in Bookings, PublishCreate(b)
      PROVE  events' \subseteq events \cup {<<"user_booking", b>>} /\ createPC'[b] = "ok"
  BY <1>4 DEF PublishCreate, Produce, EndCreate
<1>5. ASSUME NEW c \in Cancels, PublishCancel(c)
      PROVE  /\ events' \subseteq events \cup {<<CancelTopic(cancelReq[c]), c>>}
             /\ cancelPC'[c] = "ok" /\ cancelReq' = cancelReq
  BY <1>5 DEF PublishCancel, Produce, GoCancel
<1>6. \/ \E b \in Bookings : PublishCreate(b)
      \/ \E c \in Cancels : PublishCancel(c)
      \/ UNCHANGED events
  BY DEF Next, Calls, Clock, vars, CreateStep, CancelStep, ReceiveCreate, GetResource, CheckConflict,
         InsertBooking, InsertOutbox, CommitCreate, CreateError, ReceiveCancel, GetTarget,
         UpdateStatus, DeleteReminders, CommitCancel, VerifyCanceled, CancelError, Crash, Finished
<1> QED BY <1>3, <1>4, <1>5, <1>6 DEF CancelTopic

LEMMA RightsKeptStep ==
  ASSUME IInv, [Next]_vars
  PROVE  RightsKept'
<1> USE DEF IInv, TypeOK, RightsKept, StorageTypeOK, IsTable
<1> SUFFICES ASSUME NEW c \in Cancels
             PROVE  /\ cancelPC'[c] \in CancelRunning => Authorized(cancelReq'[c])
                    /\ cancelPC'[c] = "get" => cancelReq'[c].api = "user"
                    /\ /\ cancelPC'[c] \in {"update", "delete", "commit"}
                       /\ Target(c)' \in DOMAIN bookings'
                       => MayCancel(cancelReq[c])'
                    /\ cancelPC'[c] = "verify" => ~Confirmed(Target(c))'
  BY DEF Target, Authorized
\* The owner of a row is the same before and after the step.
<1>1. ASSUME Target(c)' \in DOMAIN bookings
      PROVE  bookings'[Target(c)'].user = bookings[Target(c)'].user
  BY <1>1, RowsKept
<1>2. ASSUME cancelPC'[c] # "idle", Target(c)' \in DOMAIN bookings'
      PROVE  Target(c)' \in DOMAIN bookings
  <2>1. Target(c)' \in DOMAIN bookings \cup {UnknownBooking}
    BY <1>2, CancelCases DEF ReceiveCancel, CancelStep, GetTarget, UpdateStatus, DeleteReminders,
       CommitCancel, VerifyCanceled, PublishCancel, CancelError, GoCancel, Crash, Target,
       CancelRunning, RequestsKept
  <2>2. DOMAIN bookings' \subseteq Bookings
    BY TypeOKStep
  <2> QED BY <1>2, <2>1, <2>2, ServiceAssumption
<1>3. cancelPC'[c] = "get" => cancelReq'[c].api = "user"
  BY CancelCases DEF ReceiveCancel, CancelStep, GetTarget, UpdateStatus, DeleteReminders,
     CommitCancel, VerifyCanceled, PublishCancel, CancelError, GoCancel, Crash
<1>4. ASSUME cancelPC'[c] \in {"update", "delete", "commit"}, Target(c)' \in DOMAIN bookings'
      PROVE  MayCancel(cancelReq[c])'
  <2>1. CASE ReceiveCancel(c)
    BY <2>1, <1>4 DEF ReceiveCancel, MayCancel, Authorized, CancelRequest
  <2>2. CASE GetTarget(c)
    BY <2>2, <1>1, <1>2, <1>4 DEF GetTarget, GoCancel, OwnsTarget, MayCancel, Target
  <2>3. CASE ~ReceiveCancel(c) /\ ~GetTarget(c)
    <3>1. cancelPC[c] \in {"update", "delete", "commit"} /\ cancelReq'[c] = cancelReq[c]
      BY <2>3, <1>4, CancelCases DEF CancelStep, UpdateStatus, DeleteReminders, CommitCancel,
         VerifyCanceled, PublishCancel, CancelError, GoCancel, Crash
    <3> QED BY <3>1, <1>1, <1>2, <1>4 DEF MayCancel, Target
  <2> QED BY <2>1, <2>2, <2>3
<1>5. ASSUME cancelPC'[c] = "verify"
      PROVE  ~Confirmed(Target(c))'
  <2>1. Target(c)' = Target(c) /\ ~Confirmed(Target(c))
    BY <1>5, CancelCases DEF ReceiveCancel, CancelStep, GetTarget, UpdateStatus, DeleteReminders,
       CommitCancel, VerifyCanceled, PublishCancel, CancelError, GoCancel, Crash, Target, MatchesUpdate
  <2> QED BY <2>1, <1>2, <1>5, RowsKept DEF Confirmed
<1>6. cancelPC'[c] \in CancelRunning => Authorized(cancelReq'[c])
  BY CancelCases DEF ReceiveCancel, CancelStep, GetTarget, UpdateStatus, DeleteReminders,
     CommitCancel, VerifyCanceled, PublishCancel, CancelError, GoCancel, Crash, CancelRunning
<1> QED BY <1>3, <1>4, <1>5, <1>6

LEMMA TruthfulAnswersStep ==
  ASSUME IInv, [Next]_vars
  PROVE  TruthfulAnswers'
<1> USE DEF IInv, TypeOK, StorageTypeOK, IsTable
<1>1. ASSUME NEW b \in Bookings, createPC'[b] = "ok"
      PROVE  b \in DOMAIN bookings'
  BY <1>1, RowsOfCallsStep DEF RowsOfCalls
<1>2. ASSUME NEW c \in Cancels, cancelPC'[c] = "ok"
      PROVE  Canceled(Target(c))'
  BY <1>2, OneWinnerStep DEF OneWinner
<1>3. ASSUME NEW c \in Cancels, cancelPC[c] # "idle", Target(c) \notin DOMAIN bookings
      PROVE  Target(c) \notin DOMAIN bookings'
  BY <1>3, TypeOKStep, ServiceAssumption DEF RequestsKept
<1>4. ASSUME NEW c \in Cancels, cancelPC'[c] = "already_canceled"
      PROVE  Canceled(Target(c))'
  <2>1. Target(c)' = Target(c) /\ Canceled(Target(c))
    <3>1. CASE VerifyCanceled(c)
      BY <3>1, <1>4 DEF VerifyCanceled, GoCancel, RightsKept, Confirmed, Canceled, BookingRow,
         Status, Target
    <3>2. CASE ~VerifyCanceled(c)
      BY <3>2, <1>4, CancelCases DEF ReceiveCancel, CancelStep, GetTarget, UpdateStatus,
         DeleteReminders, CommitCancel, PublishCancel, CancelError, GoCancel, Crash, Target,
         TruthfulAnswers
    <3> QED BY <3>1, <3>2
  <2> QED BY <2>1, RowsKept DEF Canceled
<1>5. ASSUME NEW c \in Cancels, cancelPC'[c] = "not_found"
      PROVE  (Target(c) \notin DOMAIN bookings)'
  <2>1. /\ Target(c)' = Target(c) /\ Target(c) \notin DOMAIN bookings
        /\ cancelPC[c] # "idle"
    BY <1>5, CancelCases DEF ReceiveCancel, CancelStep, GetTarget, UpdateStatus, DeleteReminders,
       CommitCancel, VerifyCanceled, PublishCancel, CancelError, GoCancel, Crash, Target, TruthfulAnswers
  <2> QED BY <2>1, <1>3
<1>6. ASSUME NEW c \in Cancels, cancelPC'[c] = "denied", Authorized(cancelReq'[c])
      PROVE  (Target(c) \in DOMAIN bookings /\ ~MayCancel(cancelReq[c]))'
  <2>1. /\ cancelReq'[c] = cancelReq[c]
        /\ Target(c) \in DOMAIN bookings /\ ~MayCancel(cancelReq[c])
    <3>1. CASE GetTarget(c)
      BY <3>1, <1>6 DEF GetTarget, GoCancel, OwnsTarget, MayCancel, RightsKept, Target
    <3>2. CASE ~GetTarget(c)
      BY <3>2, <1>6, CancelCases DEF ReceiveCancel, CancelStep, UpdateStatus, DeleteReminders,
         CommitCancel, VerifyCanceled, PublishCancel, CancelError, GoCancel, Crash, TruthfulAnswers
    <3> QED BY <3>1, <3>2
  <2> QED BY <2>1, RowsKept DEF MayCancel, Target
<1> QED BY <1>1, <1>2, <1>4, <1>5, <1>6 DEF TruthfulAnswers

\* CanceledByRight of one step.
RightfulStep ==
  \A b \in Bookings : ~Canceled(b) /\ Canceled(b)' =>
    \E c \in Cancels :
      /\ cancelPC[c] = "commit" /\ cancelPC'[c] # "commit"
      /\ Target(c) = b
      /\ Authorized(cancelReq[c]) /\ MayCancel(cancelReq[c])

\* Only a COMMIT changes the booking table, and the call that reaches it has
\* been found entitled: its row cannot have changed hands since.
LEMMA RightfulStepHolds ==
  ASSUME IInv, [Next]_vars
  PROVE  RightfulStep
<1> USE DEF IInv, TypeOK, StorageTypeOK, IsTable
<1> SUFFICES ASSUME NEW b \in Bookings, ~Canceled(b), Canceled(b)'
             PROVE  \E c \in Cancels :
                      /\ cancelPC[c] = "commit" /\ cancelPC'[c] # "commit"
                      /\ Target(c) = b
                      /\ Authorized(cancelReq[c]) /\ MayCancel(cancelReq[c])
  BY DEF RightfulStep
<1>1. ~ UNCHANGED <<bookings, outbox>>
  BY DEF Canceled
<1>2. ASSUME NEW x \in Bookings, CommitCreate(x)
      PROVE  FALSE
  BY <1>2 DEF CommitCreate, CommitCreateTx, NewRow, Canceled
<1>3. PICK c \in Cancels : CommitCancel(c)
  BY <1>1, <1>2, TableSteps
<1>4. Target(c) \in DOMAIN bookings /\ CommitCancelTx(Target(c))
  BY <1>3 DEF CommitCancel, LocksHeld, Confirmed
<1>5. Target(c) = b
  BY <1>4, CommitCancelTables DEF Canceled
<1>6. cancelPC[c] = "commit" /\ cancelPC'[c] # "commit"
  BY <1>3 DEF CommitCancel, GoCancel
<1>7. Authorized(cancelReq[c]) /\ MayCancel(cancelReq[c])
  BY <1>4, <1>6 DEF RightsKept, CancelRunning
<1> QED BY <1>5, <1>6, <1>7

-----------------------------------------------------------------------------
\* The invariant

LEMMA InitIInv == Init => IInv
<1> SUFFICES ASSUME Init PROVE IInv
  OBVIOUS
<1>1. TypeOK
  BY InitTypeOK
<1>2. RequestsKept /\ RowsOfCalls /\ Checked /\ LocksHeld /\ LocksOwned
      /\ OneWinner /\ EventsOfCalls /\ RightsKept
  BY DEF Init, StorageInit, RequestsKept, RowsOfCalls, Checked, LocksHeld, LocksOwned,
         OneWinner, EventsOfCalls, RightsKept, CreateRunning, CancelRunning
<1>3. ConflictOnlyByRace /\ RemindersFollowBooking /\ TruthfulAnswers
  BY DEF Init, StorageInit, ConflictOnlyByRace, InConflict, RemindersFollowBooking, TruthfulAnswers,
         Confirmed, Canceled
<1> QED BY <1>1, <1>2, <1>3 DEF IInv

LEMMA IInvStep == IInv /\ [Next]_vars => IInv'
BY TypeOKStep, RequestsKeptStep, RowsOfCallsStep, CheckedStep, ConflictOnlyByRaceStep,
   RemindersStep, LocksHeldStep, LocksOwnedStep, OneWinnerStep, EventsOfCallsStep, RightsKeptStep,
   TruthfulAnswersStep DEF IInv

LEMMA Invariance == Spec => []IInv
BY InitIInv, IInvStep, PTL DEF Spec

\* Every state of the program has tables, locks, calls and events of the types
\* declared, at any number of calls, users and resources.
THEOREM TypeCorrect == Spec => []TypeOK
BY Invariance, PTL DEF IInv

\* Two confirmed bookings of a user that are closer than the gap can only come
\* from two CreateBooking calls each of which ran its conflict query before the
\* other committed: without the race the check is enough.
THEOREM ConflictsComeFromRaces == Spec => []ConflictOnlyByRace
BY Invariance, PTL DEF IInv

\* At every moment between the steps of any number of calls, rollbacks and
\* crashes, the pending reminders are those of the confirmed bookings.
THEOREM RemindersInStep == Spec => []RemindersFollowBooking
BY Invariance, PTL DEF IInv

\* What a call has answered is true of the tables for good.
THEOREM AnswersHold == Spec => []TruthfulAnswers
BY Invariance, PTL DEF IInv

\* Every booking that is canceled is canceled by the COMMIT of a call whose own
\* caller is its owner, or an administrator who uses the API for administrators.
THEOREM CancelationsAuthorized == Spec => CanceledByRight
<1>1. IInv /\ [Next]_vars => [RightfulStep]_vars
  BY RightfulStepHolds
<1> QED BY <1>1, Invariance, PTL DEF Spec, CanceledByRight, RightfulStep

\* What the invariant says of the topics.
LEMMA EventsOfInvariant == IInv => OneCancelEvent /\ EventsMatchTables
<1>1. IInv => OneCancelEvent
  BY DEF IInv, TypeOK, Events, EventsOfCalls, OneWinner, OneCancelEvent
<1>2. IInv => EventsMatchTables
  BY DEF IInv, TypeOK, Events, EventsOfCalls, OneWinner, RowsOfCalls, EventsMatchTables
<1> QED BY <1>1, <1>2

\* However many calls cancel a booking, one event at most announces it.
THEOREM OneEventPerCancelation == Spec => []OneCancelEvent
BY EventsOfInvariant, Invariance, PTL

\* Kafka never announces what the database has not committed.
THEOREM EventsFollowCommits == Spec => []EventsMatchTables
BY EventsOfInvariant, Invariance, PTL

\* The only change a booking ever undergoes is its cancelation.
THEOREM RowsOnlyCanceled == Spec => BookingsOnlyCanceled
<1>1. IInv /\ [Next]_vars =>
        [\A b \in DOMAIN bookings :
           /\ b \in DOMAIN bookings'
           /\ bookings'[b] \in {bookings[b],
                                [bookings[b] EXCEPT !.status = "canceled"]}]_vars
  BY OnlyCanceledStep
<1> QED BY <1>1, Invariance, PTL DEF Spec, BookingsOnlyCanceled

-----------------------------------------------------------------------------
\* What is missing for the check to be enough

LEMMA SeesAllStep ==
  ASSUME IInv, ChecksDoNotOverlap, SeesAll, [Next]_vars
  PROVE  SeesAll'
<1> USE DEF IInv, TypeOK, StorageTypeOK, IsTable
<1> SUFFICES ASSUME NEW a \in Bookings, NEW b \in Bookings,
                    Confirmed(a)', PastCheck(b)',
                    bookings'[a].user = createReq'[b].user,
                    bookings'[a].type = TypeOf[createReq'[b].resource]
             PROVE  a \in seen'[b]
  BY DEF SeesAll
<1>1. CASE a \in DOMAIN bookings
  <2>1. /\ Confirmed(a)
        /\ bookings[a].user = bookings'[a].user
        /\ bookings[a].type = bookings'[a].type
    BY <1>1, RowsKept
  <2>2. CASE CheckConflict(b)
    BY <2>2, <1>1 DEF CheckConflict, EndCreate, PastCheck
  <2>3. CASE ~CheckConflict(b)
    <3>1. PastCheck(b) /\ createReq'[b] = createReq[b] /\ seen'[b] = seen[b]
      BY <2>3, CreateCases DEF PastCheck, ReceiveCreate, CreateStep, GetResource, InsertBooking,
         InsertOutbox, CommitCreate, PublishCreate, CreateError, GoCreate, EndCreate, Crash, CreateRunning
    <3> QED BY <2>1, <3>1 DEF SeesAll
  <2> QED BY <2>2, <2>3
\* The row of a is new: a was past its check, and so b was not.
<1>2. CASE a \notin DOMAIN bookings
  <2>1. CommitCreate(a)
    <3>1. a \in DOMAIN bookings'
      BY DEF Confirmed
    <3>2. ASSUME NEW x \in Bookings, CommitCreate(x)
          PROVE  x = a
      BY <1>2, <3>1, <3>2 DEF CommitCreate, CommitCreateTx
    <3>3. ASSUME NEW c \in Cancels, CommitCancel(c)
          PROVE  FALSE
      BY <1>2, <3>1, <3>3 DEF CommitCancel, CommitCancelTx
    <3> QED BY <1>2, <3>1, <3>2, <3>3, TableSteps
  <2>2. bookings'[a] = NewRow(createReq[a]) /\ createPC[a] = "commit"
    BY <2>1 DEF CommitCreate, CommitCreateTx
  <2>3. a # b
    BY <2>1 DEF CommitCreate, GoCreate, EndCreate, PastCheck
  <2>4. createPC'[b] = createPC[b] /\ createReq'[b] = createReq[b]
    BY <2>1, <2>3 DEF CommitCreate, GoCreate, EndCreate
  <2>5. PastCheck(a) /\ PastCheck(b)
    BY <2>2, <2>4 DEF PastCheck, NewRow
  <2> QED BY <2>2, <2>3, <2>4, <2>5 DEF ChecksDoNotOverlap, NewRow
<1> QED BY <1>1, <1>2

LEMMA NoConflictStep ==
  ASSUME IInv, SeesAll, NoConflictingBookings, [Next]_vars
  PROVE  NoConflictingBookings'
<1> USE DEF IInv, TypeOK, StorageTypeOK, IsTable
<1> SUFFICES ASSUME NEW a \in Bookings, NEW b \in Bookings, a # b, InConflict(a, b)'
             PROVE  FALSE
  BY DEF NoConflictingBookings
<1>1. ASSUME NEW x \in {a, b}, x \in DOMAIN bookings
      PROVE  /\ Confirmed(x)
             /\ bookings'[x].user = bookings[x].user
             /\ bookings'[x].type = bookings[x].type
             /\ bookings'[x].startsAt = bookings[x].startsAt
             /\ bookings'[x].endsAt = bookings[x].endsAt
  BY <1>1, RowsKept DEF InConflict
<1>2. ~(a \in DOMAIN bookings /\ b \in DOMAIN bookings)
  BY <1>1 DEF NoConflictingBookings, InConflict, Collides
\* The new row is the one of b or the one of a, and the conflict is mutual.
<1>3. InConflict(b, a)'
  <2>1. /\ a \in DOMAIN bookings' /\ b \in DOMAIN bookings'
        /\ bookings'[a] \in BookingRow /\ bookings'[b] \in BookingRow
    BY TypeOKStep DEF InConflict, Confirmed
  <2>2. BookingGap \in Nat
    BY ServiceAssumption
  <2>3. Collides(bookings'[b], bookings'[a].startsAt, bookings'[a].endsAt, BookingGap)
    BY <2>1, <2>2, CollidesIsSymmetric DEF InConflict
  <2> QED BY <2>3 DEF InConflict
<1>4. ASSUME NEW x \in {a, b}, NEW y \in {a, b}, x # y, InConflict(y, x)', CommitCreate(x)
      PROVE  FALSE
  <2>1. /\ x \notin DOMAIN bookings
        /\ DOMAIN bookings' = DOMAIN bookings \cup {x}
        /\ bookings'[x] = NewRow(createReq[x])
        /\ createPC[x] = "commit"
    BY <1>4 DEF CommitCreate, CommitCreateTx, RowsOfCalls
  <2>2. y \in DOMAIN bookings
    BY <1>4, <2>1 DEF InConflict, Confirmed
  <2>3. PastCheck(x)
    BY <1>4, <2>1 DEF PastCheck, InConflict, NewRow
  <2>4. y \in seen[x]
    BY <1>1, <1>4, <2>1, <2>2, <2>3 DEF SeesAll, InConflict, NewRow
  <2> QED
    BY <1>1, <1>4, <2>1, <2>2, <2>4 DEF Checked, InConflict, Collides
<1>5. ASSUME NEW x \in Bookings, CommitCreate(x), x \notin {a, b}
      PROVE  FALSE
  BY <1>2, <1>5 DEF InConflict, Confirmed, CommitCreate, CommitCreateTx
<1>6. ASSUME NEW c \in Cancels, CommitCancel(c)
      PROVE  FALSE
  BY <1>2, <1>6 DEF InConflict, Confirmed, CommitCancel, CommitCancelTx
<1>7. CASE UNCHANGED <<bookings, outbox>>
  BY <1>2, <1>7 DEF InConflict, Confirmed
<1> QED BY <1>3, <1>4, <1>5, <1>6, <1>7, TableSteps

\* The check is enough as long as no two CreateBooking calls of one user, for
\* one type of resource, are between their checks and their COMMITs at once: a
\* lock over that stretch, held for the user and the type, would close the race,
\* and nothing that cancelations, errors, lost answers or crashes do reopens it.
THEOREM SerialChecksSuffice == Spec => ConflictsNeedOverlap
<1>1. Init => SeesAll /\ NoConflictingBookings
  BY DEF Init, StorageInit, SeesAll, NoConflictingBookings, InConflict, Confirmed
<1>2. /\ IInv /\ ChecksDoNotOverlap /\ [Next]_vars
      /\ SeesAll /\ NoConflictingBookings
      => (SeesAll /\ NoConflictingBookings)'
  BY SeesAllStep, NoConflictStep
<1> QED BY <1>1, <1>2, Invariance, PTL DEF Spec, ConflictsNeedOverlap

\* No lock outlives the transaction that took it, and no transaction that holds
\* one waits: the calls that cancel cannot deadlock on the rows.
THEOREM LocksAreOwned == Spec => []LocksOwned
BY Invariance, PTL DEF IInv
=============================================================================
