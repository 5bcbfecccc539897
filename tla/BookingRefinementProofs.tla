----------------------- MODULE BookingRefinementProofs -----------------------
(***************************************************************************)
(* The proof that BookingSystem implements BookingLedger: every step is a  *)
(* step of the ledger or leaves it unchanged. A COMMIT is a Book or a      *)
(* Cancel, the answer of Kafka an Announce or a Remind, a poll a TakeUp,   *)
(* an update of the worker a Settle, a crash a Restart.                    *)
(***************************************************************************)
EXTENDS BookingRefinement, BookingSystemProofs

\* The ledger's status of a booking says what its row says.
LEMMA StatusOfRow ==
  ASSUME SInv, NEW b \in Bookings
  PROVE  /\ LedgerStatus[b] = "absent" <=> b \notin DOMAIN bookings
         /\ LedgerStatus[b] = "confirmed" <=> Confirmed(b)
         /\ LedgerStatus[b] = "canceled" <=> Canceled(b)
<1>1. b \in DOMAIN bookings => bookings[b].status \in {"confirmed", "canceled"}
  BY DEF SInv, IInv, TypeOK, StorageTypeOK, IsTable, BookingRow, Status
<1> QED BY <1>1 DEF LedgerStatus, Confirmed, Canceled

\* What users have been told stays told: the request of a call that has
\* announced its cancelation does not change.
LEMMA ToldGrows ==
  ASSUME SInv, [Next]_vars, UNCHANGED delivered, events \subseteq events'
  PROVE  LedgerTold' = LedgerTold \cup {Announcement(e)' : e \in events' \ events}
<1>1. ASSUME NEW e \in events
      PROVE  Announcement(e)' = Announcement(e)
  <2>1. e[1] # "user_booking" => e[2] \in Cancels /\ cancelPC[e[2]] = "ok"
    BY DEF SInv, IInv, TypeOK, Events, EventsOfCalls
  <2>2. e[1] # "user_booking" => cancelReq'[e[2]] = cancelReq[e[2]]
    BY <2>1, CancelCases DEF SInv, ReceiveCancel, CancelStep, GetTarget, UpdateStatus, DeleteReminders,
       CommitCancel, VerifyCanceled, PublishCancel, CancelError, CancelRunning, GoCancel, Crash
  <2> QED BY <2>2 DEF Announcement, Target
<1> QED BY <1>1 DEF LedgerTold

\* A step of a call that commits and announces nothing.
LEMMA InvisibleStep ==
  ASSUME SInv, [Next]_vars, UNCHANGED <<bookings, outbox, events, workerVars>>
  PROVE  UNCHANGED Ledger!ledgerVars
<1>1. LedgerTold' = LedgerTold
  BY ToldGrows DEF workerVars
<1> QED BY <1>1 DEF Ledger!ledgerVars, LedgerStatus, LedgerReminders, workerVars

LEMMA CommitCreateBooks ==
  ASSUME SInv, [Next]_vars, NEW b \in Bookings, CommitCreate(b), UNCHANGED workerVars
  PROVE  Ledger!Book(b)
<1> USE DEF workerVars
<1>1. b \notin DOMAIN bookings /\ planned[b] \in SUBSET Kinds
  BY DEF CommitCreate, SInv, IInv, RowsOfCalls, TypeOK
<1>2. /\ DOMAIN bookings' = DOMAIN bookings \cup {b}
      /\ bookings'[b].status = "confirmed"
      /\ \A x \in DOMAIN bookings : bookings'[x] = bookings[x]
      /\ UNCHANGED events
  BY <1>1 DEF CommitCreate, CommitCreateTx, NewRow
<1>3. /\ DOMAIN outbox' = DOMAIN outbox \cup ({b} \X planned[b])
      /\ \A o \in {b} \X planned[b] : ~outbox'[o].sent
      /\ \A o \in DOMAIN outbox \ ({b} \X planned[b]) : outbox'[o] = outbox[o]
  BY DEF CommitCreate, CommitCreateTx
<1>4. LedgerStatus[b] = "absent" /\ LedgerStatus' = [LedgerStatus EXCEPT ![b] = "confirmed"]
  BY <1>1, <1>2 DEF LedgerStatus
<1>5. LedgerReminders' = [o \in OutboxIds |-> IF o \in {b} \X planned[b] THEN "pending"
                                             ELSE LedgerReminders[o]]
  <2>1. ASSUME NEW o \in Range(batch)
        PROVE  o \notin {b} \X planned[b]
    BY <1>1, <2>1 DEF SInv, WInv, BatchKnown
  <2> QED BY <1>3, <2>1 DEF LedgerReminders
<1>6. LedgerTold' = LedgerTold
  BY <1>2, ToldGrows
<1> QED
  BY <1>1, <1>4, <1>5, <1>6 DEF Ledger!Book, Ledger!Reminders, OutboxIds

LEMMA CommitCancelCancels ==
  ASSUME SInv, [Next]_vars, NEW c \in Cancels, CommitCancel(c), UNCHANGED workerVars
  PROVE  \E b \in Bookings : Ledger!Cancel(b)
<1> USE DEF workerVars
<1>1. PICK b \in DOMAIN bookings : Confirmed(b) /\ CommitCancelTx(b) /\ b \in Bookings
  BY DEF CommitCancel, SInv, IInv, LocksHeld, Confirmed, TypeOK, StorageTypeOK, IsTable
<1>2. StorageTypeOK
  BY DEF SInv, IInv, TypeOK
<1>3. /\ DOMAIN bookings' = DOMAIN bookings
      /\ \A x \in DOMAIN bookings \ {b} : bookings'[x] = bookings[x]
      /\ bookings'[b] = [bookings[b] EXCEPT !.status = "canceled"]
      /\ DOMAIN outbox' = DOMAIN outbox \ UnsentOf(b)
      /\ \A o \in DOMAIN outbox' : outbox'[o] = outbox[o]
  BY <1>1, <1>2, CommitCancelTables
<1>4. bookings'[b].status = "canceled"
  BY <1>2, <1>3 DEF StorageTypeOK, IsTable, BookingRow
<1>5. LedgerStatus[b] = "confirmed" /\ LedgerStatus' = [LedgerStatus EXCEPT ![b] = "canceled"]
  BY <1>1, <1>3, <1>4 DEF LedgerStatus, Confirmed
<1>6. LedgerReminders' = [o \in OutboxIds |->
                            IF o[1] = b /\ LedgerReminders[o] = "pending" THEN "none"
                            ELSE LedgerReminders[o]]
  BY <1>3 DEF LedgerReminders, UnsentOf
<1>7. LedgerTold' = LedgerTold
  BY ToldGrows DEF CommitCancel
<1> QED
  BY <1>1, <1>5, <1>6, <1>7 DEF Ledger!Cancel, Ledger!Reminders, OutboxIds

LEMMA PublishAnnounces ==
  ASSUME SInv, [Next]_vars, UNCHANGED <<bookings, outbox, workerVars>>,
         \/ \E b \in Bookings : PublishCreate(b)
         \/ \E c \in Cancels : PublishCancel(c)
  PROVE  (\E b \in Bookings : Ledger!Announce(b)) \/ UNCHANGED Ledger!ledgerVars
<1> USE DEF workerVars
<1>1. CASE UNCHANGED events
  BY <1>1, InvisibleStep
<1>2. UNCHANGED <<LedgerStatus, LedgerReminders>>
  BY DEF LedgerStatus, LedgerReminders
<1>3. ASSUME NEW b \in Bookings, PublishCreate(b), events' # events
      PROVE  Ledger!Announce(b)
  <2>1. events' = events \cup {<<"user_booking", b>>}
    BY <1>3 DEF PublishCreate, Produce
  <2>2. LedgerTold' = LedgerTold \cup {<<"booked", b>>}
    <3>1. events' \ events = {<<"user_booking", b>>}
      BY <1>3, <2>1
    <3>2. Announcement(<<"user_booking", b>>)' = <<"booked", b>>
      BY DEF Announcement
    <3> QED BY <2>1, <3>1, <3>2, ToldGrows
  <2>3. b \in DOMAIN bookings
    BY <1>3 DEF PublishCreate, SInv, IInv, RowsOfCalls
  <2> QED BY <1>2, <2>2, <2>3, StatusOfRow DEF Ledger!Announce
<1>4. ASSUME NEW c \in Cancels, PublishCancel(c), events' # events
      PROVE  \E b \in Bookings : Ledger!Announce(b)
  <2>1. PICK topic \in {"user_cancel", "admin_cancel"} : events' = events \cup {<<topic, c>>}
    BY <1>4 DEF PublishCancel, Produce, CancelTopic
  <2>2. PICK b \in Bookings : b = Target(c) /\ Canceled(b)
    BY <1>4 DEF PublishCancel, SInv, IInv, OneWinner, Canceled, TypeOK, StorageTypeOK, IsTable
  <2>3. LedgerTold' = LedgerTold \cup {<<"canceled", b>>}
    <3>1. events' \ events = {<<topic, c>>}
      BY <1>4, <2>1
    <3>2. Announcement(<<topic, c>>)' = <<"canceled", b>>
      BY <1>4, <2>2 DEF Announcement, PublishCancel, GoCancel, Target
    <3> QED BY <2>1, <3>1, <3>2, ToldGrows
  <2> QED BY <1>2, <2>2, <2>3, StatusOfRow DEF Ledger!Announce
<1> QED BY <1>1, <1>3, <1>4

\* Every step of the calls beside an idle worker.
LEMMA CallsImplement ==
  ASSUME SInv, [Next]_vars, UNCHANGED workerVars
  PROVE  Ledger!Next \/ UNCHANGED Ledger!ledgerVars
<1>1. CASE UNCHANGED <<bookings, outbox>> /\ UNCHANGED events
  BY <1>1, InvisibleStep
<1>2. CASE UNCHANGED <<bookings, outbox>> /\ events' # events
  <2>1. \/ \E b \in Bookings : PublishCreate(b)
        \/ \E c \in Cancels : PublishCancel(c)
    BY <1>2 DEF Next, Calls, Clock, vars, CreateStep, CancelStep, ReceiveCreate, GetResource, CheckConflict,
       InsertBooking, InsertOutbox, CommitCreate, CreateError, ReceiveCancel, GetTarget, UpdateStatus,
       DeleteReminders, CommitCancel, VerifyCanceled, CancelError, Crash, Finished
  <2> QED BY <1>2, <2>1, PublishAnnounces DEF Ledger!Next
<1> QED
  BY <1>1, <1>2, TableSteps, CommitCreateBooks, CommitCancelCancels DEF Ledger!Next

\* The row of a message in hand is gone exactly when its booking is canceled.
LEMMA RowInHand ==
  ASSUME SInv, NEW o \in Range(batch)
  PROVE  /\ o \in OutboxIds
         /\ o \in DOMAIN outbox => ~outbox[o].sent
         /\ LedgerStatus[o[1]] = "canceled" <=> o \notin DOMAIN outbox
<1>1. /\ o[1] \in DOMAIN bookings
      /\ Confirmed(o[1]) => o \in DOMAIN outbox
      /\ o \in DOMAIN outbox => ~outbox[o].sent
  BY DEF SInv, WInv, BatchKnown
<1>2. o \in OutboxIds /\ o[1] \in Bookings
  <2>1. o \in OutboxIds
    BY ScheduleTypes
  <2> QED BY <2>1 DEF OutboxIds
<1>3. o \in DOMAIN outbox => Confirmed(o[1])
  BY <1>1, ScheduleTypes
<1>4. ~(Confirmed(o[1]) /\ Canceled(o[1])) /\ (Confirmed(o[1]) \/ Canceled(o[1]))
  BY <1>1, <1>2, StatusOfRow DEF LedgerStatus, Confirmed, Canceled, SInv, IInv, TypeOK, StorageTypeOK,
     IsTable, BookingRow, Status
<1> QED BY <1>1, <1>2, <1>3, <1>4, StatusOfRow

LEMMA CrashImplements ==
  ASSUME SInv, [Next]_vars, Crash, WorkerRestart
  PROVE  Ledger!Restart
<1> USE DEF Crash, WorkerRestart
<1>1. Range(batch') = {}
  BY DEF Range
<1>2. LedgerTold' = LedgerTold
  BY ToldGrows
<1>3. LedgerStatus' = LedgerStatus
  BY DEF LedgerStatus
<1>4. ASSUME NEW o \in OutboxIds
      PROVE  LedgerReminders'[o] = IF LedgerReminders[o] = "taken" THEN Ledger!PutBack(o)
                                   ELSE LedgerReminders[o]
  <2>1. CASE o \in Range(batch)
    <3>1. o[1] \in Bookings
      BY DEF OutboxIds
    <3>2. LedgerStatus[o[1]] = "canceled" <=> o \notin DOMAIN outbox
      BY <2>1, <3>1, RowInHand
    <3>3. o \in DOMAIN outbox => ~outbox[o].sent
      BY <2>1, RowInHand
    <3> QED BY <1>1, <2>1, <3>2, <3>3 DEF LedgerReminders, Ledger!PutBack
  <2>2. CASE o \notin Range(batch)
    BY <1>1, <2>2 DEF LedgerReminders
  <2> QED BY <2>1, <2>2
<1>5. LedgerReminders' = [o \in OutboxIds |-> LedgerReminders'[o]]
  BY DEF LedgerReminders
<1> QED BY <1>2, <1>3, <1>4, <1>5 DEF Ledger!Restart, Ledger!Reminders, OutboxIds

\* A step of the worker leaves the ledger's statuses and the announcements.
LEMMA WorkerLeavesStatus ==
  ASSUME SInv, Worker
  PROVE  /\ LedgerStatus' = LedgerStatus
         /\ UNCHANGED delivered => LedgerTold' = LedgerTold
         /\ \A e \in events : Announcement(e)' = Announcement(e)
         /\ events' = events
BY RowsOfWorker DEF LedgerStatus, LedgerTold, Announcement, Target, cancelVars

LEMMA PollTakesUp ==
  ASSUME SInv, Worker, Poll
  PROVE  Ledger!TakeUp
<1>1. batch = <<>> /\ Range(batch) = {} /\ UNCHANGED <<outbox, delivered>>
  BY DEF SInv, WInv, WorkerTypeOK, Poll, storageVars, Range
<1>2. Range(batch') \subseteq Due
  BY BatchOfDue DEF Poll
<1>3. \A o \in Due : o \in OutboxIds /\ LedgerReminders[o] = "pending"
  BY <1>1, ScheduleTypes DEF Due, LedgerReminders
<1>4. \A o \in OutboxIds : LedgerReminders[o] # "taken"
  BY <1>1 DEF LedgerReminders
<1>5. LedgerReminders' = [o \in OutboxIds |-> IF o \in Range(batch') THEN "taken"
                                             ELSE LedgerReminders[o]]
  BY <1>1 DEF LedgerReminders
<1>6. Range(batch') \in SUBSET {o \in OutboxIds : LedgerReminders[o] = "pending"}
  BY <1>2, <1>3
<1> QED
  BY <1>1, <1>4, <1>5, <1>6, WorkerLeavesStatus DEF Ledger!TakeUp, Ledger!Reminders, OutboxIds

\* What Kafka takes is the reminder of the message in hand.
LEMMA SendReminds ==
  ASSUME SInv, Worker, workerPC # "wait", UNCHANGED <<outbox, batch>>,
         delivered' = [delivered EXCEPT ![Head(batch)] = @ + 1]
  PROVE  Ledger!Remind(Head(batch))
<1>1. PICK h : h = Head(batch)
  OBVIOUS
<1>2. h \in OutboxIds /\ h \in Range(batch)
  BY <1>1, HeadOfBatch
<1>3. /\ delivered'[h] > 0
      /\ \A o \in OutboxIds \ {h} : delivered'[o] = delivered[o]
  BY <1>1, <1>2, ScheduleTypes
<1>4. {x \in OutboxIds : delivered'[x] > 0} = {x \in OutboxIds : delivered[x] > 0} \cup {h}
  BY <1>2, <1>3
<1>5. LedgerTold' = LedgerTold \cup {<<h[2], h[1]>>}
  BY <1>4, WorkerLeavesStatus DEF LedgerTold
<1>6. LedgerReminders' = LedgerReminders /\ LedgerReminders[h] = "taken"
  BY <1>2 DEF LedgerReminders
<1> QED BY <1>1, <1>5, <1>6, WorkerLeavesStatus DEF Ledger!Remind

\* The end of the work on a message leaves the other reminders as they are.
LEMMA OthersInLedger ==
  ASSUME SInv, Worker, workerPC # "wait", NextMessage, NEW h \in OutboxIds, h = Head(batch),
         DOMAIN outbox' = DOMAIN outbox,
         \A o \in DOMAIN outbox \ {h} : outbox'[o] = outbox[o]
  PROVE  /\ LedgerReminders[h] = "taken"
         /\ LedgerReminders' = [LedgerReminders EXCEPT ![h] =
              IF h \notin DOMAIN outbox THEN "none"
              ELSE IF outbox'[h].sent THEN "sent" ELSE "pending"]
<1>1. Range(batch') = Range(batch) \ {h} /\ h \in Range(batch)
  BY NextOfBatch
<1> QED BY <1>1 DEF LedgerReminders

\* An UPDATE that does not mark the row, or none at all, puts the reminder back.
LEMMA PutsBack ==
  ASSUME SInv, Worker, workerPC # "wait", NextMessage, NEW h \in OutboxIds, h = Head(batch),
         UNCHANGED delivered,
         DOMAIN outbox' = DOMAIN outbox,
         \A o \in DOMAIN outbox \ {h} : outbox'[o] = outbox[o],
         h \in DOMAIN outbox => outbox'[h].sent = outbox[h].sent
  PROVE  Ledger!Settle(h)
<1>1. /\ h \in DOMAIN outbox => ~outbox[h].sent
      /\ LedgerStatus[h[1]] = "canceled" <=> h \notin DOMAIN outbox
  BY HeadOfBatch, RowInHand
<1>2. LedgerReminders' = [LedgerReminders EXCEPT ![h] = Ledger!PutBack(h)]
  BY <1>1, OthersInLedger DEF Ledger!PutBack
<1> QED BY <1>2, OthersInLedger, WorkerLeavesStatus DEF Ledger!Settle

LEMMA MarkSettles ==
  ASSUME SInv, Worker, MarkOutboxSent
  PROVE  \E o \in OutboxIds : Ledger!Settle(o)
<1>1. PICK h : h = Head(batch)
  OBVIOUS
<1>2. h \in OutboxIds /\ h \in Range(batch) /\ workerPC = "mark"
  BY <1>1, HeadOfBatch DEF MarkOutboxSent
<1>3. outbox' = [o \in DOMAIN outbox |->
                   IF o = h THEN [outbox[h] EXCEPT !.sent = TRUE] ELSE outbox[o]]
  BY <1>1, UpdateOfRow DEF MarkOutboxSent, SInv, IInv, TypeOK
<1>4. /\ DOMAIN outbox' = DOMAIN outbox
      /\ \A o \in DOMAIN outbox \ {h} : outbox'[o] = outbox[o]
      /\ NextMessage /\ UNCHANGED delivered
  BY <1>3 DEF MarkOutboxSent
<1>5. CASE h \notin DOMAIN outbox
  BY <1>1, <1>2, <1>4, <1>5, PutsBack
<1>6. CASE h \in DOMAIN outbox
  <2>1. outbox'[h].sent
    BY <1>3, <1>6, ScheduleTypes DEF OutboxRow
  <2>2. LedgerReminders' = [LedgerReminders EXCEPT ![h] = "sent"] /\ LedgerReminders[h] = "taken"
    BY <1>1, <1>2, <1>4, <1>6, <2>1, OthersInLedger
  <2>3. <<h[2], h[1]>> \in LedgerTold
    BY <1>1, <1>2 DEF SInv, WInv, MarkAfterSend, LedgerTold
  <2>4. LedgerStatus[h[1]] # "canceled"
    BY <1>2, <1>6, RowInHand
  <2>5. LedgerTold' = LedgerTold /\ LedgerStatus' = LedgerStatus
    BY <1>4, WorkerLeavesStatus
  <2>6. Ledger!Settle(h)
    BY <2>2, <2>3, <2>4, <2>5 DEF Ledger!Settle
  <2> QED BY <1>2, <2>6
<1> QED BY <1>5, <1>6

LEMMA RescheduleSettles ==
  ASSUME SInv, Worker, RescheduleOutbox
  PROVE  \E o \in OutboxIds : Ledger!Settle(o)
<1>1. PICK h : h = Head(batch)
  OBVIOUS
<1>2. h \in OutboxIds /\ workerPC # "wait"
  BY <1>1, HeadOfBatch DEF RescheduleOutbox, Reschedule
<1>3. outbox' = [o \in DOMAIN outbox |->
                   IF o = h THEN [outbox[h] EXCEPT !.scheduledAt = nextAttempt] ELSE outbox[o]]
  BY <1>1, UpdateOfRow DEF RescheduleOutbox, Reschedule, SInv, IInv, TypeOK
<1>4. h \in DOMAIN outbox => outbox'[h].sent = outbox[h].sent
  BY <1>3, ScheduleTypes DEF OutboxRow
<1>5. /\ DOMAIN outbox' = DOMAIN outbox
      /\ \A o \in DOMAIN outbox \ {h} : outbox'[o] = outbox[o]
      /\ NextMessage /\ UNCHANGED delivered
  BY <1>3 DEF RescheduleOutbox, Reschedule
<1> QED BY <1>1, <1>2, <1>4, <1>5, PutsBack

\* Every step of the worker.
LEMMA WorkerImplements ==
  ASSUME SInv, Worker
  PROVE  Ledger!Next \/ UNCHANGED Ledger!ledgerVars
<1> USE DEF Ledger!Next, Ledger!Reminders, OutboxIds
<1>1. CASE Poll
  BY <1>1, PollTakesUp
<1>2. CASE ProduceReminder
  BY <1>2, SendReminds, HeadOfBatch DEF ProduceReminder, storageVars
<1>3. CASE MarkOutboxSent
  BY <1>3, MarkSettles
<1>4. CASE RescheduleOutbox
  BY <1>4, RescheduleSettles
<1>5. CASE WorkerError /\ ProduceError
  <2>1. UNCHANGED <<outbox, batch>> /\ workerPC # "wait"
    BY <1>5 DEF WorkerError, ProduceError, storageVars
  <2>2. CASE UNCHANGED delivered
    <3>1. LedgerReminders' = LedgerReminders
      BY <2>1 DEF LedgerReminders
    <3> QED BY <2>2, <3>1, WorkerLeavesStatus DEF Ledger!ledgerVars
  <2>3. CASE ~UNCHANGED delivered
    BY <1>5, <2>1, <2>3, SendReminds, HeadOfBatch DEF ProduceError
  <2> QED BY <2>2, <2>3
<1>6. CASE WorkerError /\ UpdateError
  <2>1. workerPC # "wait" /\ NextMessage /\ UNCHANGED <<outbox, delivered>>
    BY <1>6 DEF WorkerError, UpdateError, storageVars
  <2>2. Ledger!Settle(Head(batch)) /\ Head(batch) \in OutboxIds
    BY <2>1, HeadOfBatch, PutsBack
  <2> QED BY <2>2
<1> QED
  BY <1>1, <1>2, <1>3, <1>4, <1>5, <1>6 DEF Worker, WorkerStep, WorkerError

LEMMA InitImplements == SystemInit => Ledger!Init
<1> SUFFICES ASSUME SystemInit PROVE Ledger!Init
  OBVIOUS
<1>1. /\ DOMAIN bookings = {} /\ DOMAIN outbox = {} /\ Range(batch) = {} /\ events = {}
      /\ \A o \in OutboxIds : ~(delivered[o] > 0)
  BY DEF SystemInit, Init, StorageInit, WorkerInit, Range
<1>2. LedgerStatus = [b \in Bookings |-> "absent"]
  BY <1>1 DEF LedgerStatus
<1>3. LedgerReminders = [o \in OutboxIds |-> "none"]
  BY <1>1 DEF LedgerReminders
<1>4. LedgerTold = {}
  BY <1>1 DEF LedgerTold
<1> QED BY <1>2, <1>3, <1>4 DEF Ledger!Init, Ledger!Reminders, OutboxIds

LEMMA StepImplements ==
  SInv /\ [SystemNext]_systemVars => [Ledger!Next]_(Ledger!ledgerVars)
<1> SUFFICES ASSUME SInv, [SystemNext]_systemVars
             PROVE  Ledger!Next \/ UNCHANGED Ledger!ledgerVars
  OBVIOUS
<1>1. CASE Crash /\ [Next]_vars /\ WorkerRestart
  BY <1>1, CrashImplements DEF Ledger!Next
<1> QED BY <1>1, CallsImplement, WorkerImplements, SystemSteps

\* For every number of calls, users, resources, messages, errors and crashes:
\* the service, seen through its tables, its batch and Kafka, does only what the
\* ledger allows.
THEOREM SystemImplementsLedger == SystemSpec => ImplementsLedger
BY InitImplements, StepImplements, SystemInvariance, PTL
   DEF SystemSpec, ImplementsLedger, Ledger!Spec

-----------------------------------------------------------------------------
\* What the ledger promises, whoever keeps it

LedgerInv == Ledger!TypeOK /\ Ledger!Truthful

\* Announcements are no reminders.
LEMMA WordsDiffer ==
  \A o \in Ledger!Reminders, b \in Bookings :
    <<o[2], o[1]>> # <<"booked", b>> /\ <<o[2], o[1]>> # <<"canceled", b>>
BY DEF Ledger!Reminders, Kinds

LEMMA LedgerBook ==
  ASSUME LedgerInv, NEW b \in Bookings, Ledger!Book(b)
  PROVE  LedgerInv'
<1> USE DEF LedgerInv, Ledger!TypeOK, Ledger!Truthful, Ledger!Reminders
<1>1. PICK kinds \in SUBSET Kinds :
        LedgerReminders' = [o \in Ledger!Reminders |->
                              IF o \in {b} \X kinds THEN "pending" ELSE LedgerReminders[o]]
  BY DEF Ledger!Book
<1>2. \A o \in Ledger!Reminders : o \in {b} \X kinds => o[1] = b
  OBVIOUS
<1> QED BY <1>1, <1>2 DEF Ledger!Book

LEMMA LedgerStepKeeps ==
  ASSUME LedgerInv, [Ledger!Next]_(Ledger!ledgerVars)
  PROVE  LedgerInv'
<1> USE DEF LedgerInv, Ledger!TypeOK, Ledger!Truthful
<1>1. ASSUME NEW b \in Bookings, Ledger!Book(b) PROVE LedgerInv'
  BY <1>1, LedgerBook
<1>2. ASSUME NEW b \in Bookings, Ledger!Cancel(b) PROVE LedgerInv'
  BY <1>2 DEF Ledger!Cancel
<1>3. ASSUME NEW b \in Bookings, Ledger!Announce(b) PROVE LedgerInv'
  BY <1>3 DEF Ledger!Announce
<1>4. CASE Ledger!TakeUp
  BY <1>4 DEF Ledger!TakeUp
<1>5. ASSUME NEW o \in Ledger!Reminders, Ledger!Remind(o) PROVE LedgerInv'
  BY <1>5, WordsDiffer DEF Ledger!Remind
<1>6. ASSUME NEW o \in Ledger!Reminders, Ledger!Settle(o) PROVE LedgerInv'
  BY <1>6 DEF Ledger!Settle, Ledger!PutBack, Ledger!Reminders
<1>7. CASE Ledger!Restart
  BY <1>7 DEF Ledger!Restart, Ledger!PutBack, Ledger!Reminders
<1>8. CASE UNCHANGED Ledger!ledgerVars
  BY <1>8 DEF Ledger!ledgerVars
<1> QED
  BY <1>1, <1>2, <1>3, <1>4, <1>5, <1>6, <1>7, <1>8 DEF Ledger!Next

\* Ledger!LastWord of one step.
SilentStep ==
  \A o \in Ledger!Reminders :
    LedgerStatus[o[1]] = "canceled" /\ LedgerReminders[o] # "taken" =>
      /\ LedgerReminders'[o] # "taken"
      /\ <<o[2], o[1]>> \in LedgerTold' => <<o[2], o[1]>> \in LedgerTold

LEMMA LedgerStepSilent ==
  ASSUME LedgerInv, Ledger!Next
  PROVE  SilentStep
<1> USE DEF LedgerInv, Ledger!TypeOK, Ledger!Truthful, SilentStep, Ledger!Reminders
<1>1. ASSUME NEW b \in Bookings, Ledger!Book(b) PROVE SilentStep
  <2>1. PICK kinds \in SUBSET Kinds :
          LedgerReminders' = [o \in Ledger!Reminders |->
                                IF o \in {b} \X kinds THEN "pending" ELSE LedgerReminders[o]]
    BY <1>1 DEF Ledger!Book
  <2> QED BY <1>1, <2>1 DEF Ledger!Book
<1>2. ASSUME NEW b \in Bookings, Ledger!Cancel(b) PROVE SilentStep
  BY <1>2 DEF Ledger!Cancel
<1>3. ASSUME NEW b \in Bookings, Ledger!Announce(b) PROVE SilentStep
  BY <1>3, WordsDiffer DEF Ledger!Announce
<1>4. CASE Ledger!TakeUp
  BY <1>4 DEF Ledger!TakeUp
<1>5. ASSUME NEW o \in Ledger!Reminders, Ledger!Remind(o) PROVE SilentStep
  BY <1>5 DEF Ledger!Remind
<1>6. ASSUME NEW o \in Ledger!Reminders, Ledger!Settle(o) PROVE SilentStep
  BY <1>6 DEF Ledger!Settle, Ledger!PutBack
<1>7. CASE Ledger!Restart
  BY <1>7 DEF Ledger!Restart, Ledger!PutBack
<1> QED
  BY <1>1, <1>2, <1>3, <1>4, <1>5, <1>6, <1>7 DEF Ledger!Next

\* The ledger is worth implementing: every behaviour it allows announces only
\* what is so, and leaves a canceled booking in peace.
THEOREM LedgerPromises == Ledger!Spec => []Ledger!Truthful /\ Ledger!LastWord
<1>1. Ledger!Init => LedgerInv
  BY DEF Ledger!Init, LedgerInv, Ledger!TypeOK, Ledger!Truthful
<1>2. LedgerInv /\ [Ledger!Next]_(Ledger!ledgerVars) => LedgerInv'
  BY LedgerStepKeeps
<1>3. LedgerInv /\ [Ledger!Next]_(Ledger!ledgerVars) => [SilentStep]_(Ledger!ledgerVars)
  BY LedgerStepSilent
<1>4. LedgerInv => Ledger!Truthful
  BY DEF LedgerInv
<1> QED
  BY <1>1, <1>2, <1>3, <1>4, PTL DEF Ledger!Spec, Ledger!LastWord, SilentStep

\* So the running service does, too.
COROLLARY SystemKeepsPromises ==
  SystemSpec => []Ledger!Truthful /\ Ledger!LastWord
BY SystemImplementsLedger, LedgerPromises, PTL DEF ImplementsLedger
=============================================================================
