-------------------------- MODULE BookingRefinement --------------------------
(***************************************************************************)
(* The running service implements BookingLedger: its tables, its worker's  *)
(* batch and what is on Kafka, seen as a ledger.                           *)
(***************************************************************************)
EXTENDS SystemInvariant

LedgerStatus ==
  [b \in Bookings |-> IF b \in DOMAIN bookings THEN bookings[b].status ELSE "absent"]

\* A message in hand is taken whatever its row says meanwhile.
LedgerReminders ==
  [o \in OutboxIds |->
     IF o \in Range(batch) THEN "taken"
     ELSE IF o \notin DOMAIN outbox THEN "none"
     ELSE IF outbox[o].sent THEN "sent"
     ELSE "pending"]

Announcement(e) ==
  IF e[1] = "user_booking" THEN <<"booked", e[2]>> ELSE <<"canceled", Target(e[2])>>

LedgerTold ==
  {Announcement(e) : e \in events}
    \cup {<<o[2], o[1]>> : o \in {x \in OutboxIds : delivered[x] > 0}}

Ledger ==
  INSTANCE BookingLedger
  WITH status <- LedgerStatus, reminders <- LedgerReminders, told <- LedgerTold

\* The calls, the worker, errors and crashes together do nothing that the
\* ledger does not allow: every commit is one of its steps, and whatever is not
\* a commit, an event or a move of the worker's batch is invisible in it.
ImplementsLedger == Ledger!Spec
=============================================================================
