-------------------------- MODULE SystemInvariant --------------------------
(***************************************************************************)
(* The inductive invariant of BookingSystem: the one of the calls, which   *)
(* the worker's updates of the outbox preserve, and what the worker knows  *)
(* of the messages it has in hand.                                         *)
(***************************************************************************)
EXTENDS BookingSystem, BookingInvariant

\* The row of a message in hand is unsent, and is still there unless its booking
\* has been canceled meanwhile.
BatchKnown ==
  /\ IsInjective(batch)
  /\ \A o \in Range(batch) :
       /\ o[1] \in DOMAIN bookings
       /\ Confirmed(o[1]) => o \in DOMAIN outbox
       /\ o \in DOMAIN outbox => ~outbox[o].sent

\* Retries only ever move a reminder to a later time.
Scheduled(o) == ScheduledAt(bookings[o[1]], o[2])

OnTime ==
  /\ \A o \in DOMAIN outbox : outbox[o].scheduledAt >= Scheduled(o)
  /\ \A o \in Range(batch) : now >= Scheduled(o)
  /\ workerPC = "reschedule" => nextAttempt >= Scheduled(Head(batch))

MarkAfterSend ==
  /\ workerPC = "mark" => delivered[Head(batch)] > 0
  /\ SentWasDelivered

\* A reminder that the worker may still send has been sent only by attempts
\* that failed.
MaySend(o) ==
  /\ o \in Range(batch) \/ (o \in DOMAIN outbox /\ ~outbox[o].sent)
  /\ ~(workerPC = "mark" /\ o = Head(batch))

SendsCounted ==
  /\ DuplicatesNeedFaults
  /\ \A o \in OutboxIds :
       /\ MaySend(o) => delivered[o] <= faults + crashes
       /\ o[1] \notin DOMAIN bookings => delivered[o] = 0

\* The reminders that come before one that was put off are due before it, and
\* earlier in the batch if it is in hand.
TurnsKept ==
  \A o \in OutboxIds :
    /\ ahead[o] # {} => o[1] \in DOMAIN bookings
    /\ \A p \in ahead[o] :
         /\ p[1] \in DOMAIN bookings
         /\ p \in DOMAIN outbox /\ o \in DOMAIN outbox =>
              ~outbox[p].sent /\ outbox[p].scheduledAt < outbox[o].scheduledAt

HandInOrder ==
  \A i \in 1..Len(batch) : \A p \in ahead[batch[i]] \cap DOMAIN outbox :
    \E j \in 1..(i - 1) : batch[j] = p

HeadTried ==
  workerPC \in {"mark", "reschedule"} => \A o \in OutboxIds : Head(batch) \notin ahead[o]

WInv ==
  /\ WorkerTypeOK
  /\ BatchKnown
  /\ OnTime
  /\ MarkAfterSend
  /\ SendsCounted

SInv == IInv /\ WInv

\* Whose turn it is, on top of SInv.
TInv == TurnsKept /\ HandInOrder /\ HeadTried
=============================================================================
