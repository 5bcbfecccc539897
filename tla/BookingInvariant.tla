-------------------------- MODULE BookingInvariant --------------------------
(***************************************************************************)
(* The inductive invariant of BookingService: its safety properties, and   *)
(* what they need to know of the calls that are still running.             *)
(***************************************************************************)
EXTENDS BookingService

\* A call has the request it was made with.
RequestsKept ==
  /\ \A b \in Bookings : createPC[b] \in CreateRunning => createReq[b] \in CreateRequest
  /\ \A c \in Cancels : cancelPC[c] # "idle" =>
       /\ cancelReq[c] \in CancelRequest
       /\ Target(c) \in DOMAIN bookings \cup {UnknownBooking}

\* A row is visible once its call has reached COMMIT, and not before.
RowsOfCalls ==
  /\ \A b \in DOMAIN bookings : createPC[b] \in {"publish", "ok", "failed", "lost"}
  /\ \A b \in Bookings : createPC[b] \in {"publish", "ok"} => b \in DOMAIN bookings

\* A call past its check has a request that is free of conflict with every
\* booking it has seen and that is still confirmed.
Checked ==
  \A b \in Bookings :
    /\ seen[b] \subseteq DOMAIN bookings
    /\ createPC[b] \in {"insert", "outbox", "commit"} =>
         LET row == NewRow(createReq[b]) IN
         RequiresConflictCheck(row.type) =>
           \A a \in seen[b] :
             /\ Confirmed(a)
             /\ bookings[a].user = row.user
             /\ bookings[a].type = row.type
             => ~Collides(bookings[a], row.startsAt, row.endsAt, BookingGap)

\* A transaction that has updated a booking holds its lock, and the booking
\* stays confirmed until that transaction ends.
LocksHeld ==
  \A c \in Cancels : cancelPC[c] \in {"delete", "commit"} =>
    Confirmed(Target(c)) /\ bookingLock[Target(c)] = c

\* Only one call wins the cancelation of a booking.
OneWinner ==
  /\ \A c \in Cancels : cancelPC[c] \in {"publish", "ok"} => Canceled(Target(c))
  /\ \A c, d \in Cancels :
       /\ cancelPC[c] \in {"publish", "ok"}
       /\ cancelPC[d] \in {"publish", "ok"}
       /\ Target(c) = Target(d)
       => c = d

\* An event comes from a call that has ended well.
EventsOfCalls ==
  \A e \in events :
    IF e[1] = "user_booking"
    THEN createPC[e[2]] = "ok"
    ELSE cancelPC[e[2]] = "ok" /\ e[1] = CancelTopic(cancelReq[e[2]])

\* What a call that cancels has established so far.
RightsKept ==
  \A c \in Cancels :
    /\ cancelPC[c] \in CancelRunning => Authorized(cancelReq[c])
    /\ cancelPC[c] = "get" => cancelReq[c].api = "user"
    /\ /\ cancelPC[c] \in {"update", "delete", "commit"}
       /\ Target(c) \in DOMAIN bookings
       => MayCancel(cancelReq[c])
    /\ cancelPC[c] = "verify" => ~Confirmed(Target(c))

\* While no two calls overlap past their checks: a call past its check has seen
\* every booking that could be in conflict with its own.
SeesAll ==
  \A a, b \in Bookings :
    /\ Confirmed(a)
    /\ PastCheck(b)
    /\ bookings[a].user = createReq[b].user
    /\ bookings[a].type = TypeOf[createReq[b].resource]
    => a \in seen[b]

IInv ==
  /\ TypeOK
  /\ RequestsKept
  /\ RowsOfCalls
  /\ Checked
  /\ ConflictOnlyByRace
  /\ RemindersFollowBooking
  /\ LocksHeld
  /\ LocksOwned
  /\ OneWinner
  /\ EventsOfCalls
  /\ RightsKept
  /\ TruthfulAnswers
=============================================================================
