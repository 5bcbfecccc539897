---------------------------- MODULE BookingLedger ----------------------------
(***************************************************************************)
(* What the service promises, without calls, transactions, statements or   *)
(* queues: a booking is made and may be canceled, each in one step; what   *)
(* users are told is true; a reminder waits, is taken up, and is then sent *)
(* or waits again. A cancelation drops the reminders that wait, but not    *)
(* one that has been taken up already.                                     *)
(***************************************************************************)
CONSTANTS Bookings, Kinds

VARIABLES
  status,     \* of each booking
  reminders,  \* the state of each reminder
  told        \* what Kafka has: announcements and reminders

ledgerVars == <<status, reminders, told>>

Reminders == Bookings \X Kinds

Init ==
  /\ status = [b \in Bookings |-> "absent"]
  /\ reminders = [o \in Reminders |-> "none"]
  /\ told = {}

Book(b) ==
  /\ status[b] = "absent"
  /\ status' = [status EXCEPT ![b] = "confirmed"]
  /\ \E kinds \in SUBSET Kinds :
       reminders' = [o \in Reminders |->
                       IF o \in {b} \X kinds THEN "pending" ELSE reminders[o]]
  /\ UNCHANGED told

Cancel(b) ==
  /\ status[b] = "confirmed"
  /\ status' = [status EXCEPT ![b] = "canceled"]
  /\ reminders' = [o \in Reminders |->
                     IF o[1] = b /\ reminders[o] = "pending" THEN "none"
                     ELSE reminders[o]]
  /\ UNCHANGED told

Announce(b) ==
  /\ \/ status[b] # "absent" /\ told' = told \cup {<<"booked", b>>}
     \/ status[b] = "canceled" /\ told' = told \cup {<<"canceled", b>>}
  /\ UNCHANGED <<status, reminders>>

\* A batch is taken up when none is in hand.
TakeUp ==
  /\ \A o \in Reminders : reminders[o] # "taken"
  /\ \E batch \in SUBSET {o \in Reminders : reminders[o] = "pending"} :
       reminders' = [o \in Reminders |->
                       IF o \in batch THEN "taken" ELSE reminders[o]]
  /\ UNCHANGED <<status, told>>

Remind(o) ==
  /\ reminders[o] = "taken"
  /\ told' = told \cup {<<o[2], o[1]>>}
  /\ UNCHANGED <<status, reminders>>

\* What becomes of a reminder that is put back.
PutBack(o) == IF status[o[1]] = "canceled" THEN "none" ELSE "pending"

Settle(o) ==
  /\ reminders[o] = "taken"
  /\ \/ reminders' = [reminders EXCEPT ![o] = PutBack(o)]
     \/ /\ <<o[2], o[1]>> \in told
        /\ status[o[1]] # "canceled"
        /\ reminders' = [reminders EXCEPT ![o] = "sent"]
  /\ UNCHANGED <<status, told>>

Restart ==
  /\ reminders' = [o \in Reminders |->
                     IF reminders[o] = "taken" THEN PutBack(o) ELSE reminders[o]]
  /\ UNCHANGED <<status, told>>

Next ==
  \/ \E b \in Bookings : Book(b) \/ Cancel(b) \/ Announce(b)
  \/ TakeUp
  \/ \E o \in Reminders : Remind(o) \/ Settle(o)
  \/ Restart

Spec == Init /\ [][Next]_ledgerVars

-----------------------------------------------------------------------------
\* What follows for who reads the ledger

TypeOK ==
  /\ status \in [Bookings -> {"absent", "confirmed", "canceled"}]
  /\ reminders \in [Reminders -> {"none", "pending", "taken", "sent"}]

\* Whatever was announced is so, only confirmed bookings have reminders that
\* wait, and what is settled as sent was sent.
Truthful ==
  /\ \A b \in Bookings :
       /\ <<"booked", b>> \in told => status[b] # "absent"
       /\ <<"canceled", b>> \in told => status[b] = "canceled"
  /\ \A o \in Reminders :
       /\ reminders[o] = "pending" => status[o[1]] = "confirmed"
       /\ reminders[o] = "taken" => status[o[1]] # "absent"
       /\ reminders[o] = "sent" => <<o[2], o[1]>> \in told

\* The last word on a canceled booking: a reminder that was not taken up before
\* the cancelation never is, and nobody hears of it.
LastWord ==
  [][\A o \in Reminders :
       status[o[1]] = "canceled" /\ reminders[o] # "taken" =>
         /\ reminders'[o] # "taken"
         /\ <<o[2], o[1]>> \in told' => <<o[2], o[1]>> \in told]_ledgerVars
=============================================================================
