--------------------------- MODULE ReadsInvariant ---------------------------
(***************************************************************************)
(* The inductive invariant of BookingReads, on top of that of              *)
(* BookingService.                                                         *)
(***************************************************************************)
EXTENDS BookingReads, BookingInvariant

\* Every booking made or asked for begins before it ends.
RangesNotEmpty ==
  /\ \A b \in Bookings : createPC[b] \in CreateRunning =>
       createReq[b].startsAt < createReq[b].endsAt
  /\ \A b \in DOMAIN bookings : bookings[b].startsAt < bookings[b].endsAt
  /\ \A r \in Reads : readPC[r] \in {"query", "scan", "ok"} => ValidRange(readReq[r])

\* What clients have been told of a booking, in one word, holds for good.
Holds(f) ==
  /\ f[1] \in DOMAIN bookings
  /\ f[2] = "canceled" => Canceled(f[1])

ToldIsTrue == \A r \in Reads : \A f \in told[r] : Holds(f)

\* The rows a query has found are those of the answer from then on.
RowsFound ==
  \A r \in Reads : readPC[r] \in {"scan", "ok"} =>
    RowsMatch(readReq[r], rows[r]) /\ RowsShow(readReq[r], rows[r], told[r])

ReadIInv ==
  /\ IInv
  /\ ReadTypeOK
  /\ RangesNotEmpty
  /\ ToldIsTrue
  /\ RowsFound
=============================================================================
