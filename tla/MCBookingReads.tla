--------------------------- MODULE MCBookingReads ---------------------------
(***************************************************************************)
(* The constants of BookingReads for TLC.                                  *)
(***************************************************************************)
EXTENDS ReadsInvariant

CONSTANTS b1, b2, c1, r1, u1, device

MCTypeOf == [r \in Resources |-> "device"]

\* The owner of the bookings.
MCCallers == {[user |-> u1, admin |-> FALSE]}

\* The booking that is canceled by its id, the list of its user, and those of
\* its resource in ranges that a booking fills, contains, begins at the end of
\* or ends at the beginning of, and in an empty one.
MCRange(from, to) == [api |-> "resource", resource |-> device, from |-> from, to |-> to]

MCReadRequests ==
  {[api |-> "get", target |-> b1], [api |-> "user", user |-> u1],
   MCRange(1, 2), MCRange(2, 3), MCRange(2, 2)}

=============================================================================
