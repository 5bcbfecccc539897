--------------------------- MODULE MCBookingSystem ---------------------------
(***************************************************************************)
(* The constants of BookingSystem for TLC.                                 *)
(***************************************************************************)
EXTENDS BookingRefinement, TLC

CONSTANTS b1, b2, c1, c2, u1, u2, room

MCTypeOf == [r \in Resources |-> "meeting_room"]

\* An administrator who cancels his own bookings: who may cancel is the matter
\* of other runs.
MCCallers == {[user |-> u1, admin |-> TRUE]}

=============================================================================
