-------------------------- MODULE MCBookingService --------------------------
(***************************************************************************)
(* The constants of BookingService for TLC: small sets of model values, and*)
(* the functions and sets of records that a .cfg cannot write.             *)
(***************************************************************************)
EXTENDS BookingInvariant, TLC

CONSTANTS b1, b2, b3, c1, c2, c3, u1, u2, room, desk, device

\* The resources of the runs, each of a type of its own.
MCTypeOf ==
  [r \in Resources |-> CASE r = room -> "meeting_room"
                         [] r = desk -> "workspace"
                         [] OTHER -> "device"]

\* An ordinary user, an administrator who may own bookings as well, and a call
\* without metadata.
MCCallers == {caller \in {[user |-> u1, admin |-> FALSE],
                          [user |-> u2, admin |-> TRUE],
                          [user |-> NoUser, admin |-> FALSE]} :
                caller.user \in Users \cup {NoUser}}

\* Calls that cancel differ in nothing but their requests.
MCSymmetry == Permutations(Cancels)

=============================================================================
