SPECIFICATION ReadsSpec
CONSTANTS
  b1 = b1
  b2 = b2
  c1 = c1
  r1 = r1
  u1 = u1
  device = device
  NoCancel = NoCancel
  NoRequest = NoRequest
  NoUser = NoUser
  UnknownBooking = UnknownBooking
  TypeOf <- MCTypeOf
  Callers <- MCCallers
  ReadRequests <- MCReadRequests
  Bookings = {b1}
  Cancels = {c1}
  Reads = {r1}
  Users = {u1}
  Resources = {device}
  Instants = {1, 2, 3}
  BookingGap = 1
  ReminderAdvance = 3
  MaxTime = 0
  MaxCrashes = 0
  KafkaEnabled = FALSE
INVARIANT NotFoundMeansAbsent
