SPECIFICATION SystemFairSpec
CONSTANTS
  b1 = b1
  b2 = b2
  c1 = c1
  c2 = c2
  u1 = u1
  u2 = u2
  room = room
  NoCancel = NoCancel
  NoRequest = NoRequest
  NoUser = NoUser
  UnknownBooking = UnknownBooking
  TypeOf <- MCTypeOf
  Callers <- MCCallers
  Bookings = {b1}
  Cancels = {c1}
  Users = {u1}
  Resources = {room}
  Instants = {2, 3}
  BookingGap = 1
  ReminderAdvance = 1
  MaxTime = 3
  MaxCrashes = 1
  KafkaEnabled = TRUE
  BatchSize = 1
  RetryBackoff = 1
  MaxFaults = 1
 
PROPERTY EveryReminderSettled
