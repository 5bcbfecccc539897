SPECIFICATION Spec
CONSTANTS
  b1 = b1
  b2 = b2
  b3 = b3
  c1 = c1
  c2 = c2
  c3 = c3
  u1 = u1
  u2 = u2
  room = room
  desk = desk
  device = device
  NoCancel = NoCancel
  NoRequest = NoRequest
  NoUser = NoUser
  UnknownBooking = UnknownBooking
  TypeOf <- MCTypeOf
  Callers <- MCCallers
  Bookings = {b1, b2}
  Cancels = {c1}
  Users = {u1}
  Resources = {room, device}
  Instants = {1, 2, 3, 4}
  BookingGap = 1
  ReminderAdvance = 1
  MaxTime = 0
  MaxCrashes = 0
  KafkaEnabled = TRUE
INVARIANT TypeOK
INVARIANT ConflictOnlyByRace
PROPERTY ConflictsNeedOverlap
