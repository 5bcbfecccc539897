SPECIFICATION LifecycleFairSpec
CONSTANTS
  Calls = {c1, c2}
  Reminders = {r1, r2}
  NoReminder = NoReminder
  KafkaEnabled = TRUE
  MaxLives = 2
  MaxFaults = 1
INVARIANTS
  LifecycleTypeOK
  CallsUseOpenConnections
  WorkerUsesOpenConnections
  ReturnCutsNoCall
  FailuresContained
  CopiesBounded
  WaitsAreAnswered
PROPERTIES
  SignalEndsProcess
  ImplementsContract
