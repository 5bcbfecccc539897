SPECIFICATION LifecycleSpec
CONSTANTS
  Calls = {c1}
  Reminders = {r1}
  NoReminder = NoReminder
  KafkaEnabled = TRUE
  MaxLives = 1
  MaxFaults = 1
INVARIANT ReturnAfterStop
