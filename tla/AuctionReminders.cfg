SPECIFICATION Spec
CONSTANTS
  Events <- ReminderEvents
  Devices = {d1}
  Test = Test
  MaxInserts = 2
  MaxTroubles = 1
  MaxChurn = 2
  SaleDates <- ReminderDates
  Offsets <- ReminderOffsets
  DefaultInterval = 4
  NearInterval = 1
  NearWindow = 1
  Backoff = 1
  MaxLag = 1
  Horizon = 5
INVARIANTS
  TypeOK
  SentMeansShown
  OnTime
PROPERTIES
  OncePerDevice
CHECK_DEADLOCK FALSE
