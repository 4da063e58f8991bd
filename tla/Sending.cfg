SPECIFICATION Sending
CONSTANTS
  Texts = {t1, t2}
  Flushes = {f1, f2}
  MaxTroubles = 1
  MaxFailures = 1
  Files = {f1, f2}
  Parts = 1
  MaxRetries = 1
  MaxPresses = 1
  MaxFaults = 2
\* Everything may be sent, and bounds are reached: both parts may come to rest.
CHECK_DEADLOCK FALSE
INVARIANTS
  NoTextVanishes
  StoredOnce
  ReaderSeesWhatIsStored
  FilesAreSentOnce
PROPERTIES
  OutgoingDrains
  QueuedFilesGetTheirTurn
  ImplementsTextLife
