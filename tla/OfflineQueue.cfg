SPECIFICATION SendingSpec
CONSTANTS
  Texts = {t1, t2}
  Flushes = {f1, f2}
  MaxTroubles = 1
  MaxFailures = 0
INVARIANT QueuedTextsWillSend
CHECK_DEADLOCK FALSE
