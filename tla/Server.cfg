SPECIFICATION Server
CONSTANTS
  Messages = {m1, m2}
  Requests = {r1}
  BatchSize = 2
  MaxMishaps = 1
  Pictures = {p1, p2}
  Changes = {c1, c2}
  MaxChanges = 2
  MaxBreaks = 1
\* Requests end and bounds are reached: both parts may come to rest.
CHECK_DEADLOCK FALSE
INVARIANTS
  NamedFilesExist
  NoLostFiles
PROPERTIES
  ExpiredMessagesGo
  OldThemesGo
