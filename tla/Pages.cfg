SPECIFICATION Pages
CONSTANTS
\* The parts never meet: sockets and accounts share their model values, and so the permutations.
  Instances = {p1, p2}
  Sockets = {u, v}
  MaxStops = 1
  Peers = {a, b}
  Correspondents = {a}
  NoPeer = none
  MaxReads = 2
  MaxTurns = 3
  chat1 = chat1
  chat2 = chat2
  Chats = {chat1, chat2}
  Past <- FirstMessages
  Coming <- LaterMessages
  PageSize = 1
  MaxSaved = 1
  MaxLoads = 2
  MaxMoves = 2
  MaxLosses = 1
  Parties = {a, b}
  MaxDials = 2
  MaxFlips = 1
  MaxHitches = 1
  Persons = {a, u, v}
  Reviewers = {a}
  NoPerson = none
  MaxReports = 1
  MaxUpheavals = 1
SYMMETRY Symmetry
\* Requests end and bounds are reached: every part may come to rest.
CHECK_DEADLOCK FALSE
INVARIANTS
  PagesTypesOK
  PresenceSettles
  PageCatchesUp
  NothingIsSkipped
  DevicesAreReleased
  ReportsAreTrue
