SPECIFICATION InterleavedChats
CONSTANTS
\* Groups, chats and keys never meet: they share their model values, and so the permutations.
  Users = {x1, x2, x3}
  Invites = {i1, i2}
  Handlers = {y1, y2}
  NoUser = none
  NoInvite = NoInvite
  ChatUsers = {y1, y2}
  ChatHandlers = {x1, x2, x3}
  MaxRequests = 2
  NoChatUser = none
  Devices = {i1, i2}
  KeyTasks = {y1, y2}
  Requests = {r1}
  MaxPairs = 2
  MaxEnsures = 3
  MaxPasswords = 2
  MaxSnags = 1
SYMMETRY Symmetry
\* Requests end and accounts can all be deleted: groups and chats may come to rest.
CHECK_DEADLOCK FALSE
INVARIANTS
  ChatsTypesOK
  NoDanglingRows
  BothWereWilling
  PublishedKeyIsHeld
  
PROPERTIES
  AdminsStayAdmins
  JoinsByInvite
