SPECIFICATION SerialChats
CONSTANTS
\* Groups and chats never meet: they share their model values, and so the permutations.
  Users = {u1, u2, u3}
  Invites = {i1, i2, i3}
  Handlers = {h1, h2}
  NoUser = none
  NoInvite = NoInvite
  ChatUsers = {u1, u2, u3}
  ChatHandlers = {h1, h2}
  MaxRequests = 3
  NoChatUser = none
  Devices = {h1, h2}
  KeyTasks = {h1, h2}
  Requests = {r1}
  MaxPairs = 2
  MaxEnsures = 3
  MaxPasswords = 2
  MaxSnags = 1
SYMMETRY Symmetry
\* Requests end and accounts can all be deleted: groups and chats may come to rest.
CHECK_DEADLOCK FALSE
INVARIANTS
  InvitationsAreDue
  OneRequestPerPair
PROPERTIES
  JoinsByPendingInvite
  ImplementsCharter
  ImplementsPrivateChat
