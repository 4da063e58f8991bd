SPECIFICATION ChatSpec
CONSTANTS
  ChatUsers = {u1, u2}
  MaxRequests = 2
  ChatHandlers = {h1, h2}
  NoChatUser = NoUser
SYMMETRY Symmetry
\* Requests end and accounts can all be deleted: the chats may come to rest.
CHECK_DEADLOCK FALSE
PROPERTY UnblockStaysLocked
