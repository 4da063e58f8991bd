SPECIFICATION GroupSpec
CONSTANTS
  Users = {u1, u2, u3}
  Invites = {i1, i2}
  Handlers = {h1, h2}
  NoUser = NoUser
  NoInvite = NoInvite
SYMMETRY Symmetry
\* Requests end and accounts can all be deleted: the group may come to rest.
CHECK_DEADLOCK FALSE
INVARIANT KeepsAnAdmin
