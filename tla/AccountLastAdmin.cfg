SPECIFICATION SerialAccountSpec
CONSTANTS
  Users = {u1, u2}
  Handlers = {h1, h2}
  Take = 2
  NoUser = NoUser
  Unset = Unset
SYMMETRY Symmetry
PROPERTY KeepsAnAdmin
