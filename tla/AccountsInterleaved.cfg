SPECIFICATION InterleavedAccounts
CONSTANTS
\* Uploads and accounts never meet: they share their model values, and so the permutations.
  Chunks = 1
  Edge <- OneChunk
  Files = {f1, f2}
  Names = {n1, n2}
  UploadHandlers = {h1, h2}
  MaxSent = 1
  NoFile = NoFile
  NoName = NoName
  Users = {f1, f2}
  Handlers = {h1, h2}
  Take = 2
  NoUser = NoUser
  Unset = Unset
SYMMETRY AccountsSymmetry
\* No request gets past a record that was left half written.
CHECK_DEADLOCK FALSE
INVARIANTS
  CompletedHasMessage
  AdminsAreNotBanned
PROPERTY ErasedByWill
