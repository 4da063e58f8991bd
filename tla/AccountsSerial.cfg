SPECIFICATION SerialAccounts
CONSTANTS
  Chunks = 3
  Edge <- ThreeChunks
  Files = {f1, f2}
  Names = {n1, n2}
  UploadHandlers = {h1}
  MaxSent = 2
  NoFile = NoFile
  NoName = NoName
  Users = {u1, u2}
  Handlers = {h1, h2}
  Take = 2
  NoUser = NoUser
  Unset = Unset
\* No request gets past a record that was left half written.
CHECK_DEADLOCK FALSE
INVARIANTS
  AttachmentsInOrder
  CompletedIsSent
  SessionsAreAllowed
PROPERTIES
  EndedStaysEnded
  PendingUploadsEnd
  PurgesOnlyDue
  DueGetsItsTurn
  ImplementsAccountCharter
