SPECIFICATION UploadSpec
CONSTANTS
  Chunks = 3
  Edge <- ThreeBytes
  Files = {f1, f2}
  Names = {n1}
  UploadHandlers = {h1, h2}
  MaxSent = 1
  NoFile = NoFile
  NoName = NoName
SYMMETRY Symmetry
\* No request gets past a record that was left half written.
CHECK_DEADLOCK FALSE
INVARIANT AttachmentsInOrder
