----------------------------- MODULE UploadSession -----------------------------
(***************************************************************************)
(* One resumable upload of an attachment to the server's disk: the session *)
(* handlers of ChatUploadService (src/src/chat/chat-upload.service.ts) in  *)
(* the storage mode 'stream', the one that createSession chooses unless R2 *)
(* is configured.                                                          *)
(*                                                                         *)
(* A session is a JSON file, the record, beside the assembled file that    *)
(* the chunks are appended to.  Every handler reads the record, repairs it *)
(* after the assembled file, and works on its own copy, which it writes    *)
(* back.  When all chunks are there, finalizeSession renames the assembled *)
(* file to the attachment, creates the message that names it, and marks    *)
(* the record completed.  No two of these effects are atomic, and nothing  *)
(* keeps two requests off one session: a client whose connection broke     *)
(* tries again while its first request may still be running.               *)
(*                                                                         *)
(* A path leads to a file, an inode: rename moves the path and unlink      *)
(* removes it, but a handler that has the file open goes on writing to it. *)
(* A byte is its position in the file being sent, so that a file in order  *)
(* is the sequence 1, 2, 3, ...; 0 is a byte that truncate makes up.       *)
(*                                                                         *)
(* The chunks of a record are always the first few, since only the next    *)
(* one is ever added: the record keeps their number.                       *)
(***************************************************************************)
EXTENDS Integers, Sequences, FiniteSets

CONSTANTS
  Chunks,       \* totalChunks
  Edge,         \* Edge[k]: the bytes in the first k chunks
  Files,        \* inodes
  Names,        \* final file names (with a timestamp and a random part: never drawn twice)
  UploadHandlers,     \* the requests that can be in flight at the same time
  MaxSent,      \* messages with the same attachment are counted up to this bound
  NoFile,       \* no such path
  NoName        \* finalFileName is null

ASSUME PlanAssumption ==
  /\ Chunks \in Nat \ {0}
  /\ Edge \in [0 .. Chunks -> Nat]
  /\ Edge[0] = 0
  /\ \A k, l \in 0 .. Chunks : k < l => Edge[k] < Edge[l]
ASSUME UploadNullAssumption  == NoFile \notin Files /\ NoName \notin Names
ASSUME UploadBoundAssumption == MaxSent \in Nat \ {0}

VARIABLES
  meta,         \* the record on disk
  bytes,        \* the contents of each inode
  assembled,    \* the inode at the path of the assembled file
  final,        \* the inode at the path of each final file
  sent,         \* how many messages name each final file
  uploadReq           \* the requests in flight

disk == <<bytes, assembled, final>>
uploadVars == <<meta, disk, sent, uploadReq>>

FileSize == Edge[Chunks]
PathTo   == Files \cup {NoFile}

\* A record that cannot be read, because a write of it did not finish.
Torn == [status |-> "torn", chunks |-> 0, name |-> NoName]

Record == [status : {"pending", "completed", "cancelled"},
           chunks : 0 .. Chunks, name : Names \cup {NoName}]

\* rec is the handler's copy of the record; put counts the bytes it has appended to fd.
UploadIdle == [op |-> "idle", at |-> "end", chunk |-> 0, rec |-> Torn, fd |-> NoFile, put |-> 0]

UploadRequest ==
  [op    : {"status", "upload", "finalize", "cancel"},
   at    : {"stat", "cut", "repair", "synced", "place", "open", "append", "check", "save",
            "name", "look", "drop", "verify", "free", "move", "send", "undo",
            "complete", "cancel", "clean"},
   chunk : 0 .. Chunks - 1, rec : Record, fd : PathTo, put : Nat]

UploadInit ==
  /\ meta = [status |-> "pending", chunks |-> 0, name |-> NoName]
  /\ bytes = [f \in Files |-> <<>>]
  /\ assembled = NoFile
  /\ final = [n \in Names |-> NoFile]
  /\ sent = [n \in Names |-> 0]
  /\ uploadReq = [h \in UploadHandlers |-> UploadIdle]

--------------------------------------------------------------------------------
(***************************************************************************)
(* Files.                                                                  *)
(***************************************************************************)
SizeIs(f, n) == f # NoFile /\ Len(bytes[f]) = n

\* An inode that no path and no open descriptor leads to.
FreeFile(f) ==
  /\ f # assembled
  /\ \A n \in Names : final[n] # f
  /\ \A h \in UploadHandlers : uploadReq[h].fd # f

Chunk(k) == [i \in 1 .. Edge[k + 1] - Edge[k] |-> Edge[k] + i]

\* truncate: a longer file is cut, a shorter one is filled up with zeros.
Resized(s, n) == [i \in 1 .. n |-> IF i <= Len(s) THEN s[i] ELSE 0]

\* Seeded bug: a chunk counts as soon as some of it has arrived.
FilledRoundingUp(n) ==
  CHOOSE k \in 0 .. Chunks : n <= Edge[k] /\ (k = 0 \/ Edge[k - 1] < n)

\* getCompletedChunkPrefixForAssembledBytes: the chunks that fit into n bytes.
Filled(n) ==
  CHOOSE k \in 0 .. Chunks : Edge[k] <= n /\ (k = Chunks \/ n < Edge[k + 1])

--------------------------------------------------------------------------------
(***************************************************************************)
(* Every handler begins by reading the record and bringing it in line with *)
(* the assembled file.                                                     *)
(***************************************************************************)
Goes(h, at)       == uploadReq' = [uploadReq EXCEPT ![h].at = at]
GoesWith(h, at, r) == uploadReq' = [uploadReq EXCEPT ![h].at = at, ![h].rec = r]
Done(h)           == uploadReq' = [uploadReq EXCEPT ![h] = UploadIdle]

Read(h, op, k) ==
  /\ uploadReq[h] = UploadIdle
  /\ meta # Torn
  /\ uploadReq' = [uploadReq EXCEPT ![h] =
               [op |-> op, at |-> "stat", chunk |-> k, rec |-> meta, fd |-> NoFile, put |-> 0]]
  /\ UNCHANGED <<meta, disk, sent>>

\* Seeded bug: a record whose assembled file is gone is left as it is.
StatTrusting(h) ==
  LET r == uploadReq[h].rec
      n == Len(bytes[assembled])
  IN  /\ uploadReq[h].at = "stat"
      /\ IF assembled = NoFile
           THEN Goes(h, "synced")
           ELSE IF n # Edge[Filled(n)]
           THEN GoesWith(h, "cut", [r EXCEPT !.chunks = Filled(n)])
           ELSE GoesWith(h, IF r.chunks = Filled(n) THEN "synced" ELSE "repair",
                         [r EXCEPT !.chunks = Filled(n)])
      /\ UNCHANGED <<meta, disk, sent>>

\* syncStreamSessionRecord: the size of the assembled file decides which chunks there are.
Stat(h) ==
  LET r == uploadReq[h].rec
      n == IF assembled = NoFile THEN 0 ELSE Len(bytes[assembled])
      k == Filled(n)
  IN  /\ uploadReq[h].at = "stat"
      /\ GoesWith(h, IF n # Edge[k] THEN "cut" ELSE IF r.chunks # k THEN "repair" ELSE "synced",
                  [r EXCEPT !.chunks = k])
      /\ UNCHANGED <<meta, disk, sent>>

Cut(h) ==
  /\ uploadReq[h].at = "cut"
  /\ assembled # NoFile
  /\ bytes' = [bytes EXCEPT ![assembled] = Resized(@, Edge[uploadReq[h].rec.chunks])]
  /\ Goes(h, "repair")
  /\ UNCHANGED <<meta, assembled, final, sent>>

\* Where a handler is about to write its copy of the record, and where it goes then.
Writes == {"repair", "save", "name", "complete", "cancel"}

AfterWrite(at) ==
  CASE at = "repair" -> "synced"
    [] at = "name"   -> "look"
    [] at \in {"complete", "cancel"} -> "clean"

\* writeSessionRecord.  A handler that has saved its chunk is done.
WriteRecord(h) ==
  /\ uploadReq[h].at \in Writes
  /\ meta' = uploadReq[h].rec
  /\ IF uploadReq[h].at = "save" THEN Done(h) ELSE Goes(h, AfterWrite(uploadReq[h].at))
  /\ UNCHANGED <<disk, sent>>

--------------------------------------------------------------------------------
(***************************************************************************)
(* uploadChunk: the first chunk becomes the assembled file, any other one  *)
(* is appended to it.                                                      *)
(***************************************************************************)
StartChunk(h) ==
  LET k == uploadReq[h].chunk
  IN  /\ uploadReq[h].op = "upload"
      /\ uploadReq[h].at = "synced"
      /\ uploadReq[h].rec.status = "pending"
      /\ k = uploadReq[h].rec.chunks
      /\ IF k = 0
           THEN assembled' = NoFile /\ Goes(h, "place")
           ELSE SizeIs(assembled, Edge[k]) /\ Goes(h, "open") /\ UNCHANGED assembled
      /\ UNCHANGED <<meta, bytes, final, sent>>

PlaceFirst(h) ==
  /\ uploadReq[h].at = "place"
  /\ \E f \in Files :
       /\ FreeFile(f)
       /\ bytes' = [bytes EXCEPT ![f] = Chunk(0)]
       /\ assembled' = f
  /\ GoesWith(h, "save", [uploadReq[h].rec EXCEPT !.chunks = 1])
  /\ UNCHANGED <<meta, final, sent>>

\* Opened for appending; a file that is gone by now is created anew.
Open(h) ==
  /\ uploadReq[h].at = "open"
  /\ \E f \in Files :
       /\ IF assembled = NoFile
            THEN FreeFile(f) /\ bytes' = [bytes EXCEPT ![f] = <<>>]
            ELSE f = assembled /\ UNCHANGED bytes
       /\ assembled' = f
       /\ uploadReq' = [uploadReq EXCEPT ![h].at = "append", ![h].fd = f]
  /\ UNCHANGED <<meta, final, sent>>

\* The stream writes piece by piece; O_APPEND puts each piece at the end.
AppendByte(h) ==
  LET k == uploadReq[h].chunk
      p == uploadReq[h].put + 1
      last == Edge[k] + p = Edge[k + 1]
  IN  /\ uploadReq[h].at = "append"
      /\ bytes' = [bytes EXCEPT ![uploadReq[h].fd] = Append(@, Edge[k] + p)]
      /\ uploadReq' = [uploadReq EXCEPT ![h].put = p,
                   ![h].at = IF last THEN "check" ELSE "append",
                   ![h].fd = IF last THEN NoFile ELSE @]
      /\ UNCHANGED <<meta, assembled, final, sent>>

CheckAppended(h) ==
  LET k == uploadReq[h].chunk
  IN  /\ uploadReq[h].at = "check"
      /\ SizeIs(assembled, Edge[k + 1])
      /\ GoesWith(h, "save", [uploadReq[h].rec EXCEPT !.chunks = k + 1])
      /\ UNCHANGED <<meta, disk, sent>>

--------------------------------------------------------------------------------
(***************************************************************************)
(* finalizeSession, and finalizeLocalSession that it calls.                *)
(***************************************************************************)
\* The final name is drawn once, and kept in the record for a later attempt.
StartFinalize(h) ==
  LET r == uploadReq[h].rec
  IN  /\ uploadReq[h].op = "finalize"
      /\ uploadReq[h].at = "synced"
      /\ r.status = "pending"
      /\ r.chunks = Chunks
      /\ IF r.name # NoName
           THEN Goes(h, "look")
           ELSE \E n \in Names :
                  /\ n # meta.name /\ final[n] = NoFile /\ sent[n] = 0
                  /\ \A g \in UploadHandlers : uploadReq[g].rec.name # n
                  /\ GoesWith(h, "name", [r EXCEPT !.name = n])
      /\ UNCHANGED <<meta, disk, sent>>

\* A final file of the right size was put there by an earlier attempt; any other is removed.
Look(h) ==
  LET f == final[uploadReq[h].rec.name]
  IN  /\ uploadReq[h].at = "look"
      /\ Goes(h, IF f = NoFile THEN "verify" ELSE IF SizeIs(f, FileSize) THEN "send" ELSE "drop")
      /\ UNCHANGED <<meta, disk, sent>>

\* unlink of the final file, in three places.
UnlinkFinal(h) ==
  /\ uploadReq[h].at \in {"drop", "free", "undo"}
  /\ final' = [final EXCEPT ![uploadReq[h].rec.name] = NoFile]
  /\ CASE uploadReq[h].at = "drop" -> Goes(h, "verify")
       [] uploadReq[h].at = "free" -> Goes(h, "move")
       [] uploadReq[h].at = "undo" -> Done(h)
  /\ UNCHANGED <<meta, bytes, assembled, sent>>

Verify(h) ==
  /\ uploadReq[h].at = "verify"
  /\ SizeIs(assembled, FileSize)
  /\ Goes(h, "free")
  /\ UNCHANGED <<meta, disk, sent>>

Move(h) ==
  /\ uploadReq[h].at = "move"
  /\ assembled # NoFile
  /\ final' = [final EXCEPT ![uploadReq[h].rec.name] = assembled]
  /\ assembled' = NoFile
  /\ Goes(h, "send")
  /\ UNCHANGED <<meta, bytes, sent>>

CreateMessage(n) == sent' = [sent EXCEPT ![n] = IF @ < MaxSent THEN @ + 1 ELSE @]

\* Seeded bug: a message that could not be created is passed over.
SendRegardless(h) ==
  LET n == uploadReq[h].rec.name
  IN  /\ uploadReq[h].at = "send"
      /\ UNCHANGED sent \/ CreateMessage(n)
      /\ GoesWith(h, "complete", [uploadReq[h].rec EXCEPT !.status = "completed"])
      /\ UNCHANGED <<meta, disk>>

\* createEncryptedMessage stores the message and then notifies its receivers.
Send(h) ==
  LET n == uploadReq[h].rec.name
  IN  /\ uploadReq[h].at = "send"
      /\ CreateMessage(n)
      /\ GoesWith(h, "complete", [uploadReq[h].rec EXCEPT !.status = "completed"])
      /\ UNCHANGED <<meta, disk>>

\* It throws: nothing was stored, or the message was and a notification failed.
SendFails(h) ==
  LET n == uploadReq[h].rec.name
  IN  /\ uploadReq[h].at = "send"
      /\ UNCHANGED sent \/ CreateMessage(n)
      /\ Goes(h, "undo")
      /\ UNCHANGED <<meta, disk>>

\* cleanupSessionArtifacts, the end of finalizeSession and of cancelSession.
Clean(h) ==
  /\ uploadReq[h].at = "clean"
  /\ assembled' = NoFile
  /\ Done(h)
  /\ UNCHANGED <<meta, bytes, final, sent>>

\* Seeded bug: a completed upload can be cancelled.
StartCancelAnyStatus(h) ==
  /\ uploadReq[h].op = "cancel"
  /\ uploadReq[h].at = "synced"
  /\ GoesWith(h, "cancel", [uploadReq[h].rec EXCEPT !.status = "cancelled"])
  /\ UNCHANGED <<meta, disk, sent>>

\* cancelSession.
StartCancel(h) ==
  /\ uploadReq[h].op = "cancel"
  /\ uploadReq[h].at = "synced"
  /\ uploadReq[h].rec.status # "completed"
  /\ GoesWith(h, "cancel", [uploadReq[h].rec EXCEPT !.status = "cancelled"])
  /\ UNCHANGED <<meta, disk, sent>>

--------------------------------------------------------------------------------
\* Nothing is left to do but answer: with the session as it is (getSessionStatus, and
\* uploadChunk for a chunk that is already there), or with what keeps the handler from
\* its next step.  prepareChunkUpload and completeChunkUpload, which bring the record in
\* line and then refuse a session that is not in R2, are "status" as well.
Over(h) ==
  LET r == uploadReq[h]
  IN  \/ r.at = "synced" /\ r.op = "status"
      \/ /\ r.at = "synced" /\ r.op = "upload"
         /\ \/ r.rec.status # "pending"
            \/ r.chunk # r.rec.chunks
            \/ r.chunk # 0 /\ ~SizeIs(assembled, Edge[r.chunk])
      \/ /\ r.at = "synced" /\ r.op = "finalize"
         /\ r.rec.status # "pending" \/ r.rec.chunks # Chunks
      \/ r.at = "synced" /\ r.op = "cancel" /\ r.rec.status = "completed"
      \/ r.at \in {"cut", "move"} /\ assembled = NoFile
      \/ r.at = "check" /\ ~SizeIs(assembled, Edge[r.chunk + 1])
      \/ r.at = "verify" /\ ~SizeIs(assembled, FileSize)

Answer(h) == Over(h) /\ Done(h) /\ UNCHANGED <<meta, disk, sent>>

\* A request ends between two steps: a failure of the disk or the database, or a crash
\* (which ends every request).  The files stay as they are.
Abort(h) ==
  /\ uploadReq[h] # UploadIdle
  /\ ~Over(h)
  /\ Done(h)
  /\ UNCHANGED <<meta, disk, sent>>

\* It ends while the record is being written: writeFile has emptied the file.
TearRecord(h) ==
  /\ uploadReq[h].at \in Writes
  /\ meta' = Torn
  /\ Done(h)
  /\ UNCHANGED <<disk, sent>>

BeginUpload(h) ==
  \/ \E op \in {"status", "finalize", "cancel"} : Read(h, op, 0)
  \/ \E k \in 0 .. Chunks - 1 : Read(h, "upload", k)

ProceedUpload(h) ==
  \/ Stat(h) \/ Cut(h) \/ WriteRecord(h) \/ Answer(h)
  \/ StartChunk(h) \/ PlaceFirst(h) \/ Open(h) \/ AppendByte(h) \/ CheckAppended(h)
  \/ StartFinalize(h) \/ Look(h) \/ UnlinkFinal(h) \/ Verify(h) \/ Move(h) \/ Send(h)
  \/ StartCancel(h) \/ Clean(h)

FailUpload(h) == Abort(h) \/ TearRecord(h) \/ SendFails(h)

UploadNext == \E h \in UploadHandlers : BeginUpload(h) \/ ProceedUpload(h) \/ FailUpload(h)

UploadSpec == UploadInit /\ [][UploadNext]_uploadVars

--------------------------------------------------------------------------------
(***************************************************************************)
(* The same handlers, one request at a time.                               *)
(***************************************************************************)
UploadQuiet == \A h \in UploadHandlers : uploadReq[h] = UploadIdle

SerialUploadNext ==
  \/ UploadQuiet /\ \E h \in UploadHandlers : BeginUpload(h)
  \/ \E h \in UploadHandlers : ProceedUpload(h) \/ FailUpload(h)

SerialUploadSpec == UploadInit /\ [][SerialUploadNext]_uploadVars

(***************************************************************************)
(* The client that sends the file (uploadAttachmentTask in public/app.js)  *)
(* asks for the status, sends the chunk that the answer calls next, and    *)
(* finalizes when there is none; after an error it begins again.           *)
(***************************************************************************)
Resume(h) ==
  LET k == Filled(IF assembled = NoFile THEN 0 ELSE Len(bytes[assembled]))
  IN  /\ UploadQuiet
      /\ meta.status = "pending"
      /\ IF k = Chunks THEN Read(h, "finalize", 0) ELSE Read(h, "upload", k)

\* A handler that can go on does, and the client that keeps resuming gets its turn
\* between the requests of others.
ResumingSpec ==
  /\ SerialUploadSpec
  /\ \A h \in UploadHandlers : WF_uploadVars(ProceedUpload(h))
  /\ SF_uploadVars(\E h \in UploadHandlers : Resume(h))

--------------------------------------------------------------------------------
(***************************************************************************)
(* Properties.                                                             *)
(***************************************************************************)

\* Types of the record, the files and the requests in flight.
UploadTypeOK ==
  /\ meta \in Record \cup {Torn}
  /\ bytes \in [Files -> Seq(0 .. FileSize)]
  /\ assembled \in PathTo
  /\ final \in [Names -> PathTo]
  /\ sent \in [Names -> 0 .. MaxSent]
  /\ uploadReq \in [UploadHandlers -> UploadRequest \cup {UploadIdle}]

InOrder(f) == \A i \in 1 .. Len(bytes[f]) : bytes[f][i] = i

\* One request at a time, and wherever one of them dies, the attachment of a message
\* holds every byte of the file in its place ("Chunks must be uploaded in order"),
\* if the attachment is still there.
AttachmentsInOrder ==
  \A n \in Names : sent[n] > 0 /\ final[n] # NoFile =>
    InOrder(final[n]) /\ Len(bytes[final[n]]) = FileSize

\* One request at a time, a completed session has sent its message, and the file that
\* the message names is there: also when an earlier attempt died after it had moved
\* the file, or created a message, or taken the file away again.
CompletedIsSent ==
  meta.status = "completed" => meta.name # NoName /\ sent[meta.name] > 0 /\ final[meta.name] # NoFile

\* Whatever the requests on a session do to each other, and wherever they die: the session
\* is completed only once a message with the attachment that it records has been created.
CompletedHasMessage ==
  meta.status = "completed" => meta.name # NoName /\ sent[meta.name] > 0

\* One request at a time, a completed or cancelled session stays what it is ("Only
\* pending uploads can be modified"), unless its record is lost.
EndedStaysEnded ==
  [][meta.status \in {"completed", "cancelled"} => meta'.status \in {meta.status, "torn"}]_uploadVars

\* A client that keeps resuming gets its upload to an end, unless requests keep failing
\* or the record is lost: wherever an attempt died, what it left behind does not keep
\* the next ones from finishing.
ResumingEnds ==
  (<>(meta.status # "pending")) \/ []<><<\E h \in UploadHandlers : FailUpload(h)>>_uploadVars
================================================================================
