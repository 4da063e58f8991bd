------------------------------ MODULE AttachmentLife ------------------------------
(***************************************************************************)
(* The life of messages with attachments, and of the files that they name   *)
(* (chat.controller.ts, chat.service.ts, chat-retention.service.ts,         *)
(* chat-attachment-storage.service.ts, user.service.ts).                    *)
(*                                                                         *)
(* One account sends all the messages.  A message and its file are written   *)
(* by different stores, so every operation takes several steps, and another  *)
(* operation or a stop of the server may come in between: the direct upload, *)
(* the deletion for everyone, the hourly cleanup of expired messages, and    *)
(* the erasure of the account.                                              *)
(***************************************************************************)
EXTENDS Naturals, Sequences, FiniteSets, Functions

CONSTANTS
  Messages,     \* messages with an attachment that are ever sent
  Requests,     \* bound: actions on messages that are handled at the same time
  BatchSize,    \* CLEANUP_BATCH_SIZE
  MaxMishaps    \* bound: failures that pass, notifications that fail, stops

ASSUME LifeAssumption ==
  Messages # {} /\ BatchSize \in Nat \ {0} /\ MaxMishaps \in Nat

VARIABLES
  remote,       \* attachments are kept in R2, where a deletion may throw
  stuck,        \* the attachments whose deletion R2 always refuses
  file,         \* the messages whose attachment is stored
  upload,       \* upload[m]: where the upload of m is
  row,          \* row[m]: the message, naming its file ("kept") or without it ("bare")
  born,         \* the messages in the order of createdAt
  expired,      \* how many of them are older than the cutoff
  act,          \* act[r]: an action on a message, with the copy that it decides on
  cycle,        \* the cleanup: what is left of its batch, by the places in born, what
                \* failed, what may be deleted
  erase,        \* the erasure of the account, with the files that it has read
  mishaps,
  \* What has happened, for the properties:
  misjudged,    \* messages stored although their upload was reported as failed
  spilt         \* messages whose file nobody will delete any more, for a known reason

store == <<remote, stuck>>
lifeVars == <<store, file, upload, row, born, expired, act, cycle, erase,
              mishaps, misjudged, spilt>>

Rows == {"none", "kept", "bare", "gone"}
\* A request that is over leaves nothing behind.
NoAct == [at |-> "idle", on |-> CHOOSE m \in Messages : TRUE, copy |-> "bare"]
Resting == [on |-> FALSE, todo |-> {}, failed |-> {}, deletable |-> {}]

LifeTypeOK ==
  /\ remote \in BOOLEAN
  /\ stuck \subseteq Messages /\ file \subseteq Messages
  /\ misjudged \subseteq Messages /\ spilt \subseteq Messages
  /\ upload \in [Messages -> {"new", "stored", "failed", "over"}]
  /\ row \in [Messages -> Rows]
  /\ born \in Seq(Messages) /\ IsInjective(born)
  /\ expired \in 0 .. Len(born)
  /\ act \in [Requests -> [at : {"idle", "bare", "unlink"},
                           on : Messages, copy : {"kept", "bare"}]]
  /\ cycle \in [on : BOOLEAN, todo : SUBSET [place : 1 .. Len(born), names : BOOLEAN],
                failed : SUBSET Messages, deletable : SUBSET Messages]
  /\ erase \in [at : {"never", "read", "files"}, files : SUBSET Messages]
  /\ mishaps \in 0 .. MaxMishaps
  \* No message outlives its sender's account (onDelete: Cascade).
  /\ erase.at = "files" => \A m \in Messages : row[m] \in {"none", "gone"}

LifeInit ==
  /\ remote \in BOOLEAN
  /\ stuck \in IF remote THEN {{}} \cup {{m} : m \in Messages} ELSE {{}}
  /\ file = {} /\ misjudged = {} /\ spilt = {}
  /\ upload = [m \in Messages |-> "new"]
  /\ row = [m \in Messages |-> "none"]
  /\ born = <<>> /\ expired = 0
  /\ act = [r \in Requests |-> NoAct]
  /\ cycle = Resting
  /\ erase = [at |-> "never", files |-> {}]
  /\ mishaps = 0

Mishap == mishaps < MaxMishaps /\ mishaps' = mishaps + 1
NoMishap == UNCHANGED mishaps

Expired(m) == \E i \in 1 .. expired : born[i] = m

\* deleteAttachment: the file goes or is kept.  When it is kept, R2 throws, and the
\* local disk says nothing.
DeleteAttachment(m, kept) ==
  /\ kept \/ m \notin stuck
  /\ file' = IF kept THEN file ELSE file \ {m}
  /\ IF kept /\ m \notin stuck THEN Mishap ELSE NoMishap

\* The caller does not look at the outcome: a file that is kept stays for ever.
DeleteAndForget(m) ==
  \E kept \in BOOLEAN :
    /\ DeleteAttachment(m, kept)
    /\ spilt' = IF kept THEN spilt \cup (file \cap {m}) ELSE spilt

--------------------------------------------------------------------------------
(* uploadAttachment.                                                       *)

\* storeDirectAttachment, before anything is checked.
StoreAttachment(m) ==
  /\ upload[m] = "new"
  /\ upload' = [upload EXCEPT ![m] = "stored"]
  /\ file' = file \cup {m}
  /\ UNCHANGED <<store, row, born, expired, act, cycle, erase, mishaps,
                 misjudged, spilt>>

\* createEncryptedMessage: the row is written, and then the recipients notified.
CreateMessage(m) ==
  /\ upload[m] = "stored" /\ erase.at \in {"never", "read"}
  /\ row' = [row EXCEPT ![m] = "kept"]
  /\ born' = Append(born, m)
  /\ \/ /\ upload' = [upload EXCEPT ![m] = "over"]
        /\ UNCHANGED <<mishaps, misjudged>>
     \/ /\ Mishap
        /\ upload' = [upload EXCEPT ![m] = "failed"]
        /\ misjudged' = misjudged \cup {m}
  \* The erasure has already listed the files that it will delete.
  /\ spilt' = IF erase.at = "read" THEN spilt \cup {m} ELSE spilt
  /\ UNCHANGED <<store, file, expired, act, cycle, erase>>

\* It is refused, or cannot be written.
CreateFails(m) ==
  /\ upload[m] = "stored"
  /\ IF erase.at \in {"never", "read"} THEN Mishap ELSE NoMishap
  /\ upload' = [upload EXCEPT ![m] = "failed"]
  /\ UNCHANGED <<store, file, row, born, expired, act, cycle, erase,
                 misjudged, spilt>>

\* Seeded bug: the file stays when the message could not be created.
DropAttachment_Not(m) ==
  /\ upload[m] = "failed"
  /\ upload' = [upload EXCEPT ![m] = "over"]
  /\ UNCHANGED <<store, file, row, born, expired, act, cycle, erase, mishaps,
                 misjudged, spilt>>

\* Whatever createEncryptedMessage threw, the file goes; an error here is ignored.
DropAttachment(m) ==
  /\ upload[m] = "failed"
  /\ upload' = [upload EXCEPT ![m] = "over"]
  /\ DeleteAndForget(m)
  /\ UNCHANGED <<store, row, born, expired, act, cycle, erase, misjudged>>

--------------------------------------------------------------------------------
(* Actions on a message.                                                   *)

\* What getMessageForAction may find: the row, or a copy that Redis has kept for sixty
\* seconds, which anybody who read the row may have written at any time since: also
\* that of a message that has been changed or is gone.
Copies(m) ==
  (IF row[m] \in {"kept", "bare"} THEN {row[m]} ELSE {})
    \cup (IF row[m] \in {"bare", "gone"} THEN {"kept", "bare"} ELSE {})

ReadForAction(r, m) ==
  /\ act[r].at = "idle" /\ ~Expired(m)
  /\ \E copy \in Copies(m) : act' = [act EXCEPT ![r] = [at |-> "bare", on |-> m, copy |-> copy]]
  /\ UNCHANGED <<store, file, upload, row, born, expired, cycle, erase, mishaps,
                 misjudged, spilt>>

\* Seeded bug: the row goes on naming the file.
BareMessage_KeepsName(r) ==
  LET m == act[r].on
  IN /\ act[r].at = "bare"
     /\ IF row[m] \in {"kept", "bare"}
        THEN act' = [act EXCEPT ![r] = IF @.copy = "kept" THEN [@ EXCEPT !.at = "unlink"] ELSE NoAct]
        ELSE act' = [act EXCEPT ![r] = NoAct]
     /\ UNCHANGED <<store, file, upload, row, born, expired, cycle, erase, mishaps,
                    misjudged, spilt>>

\* deleteMessageForEveryone.  (The message is five minutes old at most, and has not
\* expired: see Expire.)
BareMessage(r) ==
  LET m == act[r].on
  IN /\ act[r].at = "bare"
     /\ IF row[m] \in {"kept", "bare"}
        THEN /\ row' = [row EXCEPT ![m] = "bare"]
             /\ act' = [act EXCEPT ![r] = IF @.copy = "kept" THEN [@ EXCEPT !.at = "unlink"] ELSE NoAct]
        ELSE act' = [act EXCEPT ![r] = NoAct] /\ UNCHANGED row
     /\ UNCHANGED <<store, file, upload, born, expired, cycle, erase, mishaps,
                    misjudged, spilt>>

\* Its window is over, or the user is not the sender.
RefuseAction(r) ==
  /\ act[r].at = "bare"
  /\ act' = [act EXCEPT ![r] = NoAct]
  /\ UNCHANGED <<store, file, upload, row, born, expired, cycle, erase, mishaps,
                 misjudged, spilt>>

\* The file that the copy named goes.
Unlink(r) ==
  /\ act[r].at = "unlink"
  /\ act' = [act EXCEPT ![r] = NoAct]
  /\ DeleteAndForget(act[r].on)
  /\ UNCHANGED <<store, upload, row, born, expired, cycle, erase, misjudged>>

--------------------------------------------------------------------------------
(* cleanupExpiredMessages, every hour.  Whether the next batch belongs to   *)
(* the same cleanup or to the next makes no difference here.               *)

\* The oldest expired messages that are left, at most a batch of them.
Batch ==
  LET due == {i \in 1 .. expired : row[born[i]] \in {"kept", "bare"}}
  IN {i \in due : Cardinality({j \in due : j < i}) < BatchSize}

ReadBatch ==
  /\ ~cycle.on /\ Batch # {}
  /\ cycle' = [on |-> TRUE, failed |-> {}, deletable |-> {},
               todo |-> {[place |-> i, names |-> row[born[i]] = "kept"] : i \in Batch}]
  /\ UNCHANGED <<store, file, upload, row, born, expired, act, erase, mishaps,
                 misjudged, spilt>>

\* One file after the other; a message is left out if the deletion of its file throws.
DeleteExpiredFile ==
  /\ cycle.on
  /\ \E next \in cycle.todo, kept \in BOOLEAN :
       LET m == born[next.place]
       IN /\ \A other \in cycle.todo : next.place <= other.place
          /\ IF next.names THEN DeleteAttachment(m, kept)
             ELSE kept = FALSE /\ NoMishap /\ UNCHANGED file
          /\ spilt' = IF kept /\ ~remote THEN spilt \cup (file \cap {m}) ELSE spilt
          /\ cycle' = [cycle EXCEPT
                         !.todo = @ \ {next},
                         !.failed = IF kept /\ remote THEN @ \cup {m} ELSE @,
                         !.deletable = IF kept /\ remote THEN @ ELSE @ \cup {m}]
  /\ UNCHANGED <<store, upload, row, born, expired, act, erase, misjudged>>

\* Seeded bug: one failure spoils the batch.
DeleteExpiredRows_AllOrNone ==
  /\ cycle.on /\ cycle.todo = {}
  /\ LET ids == IF cycle.failed = {} THEN cycle.deletable ELSE {}
     IN row' = [m \in Messages |-> IF m \in ids THEN "gone" ELSE row[m]]
  /\ cycle' = Resting
  /\ UNCHANGED <<store, file, upload, born, expired, act, erase, mishaps,
                 misjudged, spilt>>

\* deleteMany.
DeleteExpiredRows ==
  /\ cycle.on /\ cycle.todo = {}
  /\ row' = [m \in Messages |-> IF m \in cycle.deletable THEN "gone" ELSE row[m]]
  /\ cycle' = Resting
  /\ UNCHANGED <<store, file, upload, born, expired, act, erase, mishaps,
                 misjudged, spilt>>

--------------------------------------------------------------------------------
(* deleteUserPermanentlyInternal, of the account that sent the messages.   *)

ReadForErasure ==
  /\ erase.at = "never"
  /\ erase' = [at |-> "read", files |-> {m \in Messages : row[m] = "kept"}]
  /\ UNCHANGED <<store, file, upload, row, born, expired, act, cycle, mishaps,
                 misjudged, spilt>>

\* The transaction: the account goes, with every message that it has by now.
EraseRows ==
  /\ erase.at = "read"
  /\ erase' = [erase EXCEPT !.at = "files"]
  /\ row' = [m \in Messages |-> IF row[m] = "none" THEN "none" ELSE "gone"]
  /\ UNCHANGED <<store, file, upload, born, expired, act, cycle, mishaps,
                 misjudged, spilt>>

EraseFile(m) ==
  /\ erase.at = "files" /\ m \in erase.files
  /\ erase' = [erase EXCEPT !.files = @ \ {m}]
  /\ DeleteAndForget(m)
  /\ UNCHANGED <<store, upload, row, born, expired, act, cycle, misjudged>>

--------------------------------------------------------------------------------
(* Time and stops.                                                         *)

\* The next oldest message passes the cutoff, days after the last action on it.
Expire ==
  /\ expired < Len(born)
  /\ LET m == born[expired + 1]
     IN /\ upload[m] = "over"
        /\ \A r \in Requests : act[r].at # "idle" => act[r].on # m
  /\ expired' = expired + 1
  /\ UNCHANGED <<store, file, upload, row, born, act, cycle, erase, mishaps,
                 misjudged, spilt>>

\* The server stops and starts.  Nobody goes on with what it was doing.
Stop ==
  /\ Mishap
  /\ upload' = [m \in Messages |-> IF upload[m] = "new" THEN "new" ELSE "over"]
  /\ act' = [r \in Requests |-> NoAct]
  /\ cycle' = Resting
  /\ erase' = CASE erase.at = "read" -> [at |-> "never", files |-> {}]
                [] erase.at = "files" -> [at |-> "files", files |-> {}]
                [] OTHER -> erase
  /\ spilt' = spilt \cup (file \cap
        UNION {{m \in Messages : row[m] = "none" /\ upload[m] # "new"},
               {m \in Messages : row[m] = "gone" /\ upload[m] = "failed"},
               {act[r].on : r \in {q \in Requests : act[q].at = "unlink"}},
               IF erase.at = "files" THEN erase.files ELSE {}})
  /\ UNCHANGED <<store, file, row, born, expired, misjudged>>

LifeNext ==
  \/ \E m \in Messages : \/ StoreAttachment(m) \/ CreateMessage(m) \/ CreateFails(m)
                         \/ DropAttachment(m) \/ EraseFile(m)
  \/ \E r \in Requests : \/ BareMessage(r) \/ RefuseAction(r)
                         \/ Unlink(r)
                         \/ \E m \in Messages : ReadForAction(r, m)
  \/ ReadBatch \/ DeleteExpiredFile \/ DeleteExpiredRows
  \/ ReadForErasure \/ EraseRows \/ Expire \/ Stop

LifeSpec == LifeInit /\ [][LifeNext]_lifeVars

\* The cleanup comes back every hour, and each of its steps ends.
CleanupFairness ==
  WF_lifeVars(ReadBatch) /\ WF_lifeVars(DeleteExpiredFile) /\ WF_lifeVars(DeleteExpiredRows)

--------------------------------------------------------------------------------
(* Properties.                                                             *)

\* A message that names its attachment can be opened until it expires: no deletion,
\* on however old a copy it was decided, takes the file of a message that stands.
\* The exception is a message that was stored, although its upload was reported as
\* failed because the notification after it threw (chat.controller.ts:679).
NamedFilesExist ==
  \A m \in Messages :
    row[m] = "kept" /\ ~Expired(m) => m \in file \/ m \in misjudged

\* A file that no message names is about to be deleted - unless its deletion failed or
\* a stop cut it off, or it was sent between the listing of the files and the
\* transaction of the account's erasure.
NoLostFiles ==
  \A m \in file :
    \/ row[m] = "kept" \/ upload[m] \in {"stored", "failed"} \/ m \in spilt
    \/ m \in erase.files
    \/ \E r \in Requests : act[r].at = "unlink" /\ act[r].on = m

\* An expired message goes in the end, whichever messages there are whose file R2
\* refuses to delete, as long as they do not fill a batch: "keeps expired file messages
\* in the database when attachment deletion fails" (chat-retention.service.spec.ts:147)
\* is no reason to keep others.
ExpiredMessagesGo ==
  \A m \in Messages :
    Expired(m) /\ row[m] \in {"kept", "bare"} /\ m \notin stuck ~> row[m] = "gone"
================================================================================
