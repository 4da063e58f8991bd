------------------------------ MODULE AttachmentQueue ------------------------------
(***************************************************************************)
(* The browser's queue of attachments (app.js, "attachment upload tasks"). *)
(*                                                                         *)
(* The user chooses files and presses Send; processAttachmentUploadQueue    *)
(* uploads them one by one: it opens a session with the server or asks how  *)
(* far the session is, sends the missing parts, and has the server make a   *)
(* message of them.  When the first steps fail it sends the file once as a  *)
(* whole; after other failures of the network it asks again how far the     *)
(* session is and comes back later, a few times.  Meanwhile the user may    *)
(* press Stop, Retry and Remove.  The queue awaits one request at a time    *)
(* (`run'); a request whose answer is lost may reach the server later.      *)
(* UploadSession has the server's side in detail.                           *)
(***************************************************************************)
EXTENDS Naturals, Sequences, FiniteSets, SequencesExt

CONSTANTS
  Files,        \* the files that the user chooses, each once
  Parts,        \* the parts of every file
  MaxRetries,   \* MAX_ATTACHMENT_UPLOAD_AUTO_RETRIES
  MaxPresses,   \* bound: how often the user presses Stop, Retry or Remove
  MaxFaults     \* bound: how many requests break at the server, or get lost on the way

ASSUME QueueAssumption ==
  /\ Parts \in Nat \ {0}
  /\ MaxRetries \in Nat /\ MaxPresses \in Nat /\ MaxFaults \in Nat

VARIABLES
  transport,    \* how the server wants the parts: sent to it, or put into R2
  list,         \* attachmentUploadTasks: the files on display
  task,         \* task[f]: what the browser knows of the upload
  run,          \* the request that processAttachmentUploadQueue awaits
  session,      \* session[f]: the upload session at the server
  strays,       \* requests that nobody waits for any more
  answered,     \* answered[f]: the messages stored by requests that ended well
  misjudged,    \* misjudged[f]: the messages stored by requests that then failed
  unheard,      \* the files with an answered message whose answer was lost
  presses, faults

queueVars == <<transport, list, task, run, session, strays, answered, misjudged,
               unheard, presses, faults>>

Statuses == {"absent", "pending-send", "queued", "uploading", "retrying",
             "finalizing", "completed", "cancelled", "failed"}

Requests == {"create", "sync", "prepare", "part", "confirm", "finalize", "direct",
             "tidy", "resync"}

NoRun == [of |-> {}, at |-> "sync", answer |-> "none", parts |-> 0]

Awaits(f, at) == [of |-> {f}, at |-> at, answer |-> "none", parts |-> 0]

\* Requests that matter when they are handled late: another session, or a part
\* without its confirmation, is never used.
Lasting == {"confirm", "finalize", "direct", "cancel"}
           \cup (IF transport = "server-relay" THEN {"part"} ELSE {})

AttachmentQueueTypeOK ==
  /\ transport \in {"server-relay", "presigned-put"}
  /\ list \in Seq(Files) /\ IsInjective(list)
  /\ task \in [Files -> [status : Statuses, session : BOOLEAN, parts : 0 .. Parts,
                         retries : 0 .. MaxRetries, direct : BOOLEAN]]
  /\ run \in [of : SUBSET Files, at : Requests, parts : 0 .. Parts,
              answer : {"none", "ok", "refused", "broken"}]
  /\ Cardinality(run.of) <= 1
  /\ session \in [Files -> [state : {"none", "open", "spent", "cancelled", "completed"},
                            parts : 0 .. Parts]]
  /\ strays \subseteq [of : Files, at : Lasting, parts : 0 .. Parts]
  /\ answered \in [Files -> 0 .. 2] /\ misjudged \in [Files -> Nat]
  /\ unheard \subseteq Files
  /\ presses \in 0 .. MaxPresses /\ faults \in 0 .. MaxFaults

QueueInit ==
  /\ transport \in {"server-relay", "presigned-put"}
  /\ list = <<>>
  /\ task = [f \in Files |-> [status |-> "absent", session |-> FALSE, parts |-> 0,
                              retries |-> 0, direct |-> FALSE]]
  /\ run = NoRun
  /\ session = [f \in Files |-> [state |-> "none", parts |-> 0]]
  /\ strays = {}
  /\ answered = [f \in Files |-> 0] /\ misjudged = [f \in Files |-> 0]
  /\ unheard = {}
  /\ presses = 0
  /\ faults = 0

--------------------------------------------------------------------------------
(* The queue.  `l' and `t' are the list and the tasks that a step leaves.  *)

With(t, f, status) == [t EXCEPT ![f].status = status]

\* processAttachmentUploadQueue when nothing is being uploaded: the first queued
\* file is taken, and its first request sent.
TakeFirst(l, t) ==
  LET queued == {i \in DOMAIN l : t[l[i]].status = "queued"}
  IN /\ list' = l
     /\ \/ queued = {} /\ task' = t /\ run' = NoRun
        \/ \E i \in queued :
             /\ \A j \in queued : i <= j
             /\ task' = With(t, l[i], "uploading")
             /\ run' = Awaits(l[i], IF t[l[i]].session THEN "sync" ELSE "create")

\* processAttachmentUploadQueue.
Process(l, t) ==
  IF run = NoRun THEN TakeFirst(l, t) ELSE list' = l /\ task' = t /\ run' = run

\* Seeded bug: the queue waits to be called again.
Finish_Waits(l, t) == list' = l /\ task' = t /\ run' = NoRun

\* The `finally' of the run.
Finish(l, t) == TakeFirst(l, t)

\* The next turn of the loop over the parts, or the end of it.
Loop(t, f) ==
  /\ UNCHANGED list
  /\ IF t[f].parts < Parts
     THEN /\ task' = With(t, f, "uploading")
          /\ run' = Awaits(f, IF transport = "presigned-put" THEN "prepare" ELSE "part")
     ELSE /\ task' = With(t, f, "finalizing")
          /\ run' = Awaits(f, "finalize")

\* scheduleAttachmentUploadRetry.
ScheduleRetry(t, f) ==
  IF t[f].retries >= MaxRetries THEN With(t, f, "failed")
  ELSE [t EXCEPT ![f].retries = @ + 1, ![f].status = "retrying"]

\* The end of the run's `catch': what can be mended is tried again.
Settle(f, fault) ==
  CASE fault # "network" -> Finish(list, With(task, f, "failed"))
    [] fault = "network" /\ task[f].session ->
         UNCHANGED <<list, task>> /\ run' = Awaits(f, "resync")
    [] OTHER -> Finish(list, ScheduleRetry(task, f))

\* shouldAttemptDirectAttachmentUploadFallback, for a file that is not too large.
FallsBack(f, fault) ==
  /\ ~task[f].direct
  /\ task[f].parts = 0
  /\ fault # "refused"

SendWhole(f) ==
  /\ task' = [task EXCEPT ![f].direct = TRUE, ![f].status = "uploading"]
  /\ run' = Awaits(f, "direct")
  /\ UNCHANGED list

\* The list has a file once at most.
Without(f) ==
  IF f \in Range(list) THEN RemoveAt(list, CHOOSE i \in DOMAIN list : list[i] = f) ELSE list

\* Seeded bug: the upload is taken to fail when its session cannot be cleared away.
CatchError_Tidy(f, fault) ==
  CASE run.at = "resync" -> Finish(list, ScheduleRetry(task, f))
    [] run.at \in {"direct", "tidy"} -> Settle(f, fault)
    [] OTHER -> \/ FallsBack(f, fault) /\ SendWhole(f)
                \/ Settle(f, fault)
                \/ fault = "network" /\ Finish(list, With(task, f, "cancelled"))

\* A request of the run has failed; the file may be too large to be sent as a
\* whole, and the browser may know that it is offline, or word the failure of a
\* request as a cancellation.
CatchError(f, fault) ==
  CASE run.at = "tidy"   -> Finish(Without(f), task)
    [] run.at = "resync" -> Finish(list, ScheduleRetry(task, f))
    [] run.at = "direct" -> Settle(f, fault)
    [] OTHER -> \/ FallsBack(f, fault) /\ SendWhole(f)
                \/ Settle(f, fault)
                \/ fault = "network" /\ Finish(list, With(task, f, "cancelled"))

--------------------------------------------------------------------------------
(* The server.                                                             *)

(* What the server may make of a request about a file with session s: its answer,
   the session it leaves, and how many messages it stores. *)

Does(answer, after, n) ==
  [answer |-> answer, session |-> after,
   answered |-> IF answer = "ok" THEN n ELSE 0, misjudged |-> IF answer = "ok" THEN 0 ELSE n]

Ok(after) == Does("ok", after, 0)

Refuses(s) == Does("refused", s, 0)

CreateSession(s) == {Ok([state |-> "open", parts |-> 0]), Refuses(s)}

GetSession(s) == {Ok(s)}

\* A part is about to be put into R2.
PrepareChunk(s) == {IF s.state = "open" THEN Ok(s) ELSE Refuses(s)}

\* R2 takes a part; its addresses were given out when there were `parts' parts.
PutIntoR2(s, parts) == {IF s.parts > parts THEN Refuses(s) ELSE Ok(s)}

\* uploadChunk and completeChunkUpload: the next part counts, an earlier one is known.
StoreChunk(s, parts) ==
  {IF s.state # "open" \/ s.parts < parts THEN Refuses(s)
   ELSE IF s.parts > parts THEN Ok(s) ELSE Ok([s EXCEPT !.parts = @ + 1])}

\* The file is moved away, or R2 puts its parts together; then the message is stored and
\* its receivers are notified; then the record is written, and the receivers get the
\* message.  Any of these may fail, or the server stop between them: the session is not
\* completed before its record is written, and a message that is stored stays.  The
\* parts of a local session are gone with its file; a multipart upload cannot be put
\* together twice: its session is spent, and refuses.
FinalizeSession(s) ==
  LET kept == IF transport = "presigned-put" THEN Parts ELSE 0
      completed == [state |-> "completed", parts |-> kept]
      pending == [state |-> IF kept = 0 THEN "open" ELSE "spent", parts |-> kept]
  IN IF s.state # "open" \/ s.parts < Parts THEN {Refuses(s)}
     ELSE {Does("ok", completed, 1), Does("broken", completed, 1),
           Does("broken", pending, 0), Does("broken", pending, 1)}

\* The message is stored and its receivers notified, and they get the message: a failure
\* after the first is an error all the same.
UploadWhole(s) == {Does("ok", s, 1), Does("broken", s, 1), Refuses(s)}

CancelSession(s) ==
  {IF s.state = "completed" THEN Refuses(s)
   ELSE Ok([state |-> "cancelled",
            parts |-> IF transport = "presigned-put" THEN s.parts ELSE 0])}

\* Request `at' is handled; the browser believed that `parts' parts were there.
Serves(f, at, parts) ==
  LET s == session[f]
  IN {Does("broken", s, 0)} \cup
     CASE at = "create" -> CreateSession(s)
       [] at \in {"sync", "resync"} -> GetSession(s)
       [] at = "prepare" -> PrepareChunk(s)
       [] at = "part" /\ transport = "presigned-put" -> PutIntoR2(s, parts)
       [] at = "confirm" \/ (at = "part" /\ transport = "server-relay") -> StoreChunk(s, parts)
       [] at = "finalize" -> FinalizeSession(s)
       [] at = "direct" -> UploadWhole(s)
       [] at \in {"tidy", "cancel"} -> CancelSession(s)

Stores(f, o) ==
  /\ answered' = [answered EXCEPT ![f] = @ + o.answered]
  /\ misjudged' = [misjudged EXCEPT ![f] = @ + o.misjudged]

\* The server handles the request that the queue awaits.
Serve ==
  \E f \in run.of :
    /\ run.answer = "none"
    /\ \E o \in Serves(f, run.at, task[f].parts) :
         /\ session' = [session EXCEPT ![f] = o.session]
         /\ Stores(f, o)
         /\ run' = [run EXCEPT !.answer = o.answer, !.parts = o.session.parts]
         /\ faults' = IF o.answer = "broken" THEN faults + 1 ELSE faults
         /\ faults' <= MaxFaults
    /\ UNCHANGED <<transport, list, task, strays, unheard, presses>>

\* The server handles a request that nobody waits for, or never gets it.
ServeStray ==
  \E s \in strays :
    /\ strays' = strays \ {s}
    /\ \/ UNCHANGED <<session, answered, misjudged, unheard>>
       \/ \E o \in Serves(s.of, s.at, s.parts) :
            /\ session' = [session EXCEPT ![s.of] = o.session]
            /\ Stores(s.of, o)
            /\ unheard' = IF o.answered > 0 THEN unheard \cup {s.of} ELSE unheard
    /\ UNCHANGED <<transport, list, task, run, presses, faults>>

--------------------------------------------------------------------------------
(* The run goes on.                                                        *)

\* The answer says how many parts the server has.
Known(f) == [task EXCEPT ![f].parts = run.parts]

SessionCreated(f) ==
  run.at = "create" /\ Loop([Known(f) EXCEPT ![f].session = TRUE], f)

SessionSynced(f) == run.at = "sync" /\ Loop(Known(f), f)

ChunkPrepared(f) ==
  run.at = "prepare" /\ UNCHANGED <<list, task>> /\ run' = Awaits(f, "part")

ChunkInR2(f) ==
  /\ run.at = "part" /\ transport = "presigned-put"
  /\ UNCHANGED <<list, task>>
  /\ run' = Awaits(f, "confirm")

\* uploadChunkWithProgress, completeAttachmentUploadPart.
ChunkStored(f) ==
  /\ \/ run.at = "confirm"
     \/ run.at = "part" /\ transport = "server-relay"
  /\ Loop([Known(f) EXCEPT ![f].retries = 0], f)

Finalized(f) ==
  run.at = "finalize" /\ Finish(Without(f), With(task, f, "completed"))

\* The session that is no longer needed is cleared away first.
SentWhole(f) ==
  /\ run.at = "direct"
  /\ IF task[f].session
     THEN task' = With(task, f, "completed") /\ run' = Awaits(f, "tidy") /\ UNCHANGED list
     ELSE Finish(Without(f), With(task, f, "completed"))

Tidied(f) == run.at = "tidy" /\ Finish(Without(f), task)

Resynced(f) == run.at = "resync" /\ Finish(list, ScheduleRetry(Known(f), f))

GetReply ==
  \E f \in run.of :
    /\ run.answer = "ok"
    /\ \/ SessionCreated(f) \/ SessionSynced(f) \/ ChunkPrepared(f) \/ ChunkInR2(f)
       \/ ChunkStored(f) \/ Finalized(f) \/ SentWhole(f) \/ Tidied(f) \/ Resynced(f)
    /\ UNCHANGED <<transport, session, strays, answered, misjudged, unheard, presses, faults>>

GetError ==
  \E f \in run.of :
    /\ run.answer \in {"refused", "broken"}
    /\ CatchError(f, run.answer)
    /\ UNCHANGED <<transport, session, strays, answered, misjudged, unheard, presses, faults>>

\* What becomes of the request that the queue gives up waiting for.
Abandon(f) ==
  /\ strays' = IF run.answer = "none" /\ run.at \in Lasting
               THEN strays \cup {[of |-> f, at |-> run.at, parts |-> task[f].parts]}
               ELSE strays
  /\ unheard' = IF run.answer = "ok" /\ run.at \in {"finalize", "direct"}
                THEN unheard \cup {f} ELSE unheard

\* A request or its answer is lost.
LoseReply ==
  \E f \in run.of :
    /\ faults < MaxFaults
    /\ faults' = faults + 1
    /\ Abandon(f)
    /\ CatchError(f, "network")
    /\ UNCHANGED <<transport, session, answered, misjudged, presses>>

\* The timer of scheduleAttachmentUploadRetry.
RetryTimer(f) ==
  /\ task[f].status = "retrying"
  /\ Process(list, With(task, f, "queued"))
  /\ UNCHANGED <<transport, session, strays, answered, misjudged, unheard, presses, faults>>

--------------------------------------------------------------------------------
(* The user.                                                               *)

\* startAttachmentUploads.
ChooseFile(f) ==
  /\ task[f].status = "absent"
  /\ task' = With(task, f, "pending-send")
  /\ list' = Append(list, f)
  /\ UNCHANGED <<transport, run, session, strays, answered, misjudged, unheard, presses, faults>>

\* sendMessage: queuePendingAttachmentUploads.
PressSend ==
  /\ \E f \in Files : task[f].status = "pending-send"
  /\ Process(list, [f \in Files |->
                      IF task[f].status = "pending-send"
                      THEN [task[f] EXCEPT !.status = "queued"] ELSE task[f]])
  /\ UNCHANGED <<transport, session, strays, answered, misjudged, unheard, presses, faults>>

Press == presses < MaxPresses /\ presses' = presses + 1

Shows(f, statuses) == f \in Range(list) /\ task[f].status \in statuses

\* cancelAttachmentUpload: the bytes under way are dropped, and the server is told.
PressStop(f) ==
  LET aborts == run.of = {f} /\ run.at = "part" /\ run.answer = "none"
      dropped == IF aborts /\ "part" \in Lasting
                 THEN {[of |-> f, at |-> "part", parts |-> task[f].parts]} ELSE {}
      told == IF task[f].session
              THEN {[of |-> f, at |-> "cancel", parts |-> 0]} ELSE {}
  IN /\ Shows(f, {"queued", "uploading", "retrying"})
     /\ Press
     /\ strays' = strays \cup dropped \cup told
     /\ IF aborts THEN Finish(list, With(task, f, "cancelled"))
        ELSE task' = With(task, f, "cancelled") /\ UNCHANGED <<list, run>>
     /\ UNCHANGED <<transport, session, answered, misjudged, unheard, faults>>

\* retryAttachmentUpload.
PressRetry(f) ==
  /\ Shows(f, {"failed"})
  /\ Press
  /\ Process(list, [task EXCEPT ![f].status = "queued", ![f].retries = 0])
  /\ UNCHANGED <<transport, session, strays, answered, misjudged, unheard, faults>>

\* removeAttachmentUploadTask, clearCompletedUploads.
PressRemove(f) ==
  /\ Shows(f, {"pending-send", "failed", "cancelled", "completed"})
  /\ Press
  /\ list' = Without(f)
  /\ UNCHANGED <<transport, task, run, session, strays, answered, misjudged, unheard, faults>>

QueueNext ==
  \/ Serve \/ ServeStray \/ GetReply \/ GetError \/ LoseReply \/ PressSend
  \/ \E f \in Files : \/ RetryTimer(f) \/ ChooseFile(f) \/ PressStop(f)
                      \/ PressRetry(f) \/ PressRemove(f)

QueueSpec == QueueInit /\ [][QueueNext]_queueVars

\* A request is served or its answer read, of which one at most is possible at a time,
\* and the browser's timers fire.
QueueFairness ==
  /\ WF_queueVars(Serve \/ GetReply \/ GetError)
  /\ \A f \in Files : WF_queueVars(RetryTimer(f))

--------------------------------------------------------------------------------
(* Properties.                                                             *)

\* But for the messages of requests that failed after they had stored one, of which
\* there may be any number, a file becomes one message, and a second one only when the
\* answer about the first was lost; what is shown as completed has been sent by a
\* request that ended well, and what is shown as failed has not, or its answer was
\* lost.  (A completed session says, when it is asked, that it has no parts.)
FilesAreSentOnce ==
  \A f \in Files :
    /\ answered[f] <= (IF f \in unheard THEN 2 ELSE 1)
    /\ task[f].status = "completed" => answered[f] >= 1
    /\ task[f].status = "failed" /\ answered[f] > 0 => f \in unheard

\* A queued file is taken up: no failure of another file, and no stop, retry or
\* removal of one, leaves it waiting for ever.
QueuedFilesGetTheirTurn ==
  \A f \in Files : Shows(f, {"queued"}) ~> ~Shows(f, {"queued"})
================================================================================
