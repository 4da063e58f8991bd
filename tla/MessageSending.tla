------------------------------ MODULE MessageSending ------------------------------
(***************************************************************************)
(* Text messages from the composer of one browser to the screen of another *)
(* (app.js, chat.gateway.ts, chat.service.ts), in one direct conversation.  *)
(*                                                                         *)
(* The author's browser takes texts from a queue, one at a time, and emits  *)
(* each over its socket with a deadline.  What cannot be sent goes to the   *)
(* offline queue, kept in the browser's storage; a new connection, and the   *)
(* window's `online' event, each start a flush that sends its own copy of    *)
(* it.  The server checks a message, shows it to the reader as a draft,      *)
(* acknowledges it and only then stores it; the row's commit, or a rollback, *)
(* follows to both.  A text keeps the id that its author's browser gave it.  *)
(***************************************************************************)
EXTENDS Naturals, Sequences, SequencesExt

CONSTANTS
  Texts,        \* texts that the author writes, each once
  Flushes,      \* bound: flushes that run at the same time
  MaxTroubles,  \* bound: connections lost, pages reloaded, servers stopped
  MaxFailures   \* bound: refusals, failed writes, failed notifications, late answers

ASSUME SendingAssumption ==
  /\ Texts # {} /\ "queue" \notin Flushes
  /\ MaxTroubles \in Nat /\ MaxFailures \in Nat

VARIABLES
  up,           \* the author's socket is connected
  onLine,       \* navigator.onLine of the author's browser
  outgoing,     \* queuedOutgoingTextMessages
  active,       \* activeOutgoingTextMessage, as a sequence of one text or none
  offline,      \* offlineQueuedMessages, the same in memory and in storage
  flush,        \* flush[f]: a run of flushOfflineQueuedMessages
  calls,        \* calls[c]: the emit that c waits for: the queue ("queue") or a flush
  late,         \* late[t]: packets of t that nobody waits for any more
  saving,       \* saving[t]: drafts of t that the server has taken and not stored yet
  rows,         \* rows[t]: messages stored for t
  bubble,       \* bubble[t]: the optimistic message on the author's screen
  watching,     \* the reader's socket is connected
  frame,        \* the texts that the reader's browser shows with its next frame
  drafts,       \* the drafts on the reader's screen
  seen,         \* seen[t]: stored messages of t on the reader's screen
  troubles, failures,
  \* What has happened, for the properties:
  written,      \* the texts that the author has sent off
  accepted,     \* the texts that the server has taken at least once
  reported,     \* the texts whose failure the author was told of
  reloaded,     \* the texts that a reload took from the queue in memory
  overtaken,    \* the texts queued offline while a flush ran
  doubtful,     \* the texts sent again without knowing about an earlier emit
  unannounced,  \* unannounced[t]: rows of t whose notification failed
  raced,        \* the texts answered while their draft waited for a frame
  missed        \* the reader has missed events

outbox == <<up, onLine, outgoing, active, offline, flush, bubble>>
server == <<saving, rows>>
screen == <<watching, frame, drafts, seen>>
history == <<written, accepted, reported, reloaded, overtaken, doubtful, unannounced,
             raced, missed>>
sendingVars == <<outbox, calls, late, server, screen, troubles, failures, history>>

Callers == Flushes \cup {"queue"}

NoCall == [at |-> "none", text |-> CHOOSE t \in Texts : TRUE]
Idle == [at |-> "idle", todo |-> <<>>, keep |-> <<>>]

SendingTypeOK ==
  /\ {up, onLine, watching, missed} \subseteq BOOLEAN
  /\ outgoing \in Seq(Texts) /\ offline \in Seq(Texts)
  /\ active \in {<<>>} \cup {<<t>> : t \in Texts}
  /\ flush \in [Flushes -> [at : {"idle", "encrypting", "calling"},
                            todo : Seq(Texts), keep : Seq(Texts)]]
  /\ calls \in [Callers -> [at : {"none", "buffered", "sent", "lost"}, text : Texts]]
  /\ late \in [Texts -> 0 .. MaxTroubles + MaxFailures]
  /\ {saving, rows, seen, unannounced} \subseteq [Texts -> Nat]
  /\ bubble \in [Texts -> {"none", "queued", "queued-offline", "sending"}]
  /\ UNION {frame, drafts, written, accepted, reported, reloaded, overtaken, doubtful, raced}
       \subseteq Texts
  /\ troubles \in 0 .. MaxTroubles /\ failures \in 0 .. MaxFailures
  \* No text is in the offline queue twice.
  /\ IsInjective(offline)

SendingInit ==
  /\ up = TRUE /\ onLine = TRUE
  /\ outgoing = <<>> /\ active = <<>> /\ offline = <<>>
  /\ flush = [f \in Flushes |-> Idle]
  /\ calls = [c \in Callers |-> NoCall]
  /\ late = [t \in Texts |-> 0]
  /\ saving = [t \in Texts |-> 0]
  /\ rows = [t \in Texts |-> 0]
  /\ bubble = [t \in Texts |-> "none"]
  /\ watching = TRUE /\ frame = {} /\ drafts = {} /\ seen = [t \in Texts |-> 0]
  /\ troubles = 0 /\ failures = 0
  /\ written = {} /\ accepted = {} /\ reported = {} /\ reloaded = {}
  /\ overtaken = {} /\ doubtful = {} /\ unannounced = [t \in Texts |-> 0]
  /\ raced = {} /\ missed = FALSE

Trouble == troubles < MaxTroubles /\ troubles' = troubles + 1
Failure == failures < MaxFailures /\ failures' = failures + 1

Flushing == {f \in Flushes : flush[f].at # "idle"}

--------------------------------------------------------------------------------
(* The queue of outgoing texts.                                            *)

\* setOptimisticMessagePendingState: of a message that is on the screen.
Mark(t, state) == [bubble EXCEPT ![t] = IF @ = "none" THEN @ ELSE state]

\* The loop takes the next text of the queue, if there is one.
TakeNext(queue, bubbles) ==
  IF queue = <<>>
  THEN active' = <<>> /\ outgoing' = <<>> /\ bubble' = bubbles
  ELSE /\ active' = <<Head(queue)>>
       /\ outgoing' = Tail(queue)
       /\ bubble' = [bubbles EXCEPT ![Head(queue)] = IF @ = "none" THEN @ ELSE "sending"]

\* sendMessage: the optimistic message is shown, and the text queued.
SendMessage(t) ==
  LET shown == [bubble EXCEPT ![t] = IF onLine /\ up THEN "queued" ELSE "queued-offline"]
  IN /\ t \notin written
     /\ written' = written \cup {t}
     /\ IF active = <<>> THEN TakeNext(<<t>>, shown)
        ELSE /\ outgoing' = Append(outgoing, t)
             /\ bubble' = shown
             /\ UNCHANGED active
     /\ UNCHANGED <<up, onLine, offline, flush, calls, late, server, screen, troubles,
                    failures, accepted, reported, reloaded, overtaken, doubtful, unannounced,
                    raced, missed>>

\* Seeded bug: the text stays in the other queue as well.
PutOffline_Both(t) ==
  /\ offline' = IF t \in ToSet(offline) THEN offline ELSE Append(offline, t)
  /\ overtaken' = IF Flushing = {} THEN overtaken ELSE overtaken \cup {t}
  /\ TakeNext(Append(outgoing, t), Mark(t, "queued-offline"))

\* queueOfflineTextMessage, and the loop goes on.
PutOffline(t) ==
  /\ offline' = IF t \in ToSet(offline) THEN offline ELSE Append(offline, t)
  /\ overtaken' = IF Flushing = {} THEN overtaken ELSE overtaken \cup {t}
  /\ TakeNext(outgoing, Mark(t, "queued-offline"))

\* Seeded bug: the text that was given up is tried again.
GiveUp_Again(t) ==
  /\ reported' = reported \cup {t}
  /\ TakeNext(Append(outgoing, t), [bubble EXCEPT ![t] = "none"])

\* The text is given up: the author is told, and the optimistic message goes.
GiveUp(t) ==
  /\ reported' = reported \cup {t}
  /\ TakeNext(outgoing, [bubble EXCEPT ![t] = "none"])

\* The text is encrypted, and emitted if the socket is still connected.
EmitNext ==
  /\ active # <<>> /\ calls["queue"].at = "none"
  /\ IF onLine /\ up
     THEN /\ calls' = [calls EXCEPT !["queue"] = [at |-> "sent", text |-> active[1]]]
          /\ UNCHANGED <<outgoing, active, offline, bubble, overtaken>>
     ELSE PutOffline(active[1]) /\ UNCHANGED calls
  /\ UNCHANGED <<up, onLine, flush, late, server, screen, troubles, failures, written,
                 accepted, reported, reloaded, doubtful, unannounced, raced, missed>>

\* The permission or the encryption is refused, or its request fails.  Without a
\* connection any error counts as recoverable, with one an error of the network.
RefuseNext ==
  /\ active # <<>> /\ calls["queue"].at = "none"
  /\ Failure
  /\ \/ onLine /\ up /\ GiveUp(active[1]) /\ UNCHANGED <<offline, overtaken>>
     \/ PutOffline(active[1]) /\ UNCHANGED reported
  /\ UNCHANGED <<up, onLine, flush, calls, late, server, screen, troubles, written,
                 accepted, reloaded, doubtful, unannounced, raced, missed>>

--------------------------------------------------------------------------------
(* The offline queue.                                                      *)

\* flushOfflineQueuedMessages begins: it takes a copy of the queue.
StartFlush ==
  IF offline = <<>>
  THEN UNCHANGED <<flush, doubtful>>
  ELSE \E f \in Flushes :
         /\ flush[f] = Idle
         /\ flush' = [flush EXCEPT ![f] = [at |-> "encrypting", todo |-> offline, keep |-> <<>>]]
         /\ doubtful' = IF Flushing = {} THEN doubtful ELSE doubtful \cup ToSet(offline)

\* A flush goes on with the rest of its copy, or ends and replaces the queue.
GoOn(f, keep, queue) ==
  LET rest == Tail(flush[f].todo)
  IN IF rest = <<>>
     THEN flush' = [flush EXCEPT ![f] = Idle] /\ offline' = queue
     ELSE /\ flush' = [flush EXCEPT ![f] = [at |-> "encrypting", todo |-> rest, keep |-> keep]]
          /\ UNCHANGED offline

\* Seeded bug: what could not be sent is not kept.
FlushOn_KeepNone(f, keep) == GoOn(f, <<>>, <<>>)

\* What could not be sent is kept, and takes the place of the queue at the end.
FlushOn(f, keep) == GoOn(f, keep, keep)

\* The next text is emitted, connected or not: without a connection it is buffered.
FlushEmit(f) ==
  /\ flush[f].at = "encrypting"
  /\ flush' = [flush EXCEPT ![f].at = "calling"]
  /\ LET t == Head(flush[f].todo)
     IN /\ calls' = [calls EXCEPT ![f] = [at |-> IF up THEN "sent" ELSE "buffered", text |-> t]]
        /\ bubble' = Mark(t, "sending")
  /\ UNCHANGED <<up, onLine, outgoing, active, offline, late, server, screen,
                 troubles, failures, history>>

\* The conversation is not among the loaded ones, or its key is not to be had.
FlushKeep(f) ==
  /\ flush[f].at = "encrypting"
  /\ Failure
  /\ FlushOn(f, Append(flush[f].keep, Head(flush[f].todo)))
  /\ UNCHANGED <<up, onLine, outgoing, active, calls, late, server, screen, bubble,
                 troubles, history>>

--------------------------------------------------------------------------------
(* emitSocketEvent.                                                        *)

\* Seeded bug: only what is in the buffer has a deadline.
TimeOut_BufferedOnly(c) ==
  LET t == calls[c].text
  IN /\ calls[c].at = "buffered"
     /\ calls' = [calls EXCEPT ![c] = NoCall]
     /\ IF c = "queue"
        THEN PutOffline(t) /\ UNCHANGED flush
        ELSE FlushOn(c, Append(flush[c].keep, t)) /\ UNCHANGED <<active, outgoing, bubble, overtaken>>
     /\ UNCHANGED <<up, onLine, late, server, screen, troubles, failures, written, accepted,
                    reported, reloaded, doubtful, unannounced, raced, missed>>

\* Ten seconds without an answer.  A packet still in the buffer is taken back, one
\* that was sent may yet be handled.
TimeOut(c) ==
  LET t == calls[c].text
  IN /\ calls[c].at \in {"buffered", "sent", "lost"}
     /\ calls' = [calls EXCEPT ![c] = NoCall]
     /\ IF calls[c].at = "sent"
        THEN Failure /\ late' = [late EXCEPT ![t] = @ + 1]
        ELSE UNCHANGED <<failures, late>>
     /\ doubtful' = IF calls[c].at = "buffered" THEN doubtful ELSE doubtful \cup {t}
     /\ IF c = "queue"
        THEN PutOffline(t) /\ UNCHANGED flush
        ELSE FlushOn(c, Append(flush[c].keep, t)) /\ UNCHANGED <<active, outgoing, bubble, overtaken>>
     /\ UNCHANGED <<up, onLine, server, screen, troubles, written, accepted, reported,
                    reloaded, unannounced, raced, missed>>

--------------------------------------------------------------------------------
(* The reader's browser.  Events come over one socket, in order; what takes *)
(* time is the frame that a draft waits for.                               *)

\* Seeded bug: a commit leaves the draft where it is.
Removes_Rollback(kind) == kind = "rollback"

Removes(kind) == kind \in {"commit", "rollback"}

\* handleIncomingMessage leaves a draft to the next frame, a commit puts the stored
\* message in its place, a rollback takes it from the screen.  Nobody is told later
\* of an event missed while disconnected.
ReaderGets(kind, t) ==
  IF watching
  THEN /\ frame' = IF kind = "draft" THEN frame \cup {t} ELSE frame
       /\ drafts' = IF Removes(kind) THEN drafts \ {t} ELSE drafts
       /\ seen' = IF kind = "commit" THEN [seen EXCEPT ![t] = @ + 1] ELSE seen
       /\ raced' = IF kind # "draft" /\ t \in frame THEN raced \cup {t} ELSE raced
       /\ UNCHANGED missed
  ELSE missed' = TRUE /\ UNCHANGED <<frame, drafts, seen, raced>>

\* flushQueuedConversationMessageRenders.
ShowFrame ==
  /\ frame # {}
  /\ drafts' = drafts \cup frame
  /\ frame' = {}
  /\ UNCHANGED <<outbox, calls, late, server, watching, seen, troubles, failures, history>>

--------------------------------------------------------------------------------
(* The server: handleMessage, persistRealtimeMessage.                      *)

\* A message is checked and taken: its draft goes to the reader.
Accept(t) ==
  /\ saving' = [saving EXCEPT ![t] = @ + 1]
  /\ ReaderGets("draft", t)
  /\ accepted' = accepted \cup {t}

\* The acknowledgement goes back, and the caller goes on.  (One that is lost on the way
\* is a packet that Cut or TimeOut leaves to HandleLate.)
HandleMessage(c) ==
  /\ calls[c].at = "sent"
  /\ calls' = [calls EXCEPT ![c] = NoCall]
  /\ Accept(calls[c].text)
  /\ IF c = "queue"
     THEN TakeNext(outgoing, bubble) /\ UNCHANGED <<flush, offline>>
     ELSE FlushOn(c, flush[c].keep) /\ UNCHANGED <<active, outgoing, bubble>>
  /\ UNCHANGED <<up, onLine, late, rows, watching, troubles, failures, written, reported,
                 reloaded, overtaken, doubtful, unannounced>>

\* The check throws: there is no answer.
RefuseMessage(c) ==
  /\ calls[c].at = "sent"
  /\ Failure
  /\ calls' = [calls EXCEPT ![c].at = "lost"]
  /\ UNCHANGED <<outbox, late, server, screen, troubles, history>>

\* The sender's session has ended: the answer is an error.  The queue gives the text up,
\* a flush keeps it.
RejectMessage(c) ==
  LET t == calls[c].text
  IN /\ calls[c].at = "sent"
     /\ Failure
     /\ calls' = [calls EXCEPT ![c] = NoCall]
     /\ IF c = "queue"
        THEN GiveUp(t) /\ UNCHANGED <<flush, offline>>
        ELSE /\ FlushOn(c, Append(flush[c].keep, t))
             /\ UNCHANGED <<active, outgoing, bubble, reported>>
     /\ UNCHANGED <<up, onLine, late, server, screen, troubles, written, accepted,
                    reloaded, overtaken, doubtful, unannounced, raced, missed>>

HandleLate(t) ==
  /\ late[t] > 0
  /\ late' = [late EXCEPT ![t] = @ - 1]
  /\ Accept(t)
  /\ UNCHANGED <<outbox, calls, rows, watching, troubles, failures, written, reported,
                 reloaded, overtaken, doubtful, unannounced>>

\* An event for both.  The author gets it while connected: the optimistic message
\* becomes the stored one, or is hidden with an alert.
Announce(kind, t) ==
  /\ ReaderGets(kind, t)
  /\ bubble' = IF up THEN [bubble EXCEPT ![t] = "none"] ELSE bubble
  /\ reported' = IF up /\ kind = "rollback" THEN reported \cup {t} ELSE reported

\* persistPreparedMessage writes the row, notifies the reader, and the commit follows;
Persist(t) ==
  /\ saving[t] > 0
  /\ saving' = [saving EXCEPT ![t] = @ - 1]
  /\ rows' = [rows EXCEPT ![t] = @ + 1]
  /\ Announce("commit", t)
  /\ UNCHANGED <<up, onLine, outgoing, active, offline, flush, calls, late, watching, troubles,
                 failures, written, accepted, reloaded, overtaken, doubtful, unannounced>>

\* or the write fails, or the notification after it: either way a rollback follows.
PersistFails(t) ==
  /\ saving[t] > 0
  /\ Failure
  /\ saving' = [saving EXCEPT ![t] = @ - 1]
  /\ \E stored \in {0, 1} : /\ rows' = [rows EXCEPT ![t] = @ + stored]
                           /\ unannounced' = [unannounced EXCEPT ![t] = @ + stored]
  /\ Announce("rollback", t)
  /\ UNCHANGED <<up, onLine, outgoing, active, offline, flush, calls, late, watching, troubles,
                 written, accepted, reloaded, overtaken, doubtful>>

--------------------------------------------------------------------------------
(* Connections, pages and processes.                                       *)

\* What was sent without an answer: each packet has either reached the server or not.
Cut(waiting) ==
  \E arrived \in SUBSET {c \in Callers : calls[c].at = "sent"} :
    /\ late' = [t \in Texts |->
                  late[t] + IF \E c \in arrived : calls[c].text = t THEN 1 ELSE 0]
    /\ calls' = IF waiting
                THEN [c \in Callers |-> IF calls[c].at = "sent"
                                        THEN [calls[c] EXCEPT !.at = "lost"] ELSE calls[c]]
                ELSE [c \in Callers |-> NoCall]

\* The connection is lost, with or without the browser noticing that it is offline.
Disconnect ==
  /\ up /\ Trouble
  /\ up' = FALSE
  /\ onLine' \in BOOLEAN
  /\ Cut(TRUE)
  /\ UNCHANGED <<outgoing, active, offline, flush, bubble, server, screen, failures, history>>

\* The window's `online' event flushes the queue, connected or not.
BackOnline ==
  /\ ~onLine
  /\ onLine' = TRUE
  /\ StartFlush
  /\ UNCHANGED <<up, outgoing, active, offline, calls, late, server, screen, bubble,
                 troubles, failures, written, accepted, reported, reloaded, overtaken,
                 unannounced, raced, missed>>

\* The socket connects again: the buffer is sent, and the queue flushed.
Reconnect ==
  /\ ~up /\ onLine
  /\ up' = TRUE
  /\ calls' = [c \in Callers |-> IF calls[c].at = "buffered"
                                 THEN [calls[c] EXCEPT !.at = "sent"] ELSE calls[c]]
  /\ StartFlush
  /\ UNCHANGED <<onLine, outgoing, active, offline, late, server, screen, bubble,
                 troubles, failures, written, accepted, reported, reloaded, overtaken,
                 unannounced, raced, missed>>

\* The author reloads the page: storage survives, memory does not.
Reload ==
  /\ Trouble
  /\ up' = FALSE
  /\ Cut(FALSE)
  /\ reloaded' = reloaded \cup ToSet(outgoing) \cup ToSet(active)
  /\ doubtful' = IF Flushing = {} THEN doubtful ELSE doubtful \cup ToSet(offline)
  /\ outgoing' = <<>> /\ active' = <<>>
  /\ flush' = [f \in Flushes |-> Idle]
  /\ bubble' = [t \in Texts |-> "none"]
  /\ UNCHANGED <<onLine, offline, server, screen, failures, written, accepted, reported,
                 overtaken, unannounced, raced, missed>>

\* The server stops and starts: drafts in memory are gone, stored or not.
ServerStops ==
  /\ Trouble
  /\ up' = FALSE
  /\ calls' = [c \in Callers |-> IF calls[c].at = "sent"
                                 THEN [calls[c] EXCEPT !.at = "lost"] ELSE calls[c]]
  /\ late' = [t \in Texts |-> 0]
  /\ saving' = [t \in Texts |-> 0]
  /\ \E stored \in [Texts -> 0 .. 1] :
       /\ \A t \in Texts : stored[t] <= saving[t]
       /\ rows' = [t \in Texts |-> rows[t] + stored[t]]
  /\ missed' = TRUE
  /\ UNCHANGED <<onLine, outgoing, active, offline, flush, bubble, screen, failures, written,
                 accepted, reported, reloaded, overtaken, doubtful, unannounced, raced>>

\* The reader's connection is lost, and comes back.
ReaderLeaves ==
  /\ watching /\ Trouble
  /\ watching' = FALSE
  /\ UNCHANGED <<outbox, calls, late, server, frame, drafts, seen, failures, history>>

ReaderReturns ==
  /\ ~watching
  /\ watching' = TRUE
  /\ UNCHANGED <<outbox, calls, late, server, frame, drafts, seen, troubles, failures, history>>

SendingNext ==
  \/ \E t \in Texts : SendMessage(t) \/ HandleLate(t) \/ Persist(t) \/ PersistFails(t)
  \/ \E f \in Flushes : FlushEmit(f) \/ FlushKeep(f)
  \/ \E c \in Callers : TimeOut(c) \/ HandleMessage(c) \/ RefuseMessage(c) \/ RejectMessage(c)
  \/ EmitNext \/ RefuseNext \/ BackOnline \/ Reconnect \/ ShowFrame
  \/ Disconnect \/ Reload \/ ServerStops \/ ReaderLeaves \/ ReaderReturns

SendingSpec == SendingInit /\ [][SendingNext]_sendingVars

\* A browser goes on with what it does, a server answers, and a deadline passes.
SendingFairness ==
  /\ WF_sendingVars(EmitNext)
  /\ \A c \in Callers : WF_sendingVars(TimeOut(c) \/ HandleMessage(c))
  /\ \A f \in Flushes : WF_sendingVars(FlushEmit(f))

--------------------------------------------------------------------------------
(* Properties.                                                             *)

\* The text is somewhere in the author's browser.
Held(t) == t \in ToSet(outgoing) \cup ToSet(active) \cup ToSet(offline)
                 \cup UNION {ToSet(flush[f].todo) \cup ToSet(flush[f].keep) : f \in Flushes}

\* A text that was sent off is in one of the queues until the server has taken it or
\* its author was told - unless a reload took the queue in memory, or the text was
\* queued offline during a flush, whose end overwrites the queue with its own copy.
\* (processOutgoingTextMessageQueue, flushOfflineQueuedMessages.)
NoTextVanishes ==
  \A t \in written : Held(t) \/ t \in accepted \cup reported \cup reloaded \cup overtaken

\* What the browser says of a text queued offline, "They will send when you
\* reconnect." (app.js:11325): it is kept until the server has taken it.
QueuedTextsWillSend ==
  \A t \in written : bubble[t] = "queued-offline" => Held(t) \/ t \in accepted

\* A text is stored twice only if it was sent again without an answer to an earlier
\* emit, or if two flushes held it at the same time.  (The server does not look for a
\* message with the same id.)
StoredOnce ==
  \A t \in Texts : saving[t] + rows[t] > 1 => t \in doubtful

\* Once the server is done with everything, a reader who missed nothing sees the
\* stored messages and no others: not those whose notification failed, and no draft
\* but one answered while it waited for its frame.
Settled ==
  /\ \A t \in Texts : late[t] = 0 /\ saving[t] = 0
  /\ frame = {}
  /\ \A c \in Callers : calls[c].at # "sent"

ReaderSeesWhatIsStored ==
  Settled /\ ~missed =>
    \A t \in Texts : /\ seen[t] + unannounced[t] = rows[t]
                     /\ t \in drafts => t \in raced

\* The queue of outgoing texts never stands still: no lost answer blocks it.
OutgoingDrains == outgoing # <<>> ~> outgoing = <<>>

(***************************************************************************)
(* The life of each text, as the author, the server and the reader could   *)
(* tell it.                                                                *)
(***************************************************************************)
LifeOf(t) ==
  IF t \notin written THEN "new"
  ELSE IF t \in doubtful THEN "doubtful"
  ELSE IF rows[t] > 0 THEN "stored"
  ELSE IF saving[t] > 0 THEN "taken"
  ELSE IF t \in accepted THEN "dropped"
  ELSE IF t \in reported THEN "told"
  ELSE IF Held(t) THEN "kept"
  ELSE IF late[t] > 0 THEN "adrift" ELSE "lost"

ViewOf(t) ==
  IF seen[t] > 0 THEN "message" ELSE IF t \in drafts THEN "draft" ELSE "nothing"

Promise ==
  INSTANCE TextLife WITH
    life <- [t \in Texts |-> LifeOf(t)], shown <- [t \in Texts |-> ViewOf(t)]

\* Queues, flushes, packets and drafts implement one simple life for each text: nothing is
\* stored that was dropped or given up, or shown before it is stored, and what is stored or
\* seen stays so, but for the texts sent again in doubt.
ImplementsTextLife == Promise!Spec
================================================================================
