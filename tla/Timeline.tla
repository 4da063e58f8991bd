---------------------------------- MODULE Timeline ----------------------------------
(***************************************************************************)
(* How the browser keeps the messages of each chat (app.js, the            *)
(* conversationHistoryCache), and how the server pages them (getMessages).  *)
(*                                                                         *)
(* Opening a chat for the first time loads the newest page; scrolling up   *)
(* loads the page before the oldest one known; a chat opened again is shown *)
(* from the cache and perhaps refreshed behind it; some events throw the    *)
(* cache of the open chat away and load it again.  New messages are pushed. *)
(* Requests are answered in any order, or fail; the user meanwhile opens    *)
(* another chat, clears one, hides messages, or reloads the page, which     *)
(* restores the end of what was saved.                                     *)
(*                                                                         *)
(* A message is a number that grows with its date; 2k and 2k+1 are dated    *)
(* the same.                                                               *)
(***************************************************************************)
EXTENDS Integers, FiniteSets, FiniteSetsExt

CONSTANTS
  Chats,        \* the conversations of the user
  Past,         \* Past[c]: the messages that are there at first
  Coming,       \* Coming[c]: those that may still be sent, all later
  PageSize,     \* MESSAGE_PAGE_SIZE
  MaxSaved,     \* MAX_PERSISTED_MESSAGES_PER_CONVERSATION
  MaxLoads,     \* bound: pages under way at a time
  MaxMoves,     \* bound: how often a chat is left, refreshed, cleared or saved, or loses a message
  MaxLosses     \* bound: how many answers, events or pages (by a reload) are lost

ASSUME TimelineAssumption ==
  /\ Past \in [Chats -> SUBSET Nat] /\ Coming \in [Chats -> SUBSET Nat]
  /\ \A c \in Chats : IsFiniteSet(Past[c]) /\ IsFiniteSet(Coming[c])
  /\ \A c \in Chats : \A m \in Past[c], n \in Coming[c] : m < n
  /\ PageSize \in Nat \ {0} /\ MaxSaved \in Nat \ {0}
  /\ {MaxLoads, MaxMoves, MaxLosses} \subseteq Nat

VARIABLES
  visible,      \* visible[c]: the stored messages of c that are not hidden for the user
  sent,         \* sent[c]: the messages of Coming that have been sent to it
  open,         \* selectedUser: at most one chat
  kept,         \* conversationHistoryCache[c]
  loads,        \* the requests of loadMessageChunk under way
  clearing,     \* the requests of clearSelectedConversation under way
  news,         \* message events on their way to the browser
  renders,      \* queuedConversationMessageRenders: for the next animation frame
  saved,        \* saved[c]: the entries of c in the session storage
  unseen,       \* unseen[c]: pushed while the page was away, or over an older answer
  tangled,      \* chats of which two answers at once, or a misplaced one, are in the cache
  moves, losses

timelineVars == <<visible, sent, open, kept, loads, clearing, news, renders, saved, unseen,
                  tangled, moves, losses>>

Date(m) == m \div 2

\* No date: a page that starts from the newest message, or nothing left to load.
None == -1

Messages == UNION {Past[c] \cup Coming[c] : c \in Chats}

Dates == {Date(m) : m \in Messages}

\* createConversationHistoryState.
EmptyHistory == [exists |-> TRUE, initialized |-> FALSE, msgs |-> {}, before |-> None,
                 more |-> FALSE, loadingOlder |-> FALSE, fromDisk |-> FALSE]

NoHistory == [EmptyHistory EXCEPT !.exists = FALSE]

Unread == [msgs |-> {}, more |-> FALSE, seen |-> {}]

TimelineTypeOK ==
  LET Histories == [exists : BOOLEAN, initialized : BOOLEAN, msgs : SUBSET Messages,
                    before : Dates \cup {None}, more : BOOLEAN, loadingOlder : BOOLEAN,
                    fromDisk : BOOLEAN]
      Loaded == [msgs : SUBSET Messages, more : BOOLEAN, seen : SUBSET Messages]
      Loads == [chat : Chats, kind : {"replace", "merge", "older"},
                before : Dates \cup {None}, answered : BOOLEAN, page : Loaded]
  IN /\ visible \in [Chats -> SUBSET Messages]
     /\ sent \in [Chats -> SUBSET Messages]
     /\ open \in SUBSET Chats /\ Cardinality(open) <= 1
     /\ kept \in [Chats -> Histories] /\ saved \in [Chats -> Histories]
     /\ loads \subseteq Loads /\ Cardinality(loads) <= MaxLoads
     /\ \A l \in loads : /\ Cardinality(l.page.msgs) <= PageSize
                         /\ l.kind = "older" <=> l.before # None
     /\ clearing \subseteq [chat : Chats, at : {"asked", "listed", "hidden"},
                            ids : SUBSET Messages]
     /\ news \subseteq Chats \X Messages /\ renders \subseteq Chats \X Messages
     /\ unseen \in [Chats -> SUBSET Messages]
     /\ tangled \subseteq Chats
     /\ \A c \in Chats : kept[c].more => kept[c].before # None
     /\ moves \in 0 .. MaxMoves /\ losses \in 0 .. MaxLosses

TimelineInit ==
  /\ visible = Past
  /\ sent = [c \in Chats |-> {}]
  /\ open = {}
  /\ kept = [c \in Chats |-> NoHistory]
  /\ loads = {} /\ clearing = {} /\ news = {} /\ renders = {}
  /\ saved = [c \in Chats |-> NoHistory]
  /\ unseen = [c \in Chats |-> {}]
  /\ tangled = {}
  /\ moves = 0 /\ losses = 0

Move == moves < MaxMoves /\ moves' = moves + 1
Lose == losses < MaxLosses /\ losses' = losses + 1

--------------------------------------------------------------------------------
(* The server.                                                             *)

\* Seeded bug: the row that is read to see whether more follow stays in the page.
PageOf_OneMore(c, before, page) ==
  LET found == {m \in visible[c] : before = None \/ Date(m) < before}
  IN /\ page.msgs \in kSubset(Min({PageSize + 1, Cardinality(found)}), found)
     /\ \A m \in page.msgs, n \in found \ page.msgs : Date(n) <= Date(m)
     /\ page.more = (Cardinality(page.msgs) > PageSize)
     /\ page.seen = visible[c]

\* getMessages: the newest messages before a date; those of one date in any order.
PageOf(c, before, page) ==
  LET found == {m \in visible[c] : before = None \/ Date(m) < before}
  IN /\ page.msgs \in kSubset(Min({PageSize, Cardinality(found)}), found)
     /\ \A m \in page.msgs, n \in found \ page.msgs : Date(n) <= Date(m)
     /\ page.more = (found # page.msgs)
     /\ page.seen = visible[c]

AnswerLoad ==
  \E l \in loads :
    /\ ~l.answered
    /\ \E msgs \in SUBSET visible[l.chat], more \in BOOLEAN :
         LET page == [msgs |-> msgs, more |-> more, seen |-> visible[l.chat]]
         IN /\ PageOf(l.chat, l.before, page)
            /\ loads' = (loads \ {l}) \cup {[l EXCEPT !.answered = TRUE, !.page = page]}
    /\ UNCHANGED <<visible, sent, open, kept, clearing, news, renders, saved, unseen,
                   tangled, moves, losses>>

\* A message is stored and announced.
StoreMessage ==
  \E c \in Chats : \E m \in Coming[c] :
    /\ \A n \in sent[c] : n < m
    /\ sent' = [sent EXCEPT ![c] = @ \cup {m}]
    /\ visible' = [visible EXCEPT ![c] = @ \cup {m}]
    /\ news' = news \cup {<<c, m>>}
    /\ UNCHANGED <<open, kept, loads, clearing, renders, saved, unseen, tangled,
                   moves, losses>>

\* clearConversationForUser: the messages are listed, then hidden.
ClearAtServer ==
  \E r \in clearing :
    /\ \/ /\ r.at = "asked"
          /\ clearing' = (clearing \ {r})
                         \cup {[r EXCEPT !.at = "listed", !.ids = visible[r.chat]]}
          /\ UNCHANGED visible
       \/ /\ r.at = "listed"
          /\ clearing' = (clearing \ {r}) \cup {[r EXCEPT !.at = "hidden"]}
          /\ visible' = [visible EXCEPT ![r.chat] = @ \ r.ids]
    /\ UNCHANGED <<sent, open, kept, loads, news, renders, saved, unseen, tangled, moves,
                   losses>>

\* deleteMessageForMe, and its message:hidden event: hideMessageLocally.
HideMessage ==
  \E c \in Chats : \E m \in visible[c] \ sent[c] :
    /\ Move
    /\ visible' = [visible EXCEPT ![c] = @ \ {m}]
    /\ kept' = [kept EXCEPT ![c].msgs = @ \ {m}]
    /\ UNCHANGED <<sent, open, loads, clearing, news, renders, saved, unseen, tangled, losses>>

--------------------------------------------------------------------------------
(* Loading.                                                                *)

\* loadMessageChunk, as far as the request.
Request(c, kind, before) ==
  /\ Cardinality(loads) < MaxLoads
  /\ loads' = loads \cup {[chat |-> c, kind |-> kind, before |-> before,
                           answered |-> FALSE, page |-> Unread]}
  /\ tangled' = IF \E l \in loads : l.chat = c THEN tangled \cup {c} ELSE tangled

\* selectUser; whether a cache has aged is left open.
OpenChat ==
  \E c \in Chats \ open :
    /\ (open = {} /\ UNCHANGED moves) \/ (open # {} /\ Move)
    /\ open' = {c}
    /\ kept' = IF kept[c].exists THEN kept
                  ELSE [kept EXCEPT ![c] = EmptyHistory]
    /\ \/ kept[c].initialized /\ ~kept[c].fromDisk /\ UNCHANGED <<loads, tangled>>
       \/ Request(c, IF kept[c].initialized THEN "merge" ELSE "replace", None)
    /\ UNCHANGED <<visible, sent, clearing, news, renders, saved, unseen, losses>>

\* resetSelectedConversation.
CloseChat ==
  /\ open # {}
  /\ Move
  /\ open' = {}
  /\ UNCHANGED <<visible, sent, kept, loads, clearing, news, renders, saved, unseen, tangled,
                 losses>>

\* loadOlderMessages, from scrolling or from ensureScrollableHistory.
LoadOlder ==
  \E c \in open :
    /\ kept[c].more /\ ~kept[c].loadingOlder
    /\ kept' = [kept EXCEPT ![c].loadingOlder = TRUE]
    /\ Request(c, "older", kept[c].before)
    /\ UNCHANGED <<visible, sent, open, clearing, news, renders, saved, unseen, moves, losses>>

\* refreshSelectedConversation.
Refresh ==
  \E c \in open :
    /\ Move
    /\ kept' = [kept EXCEPT ![c] = EmptyHistory]
    /\ Request(c, "replace", None)
    /\ UNCHANGED <<visible, sent, open, clearing, news, renders, saved, unseen, losses>>

\* The `finally' of loadOlderMessages: messagePagination is that of the chat that is
\* open now.
EndOlder(h, kind) ==
  [c \in Chats |-> IF c \in open /\ kind = "older"
                   THEN [h[c] EXCEPT !.loadingOlder = FALSE] ELSE h[c]]

\* Seeded bug: a refresh of the newest messages keeps the place where the user had
\* scrolled to.
Merge_KeepsPlace(h, l) ==
  [h EXCEPT !.msgs = IF l.kind = "replace" THEN l.page.msgs ELSE @ \cup l.page.msgs,
            !.before = IF l.kind = "merge" /\ h.more THEN @
                       ELSE IF l.page.more THEN Date(Min(l.page.msgs)) ELSE None,
            !.more = l.page.more \/ (l.kind = "merge" /\ @),
            !.initialized = TRUE, !.fromDisk = FALSE]

\* What loadMessageChunk does to the cache: a first load and a refresh of an emptied
\* cache replace what has been pushed since.
Merge(h, l) ==
  [h EXCEPT !.msgs = IF l.kind = "replace" THEN l.page.msgs ELSE @ \cup l.page.msgs,
            !.before = IF l.page.more THEN Date(Min(l.page.msgs)) ELSE None,
            !.more = l.page.more, !.initialized = TRUE, !.fromDisk = FALSE]

GetPage ==
  \E l \in loads :
    LET c == l.chat
        after == visible[c] \ l.page.seen
    IN /\ l.answered
       /\ loads' = loads \ {l}
       /\ IF c \notin open
          THEN /\ kept' = EndOlder(kept, l.kind)
               /\ UNCHANGED <<unseen, tangled>>
          ELSE /\ kept' = EndOlder([kept EXCEPT ![c] = Merge(@, l)], l.kind)
               /\ unseen' = [unseen EXCEPT ![c] =
                    CASE l.kind = "older" -> @
                      [] l.kind = "merge" /\ c \notin tangled -> @ \ l.page.seen
                      [] OTHER -> (@ \ l.page.seen) \cup after]
               /\ tangled' =
                    CASE l.kind # "older" /\ ~ \E k \in loads \ {l} : k.chat = c ->
                           tangled \ {c}
                      [] l.kind = "older" /\ kept[c].fromDisk -> tangled \cup {c}
                      [] OTHER -> tangled
       /\ UNCHANGED <<visible, sent, open, clearing, news, renders, saved, moves, losses>>

LoadFails ==
  \E l \in loads :
    /\ Lose
    /\ loads' = loads \ {l}
    /\ kept' = EndOlder(kept, l.kind)
    /\ UNCHANGED <<visible, sent, open, clearing, news, renders, saved, unseen, tangled, moves>>

--------------------------------------------------------------------------------
(* Pushed messages.                                                        *)

\* handleIncomingMessage: cacheMessageForConversation, queueConversationMessageRender.
GetNews ==
  \E n \in news :
    LET c == n[1]
    IN /\ news' = news \ {n}
       /\ kept' = IF kept[c].exists
                     THEN [kept EXCEPT ![c].msgs = @ \cup {n[2]}] ELSE kept
       /\ renders' = IF c \in open THEN renders \cup {n} ELSE renders
       /\ UNCHANGED <<visible, sent, open, loads, clearing, saved, unseen, tangled, moves,
                      losses>>

LoseNews ==
  \E n \in news :
    /\ Lose
    /\ news' = news \ {n}
    /\ unseen' = [unseen EXCEPT ![n[1]] = @ \cup {n[2]}]
    /\ UNCHANGED <<visible, sent, open, kept, loads, clearing, renders, saved, tangled, moves>>

\* flushQueuedConversationMessageRenders: what belongs to the open chat is put into it.
Render ==
  /\ renders # {}
  /\ renders' = {}
  /\ kept' = [c \in Chats |->
       IF c \in open
       THEN [kept[c] EXCEPT !.msgs = @ \cup {n[2] : n \in {r \in renders : r[1] = c}}]
       ELSE kept[c]]
  /\ UNCHANGED <<visible, sent, open, loads, clearing, news, saved, unseen, tangled, moves,
                 losses>>

--------------------------------------------------------------------------------
(* Clearing a chat, and reloading the page.                                *)

ClearChat ==
  \E c \in open :
    /\ Move
    /\ clearing = {}
    /\ clearing' = {[chat |-> c, at |-> "asked", ids |-> {}]}
    /\ UNCHANGED <<visible, sent, open, kept, loads, news, renders, saved, unseen, tangled,
                   losses>>

\* The answer empties the cache of the chat that is open when it comes.
GetCleared ==
  \E r \in clearing :
    /\ r.at = "hidden"
    /\ clearing' = {}
    /\ kept' = [c \in Chats |-> IF c \in open
                                   THEN [EmptyHistory EXCEPT !.initialized = TRUE]
                                   ELSE kept[c]]
    /\ unseen' = [c \in Chats |-> IF c \in open
                                  THEN unseen[c] \cup (visible[c] \ r.ids) ELSE unseen[c]]
    /\ tangled' = IF r.chat \notin open \/ \E l \in loads : l.chat \in open
                  THEN tangled \cup open ELSE tangled \ (open \cap {r.chat})
    /\ UNCHANGED <<visible, sent, open, loads, news, renders, saved, moves, losses>>

\* persistConversationHistoryCache, some time after a change: the newest messages of
\* every cache, with the place where it stopped.
Save ==
  /\ Move
  /\ saved' = [c \in Chats |->
       LET h == kept[c]
           newest == CHOOSE s \in kSubset(Min({MaxSaved, Cardinality(h.msgs)}), h.msgs) :
                       \A m \in s, n \in h.msgs \ s : n < m
       IN IF h.initialized /\ h.msgs # {}
          THEN [h EXCEPT !.msgs = newest, !.loadingOlder = FALSE, !.fromDisk = TRUE]
          ELSE NoHistory]
  /\ UNCHANGED <<visible, sent, open, kept, loads, clearing, news, renders, unseen, tangled,
                 losses>>

\* The page is loaded again: restoreConversationHistoryCacheFromSession.
ReloadPage ==
  /\ Lose
  /\ open' = {}
  /\ kept' = saved
  /\ unseen' = [c \in Chats |-> visible[c] \ saved[c].msgs]
  /\ loads' = {} /\ clearing' = {} /\ news' = {} /\ renders' = {} /\ tangled' = {}
  /\ UNCHANGED <<visible, sent, saved, moves>>

TimelineNext ==
  \/ AnswerLoad \/ StoreMessage \/ ClearAtServer \/ HideMessage
  \/ OpenChat \/ CloseChat \/ LoadOlder \/ Refresh \/ GetPage \/ LoadFails
  \/ GetNews \/ LoseNews \/ Render \/ ClearChat \/ GetCleared \/ Save \/ ReloadPage

TimelineSpec == TimelineInit /\ [][TimelineNext]_timelineVars

--------------------------------------------------------------------------------
(* Properties.                                                             *)

\* A chat is shown without gaps: every message as new as the place from which older
\* ones will be loaded is in the cache, and all of them when nothing is left to load.
\* Left out are the messages still on their way, those that a page which was read
\* before them has displaced, a cache from the disk before its refresh, two loads of
\* one chat at once, and a message whose date another one in the chat has too.
NothingIsSkipped ==
  \A c \in Chats :
    LET h == kept[c]
        Twin(m) == \E n \in (Past[c] \cup Coming[c]) \ {m} : Date(n) = Date(m)
    IN h.initialized /\ ~h.fromDisk /\ c \notin tangled =>
         \A m \in visible[c] :
           \/ m \in h.msgs \cup unseen[c] \/ <<c, m>> \in news
           \/ h.more /\ Date(m) < h.before
           \/ Twin(m)
================================================================================
