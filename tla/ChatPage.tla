------------------------------- MODULE ChatPage -------------------------------
(***************************************************************************)
(* What one user's page knows of her private chats: the list of            *)
(* conversations and the permission of the open one (public/app.js), while *)
(* the requests and blocks behind them change at the server                *)
(* (src/chat/chat.service.ts, src/chat/chat.controller.ts) and the gateway *)
(* tells the page of every change.                                         *)
(*                                                                         *)
(* The page asks the server for what it shows, by requests whose answers   *)
(* come at any time and in any order.  loadUsers lets one request run and  *)
(* remembers that another is wanted; loadChatPermission does not.  What    *)
(* the rows allow is ChatRequests; here a pair's rows are one record.      *)
(***************************************************************************)
EXTENDS Naturals, Sequences, FiniteSets

CONSTANTS
    Peers,          \* the other users
    Correspondents, \* those she has exchanged messages with
    NoPeer,         \* no conversation is open; also: a payload that names her own id
    MaxReads,       \* bound: requests of one kind that are on their way
    MaxTurns        \* bound: changes of requests and blocks, conversations opened,
                    \* lost connections and failed requests, all together

ASSUME ChatPageAssumption ==
    /\ Correspondents \subseteq Peers /\ NoPeer \notin Peers
    /\ {MaxReads, MaxTurns} \subseteq Nat

RequestStates == {"none", "mine", "theirs", "accepted"}
Bonds == [request : RequestStates, byMe : BOOLEAN, byThem : BOOLEAN]
Strangers == [request |-> "none", byMe |-> FALSE, byThem |-> FALSE]

VARIABLES
    bond,       \* the requests and blocks between her and each peer, at the server
    mail,       \* events on their way to the page, in order
    linked,     \* the page's socket is connected
    chats,      \* users: the peers in the page's list
    hides,      \* blockedUsers, as the page last loaded it
    chosen,     \* selectedUser
    detached,   \* detachedSelectedUser: it was found by a search, not in the list
    permission, \* chatPermission
    listing,    \* the run of loadUsers: what it waits for and who waits for it
    reads,      \* other requests on their way
    deed,       \* an action of hers that the server has to answer
    turns,      \* changes, openings and losses so far
    unheard,    \* history: an event was lost or a request failed
    crossing,   \* history: two answers to one question were on their way at once, or an
                \* older list of the blocked when an unblock was answered
    elsewhere,  \* history: peers she blocked or unblocked from another page
    misnamed    \* history: peers who blocked or unblocked her: the event names her

chatPageVars == <<bond, mail, linked, chats, hides, chosen, detached, permission,
                  listing, reads, deed, turns, unheard, crossing, elsewhere, misnamed>>

HandlerCalls == [kind : {"request", "refresh"}, of : Peers, other : Peers \cup {NoPeer}]
NoListing == [at |-> "idle", seen |-> {}, again |-> FALSE, first |-> {}, others |-> {}]
NoDeed == [kind |-> "none", of |-> NoPeer, at |-> "done"]
Deeds == {"send", "accept", "reject", "withdraw", "block", "unblock"}

ChatPageTypeOK ==
    /\ bond \in [Peers -> Bonds] /\ permission \in Bonds
    /\ mail \in Seq(HandlerCalls) /\ linked \in BOOLEAN
    /\ chats \subseteq Peers /\ hides \subseteq Peers
    /\ chosen \in Peers \cup {NoPeer} /\ detached \in BOOLEAN
    /\ listing \in [at : {"idle", "asked", "read"}, seen : SUBSET Peers, again : BOOLEAN,
                    first : SUBSET HandlerCalls, others : SUBSET HandlerCalls]
    /\ listing.at = "idle" => listing.first = {} /\ listing.others = {}
    /\ \A r \in reads : r.what \in {"permission", "blocks"} /\ r.at \in {"asked", "answered"}
    /\ deed \in [kind : Deeds \cup {"none"}, of : Peers \cup {NoPeer}, at : {"asked", "answered", "done"}]
    /\ turns \in 0 .. MaxTurns
    /\ unheard \in BOOLEAN /\ crossing \in BOOLEAN /\ elsewhere \subseteq Peers
    /\ misnamed \subseteq Peers

ChatPageInit ==
    /\ bond = [p \in Peers |-> Strangers] /\ permission = Strangers
    /\ mail = <<>> /\ linked = TRUE
    /\ chats = Correspondents /\ hides = {}
    /\ chosen = NoPeer /\ detached = FALSE
    /\ listing = NoListing /\ reads = {} /\ deed = NoDeed
    /\ turns = 0 /\ unheard = FALSE /\ crossing = FALSE /\ elsewhere = {} /\ misnamed = {}

TakesATurn == turns < MaxTurns /\ turns' = turns + 1

-----------------------------------------------------------------------------
(* The server                                                              *)

BlockedEither(b) == b.byMe \/ b.byThem

\* getRecentChats: whoever she has messages or a request with, unless a block
\* hides them (getHiddenDirectUserIds).
RecentChats ==
    {p \in Peers : /\ ~BlockedEither(bond[p])
                   /\ p \in Correspondents \/ bond[p].request # "none"}

\* getChatPermission: a block counts before any request.
PermissionOf(b) == IF BlockedEither(b) THEN [b EXCEPT !.request = "none"] ELSE b

\* The rows after an action of hers (mine) or of the peer's; an action that
\* the rows do not allow is refused.
Allowed(b, kind, mine) ==
    CASE kind = "send"     -> ~BlockedEither(b) /\ b.request = "none"
      [] kind = "accept"   -> b.request = IF mine THEN "theirs" ELSE "mine"
      [] kind = "reject"   -> b.request = IF mine THEN "theirs" ELSE "mine"
      [] kind = "withdraw" -> b.request = IF mine THEN "mine" ELSE "theirs"
      [] kind = "block"    -> ~(IF mine THEN b.byMe ELSE b.byThem)
      [] kind = "unblock"  -> IF mine THEN b.byMe ELSE b.byThem

Becomes(b, kind, mine) ==
    CASE kind = "send"     -> [b EXCEPT !.request = IF mine THEN "mine" ELSE "theirs"]
      [] kind = "accept"   -> [b EXCEPT !.request = "accepted"]
      [] kind \in {"reject", "withdraw"} -> [b EXCEPT !.request = "none"]
      [] kind = "block"    -> IF mine THEN [b EXCEPT !.request = "none", !.byMe = TRUE]
                                      ELSE [b EXCEPT !.request = "none", !.byThem = TRUE]
      [] kind = "unblock"  -> IF mine THEN [b EXCEPT !.byMe = FALSE]
                                      ELSE [b EXCEPT !.byThem = FALSE]

\* emitRequestUpdate and emitConversationRefresh.  The payload's otherUserId is
\* the actor's peer: when the peer acts, it is the user's own id.
EventsOf(p, kind, mine) ==
    LET refresh == [kind |-> "refresh", of |-> p, other |-> IF mine THEN p ELSE NoPeer]
        update == [kind |-> "request", of |-> p, other |-> NoPeer]
    IN  IF kind \in {"block", "unblock"} THEN <<refresh>> ELSE <<update, refresh>>

\* The rows change and the page is told, if it is connected.
Change(p, kind, mine) ==
    /\ Allowed(bond[p], kind, mine)
    /\ TakesATurn
    /\ bond' = [bond EXCEPT ![p] = Becomes(@, kind, mine)]
    /\ IF linked
           THEN mail' = mail \o EventsOf(p, kind, mine) /\ UNCHANGED unheard
           ELSE unheard' = TRUE /\ UNCHANGED mail

PeerActs(p) ==
    /\ \E kind \in Deeds :
          /\ Change(p, kind, FALSE)
          /\ misnamed' = IF kind \in {"block", "unblock"} THEN misnamed \cup {p} ELSE misnamed
    /\ UNCHANGED <<linked, chats, hides, chosen, detached, permission, listing, reads,
                   deed, crossing, elsewhere>>

\* She blocks or unblocks from another page: blockedUsers of this one stays.
ActElsewhere(p) ==
    /\ \E kind \in {"block", "unblock"} : Change(p, kind, TRUE)
    /\ elsewhere' = elsewhere \cup {p}
    /\ UNCHANGED <<linked, chats, hides, chosen, detached, permission, listing, reads,
                   deed, crossing, misnamed>>

-----------------------------------------------------------------------------
(* loadUsers                                                               *)

\* A second call joins the one that runs, and has it run once more.
LoadUsers(handlers) ==
    listing' = IF listing.at = "idle"
                   THEN [listing EXCEPT !.at = "asked", !.first = handlers]
                   ELSE [listing EXCEPT !.others = @ \cup handlers, !.again = TRUE]

ServeChats ==
    /\ listing.at = "asked"
    /\ listing' = [listing EXCEPT !.at = "read", !.seen = RecentChats]
    /\ UNCHANGED <<bond, mail, linked, chats, hides, chosen, detached, permission, reads,
                   deed, turns, unheard, crossing, elsewhere, misnamed>>

\* loadChatPermission of the conversation that is open now, by each handler
\* that wants it.
Question(what, p) == [what |-> what, of |-> p, at |-> "asked", seen |-> Strangers, blocks |-> {}]
RoomFor(what) == Cardinality({r \in reads : r.what = what}) < MaxReads
AskPermission(p) == RoomFor("permission") /\ reads' = reads \cup {Question("permission", p)}

\* The handlers look at the conversation that is open when they go on.
Wants(handlers, open) ==
    \E h \in handlers : open = IF h.kind = "request" THEN h.of ELSE h.other

GoOnWith(handlers, open) ==
    IF open # NoPeer /\ Wants(handlers, open) THEN AskPermission(open) ELSE UNCHANGED reads

\* syncSelectedUser, after the list was replaced: what is open and not in the
\* list any more is closed, unless a search had found it.
SyncSelected(list) ==
    IF chosen = NoPeer \/ chosen \in list
        THEN /\ detached' = (detached /\ chosen = NoPeer)
             /\ UNCHANGED chosen
        ELSE /\ chosen' = IF detached THEN chosen ELSE NoPeer
             /\ UNCHANGED detached

\* The answer is the list, without whom the page knows to be blocked, the open
\* conversation excepted.  Who joined goes on; the first caller goes on when no
\* more runs are wanted.
ChatsAnswered ==
    LET list == listing.seen \ (hides \ {chosen})
        ready == listing.others \cup IF listing.again THEN {} ELSE listing.first
    IN  /\ listing.at = "read"
        /\ chats' = list
        /\ SyncSelected(list)
        /\ listing' = IF listing.again
                          THEN [NoListing EXCEPT !.at = "asked", !.first = listing.first]
                          ELSE NoListing
        /\ GoOnWith(ready, chosen')
        /\ UNCHANGED <<bond, mail, linked, hides, permission, deed, turns, unheard,
                       crossing, elsewhere, misnamed>>

\* The request fails: the handlers of "refresh" end, those of "request" go on
\* (they catch the error), and a run that was wanted stays wanted.
ChatsFail ==
    LET ready == {h \in listing.first \cup listing.others : h.kind = "request"}
    IN  /\ listing.at # "idle"
        /\ TakesATurn
        /\ listing' = [NoListing EXCEPT !.again = listing.again]
        /\ GoOnWith(ready, chosen)
        /\ unheard' = TRUE
        /\ UNCHANGED <<bond, mail, linked, chats, hides, chosen, detached, permission, deed,
                       crossing, elsewhere, misnamed>>

-----------------------------------------------------------------------------
(* loadChatPermission and loadBlockedUsers                                 *)

ServeRead(r) ==
    /\ r \in reads /\ r.at = "asked"
    /\ reads' = (reads \ {r}) \cup
            {[r EXCEPT !.at = "answered",
                       !.seen = IF r.what = "permission" THEN PermissionOf(bond[r.of]) ELSE @,
                       !.blocks = IF r.what = "blocks" THEN {p \in Peers : bond[p].byMe} ELSE @]}
    /\ UNCHANGED <<bond, mail, linked, chats, hides, chosen, detached, permission, listing,
                   deed, turns, unheard, crossing, elsewhere, misnamed>>

\* Another answer to the same question has left the server as well.
AnsweredTwice(r) ==
    \E other \in reads \ {r} : other.what = r.what /\ other.of = r.of /\ other.at = "answered"

Takes(r) ==
    /\ r \in reads /\ r.at = "answered"
    /\ reads' = reads \ {r}
    /\ crossing' = (crossing \/ AnsweredTwice(r))

\* Seeded bug: the answer is shown whatever conversation is open by then.
ForWhom_Any(r) == chosen # NoPeer

\* isSameConversation.
ForWhom(r) == r.of = chosen

PermissionAnswered(r) ==
    /\ r.what = "permission" /\ Takes(r)
    /\ permission' = IF ForWhom(r) THEN r.seen ELSE permission
    /\ UNCHANGED <<bond, mail, linked, chats, hides, chosen, detached, listing, deed, turns,
                   unheard, elsewhere, misnamed>>

\* applyBlockedUserFilters: whom she has blocked leaves the list and the screen.
BlocksAnswered(r) ==
    LET gone == chosen \in r.blocks
    IN  /\ r.what = "blocks" /\ Takes(r)
        /\ hides' = r.blocks
        /\ chats' = chats \ r.blocks
        /\ chosen' = IF gone THEN NoPeer ELSE chosen
        /\ detached' = (detached /\ ~gone)
        /\ UNCHANGED <<bond, mail, linked, permission, listing, deed, turns, unheard,
                       elsewhere, misnamed>>

\* An answer that is not ok reads as a permission that allows nothing.
ReadFails(r) ==
    /\ TakesATurn
    /\ r \in reads /\ reads' = reads \ {r}
    /\ permission' = IF r.what = "permission" /\ ForWhom(r) THEN Strangers ELSE permission
    /\ unheard' = TRUE
    /\ UNCHANGED <<bond, mail, linked, chats, hides, chosen, detached, listing, deed,
                   crossing, elsewhere, misnamed>>

-----------------------------------------------------------------------------
(* Events                                                                  *)

\* The handler of request:update loads the list only for a request from
\* somebody who is not in it.
RequestUpdate ==
    LET h == Head(mail)
    IN  /\ mail # <<>> /\ h.kind = "request"
        /\ mail' = Tail(mail)
        /\ \/ /\ h.of \notin chats
              /\ LoadUsers({h}) /\ UNCHANGED reads
           \/ /\ GoOnWith({h}, chosen) /\ UNCHANGED listing
        /\ UNCHANGED <<bond, linked, chats, hides, chosen, detached, permission, deed, turns,
                       unheard, crossing, elsewhere, misnamed>>

\* The handler of conversation:refresh.
ConversationRefresh ==
    LET h == Head(mail)
    IN  /\ mail # <<>> /\ h.kind = "refresh"
        /\ mail' = Tail(mail)
        /\ LoadUsers({h})
        /\ UNCHANGED <<bond, linked, chats, hides, chosen, detached, permission, reads, deed,
                       turns, unheard, crossing, elsewhere, misnamed>>

\* The socket is lost, and with it what was on its way.
LinkDrops ==
    /\ linked /\ TakesATurn
    /\ linked' = FALSE /\ mail' = <<>>
    /\ unheard' = (unheard \/ mail # <<>>)
    /\ UNCHANGED <<bond, chats, hides, chosen, detached, permission, listing, reads, deed,
                   crossing, elsewhere, misnamed>>

\* The handler of "connect" sends the offline queue; it loads nothing.
LinkReturns ==
    /\ ~linked /\ linked' = TRUE
    /\ UNCHANGED <<bond, mail, chats, hides, chosen, detached, permission, listing, reads,
                   deed, turns, unheard, crossing, elsewhere, misnamed>>

-----------------------------------------------------------------------------
(* Her own actions                                                         *)

\* selectUser: somebody in the list, or found by a search (which leaves out
\* blocked users).  The old permission stays on the screen until the answer.
SelectChat(p) ==
    /\ p # chosen
    /\ p \in chats \/ ~BlockedEither(bond[p])
    /\ TakesATurn
    /\ chosen' = p /\ detached' = (p \notin chats)
    /\ AskPermission(p)
    /\ UNCHANGED <<bond, mail, linked, chats, hides, permission, listing, deed, unheard,
                   crossing, elsewhere, misnamed>>

\* handleRequestAction and rejectIncomingRequest: what the buttons offer
\* follows the permission that is shown.
Offered ==
    IF BlockedEither(permission) THEN {}
    ELSE CASE permission.request = "theirs" -> {"accept", "reject"}
           [] permission.request = "mine" -> {"withdraw"}
           [] permission.request = "none" -> {"send"}
           [] permission.request = "accepted" -> {}

Press(kind, p) ==
    /\ deed.at = "done"
    /\ turns < MaxTurns
    /\ deed' = [kind |-> kind, of |-> p, at |-> "asked"]
    /\ UNCHANGED <<bond, mail, linked, chats, hides, chosen, detached, permission, listing,
                   reads, turns, unheard, crossing, elsewhere, misnamed>>

PressRequest == chosen # NoPeer /\ \E kind \in Offered : Press(kind, chosen)

\* toggleBlockedUser, from the open conversation.  The button that unblocks there is
\* left out: she sees it only when another page of hers has blocked the peer.
PressBlock == chosen # NoPeer /\ ~permission.byMe /\ Press("block", chosen)

\* unblockUserFromSettings, from the list of the users she has blocked.
PressUnblock(p) == p \in hides /\ Press("unblock", p)

ServeDeed ==
    /\ deed.at = "asked"
    /\ Change(deed.of, deed.kind, TRUE)
    /\ deed' = [deed EXCEPT !.at = "answered"]
    /\ UNCHANGED <<linked, chats, hides, chosen, detached, permission, listing, reads,
                   crossing, elsewhere, misnamed>>

\* The server refuses, or the request is lost: an alert, and nothing else.
RefuseDeed ==
    /\ deed.at = "asked" /\ ~Allowed(bond[deed.of], deed.kind, TRUE)
    /\ deed' = NoDeed
    /\ UNCHANGED <<bond, mail, linked, chats, hides, chosen, detached, permission, listing,
                   reads, turns, unheard, crossing, elsewhere, misnamed>>

\* The answer to a request action: the permission of whatever is open by now.
RequestDone ==
    /\ deed.at = "answered" /\ deed.kind \notin {"block", "unblock"}
    /\ deed' = NoDeed
    /\ IF chosen # NoPeer THEN AskPermission(chosen) ELSE UNCHANGED reads
    /\ UNCHANGED <<bond, mail, linked, chats, hides, chosen, detached, permission, listing,
                   turns, unheard, crossing, elsewhere, misnamed>>

\* openProfileModal, with the list of the users she has blocked.
OpenProfile ==
    /\ TakesATurn
    /\ RoomFor("blocks")
    /\ reads' = reads \cup {Question("blocks", NoPeer)}
    /\ UNCHANGED <<bond, mail, linked, chats, hides, chosen, detached, permission, listing,
                   deed, unheard, crossing, elsewhere, misnamed>>

\* resetSelectedConversation, then both lists are loaded.
BlockDone ==
    /\ deed.at = "answered" /\ deed.kind = "block" /\ RoomFor("blocks")
    /\ deed' = NoDeed
    /\ chosen' = NoPeer /\ detached' = FALSE
    /\ LoadUsers({})
    /\ reads' = reads \cup {Question("blocks", NoPeer)}
    /\ UNCHANGED <<bond, mail, linked, chats, hides, permission, turns, unheard, crossing,
                   elsewhere, misnamed>>

\* A list of the blocked that has left the server still has the user.
StillListed(p) ==
    \E r \in reads : r.what = "blocks" /\ r.at = "answered" /\ p \in r.blocks

UnblockDone ==
    /\ deed.at = "answered" /\ deed.kind = "unblock"
    /\ deed' = NoDeed
    /\ hides' = hides \ {deed.of}
    /\ crossing' = (crossing \/ StillListed(deed.of))
    /\ LoadUsers({[kind |-> "refresh", of |-> deed.of, other |-> deed.of]})
    /\ UNCHANGED <<bond, mail, linked, chats, chosen, detached, permission, reads, turns,
                   unheard, elsewhere, misnamed>>

-----------------------------------------------------------------------------
ChatPageNext ==
    \/ \E p \in Peers : PeerActs(p) \/ ActElsewhere(p) \/ SelectChat(p) \/ PressUnblock(p)
    \/ ServeChats \/ ChatsAnswered \/ ChatsFail
    \/ \E r \in reads : ServeRead(r) \/ PermissionAnswered(r) \/ BlocksAnswered(r) \/ ReadFails(r)
    \/ RequestUpdate \/ ConversationRefresh \/ LinkDrops \/ LinkReturns
    \/ PressRequest \/ PressBlock \/ OpenProfile \/ ServeDeed \/ RefuseDeed
    \/ RequestDone \/ BlockDone \/ UnblockDone

ChatPageSpec == ChatPageInit /\ [][ChatPageNext]_chatPageVars

-----------------------------------------------------------------------------
(* Properties                                                              *)

\* Nothing is on its way to the page any more.
Quiescent ==
    /\ linked /\ mail = <<>> /\ reads = {} /\ listing.at = "idle" /\ deed.at = "done"

\* When everything has arrived, the page shows what the server would answer:
\* the list of conversations, and the permission of the open one.  (loadUsers
\* runs again for whoever joins it, the handlers look at what is open when
\* they go on, and a change by the peer reaches the permission through
\* request:update, for its conversation:refresh names the wrong user.)  Not
\* so once an event was lost, since reconnecting loads nothing; once a request
\* failed; once two answers to one question were on their way, the older of
\* which may have come last; or once an older list of the blocked came after
\* the answer to an unblock.  The list hides whom another page has unblocked,
\* and the permission stays as it was when a peer blocks and unblocks her.
PageCatchesUp ==
    Quiescent /\ ~unheard /\ ~crossing
        => /\ elsewhere = {} => chats = RecentChats
           /\ chosen \notin misnamed \cup {NoPeer} => permission = PermissionOf(bond[chosen])

=============================================================================
