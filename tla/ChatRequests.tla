------------------------------ MODULE ChatRequests ------------------------------
(***************************************************************************)
(* Who may chat in private with whom: the chat requests that users send    *)
(* and answer, and the blocks that close a chat.  The module models the    *)
(* request handlers of ChatService (src/src/chat/chat.service.ts) and      *)
(* blockUser and unblockUser of UserService (src/src/user/user.service.ts) *)
(* over the tables ChatRequest and UserBlock.                              *)
(*                                                                         *)
(* As in GroupMembership, a handler reads, decides and then writes, with   *)
(* an await between each; chatReq[h] holds what the handler in flight has  *)
(* learnt so far.  ChatRequest has no unique key but its id, and no        *)
(* foreign key: nothing in the database stops a late write that addresses  *)
(* a row which exists.  Ids stand for the uuids and for createdAt at once: *)
(* they are handed out in the order in which the rows are created, so that *)
(* the latest of some rows has the greatest id.                            *)
(***************************************************************************)
EXTENDS Naturals, FiniteSets

CONSTANTS
  ChatUsers,        \* the user accounts
  MaxRequests,  \* bounds the ChatRequest rows ever created
  ChatHandlers,     \* the requests that can be in flight at the same time
  NoChatUser        \* null, for a field that holds a user

ASSUME ChatNullAssumption  == NoChatUser \notin ChatUsers
ASSUME ChatBoundAssumption == MaxRequests \in Nat

VARIABLES
  chatLive,       \* users whose User row exists
  blocks,     \* UserBlock rows: <<u, v>> when u blocks v
  request,    \* ChatRequest rows
  chatReq,        \* the requests in flight
  willing     \* history: <<u, v>> when u has sent v a request or accepted one of v's

chatRows == <<blocks, request>>
chatVars == <<chatLive, blocks, request, chatReq, willing>>

Ids  == 1 .. MaxRequests
NoId == 0

\* A row not yet created, and one that was deleted.
FreeRequest    == [status |-> "FREE",    sender |-> NoChatUser, receiver |-> NoChatUser]
DeletedRequest == [status |-> "DELETED", sender |-> NoChatUser, receiver |-> NoChatUser]

ChatRow == {"PENDING", "ACCEPTED", "REJECTED"}      \* the statuses of a row that exists
ChatRequest == {r \in [status : ChatRow, sender : ChatUsers, receiver : ChatUsers] : r.sender # r.receiver}
               \cup {FreeRequest, DeletedRequest}

ChatIdle    == [op |-> "idle", by |-> NoChatUser, to |-> NoChatUser, id |-> NoId]
Answers == {"accept", "reject", "withdraw"}
ChatHandler ==
  {r \in [op : {"ask", "find", "send"} \cup Answers,
          by : ChatUsers, to : ChatUsers, id : Ids \cup {NoId}] :
     /\ r.by # r.to
     /\ r.op \in Answers => r.id \in Ids}

Pair(i) == {request[i].sender, request[i].receiver}

\* The rows between u and v, whoever sent them.
Between(u, v) == {i \in Ids : request[i].status \in ChatRow /\ Pair(i) = {u, v}}

Blocked(u, v) == {<<u, v>>, <<v, u>>} \cap blocks # {}

\* getChatPermission, and assertUsersCanChat that throws unless it grants the chat.
CanChat(u, v) ==
  /\ ~Blocked(u, v)
  /\ \E i \in Between(u, v) : request[i].status = "ACCEPTED"

ChatInit ==
  /\ chatLive = ChatUsers
  /\ blocks = {}
  /\ request = [i \in Ids |-> FreeRequest]
  /\ chatReq = [h \in ChatHandlers |-> ChatIdle]
  /\ willing = {}

--------------------------------------------------------------------------------
StartChat(h, r) == chatReq[h] = ChatIdle /\ chatReq' = [chatReq EXCEPT ![h] = r]
DoneChat(h)     == chatReq' = [chatReq EXCEPT ![h] = ChatIdle]

\* chatRequest.create: the row with the next id.
CreateRequest(r) ==
  \E i \in Ids :
    /\ request[i].status = "FREE"
    /\ \A j \in 1 .. (i - 1) : request[j].status # "FREE"
    /\ request' = [request EXCEPT ![i] = r]

--------------------------------------------------------------------------------
(***************************************************************************)
(* sendRequest awaits four times: the two users, the blocks between them,  *)
(* the latest request between them, and the write.                         *)
(***************************************************************************)
BeginSend(h, u, v) ==
  /\ u # v
  /\ {u, v} \subseteq chatLive
  /\ StartChat(h, [op |-> "ask", by |-> u, to |-> v, id |-> NoId])
  /\ UNCHANGED <<chatLive, chatRows, willing>>

CheckBlocks(h) ==
  /\ chatReq[h].op = "ask"
  /\ ~Blocked(chatReq[h].by, chatReq[h].to)
  /\ chatReq' = [chatReq EXCEPT ![h].op = "find"]
  /\ UNCHANGED <<chatLive, chatRows, willing>>

\* Seeded bug: the latest request is searched in one direction only.
FindLatestSent(h) ==
  LET found == {i \in Between(chatReq[h].by, chatReq[h].to) : request[i].sender = chatReq[h].by}
  IN  /\ chatReq[h].op = "find"
      /\ \E i \in IF found = {} THEN {NoId} ELSE found :
           /\ \A j \in found : j <= i
           /\ i # NoId => request[i].status = "REJECTED"
           /\ chatReq' = [chatReq EXCEPT ![h].op = "send", ![h].id = i]
      /\ UNCHANGED <<chatLive, chatRows, willing>>

\* A request that was rejected or withdrawn is used again; any other is an error.
FindLatest(h) ==
  LET found == Between(chatReq[h].by, chatReq[h].to)
  IN  /\ chatReq[h].op = "find"
      /\ \E i \in IF found = {} THEN {NoId} ELSE found :
           /\ \A j \in found : j <= i
           /\ i # NoId => request[i].status = "REJECTED"
           /\ chatReq' = [chatReq EXCEPT ![h].op = "send", ![h].id = i]
      /\ UNCHANGED <<chatLive, chatRows, willing>>

WriteSend(h) ==
  LET u == chatReq[h].by
      v == chatReq[h].to
      i == chatReq[h].id
      r == [status |-> "PENDING", sender |-> u, receiver |-> v]
  IN  /\ chatReq[h].op = "send"
      /\ \/ i = NoId /\ CreateRequest(r)
         \/ /\ i # NoId
            /\ request[i].status \in ChatRow
            /\ request' = [request EXCEPT ![i] = r]
      /\ willing' = willing \cup {<<u, v>>}
      /\ DoneChat(h)
      /\ UNCHANGED <<chatLive, blocks>>

--------------------------------------------------------------------------------
\* Seeded bug: a request is answered whatever its status.
BeginChatAnswerAnyStatus(h, i, op) ==
  LET r == request[i]
  IN  /\ op \in Answers
      /\ r.status \in ChatRow
      /\ StartChat(h, IF op = "withdraw"
                    THEN [op |-> op, by |-> r.sender,   to |-> r.receiver, id |-> i]
                    ELSE [op |-> op, by |-> r.receiver, to |-> r.sender,   id |-> i])
      /\ UNCHANGED <<chatLive, chatRows, willing>>

\* Seeded bug: the sender may answer too, as if the receiver were not checked.
BeginChatAnswerBySender(h, i, op) ==
  LET r == request[i]
  IN  /\ op \in Answers
      /\ r.status = "PENDING"
      /\ StartChat(h, [op |-> op, by |-> r.sender, to |-> r.receiver, id |-> i])
      /\ UNCHANGED <<chatLive, chatRows, willing>>

(***************************************************************************)
(* acceptRequest and rejectRequest by the receiver, withdrawRequest by the *)
(* sender: each reads the row, which must be pending, and then sets its    *)
(* status by id alone.  to is the other user when the row was read.        *)
(***************************************************************************)
BeginChatAnswer(h, i, op) ==
  LET r == request[i]
  IN  /\ op \in Answers
      /\ r.status = "PENDING"
      /\ StartChat(h, IF op = "withdraw"
                    THEN [op |-> op, by |-> r.sender,   to |-> r.receiver, id |-> i]
                    ELSE [op |-> op, by |-> r.receiver, to |-> r.sender,   id |-> i])
      /\ UNCHANGED <<chatLive, chatRows, willing>>

WriteAnswer(h) ==
  LET i == chatReq[h].id
      accepts == chatReq[h].op = "accept"
  IN  /\ chatReq[h].op \in Answers
      /\ request[i].status \in ChatRow
      /\ request' = [request EXCEPT ![i].status = IF accepts THEN "ACCEPTED" ELSE "REJECTED"]
      /\ willing' = IF accepts THEN willing \cup {<<chatReq[h].by, chatReq[h].to>>} ELSE willing
      /\ DoneChat(h)
      /\ UNCHANGED <<chatLive, blocks>>

\* A request ends without writing: a refusal, a missing row, a failure, a crash.
AbortChat(h) ==
  /\ chatReq[h] # ChatIdle
  /\ DoneChat(h)
  /\ UNCHANGED <<chatLive, chatRows, willing>>

--------------------------------------------------------------------------------
\* blockUser: one transaction; its insertion needs both accounts.
BlockUser(u, v) ==
  /\ u # v
  /\ {u, v} \subseteq chatLive
  /\ blocks' = blocks \cup {<<u, v>>}
  /\ request' = [i \in Ids |-> IF i \in Between(u, v) THEN DeletedRequest ELSE request[i]]
  /\ UNCHANGED <<chatLive, chatReq, willing>>

UnblockUser(u, v) ==
  /\ u # v
  /\ {u, v} \subseteq chatLive
  /\ blocks' = blocks \ {<<u, v>>}
  /\ UNCHANGED <<chatLive, request, chatReq, willing>>

\* The account of u is erased, and in the same transaction the requests and blocks
\* that involve u.
DeleteChatUser(u) ==
  /\ u \in chatLive
  /\ chatLive' = chatLive \ {u}
  /\ blocks' = {p \in blocks : u \notin {p[1], p[2]}}
  /\ request' = [i \in Ids |-> IF u \in Pair(i) THEN DeletedRequest ELSE request[i]]
  /\ UNCHANGED <<chatReq, willing>>

BeginChat(h) ==
  \/ \E u, v \in ChatUsers : BeginSend(h, u, v)
  \/ \E i \in Ids, op \in Answers : BeginChatAnswer(h, i, op)

FinishChat(h) == CheckBlocks(h) \/ FindLatest(h) \/ WriteSend(h) \/ WriteAnswer(h) \/ AbortChat(h)

ChangeBlocks == \E u, v \in ChatUsers : BlockUser(u, v) \/ UnblockUser(u, v)

ChatNext ==
  \/ \E h \in ChatHandlers : BeginChat(h) \/ FinishChat(h)
  \/ ChangeBlocks
  \/ \E u \in ChatUsers : DeleteChatUser(u)

ChatSpec == ChatInit /\ [][ChatNext]_chatVars

\* The same handlers, one request at a time; accounts are deleted at any time.
ChatQuiet == \A h \in ChatHandlers : chatReq[h] = ChatIdle

SerialChatNext ==
  \/ ChatQuiet /\ ((\E h \in ChatHandlers : BeginChat(h)) \/ ChangeBlocks)
  \/ \E h \in ChatHandlers : FinishChat(h)
  \/ \E u \in ChatUsers : DeleteChatUser(u)

SerialChatSpec == ChatInit /\ [][SerialChatNext]_chatVars

--------------------------------------------------------------------------------
(***************************************************************************)
(* Properties.                                                             *)
(***************************************************************************)

\* Types of the rows and of the requests in flight.
ChatTypeOK ==
  /\ chatLive \subseteq ChatUsers
  /\ blocks \subseteq ChatUsers \X ChatUsers
  /\ request \in [Ids -> ChatRequest]
  /\ chatReq \in [ChatHandlers -> ChatHandler \cup {ChatIdle}]
  /\ willing \subseteq ChatUsers \X ChatUsers

\* One request at a time, a pair of users has at most one ChatRequest row, and none
\* while one of them blocks the other: no unique key says so, the reads of
\* sendRequest and the transaction of blockUser do.
OneRequestPerPair ==
  \A i, j \in Ids :
    (request[i].status \in ChatRow /\ request[j].status \in ChatRow /\ Pair(i) = Pair(j))
      => i = j /\ ~Blocked(request[i].sender, request[i].receiver)

\* "Chat stays locked until a new request is sent and accepted" (unblockUser): the
\* step that takes away the last block between two users does not let them chat.
UnblockStaysLocked ==
  [][\A u, v \in ChatUsers : Blocked(u, v) /\ ~Blocked(u, v)' => ~CanChat(u, v)']_chatVars

\* One request at a time, the rows behave as the chat of each pair should.
Chat == INSTANCE PrivateChat WITH
  asked <- {<<request[i].sender, request[i].receiver>> :
              i \in {j \in Ids : request[j].status = "PENDING"}},
  open  <- {Pair(i) : i \in {j \in Ids : request[j].status = "ACCEPTED"}}

ImplementsPrivateChat == Chat!Spec

\* However requests interleave, two users can only chat if each of them, at some time,
\* asked the other or accepted the other's request: also when a late acceptance hits
\* a row that the other side has withdrawn, or that was sent again the other way.
BothWereWilling ==
  \A u, v \in ChatUsers : CanChat(u, v) => {<<u, v>>, <<v, u>>} \subseteq willing
================================================================================
