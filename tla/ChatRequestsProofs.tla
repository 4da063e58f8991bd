--------------------------- MODULE ChatRequestsProofs ---------------------------
(***************************************************************************)
(* Proofs about private chats.  The rows (ChatRequests), for any set of    *)
(* users, any number of requests in flight and any bound on them: first    *)
(* what holds however requests interleave (ChatSpec), then what holds      *)
(* when one request runs at a time (SerialChatSpec).  The page             *)
(* (ChatPage): its list and the permission of the open chat, for any       *)
(* peers, requests on their way and events.                                *)
(***************************************************************************)
EXTENDS ChatRequests, ChatPage, TLAPS

LEMMA NoIdOutside == NoId \notin Ids
  BY ChatBoundAssumption DEF NoId, Ids

\* A request in flight has all its fields.
LEMMA ChatBusyTyped ==
  ASSUME ChatTypeOK, NEW h \in ChatHandlers, chatReq[h].op # "idle"
  PROVE  /\ chatReq[h] \in ChatHandler
         /\ chatReq[h].by \in ChatUsers /\ chatReq[h].to \in ChatUsers /\ chatReq[h].by # chatReq[h].to
         /\ chatReq[h].id \in Ids \cup {NoId}
         /\ chatReq[h].op \in Answers => chatReq[h].id \in Ids
<1>1. chatReq[h] \in ChatHandler
  BY DEF ChatTypeOK, ChatIdle
<1>2. QED
  BY <1>1 DEF ChatHandler

\* A row that exists has a sender and another user as receiver.
LEMMA ChatRowTyped ==
  ASSUME ChatTypeOK, NEW i \in Ids, request[i].status \in ChatRow
  PROVE  /\ request[i] \in [status : ChatRow, sender : ChatUsers, receiver : ChatUsers]
         /\ request[i].sender # request[i].receiver
  BY DEF ChatTypeOK, ChatRequest, FreeRequest, DeletedRequest, ChatRow

\* What the update of a row's status leaves.
LEMMA ChatStatusOnly ==
  ASSUME ChatTypeOK, NEW i \in Ids, request[i].status \in ChatRow, NEW s \in ChatRow,
         request' = [request EXCEPT ![i].status = s]
  PROVE  /\ request' \in [Ids -> ChatRequest]
         /\ request'[i] = [status |-> s, sender |-> request[i].sender,
                           receiver |-> request[i].receiver]
         /\ \A j \in Ids \ {i} : request'[j] = request[j]
<1>1. request'[i] = [request[i] EXCEPT !.status = s]
  BY DEF ChatTypeOK
<1>2. request'[i] = [status |-> s, sender |-> request[i].sender,
                     receiver |-> request[i].receiver]
  BY <1>1, ChatRowTyped
<1>3. request'[i] \in ChatRequest
  BY <1>2, ChatRowTyped DEF ChatRequest
<1>4. QED
  BY <1>2, <1>3 DEF ChatTypeOK

\* What the last await of sendRequest leaves: one row, i, is new or used again.
LEMMA SendWrites ==
  ASSUME ChatTypeOK, NEW h \in ChatHandlers, WriteSend(h)
  PROVE  \E i \in Ids :
           /\ IF chatReq[h].id = NoId THEN request[i].status = "FREE"
                                  ELSE i = chatReq[h].id /\ request[i].status \in ChatRow
           /\ request' \in [Ids -> ChatRequest]
           /\ request'[i] = [status |-> "PENDING", sender |-> chatReq[h].by,
                             receiver |-> chatReq[h].to]
           /\ \A j \in Ids \ {i} : request'[j] = request[j]
<1> DEFINE r == [status |-> "PENDING", sender |-> chatReq[h].by, receiver |-> chatReq[h].to]
<1>1. chatReq[h].by \in ChatUsers /\ chatReq[h].to \in ChatUsers /\ chatReq[h].by # chatReq[h].to
      /\ chatReq[h].id \in Ids \cup {NoId}
  BY ChatBusyTyped DEF WriteSend
<1>2. r \in ChatRequest
  BY <1>1 DEF ChatRequest, ChatRow
<1>3. PICK i \in Ids :
        /\ IF chatReq[h].id = NoId THEN request[i].status = "FREE"
                               ELSE i = chatReq[h].id /\ request[i].status \in ChatRow
        /\ request' = [request EXCEPT ![i] = r]
  BY <1>1 DEF WriteSend, CreateRequest
<1> HIDE DEF r
<1>4. /\ request' \in [Ids -> ChatRequest]
      /\ request'[i] = r
      /\ \A j \in Ids \ {i} : request'[j] = request[j]
  BY <1>2, <1>3 DEF ChatTypeOK
<1>5. QED
  BY <1>3, <1>4 DEF r

LEMMA InitChatTypeOK == ChatInit => ChatTypeOK
  BY DEF ChatInit, ChatTypeOK, ChatRequest, FreeRequest

LEMMA ChatStartTyped ==
  ASSUME ChatTypeOK, NEW h \in ChatHandlers, NEW r \in ChatHandler \cup {ChatIdle}, StartChat(h, r)
  PROVE  chatReq' \in [ChatHandlers -> ChatHandler \cup {ChatIdle}]
  BY DEF StartChat, ChatTypeOK

\* An answer in flight, as it was decided from a pending row.
LEMMA AnswerStarts ==
  ASSUME ChatTypeOK, NEW h \in ChatHandlers, NEW i \in Ids,
         NEW op \in Answers, BeginChatAnswer(h, i, op)
  PROVE  \E r \in ChatHandler :
           /\ StartChat(h, r)
           /\ r.op = op /\ r.id = i
           /\ IF op = "withdraw" THEN r.by = request[i].sender /\ r.to = request[i].receiver
                                 ELSE r.by = request[i].receiver /\ r.to = request[i].sender
<1>1. /\ request[i].sender \in ChatUsers /\ request[i].receiver \in ChatUsers
      /\ request[i].sender # request[i].receiver
  BY ChatRowTyped DEF BeginChatAnswer, ChatRow
<1>2. CASE op = "withdraw"
  <2> DEFINE r == [op |-> op, by |-> request[i].sender, to |-> request[i].receiver, id |-> i]
  <2>1. r \in ChatHandler
    BY <1>1 DEF ChatHandler
  <2>2. StartChat(h, r)
    BY <1>2 DEF BeginChatAnswer
  <2>3. QED
    BY <1>2, <2>1, <2>2
<1>3. CASE op # "withdraw"
  <2> DEFINE r == [op |-> op, by |-> request[i].receiver, to |-> request[i].sender, id |-> i]
  <2>1. r \in ChatHandler
    BY <1>1 DEF ChatHandler
  <2>2. StartChat(h, r)
    BY <1>3 DEF BeginChatAnswer
  <2>3. QED
    BY <1>3, <2>1, <2>2
<1>4. QED
  BY <1>2, <1>3

\* The steps of sendRequest that only read: what is in flight afterwards.
LEMMA SendReads ==
  ASSUME ChatTypeOK, NEW h \in ChatHandlers, CheckBlocks(h) \/ FindLatest(h)
  PROVE  /\ UNCHANGED <<chatLive, chatRows, willing>>
         /\ chatReq' \in [ChatHandlers -> ChatHandler \cup {ChatIdle}]
         /\ \A k \in ChatHandlers \ {h} : chatReq'[k] = chatReq[k]
         /\ chatReq'[h].by = chatReq[h].by /\ chatReq'[h].to = chatReq[h].to
         /\ CheckBlocks(h) => chatReq'[h].op = "find" /\ chatReq'[h].id = chatReq[h].id
         /\ FindLatest(h)  => chatReq'[h].op = "send"
<1>1. chatReq[h] \in ChatHandler
  BY ChatBusyTyped DEF CheckBlocks, FindLatest
<1>2. CASE CheckBlocks(h)
  <2>1. chatReq' = [chatReq EXCEPT ![h] = [chatReq[h] EXCEPT !.op = "find"]]
    BY <1>2 DEF CheckBlocks, ChatTypeOK
  <2>2. [chatReq[h] EXCEPT !.op = "find"] \in ChatHandler
    BY <1>1 DEF ChatHandler, Answers
  <2>3. chatReq'[h] = [chatReq[h] EXCEPT !.op = "find"]
    BY <2>1 DEF ChatTypeOK
  <2>4. QED
    BY <1>1, <1>2, <2>1, <2>2, <2>3 DEF CheckBlocks, FindLatest, ChatTypeOK, ChatHandler
<1>3. CASE FindLatest(h)
  <2>1. PICK i \in Ids \cup {NoId} :
          chatReq' = [chatReq EXCEPT ![h] = [chatReq[h] EXCEPT !.op = "send", !.id = i]]
    BY <1>3 DEF FindLatest, ChatTypeOK, Between
  <2>2. [chatReq[h] EXCEPT !.op = "send", !.id = i] \in ChatHandler
    BY <1>1 DEF ChatHandler, Answers
  <2>3. chatReq'[h] = [chatReq[h] EXCEPT !.op = "send", !.id = i]
    BY <2>1 DEF ChatTypeOK
  <2>4. QED
    BY <1>1, <1>3, <2>1, <2>2, <2>3 DEF CheckBlocks, FindLatest, ChatTypeOK, ChatHandler
<1>4. QED
  BY <1>2, <1>3

\* Blocks and erased accounts only delete rows.
LEMMA RowsDeleted ==
  ASSUME ChatTypeOK,
         ChangeBlocks \/ \E u \in ChatUsers : DeleteChatUser(u)
  PROVE  /\ chatReq' = chatReq /\ willing' = willing
         /\ request' \in [Ids -> ChatRequest]
         /\ \A i \in Ids : request'[i] \in {request[i], DeletedRequest}
<1>1. DeletedRequest \in ChatRequest
  BY DEF ChatRequest
<1>2. QED
  BY <1>1 DEF ChangeBlocks, BlockUser, UnblockUser, DeleteChatUser, ChatTypeOK

LEMMA NextChatTypeOK == ChatTypeOK /\ [ChatNext]_chatVars => ChatTypeOK'
<1> SUFFICES ASSUME ChatTypeOK, ChatNext PROVE ChatTypeOK'
  BY DEF chatVars, chatRows, ChatTypeOK
<1>1. ASSUME NEW h \in ChatHandlers, NEW u \in ChatUsers, NEW v \in ChatUsers, BeginSend(h, u, v)
      PROVE  ChatTypeOK'
  <2>1. [op |-> "ask", by |-> u, to |-> v, id |-> NoId] \in ChatHandler
    BY <1>1 DEF BeginSend, ChatHandler, Answers
  <2>2. chatReq' \in [ChatHandlers -> ChatHandler \cup {ChatIdle}]
    BY <1>1, <2>1, ChatStartTyped DEF BeginSend
  <2>3. QED
    BY <1>1, <2>2 DEF BeginSend, chatRows, ChatTypeOK
<1>2. ASSUME NEW h \in ChatHandlers, NEW i \in Ids, NEW op \in Answers,
             BeginChatAnswer(h, i, op)
      PROVE  ChatTypeOK'
  <2>1. chatReq' \in [ChatHandlers -> ChatHandler \cup {ChatIdle}]
    BY <1>2, AnswerStarts, ChatStartTyped
  <2>2. QED
    BY <1>2, <2>1 DEF BeginChatAnswer, chatRows, ChatTypeOK
<1>3. ASSUME NEW h \in ChatHandlers, CheckBlocks(h) \/ FindLatest(h)
      PROVE  ChatTypeOK'
  BY <1>3, SendReads DEF chatRows, ChatTypeOK
<1>4. ASSUME NEW h \in ChatHandlers, WriteSend(h)
      PROVE  ChatTypeOK'
  <2>1. request' \in [Ids -> ChatRequest]
    BY <1>4, SendWrites
  <2>2. willing' \subseteq ChatUsers \X ChatUsers
    BY <1>4, ChatBusyTyped DEF WriteSend, ChatTypeOK
  <2>3. QED
    BY <1>4, <2>1, <2>2 DEF WriteSend, DoneChat, ChatTypeOK
<1>5. ASSUME NEW h \in ChatHandlers, WriteAnswer(h)
      PROVE  ChatTypeOK'
  <2>1. chatReq[h].id \in Ids
    BY <1>5, ChatBusyTyped DEF WriteAnswer, Answers
  <2>2. request' \in [Ids -> ChatRequest]
    BY <1>5, <2>1, ChatStatusOnly DEF WriteAnswer, ChatRow
  <2>3. willing' \subseteq ChatUsers \X ChatUsers
    BY <1>5, ChatBusyTyped DEF WriteAnswer, Answers, ChatTypeOK
  <2>4. QED
    BY <1>5, <2>2, <2>3 DEF WriteAnswer, DoneChat, ChatTypeOK
<1>6. ASSUME NEW h \in ChatHandlers, AbortChat(h)
      PROVE  ChatTypeOK'
  BY <1>6 DEF AbortChat, DoneChat, chatRows, ChatTypeOK
<1>7. ASSUME ChangeBlocks \/ \E u \in ChatUsers : DeleteChatUser(u)
      PROVE  ChatTypeOK'
  <2>1. chatLive' \subseteq ChatUsers /\ blocks' \subseteq ChatUsers \X ChatUsers
    BY <1>7 DEF ChangeBlocks, BlockUser, UnblockUser, DeleteChatUser, ChatTypeOK
  <2>2. QED
    BY <1>7, <2>1, RowsDeleted DEF ChatTypeOK
<1>8. QED
  BY <1>1, <1>2, <1>3, <1>4, <1>5, <1>6, <1>7 DEF ChatNext, BeginChat, FinishChat

\* The rows and the requests in flight have their types, however requests interleave.
THEOREM ChatTypeCorrect == ChatSpec => []ChatTypeOK
<1>1. QED
  BY InitChatTypeOK, NextChatTypeOK, PTL DEF ChatSpec

--------------------------------------------------------------------------------
(***************************************************************************)
(* Consent.  Whoever sent a row was willing when it was sent, and a row    *)
(* never changes hands to another pair; a request in flight that answers   *)
(* or reuses a row therefore knows that row's pair, whatever the others    *)
(* did to it meanwhile.                                                    *)
(***************************************************************************)
SendersWilling ==
  \A i \in Ids :
    request[i].status \in ChatRow => <<request[i].sender, request[i].receiver>> \in willing

AcceptedWilling ==
  \A i \in Ids :
    request[i].status = "ACCEPTED" => <<request[i].receiver, request[i].sender>> \in willing

\* The row that a request in flight will write has been created, for its two users.
HoldsRow(r) ==
  r.id # NoId => /\ request[r.id].status # "FREE"
                 /\ request[r.id].status \in ChatRow => Pair(r.id) = {r.by, r.to}

AskedBefore(r) == r.op = "accept" => <<r.to, r.by>> \in willing

InFlightKnows == \A h \in ChatHandlers : HoldsRow(chatReq[h]) /\ AskedBefore(chatReq[h])

ChatInv == ChatTypeOK /\ SendersWilling /\ AcceptedWilling /\ InFlightKnows

LEMMA InitChatInv == ChatInit => ChatInv
  BY InitChatTypeOK DEF ChatInit, ChatInv, SendersWilling, AcceptedWilling, InFlightKnows, HoldsRow,
                    AskedBefore, FreeRequest, ChatIdle, ChatRow

\* What a step may do to a row without breaking the rows' part of the invariant, nor
\* what requests in flight know of it.
LEMMA RowsKept ==
  ASSUME ChatInv, willing \subseteq willing',
         \A i \in Ids :
           \/ request'[i] = request[i]
           \/ request'[i] = DeletedRequest
           \/ /\ request'[i].status \in ChatRow
              /\ <<request'[i].sender, request'[i].receiver>> \in willing'
              /\ request'[i].status = "ACCEPTED" =>
                   <<request'[i].receiver, request'[i].sender>> \in willing'
              /\ \/ request[i].status = "FREE"
                 \/ request[i].status \in ChatRow /\ Pair(i)' = Pair(i)
  PROVE  /\ SendersWilling' /\ AcceptedWilling'
         /\ \A r \in ChatHandler \cup {ChatIdle} : HoldsRow(r) /\ AskedBefore(r)
                                             => HoldsRow(r)' /\ AskedBefore(r)'
<1> DEFINE Changed(i) ==
      /\ request'[i].status \in ChatRow
      /\ <<request'[i].sender, request'[i].receiver>> \in willing'
      /\ request'[i].status = "ACCEPTED" =>
           <<request'[i].receiver, request'[i].sender>> \in willing'
      /\ \/ request[i].status = "FREE"
         \/ request[i].status \in ChatRow /\ Pair(i)' = Pair(i)
<1>1. ASSUME NEW i \in Ids
      PROVE  \/ request'[i] = request[i]
             \/ request'[i].status = "DELETED"
             \/ Changed(i)
  BY DEF DeletedRequest
<1>2. ASSUME NEW i \in Ids, request'[i].status \in ChatRow
      PROVE  /\ <<request'[i].sender, request'[i].receiver>> \in willing'
             /\ request'[i].status = "ACCEPTED" =>
                  <<request'[i].receiver, request'[i].sender>> \in willing'
  <2>1. CASE request'[i] = request[i]
    BY <1>2, <2>1 DEF ChatInv, SendersWilling, AcceptedWilling
  <2>2. CASE Changed(i)
    BY <2>2
  <2>3. QED
    BY <1>1, <1>2, <2>1, <2>2 DEF ChatRow
<1>3. SendersWilling' /\ AcceptedWilling'
  BY <1>2 DEF SendersWilling, AcceptedWilling, ChatRow
<1>4. ASSUME NEW r \in ChatHandler \cup {ChatIdle}, HoldsRow(r), AskedBefore(r)
      PROVE  HoldsRow(r)' /\ AskedBefore(r)'
  <2>1. r.id \in Ids \cup {NoId}
    BY DEF ChatHandler, ChatIdle
  <2>2. ASSUME r.id \in Ids, r.id # NoId
        PROVE  /\ request'[r.id].status # "FREE"
               /\ request'[r.id].status \in ChatRow => Pair(r.id)' = {r.by, r.to}
    <3>1. CASE request'[r.id] = request[r.id]
      BY <1>4, <2>2, <3>1 DEF HoldsRow, Pair
    <3>2. CASE Changed(r.id)
      BY <1>4, <2>2, <3>2 DEF HoldsRow, ChatRow
    <3>3. QED
      BY <1>1, <2>2, <3>1, <3>2 DEF ChatRow
  <2>3. HoldsRow(r)'
    BY <2>1, <2>2 DEF HoldsRow
  <2>4. AskedBefore(r)'
    BY <1>4 DEF AskedBefore
  <2>5. QED
    BY <2>3, <2>4
<1>5. QED
  BY <1>3, <1>4

LEMMA NextChatInv == ChatInv /\ [ChatNext]_chatVars => ChatInv'
<1> SUFFICES ASSUME ChatInv, [ChatNext]_chatVars PROVE ChatInv'
  OBVIOUS
<1>0. ChatTypeOK /\ ChatTypeOK' /\ chatReq \in [ChatHandlers -> ChatHandler \cup {ChatIdle}]
  BY NextChatTypeOK DEF ChatInv, ChatTypeOK
<1>1. CASE UNCHANGED chatVars
  BY <1>0, <1>1 DEF chatVars, chatRows, ChatInv, SendersWilling, AcceptedWilling, InFlightKnows, HoldsRow,
                    AskedBefore, Pair
<1>2. ASSUME NEW h \in ChatHandlers, UNCHANGED <<request, willing>>,
             \A k \in ChatHandlers \ {h} : chatReq'[k] = chatReq[k],
             HoldsRow(chatReq'[h]) /\ AskedBefore(chatReq'[h])
      PROVE  ChatInv'
  BY <1>0, <1>2 DEF ChatInv, SendersWilling, AcceptedWilling, InFlightKnows, HoldsRow, AskedBefore,
                    Pair
<1>3. HoldsRow(ChatIdle) /\ AskedBefore(ChatIdle)
  BY DEF HoldsRow, AskedBefore, ChatIdle
<1>4. ASSUME NEW h \in ChatHandlers, NEW u \in ChatUsers, NEW v \in ChatUsers, BeginSend(h, u, v)
      PROVE  ChatInv'
  <2>1. chatReq'[h] = [op |-> "ask", by |-> u, to |-> v, id |-> NoId]
    BY <1>0, <1>4 DEF BeginSend, StartChat
  <2>2. HoldsRow(chatReq'[h]) /\ AskedBefore(chatReq'[h])
    BY <2>1 DEF HoldsRow, AskedBefore
  <2>3. QED
    BY <1>0, <1>2, <1>4, <2>2 DEF BeginSend, StartChat, chatRows
<1>5. ASSUME NEW h \in ChatHandlers, NEW i \in Ids, NEW op \in Answers, BeginChatAnswer(h, i, op)
      PROVE  ChatInv'
  <2>1. PICK r \in ChatHandler :
           /\ StartChat(h, r)
           /\ r.op = op /\ r.id = i
           /\ IF op = "withdraw" THEN r.by = request[i].sender /\ r.to = request[i].receiver
                                 ELSE r.by = request[i].receiver /\ r.to = request[i].sender
    BY <1>0, <1>5, AnswerStarts
  <2>2. chatReq'[h] = r /\ \A k \in ChatHandlers \ {h} : chatReq'[k] = chatReq[k]
    BY <1>0, <2>1 DEF StartChat
  <2>3. request[i].status = "PENDING"
    BY <1>5 DEF BeginChatAnswer
  <2>4. HoldsRow(r)
    BY <2>1, <2>3 DEF HoldsRow, Pair
  <2>5. AskedBefore(r)
    BY <2>1, <2>3 DEF AskedBefore, ChatInv, SendersWilling, ChatRow
  <2>6. QED
    BY <1>2, <1>5, <2>2, <2>4, <2>5 DEF BeginChatAnswer, chatRows
<1>6. ASSUME NEW h \in ChatHandlers, CheckBlocks(h) \/ FindLatest(h)
      PROVE  ChatInv'
  <2>1. HoldsRow(chatReq'[h])
    <3>1. CASE CheckBlocks(h)
      BY <1>0, <1>6, <3>1, SendReads DEF HoldsRow, ChatInv, InFlightKnows, Pair
    <3>2. CASE FindLatest(h)
      <4>1. PICK i \in IF Between(chatReq[h].by, chatReq[h].to) = {} THEN {NoId}
                       ELSE Between(chatReq[h].by, chatReq[h].to) :
              chatReq' = [chatReq EXCEPT ![h].op = "send", ![h].id = i]
        BY <3>2 DEF FindLatest
      <4>2. chatReq'[h].id = i
        BY <1>0, <3>2, <4>1, ChatBusyTyped DEF FindLatest, ChatHandler
      <4>3. chatReq'[h].by = chatReq[h].by /\ chatReq'[h].to = chatReq[h].to
        BY <1>0, <1>6, SendReads
      <4>4. i = NoId \/ (request[i].status \in ChatRow /\ Pair(i) = {chatReq[h].by, chatReq[h].to})
        BY DEF Between
      <4>5. QED
        BY <4>2, <4>3, <4>4 DEF HoldsRow, ChatRow
    <3>3. QED
      BY <1>6, <3>1, <3>2
  <2>2. AskedBefore(chatReq'[h])
    BY <1>0, <1>6, SendReads DEF AskedBefore
  <2>3. QED
    BY <1>0, <1>2, <1>6, <2>1, <2>2, SendReads DEF chatRows
<1>7. ASSUME NEW h \in ChatHandlers, WriteSend(h)
      PROVE  ChatInv'
  <2>1. PICK i \in Ids :
           /\ IF chatReq[h].id = NoId THEN request[i].status = "FREE"
                                  ELSE i = chatReq[h].id /\ request[i].status \in ChatRow
           /\ request'[i] = [status |-> "PENDING", sender |-> chatReq[h].by,
                             receiver |-> chatReq[h].to]
           /\ \A j \in Ids \ {i} : request'[j] = request[j]
    BY <1>0, <1>7, SendWrites
  <2>2. willing' = willing \cup {<<chatReq[h].by, chatReq[h].to>>}
    BY <1>7 DEF WriteSend
  <2>3. request[i].status = "FREE" \/ (request[i].status \in ChatRow /\ Pair(i)' = Pair(i))
    BY <2>1 DEF ChatInv, InFlightKnows, HoldsRow, Pair
  <2>4. \A j \in Ids :
           \/ request'[j] = request[j]
           \/ /\ request'[j].status \in ChatRow
              /\ <<request'[j].sender, request'[j].receiver>> \in willing'
              /\ request'[j].status # "ACCEPTED"
              /\ request[j].status = "FREE" \/ (request[j].status \in ChatRow /\ Pair(j)' = Pair(j))
    BY <2>1, <2>2, <2>3 DEF ChatRow
  <2>5. /\ SendersWilling' /\ AcceptedWilling'
        /\ \A r \in ChatHandler \cup {ChatIdle} : HoldsRow(r) /\ AskedBefore(r)
                                            => HoldsRow(r)' /\ AskedBefore(r)'
    BY <2>2, <2>4, RowsKept
  <2>6. \A k \in ChatHandlers : chatReq'[k] = IF k = h THEN ChatIdle ELSE chatReq[k]
    BY <1>0, <1>7 DEF WriteSend, DoneChat
  <2>7. InFlightKnows'
    BY <1>0, <1>3, <2>5, <2>6, ZenonT(60) DEF InFlightKnows, ChatInv, HoldsRow, AskedBefore, Pair
  <2>8. QED
    BY <1>0, <2>5, <2>7 DEF ChatInv
<1>8. ASSUME NEW h \in ChatHandlers, WriteAnswer(h)
      PROVE  ChatInv'
  <2>0. chatReq[h].id \in Ids
    BY <1>0, <1>8, ChatBusyTyped DEF WriteAnswer, Answers
  <2>i. PICK i \in Ids : i = chatReq[h].id
    BY <2>0
  <2>s. PICK s \in ChatRow : s = IF chatReq[h].op = "accept" THEN "ACCEPTED" ELSE "REJECTED"
    BY DEF ChatRow
  <2>1. i \in Ids /\ i # NoId /\ s \in ChatRow
    BY NoIdOutside
  <2>2. request[i].status \in ChatRow /\ request' = [request EXCEPT ![i].status = s]
    BY <1>8, <2>i, <2>s DEF WriteAnswer
  <2>3. /\ request'[i] = [status |-> s, sender |-> request[i].sender,
                          receiver |-> request[i].receiver]
        /\ \A j \in Ids \ {i} : request'[j] = request[j]
    BY <1>0, <2>1, <2>2, ChatStatusOnly
  <2>4. Pair(i)' = Pair(i) /\ Pair(i) = {chatReq[h].by, chatReq[h].to} /\ AskedBefore(chatReq[h])
    BY <2>i, <2>1, <2>2, <2>3 DEF Pair, ChatInv, InFlightKnows, HoldsRow
  <2>5. willing' = IF chatReq[h].op = "accept" THEN willing \cup {<<chatReq[h].by, chatReq[h].to>>}
                                           ELSE willing
    BY <1>8 DEF WriteAnswer
  <2>6. <<request[i].sender, request[i].receiver>> \in willing
    BY <2>1, <2>2 DEF ChatInv, SendersWilling
  <2>7. s = "ACCEPTED" => <<request[i].receiver, request[i].sender>> \in willing'
    <3>1. ASSUME chatReq[h].op = "accept"
          PROVE  <<chatReq[h].by, chatReq[h].to>> \in willing' /\ <<chatReq[h].to, chatReq[h].by>> \in willing'
      BY <2>s, <2>4, <2>5, <3>1 DEF AskedBefore
    <3>2. \/ request[i].receiver = chatReq[h].by /\ request[i].sender = chatReq[h].to
          \/ request[i].receiver = chatReq[h].to /\ request[i].sender = chatReq[h].by
      BY <1>0, <2>1, <2>2, <2>4, ChatRowTyped DEF Pair
    <3>3. QED
      BY <2>s, <3>1, <3>2
  <2>8. \A j \in Ids :
           \/ request'[j] = request[j]
           \/ /\ request'[j].status \in ChatRow
              /\ <<request'[j].sender, request'[j].receiver>> \in willing'
              /\ request'[j].status = "ACCEPTED" =>
                   <<request'[j].receiver, request'[j].sender>> \in willing'
              /\ request[j].status \in ChatRow /\ Pair(j)' = Pair(j)
    BY <2>1, <2>2, <2>3, <2>4, <2>5, <2>6, <2>7
  <2>9. /\ SendersWilling' /\ AcceptedWilling'
        /\ \A r \in ChatHandler \cup {ChatIdle} : HoldsRow(r) /\ AskedBefore(r)
                                            => HoldsRow(r)' /\ AskedBefore(r)'
    BY <2>5, <2>8, RowsKept
  <2>10. \A k \in ChatHandlers : chatReq'[k] = IF k = h THEN ChatIdle ELSE chatReq[k]
    BY <1>0, <1>8 DEF WriteAnswer, DoneChat
  <2>11. InFlightKnows'
    BY <1>0, <1>3, <2>9, <2>10, ZenonT(60) DEF InFlightKnows, ChatInv, HoldsRow, AskedBefore, Pair
  <2>12. QED
    BY <1>0, <2>9, <2>11 DEF ChatInv
<1>9. ASSUME NEW h \in ChatHandlers, AbortChat(h)
      PROVE  ChatInv'
  <2>1. chatReq'[h] = ChatIdle /\ \A k \in ChatHandlers \ {h} : chatReq'[k] = chatReq[k]
    BY <1>0, <1>9 DEF AbortChat, DoneChat
  <2>2. QED
    BY <1>2, <1>3, <1>9, <2>1 DEF AbortChat, chatRows
<1>10. ASSUME ChangeBlocks \/ \E u \in ChatUsers : DeleteChatUser(u)
       PROVE  ChatInv'
  <2>1. /\ chatReq' = chatReq /\ willing' = willing
        /\ \A i \in Ids : request'[i] \in {request[i], DeletedRequest}
    BY <1>0, <1>10, RowsDeleted
  <2>2. /\ SendersWilling' /\ AcceptedWilling'
        /\ \A r \in ChatHandler \cup {ChatIdle} : HoldsRow(r) /\ AskedBefore(r)
                                            => HoldsRow(r)' /\ AskedBefore(r)'
    BY <2>1, RowsKept
  <2>3. InFlightKnows'
    BY <1>0, <2>1, <2>2 DEF InFlightKnows, ChatInv, HoldsRow, AskedBefore, Pair
  <2>4. QED
    BY <1>0, <2>2, <2>3 DEF ChatInv
<1>11. QED
  BY <1>1, <1>4, <1>5, <1>6, <1>7, <1>8, <1>9, <1>10 DEF ChatNext, BeginChat, FinishChat

LEMMA ChatInvariant == ChatSpec => []ChatInv
<1>1. QED
  BY InitChatInv, NextChatInv, PTL DEF ChatSpec

\* However requests interleave, a private chat is open only between two users each of
\* whom asked the other or accepted the other's request.
THEOREM ChatsAreConsensual == ChatSpec => []BothWereWilling
<1>1. ChatInv => BothWereWilling
  <2> SUFFICES ASSUME ChatInv, NEW u \in ChatUsers, NEW v \in ChatUsers, CanChat(u, v)
               PROVE  {<<u, v>>, <<v, u>>} \subseteq willing
    BY DEF BothWereWilling
  <2>1. PICK i \in Ids : request[i].status = "ACCEPTED" /\ Pair(i) = {u, v}
    BY DEF CanChat, Between
  <2>2. {<<request[i].sender, request[i].receiver>>, <<request[i].receiver, request[i].sender>>}
          \subseteq willing
    BY <2>1 DEF ChatInv, SendersWilling, AcceptedWilling, ChatRow
  <2>3. \/ request[i].receiver = u /\ request[i].sender = v
        \/ request[i].receiver = v /\ request[i].sender = u
    BY <2>1, ChatRowTyped DEF Pair, ChatInv, ChatRow
  <2>4. QED
    BY <2>2, <2>3
<1>2. QED
  BY <1>1, ChatInvariant, PTL

--------------------------------------------------------------------------------
(***************************************************************************)
(* One request at a time.  What sendRequest read of the pair, and an       *)
(* answer of its row, still fits when it writes: in between, accounts may  *)
(* have been deleted, but nothing was blocked, sent or answered.           *)
(***************************************************************************)
OneChatInFlight == \A h, k \in ChatHandlers : chatReq[h] # ChatIdle /\ chatReq[k] # ChatIdle => h = k

NoTwins ==
  \A i, j \in Ids :
    (request[i].status \in ChatRow /\ request[j].status \in ChatRow /\ Pair(i) = Pair(j)) => i = j

NoRowWhileBlocked ==
  \A i \in Ids : request[i].status \in ChatRow => ~Blocked(request[i].sender, request[i].receiver)

ChatPlanFits(r) ==
  /\ r.op \in {"find", "send"} => ~Blocked(r.by, r.to)
  /\ r.op = "send" /\ r.id = NoId => Between(r.by, r.to) = {}
  /\ r.op = "send" /\ r.id # NoId =>
       (request[r.id].status \in ChatRow => request[r.id].status = "REJECTED")
  /\ r.op \in Answers =>
       (request[r.id].status \in ChatRow => request[r.id].status = "PENDING")

ChatPlansFit == \A h \in ChatHandlers : ChatPlanFits(chatReq[h])

SerialChatInv == NoTwins /\ NoRowWhileBlocked /\ OneChatInFlight /\ ChatPlansFit

LEMMA SerialChatStep == [SerialChatNext]_chatVars => [ChatNext]_chatVars
  BY DEF SerialChatNext, ChatNext

LEMMA ChatIdleFits == ChatPlanFits(ChatIdle)
  BY DEF ChatPlanFits, ChatIdle, Answers

LEMMA InitSerialChatInv == ChatInit => SerialChatInv
  BY DEF ChatInit, SerialChatInv, NoTwins, NoRowWhileBlocked, OneChatInFlight, ChatPlansFit, ChatPlanFits, ChatIdle,
         Answers, FreeRequest, ChatRow

\* When the request in flight is the only one and ends, nothing is left to fit.
LEMMA EndLeavesQuiet ==
  ASSUME ChatTypeOK, OneChatInFlight, NEW h \in ChatHandlers, chatReq[h] # ChatIdle, DoneChat(h)
  PROVE  OneChatInFlight' /\ ChatPlansFit'
<1>1. \A k \in ChatHandlers : chatReq'[k] = ChatIdle
  BY DEF DoneChat, OneChatInFlight, ChatTypeOK
<1>2. OneChatInFlight'
  BY <1>1 DEF OneChatInFlight, ChatIdle
<1>3. ChatPlansFit'
  BY <1>1 DEF ChatPlansFit, ChatPlanFits, ChatIdle, Answers
<1>4. QED
  BY <1>2, <1>3

\* A read that fits, when no other request is in flight.
LEMMA ReadFits ==
  ASSUME SerialChatInv, NEW h \in ChatHandlers, UNCHANGED <<blocks, request>>,
         \A k \in ChatHandlers \ {h} : chatReq[k] = ChatIdle /\ chatReq'[k] = ChatIdle,
         ChatPlanFits(chatReq'[h])
  PROVE  SerialChatInv'
<1>1. NoTwins' /\ NoRowWhileBlocked'
  BY DEF SerialChatInv, NoTwins, NoRowWhileBlocked, Pair, Blocked
<1>2. OneChatInFlight'
  BY DEF OneChatInFlight, ChatIdle
<1>3. \A k \in ChatHandlers : ChatPlanFits(chatReq'[k])
  BY ChatIdleFits
<1>4. ChatPlansFit'
  BY <1>3 DEF ChatPlansFit, ChatPlanFits, Between, Pair, Blocked
<1>5. QED
  BY <1>1, <1>2, <1>4 DEF SerialChatInv

\* Deleting rows and taking away blocks disturbs nothing.
LEMMA ShrinkFits ==
  ASSUME ChatInv, SerialChatInv, chatReq' = chatReq, blocks' \subseteq blocks,
         \A i \in Ids : request'[i] \in {request[i], DeletedRequest}
  PROVE  SerialChatInv'
<1>1. \A i \in Ids : request'[i].status \in ChatRow => request'[i] = request[i]
  BY DEF DeletedRequest, ChatRow
<1>2. \A u, v : ~Blocked(u, v) => ~Blocked(u, v)'
  BY DEF Blocked
<1>3. NoTwins'
  BY <1>1 DEF SerialChatInv, NoTwins, Pair
<1>4. NoRowWhileBlocked'
  BY <1>1, <1>2 DEF SerialChatInv, NoRowWhileBlocked
<1>5. OneChatInFlight'
  BY DEF SerialChatInv, OneChatInFlight, ChatIdle
<1>6. \A u, v : Between(u, v) = {} => Between(u, v)' = {}
  BY <1>1 DEF Between, Pair
<1>7. ASSUME NEW h \in ChatHandlers PROVE ChatPlanFits(chatReq[h])'
  <2>1. PICK r \in ChatHandler \cup {ChatIdle} : r = chatReq[h] /\ r = chatReq'[h]
    BY DEF ChatInv, ChatTypeOK
  <2>2. ChatPlanFits(r)
    BY <2>1 DEF SerialChatInv, ChatPlansFit
  <2>3. r.id \in Ids \cup {NoId} /\ (r.op \in Answers => r.id \in Ids)
    BY DEF ChatHandler, ChatIdle, Answers
  <2>4. ChatPlanFits(r)'
    BY <1>1, <1>2, <1>6, <2>2, <2>3 DEF ChatPlanFits
  <2>5. QED
    BY <2>1, <2>4 DEF ChatPlanFits
<1>8. QED
  BY <1>3, <1>4, <1>5, <1>7 DEF SerialChatInv, ChatPlansFit

\* The row that sendRequest writes is the only one of its pair.
LEMMA SendIsAlone ==
  ASSUME ChatInv, SerialChatInv, NEW h \in ChatHandlers, WriteSend(h)
  PROVE  \E i \in Ids :
           /\ request[i].status \in {"FREE", "REJECTED"}
           /\ request'[i] = [status |-> "PENDING", sender |-> chatReq[h].by,
                             receiver |-> chatReq[h].to]
           /\ \A j \in Ids \ {i} :
                /\ request'[j] = request[j]
                /\ request[j].status \in ChatRow => Pair(j) # {chatReq[h].by, chatReq[h].to}
           /\ ~Blocked(chatReq[h].by, chatReq[h].to)
<1>1. PICK i \in Ids :
           /\ IF chatReq[h].id = NoId THEN request[i].status = "FREE"
                                  ELSE i = chatReq[h].id /\ request[i].status \in ChatRow
           /\ request'[i] = [status |-> "PENDING", sender |-> chatReq[h].by,
                             receiver |-> chatReq[h].to]
           /\ \A j \in Ids \ {i} : request'[j] = request[j]
  BY SendWrites DEF ChatInv
<1>2. chatReq[h].op = "send"
  BY DEF WriteSend
<1>3. ChatPlanFits(chatReq[h]) /\ HoldsRow(chatReq[h])
  BY DEF SerialChatInv, ChatPlansFit, ChatInv, InFlightKnows
<1>4. request[i].status \in {"FREE", "REJECTED"}
  BY <1>1, <1>2, <1>3 DEF ChatPlanFits
<1>5. ASSUME NEW j \in Ids \ {i}, request[j].status \in ChatRow
      PROVE  Pair(j) # {chatReq[h].by, chatReq[h].to}
  <2>1. CASE chatReq[h].id = NoId
    BY <1>2, <1>3, <1>5, <2>1 DEF ChatPlanFits, Between
  <2>2. CASE chatReq[h].id # NoId
    <3>1. i = chatReq[h].id /\ request[i].status \in ChatRow /\ Pair(i) = {chatReq[h].by, chatReq[h].to}
      BY <1>1, <1>3, <2>2 DEF HoldsRow
    <3>2. QED
      BY <1>5, <3>1 DEF SerialChatInv, NoTwins
  <2>3. QED
    BY <2>1, <2>2
<1>6. ~Blocked(chatReq[h].by, chatReq[h].to)
  BY <1>2, <1>3 DEF ChatPlanFits
<1>7. QED
  BY <1>1, <1>4, <1>5, <1>6

\* The row that an answer writes was pending.
LEMMA AnswerIsDue ==
  ASSUME ChatInv, SerialChatInv, NEW h \in ChatHandlers, WriteAnswer(h)
  PROVE  \E i \in Ids, s \in {"ACCEPTED", "REJECTED"} :
           /\ request[i].status = "PENDING"
           /\ request'[i] = [status |-> s, sender |-> request[i].sender,
                             receiver |-> request[i].receiver]
           /\ \A j \in Ids \ {i} : request'[j] = request[j]
<1>1. chatReq[h].id \in Ids /\ chatReq[h].op \in Answers
  BY ChatBusyTyped DEF WriteAnswer, Answers, ChatInv
<1>2. PICK i \in Ids : i = chatReq[h].id
  BY <1>1
<1>3. PICK s \in {"ACCEPTED", "REJECTED"} :
         s = IF chatReq[h].op = "accept" THEN "ACCEPTED" ELSE "REJECTED"
  OBVIOUS
<1>4. request[i].status \in ChatRow /\ request' = [request EXCEPT ![i].status = s]
  BY <1>2, <1>3 DEF WriteAnswer
<1>5. request[i].status = "PENDING"
  BY <1>1, <1>2, <1>4 DEF SerialChatInv, ChatPlansFit, ChatPlanFits
<1>6. s \in ChatRow
  BY DEF ChatRow
<1>7. QED
  BY <1>4, <1>5, <1>6, ChatStatusOnly DEF ChatInv

LEMMA NextSerialChatInv == ChatInv /\ SerialChatInv /\ [SerialChatNext]_chatVars => SerialChatInv'
<1> SUFFICES ASSUME ChatInv, SerialChatInv, [SerialChatNext]_chatVars PROVE SerialChatInv'
  OBVIOUS
<1>0. ChatTypeOK /\ OneChatInFlight
  BY DEF ChatInv, SerialChatInv
<1>1. CASE UNCHANGED chatVars
  <2>1. /\ chatReq' = chatReq /\ blocks' \subseteq blocks
        /\ \A i \in Ids : request'[i] \in {request[i], DeletedRequest}
    BY <1>1 DEF chatVars, chatRows
  <2>2. QED
    BY <2>1, ShrinkFits
<1>2. ASSUME NEW h \in ChatHandlers, ChatQuiet, BeginChat(h) PROVE SerialChatInv'
  <2>1. ASSUME NEW u \in ChatUsers, NEW v \in ChatUsers, BeginSend(h, u, v) PROVE SerialChatInv'
    <3>1. /\ chatReq'[h] = [op |-> "ask", by |-> u, to |-> v, id |-> NoId]
          /\ \A k \in ChatHandlers \ {h} : chatReq[k] = ChatIdle /\ chatReq'[k] = ChatIdle
      BY <1>0, <1>2, <2>1 DEF BeginSend, StartChat, ChatQuiet, ChatTypeOK
    <3>2. ChatPlanFits(chatReq'[h])
      BY <3>1 DEF ChatPlanFits, Answers
    <3>3. UNCHANGED <<blocks, request>>
      BY <2>1 DEF BeginSend, chatRows
    <3>4. QED
      BY <3>1, <3>2, <3>3, ReadFits
  <2>2. ASSUME NEW i \in Ids, NEW op \in Answers, BeginChatAnswer(h, i, op) PROVE SerialChatInv'
    <3>1. PICK r \in ChatHandler : StartChat(h, r) /\ r.op = op /\ r.id = i
      BY <1>0, <2>2, AnswerStarts
    <3>2. /\ chatReq'[h] = r
          /\ \A k \in ChatHandlers \ {h} : chatReq[k] = ChatIdle /\ chatReq'[k] = ChatIdle
      BY <1>0, <1>2, <3>1 DEF StartChat, ChatQuiet, ChatTypeOK
    <3>3. request[i].status = "PENDING" /\ UNCHANGED <<blocks, request>>
      BY <2>2 DEF BeginChatAnswer, chatRows
    <3>4. ChatPlanFits(chatReq'[h])
      BY <3>1, <3>2, <3>3 DEF ChatPlanFits, Answers
    <3>5. QED
      BY <3>2, <3>3, <3>4, ReadFits
  <2>3. QED
    BY <1>2, <2>1, <2>2 DEF BeginChat
<1>3. ASSUME NEW h \in ChatHandlers, CheckBlocks(h) \/ FindLatest(h) PROVE SerialChatInv'
  <2>1. /\ UNCHANGED <<blocks, request>>
        /\ \A k \in ChatHandlers \ {h} : chatReq'[k] = chatReq[k]
        /\ chatReq'[h].by = chatReq[h].by /\ chatReq'[h].to = chatReq[h].to
    BY <1>0, <1>3, SendReads DEF chatRows
  <2>2. chatReq[h] # ChatIdle
    BY <1>3 DEF CheckBlocks, FindLatest, ChatIdle
  <2>3. \A k \in ChatHandlers \ {h} : chatReq[k] = ChatIdle /\ chatReq'[k] = ChatIdle
    BY <1>0, <2>1, <2>2 DEF OneChatInFlight
  <2>4. ChatPlanFits(chatReq[h])
    BY DEF SerialChatInv, ChatPlansFit
  <2>5. CASE CheckBlocks(h)
    <3>1. chatReq'[h].op = "find"
      BY <1>0, <2>5, SendReads
    <3>2. ChatPlanFits(chatReq'[h])
      BY <2>1, <2>5, <3>1 DEF ChatPlanFits, CheckBlocks, Answers
    <3>3. QED
      BY <2>1, <2>3, <3>2, ReadFits
  <2>6. CASE FindLatest(h)
    <3>1. PICK i \in IF Between(chatReq[h].by, chatReq[h].to) = {} THEN {NoId}
                     ELSE Between(chatReq[h].by, chatReq[h].to) :
            /\ i # NoId => request[i].status = "REJECTED"
            /\ chatReq' = [chatReq EXCEPT ![h].op = "send", ![h].id = i]
      BY <2>6 DEF FindLatest
    <3>2. chatReq[h] \in ChatHandler /\ chatReq[h].op = "find"
      BY <1>0, <2>6, ChatBusyTyped DEF FindLatest
    <3>3. chatReq'[h].op = "send" /\ chatReq'[h].id = i
      BY <1>0, <3>1, <3>2 DEF ChatTypeOK, ChatHandler
    <3>4. i = NoId => Between(chatReq[h].by, chatReq[h].to) = {}
      BY <3>1, NoIdOutside DEF Between
    <3>5. ChatPlanFits(chatReq'[h])
      BY <2>1, <2>4, <3>1, <3>2, <3>3, <3>4 DEF ChatPlanFits, Answers
    <3>6. QED
      BY <2>1, <2>3, <3>5, ReadFits
  <2>7. QED
    BY <1>3, <2>5, <2>6
<1>4. ASSUME NEW h \in ChatHandlers, WriteSend(h) PROVE SerialChatInv'
  <2>1. PICK i \in Ids :
           /\ request'[i] = [status |-> "PENDING", sender |-> chatReq[h].by,
                             receiver |-> chatReq[h].to]
           /\ \A j \in Ids \ {i} :
                /\ request'[j] = request[j]
                /\ request[j].status \in ChatRow => Pair(j) # {chatReq[h].by, chatReq[h].to}
           /\ ~Blocked(chatReq[h].by, chatReq[h].to)
    BY <1>4, SendIsAlone
  <2>2. blocks' = blocks /\ DoneChat(h) /\ chatReq[h] # ChatIdle
    BY <1>4 DEF WriteSend, ChatIdle
  <2>3. OneChatInFlight' /\ ChatPlansFit'
    BY <1>0, <2>2, EndLeavesQuiet
  <2>4. /\ Pair(i)' = {chatReq[h].by, chatReq[h].to}
        /\ \A j \in Ids \ {i} : Pair(j)' = Pair(j)
    BY <2>1 DEF Pair
  <2>5. ASSUME NEW j \in Ids, NEW k \in Ids, request'[j].status \in ChatRow,
               request'[k].status \in ChatRow, Pair(j)' = Pair(k)'
        PROVE  j = k
    BY <2>1, <2>4, <2>5 DEF SerialChatInv, NoTwins
  <2>6. NoTwins'
    BY <2>5 DEF NoTwins
  <2>7. NoRowWhileBlocked'
    BY <2>1, <2>2 DEF SerialChatInv, NoRowWhileBlocked, Blocked
  <2>8. QED
    BY <2>3, <2>6, <2>7 DEF SerialChatInv
<1>5. ASSUME NEW h \in ChatHandlers, WriteAnswer(h) PROVE SerialChatInv'
  <2>1. PICK i \in Ids, s \in {"ACCEPTED", "REJECTED"} :
           /\ request[i].status = "PENDING"
           /\ request'[i] = [status |-> s, sender |-> request[i].sender,
                             receiver |-> request[i].receiver]
           /\ \A j \in Ids \ {i} : request'[j] = request[j]
    BY <1>5, AnswerIsDue
  <2>2. \A j \in Ids : /\ request'[j].status \in ChatRow => request[j].status \in ChatRow
                       /\ request'[j].sender = request[j].sender
                       /\ request'[j].receiver = request[j].receiver
    BY <2>1 DEF ChatRow
  <2>3. blocks' = blocks /\ DoneChat(h) /\ chatReq[h] # ChatIdle
    BY <1>5 DEF WriteAnswer, ChatIdle, Answers
  <2>4. OneChatInFlight' /\ ChatPlansFit'
    BY <1>0, <2>3, EndLeavesQuiet
  <2>5. NoTwins' /\ NoRowWhileBlocked'
    BY <2>2, <2>3 DEF SerialChatInv, NoTwins, NoRowWhileBlocked, Blocked, Pair
  <2>6. QED
    BY <2>4, <2>5 DEF SerialChatInv
<1>6. ASSUME NEW h \in ChatHandlers, AbortChat(h) PROVE SerialChatInv'
  <2>1. OneChatInFlight' /\ ChatPlansFit'
    BY <1>0, <1>6, EndLeavesQuiet DEF AbortChat
  <2>2. NoTwins' /\ NoRowWhileBlocked'
    BY <1>6 DEF AbortChat, chatRows, SerialChatInv, NoTwins, NoRowWhileBlocked, Blocked, Pair
  <2>3. QED
    BY <2>1, <2>2 DEF SerialChatInv
<1>7. ASSUME ChatQuiet, NEW u \in ChatUsers, NEW v \in ChatUsers, BlockUser(u, v) PROVE SerialChatInv'
  <2>1. \A k \in ChatHandlers : chatReq'[k] = ChatIdle
    BY <1>7 DEF ChatQuiet, BlockUser
  <2>2. OneChatInFlight' /\ ChatPlansFit'
    BY <2>1 DEF OneChatInFlight, ChatPlansFit, ChatPlanFits, ChatIdle, Answers
  <2>3. ASSUME NEW i \in Ids, request'[i].status \in ChatRow
        PROVE  request'[i] = request[i] /\ Pair(i) # {u, v}
    BY <1>7, <2>3 DEF BlockUser, Between, DeletedRequest, ChatRow
  <2>4. NoTwins'
    BY <2>3 DEF SerialChatInv, NoTwins, Pair
  <2>5. NoRowWhileBlocked'
    BY <1>7, <2>3 DEF SerialChatInv, NoRowWhileBlocked, Blocked, BlockUser, Pair
  <2>6. QED
    BY <2>2, <2>4, <2>5 DEF SerialChatInv
<1>8. ASSUME NEW u \in ChatUsers, NEW v \in ChatUsers, UnblockUser(u, v) PROVE SerialChatInv'
  <2>1. /\ chatReq' = chatReq /\ blocks' \subseteq blocks
        /\ \A i \in Ids : request'[i] \in {request[i], DeletedRequest}
    BY <1>8 DEF UnblockUser
  <2>2. QED
    BY <2>1, ShrinkFits
<1>9. ASSUME NEW u \in ChatUsers, DeleteChatUser(u) PROVE SerialChatInv'
  <2>1. /\ chatReq' = chatReq /\ blocks' \subseteq blocks
        /\ \A i \in Ids : request'[i] \in {request[i], DeletedRequest}
    BY <1>9 DEF DeleteChatUser
  <2>2. QED
    BY <2>1, ShrinkFits
<1>10. QED
  BY <1>1, <1>2, <1>3, <1>4, <1>5, <1>6, <1>7, <1>8, <1>9 DEF SerialChatNext, FinishChat, ChangeBlocks

LEMMA SerialChatInvariant == SerialChatSpec => [](ChatInv /\ SerialChatInv)
<1>1. ChatInit => ChatInv /\ SerialChatInv
  BY InitChatInv, InitSerialChatInv
<1>2. ChatInv /\ SerialChatInv /\ [SerialChatNext]_chatVars => (ChatInv /\ SerialChatInv)'
  BY NextChatInv, SerialChatStep, NextSerialChatInv
<1>3. QED
  BY <1>1, <1>2, PTL DEF SerialChatSpec

\* One request at a time, a pair of users has one ChatRequest row at most, and none while
\* one of them blocks the other.
THEOREM OneRowPerPair == SerialChatSpec => []OneRequestPerPair
<1>1. SerialChatInv => OneRequestPerPair
  BY DEF SerialChatInv, NoTwins, NoRowWhileBlocked, OneRequestPerPair
<1>2. QED
  BY <1>1, SerialChatInvariant, PTL

\* One request at a time, lifting the last block between two users leaves their chat
\* locked.
THEOREM UnblockingOpensNothing == SerialChatSpec => UnblockStaysLocked
<1> DEFINE Locked == \A u, v \in ChatUsers : Blocked(u, v) /\ ~Blocked(u, v)' => ~CanChat(u, v)'
<1>1. ChatInv /\ SerialChatInv /\ [SerialChatNext]_chatVars => [Locked]_chatVars
  <2> SUFFICES ASSUME ChatInv, SerialChatInv, SerialChatNext, NEW u \in ChatUsers, NEW v \in ChatUsers,
                      Blocked(u, v), ~Blocked(u, v)'
               PROVE  ~CanChat(u, v)'
    OBVIOUS
  <2>1. ~(blocks \subseteq blocks')
    BY DEF Blocked
  <2>2. (\E x, y \in ChatUsers : UnblockUser(x, y)) \/ (\E x \in ChatUsers : DeleteChatUser(x))
    BY <2>1 DEF SerialChatNext, BeginChat, BeginSend, BeginChatAnswer, FinishChat, CheckBlocks, FindLatest,
                WriteSend, WriteAnswer, AbortChat, ChangeBlocks, BlockUser, chatRows
  <2>3. \A i \in Ids : request'[i] \in {request[i], DeletedRequest}
    BY <2>2 DEF UnblockUser, DeleteChatUser, ChatInv, ChatTypeOK
  <2>4. SUFFICES ASSUME NEW i \in Ids, request'[i].status = "ACCEPTED", Pair(i)' = {u, v}
                 PROVE  FALSE
    BY DEF CanChat, Between
  <2>5. request'[i] = request[i]
    BY <2>3, <2>4 DEF DeletedRequest
  <2>6. Pair(i) = {u, v} /\ request[i].status \in ChatRow
    BY <2>4, <2>5 DEF Pair, ChatRow
  <2>7. ~Blocked(request[i].sender, request[i].receiver)
    BY <2>6 DEF SerialChatInv, NoRowWhileBlocked
  <2>8. QED
    BY <2>6, <2>7 DEF Pair, Blocked
<1>2. QED
  BY <1>1, SerialChatInvariant, PTL DEF SerialChatSpec, UnblockStaysLocked

--------------------------------------------------------------------------------
(***************************************************************************)
(* The abstract chat: steps that write no row and no block stutter, each   *)
(* of the others is one action of PrivateChat.                             *)
(***************************************************************************)
Asked == {<<request[i].sender, request[i].receiver>> :
            i \in {j \in Ids : request[j].status = "PENDING"}}
Open  == {Pair(i) : i \in {j \in Ids : request[j].status = "ACCEPTED"}}

ChatVars == <<chatLive, blocks, Asked, Open>>

LEMMA SameRows ==
  ASSUME UNCHANGED <<chatLive, chatRows>>
  PROVE  UNCHANGED ChatVars
  BY DEF ChatVars, chatRows, Asked, Open, Pair

LEMMA ChatSend ==
  ASSUME ChatInv, SerialChatInv, NEW h \in ChatHandlers, WriteSend(h)
  PROVE  \E u, v \in ChatUsers : u # v /\ Chat!Ask(u, v)
<1>1. PICK u \in ChatUsers, v \in ChatUsers : u = chatReq[h].by /\ v = chatReq[h].to /\ u # v
  BY ChatBusyTyped DEF WriteSend, ChatInv
<1>2. PICK i \in Ids :
           /\ request[i].status \in {"FREE", "REJECTED"}
           /\ request'[i] = [status |-> "PENDING", sender |-> u, receiver |-> v]
           /\ \A j \in Ids \ {i} :
                /\ request'[j] = request[j]
                /\ request[j].status \in ChatRow => Pair(j) # {u, v}
           /\ ~Blocked(u, v)
  BY <1>1, SendIsAlone
<1>3. \A j \in Ids : request[j].status \in {"PENDING", "ACCEPTED"} => Pair(j) # {u, v}
  BY <1>2 DEF ChatRow
<1>4. {<<u, v>>, <<v, u>>} \cap (blocks \cup Asked) = {}
  BY <1>2, <1>3 DEF Blocked, Asked, Pair
<1>5. {u, v} \notin Open
  BY <1>3 DEF Open
<1>6. Asked' = Asked \cup {<<u, v>>}
  <2>1. \A p : p \in Asked' <=> \E j \in Ids : /\ request'[j].status = "PENDING"
                                              /\ p = <<request'[j].sender, request'[j].receiver>>
    BY DEF Asked
  <2>2. \A p : p \in Asked <=> \E j \in Ids : /\ request[j].status = "PENDING"
                                             /\ p = <<request[j].sender, request[j].receiver>>
    BY DEF Asked
  <2>3. \A p : p \in Asked' <=> p \in Asked \cup {<<u, v>>}
    BY <1>2, <2>1, <2>2
  <2>4. QED
    BY <2>3
<1>7. Open' = Open
  <2>1. \A j \in Ids : /\ request'[j].status = "ACCEPTED" <=> request[j].status = "ACCEPTED"
                       /\ request[j].status = "ACCEPTED" => Pair(j)' = Pair(j)
    BY <1>2 DEF Pair
  <2>2. QED
    BY <2>1 DEF Open
<1>8. UNCHANGED <<chatLive, blocks>>
  BY DEF WriteSend
<1>9. Chat!Ask(u, v)
  BY <1>4, <1>5, <1>6, <1>7, <1>8 DEF Chat!Ask, Chat!Parted, Asked, Open
<1>10. QED
  BY <1>1, <1>9

LEMMA ChatAnswer ==
  ASSUME ChatInv, SerialChatInv, NEW h \in ChatHandlers, WriteAnswer(h)
  PROVE  \E u, v \in ChatUsers : u # v /\ Chat!Answer(u, v)
<1>1. PICK i \in Ids, s \in {"ACCEPTED", "REJECTED"} :
           /\ request[i].status = "PENDING"
           /\ request'[i] = [status |-> s, sender |-> request[i].sender,
                             receiver |-> request[i].receiver]
           /\ \A j \in Ids \ {i} : request'[j] = request[j]
  BY AnswerIsDue
<1>2. PICK u \in ChatUsers, v \in ChatUsers : u = request[i].sender /\ v = request[i].receiver /\ u # v
  BY <1>1, ChatRowTyped DEF ChatInv, ChatRow
<1>3. <<u, v>> \in Asked
  BY <1>1, <1>2 DEF Asked
<1>4. ASSUME NEW j \in Ids \ {i}, request[j].status = "PENDING"
      PROVE  <<request[j].sender, request[j].receiver>> # <<u, v>>
  BY <1>1, <1>2, <1>4 DEF SerialChatInv, NoTwins, Pair, ChatRow
<1>5. Asked' = Asked \ {<<u, v>>}
  <2>1. \A p : p \in Asked' <=> \E j \in Ids : /\ request'[j].status = "PENDING"
                                              /\ p = <<request'[j].sender, request'[j].receiver>>
    BY DEF Asked
  <2>2. \A p : p \in Asked <=> \E j \in Ids : /\ request[j].status = "PENDING"
                                             /\ p = <<request[j].sender, request[j].receiver>>
    BY DEF Asked
  <2>3. \A p : p \in Asked' <=> p \in Asked \ {<<u, v>>}
    BY <1>1, <1>2, <1>4, <2>1, <2>2
  <2>4. QED
    BY <2>3
<1>6. \A j \in Ids : Pair(j)' = Pair(j)
  BY <1>1 DEF Pair
<1>7. Open' \in {Open, Open \cup {{u, v}}}
  <2>1. Pair(i) = {u, v}
    BY <1>2 DEF Pair
  <2>2. CASE s = "ACCEPTED"
    <3>1. \A j \in Ids : request'[j].status = "ACCEPTED"
                           <=> request[j].status = "ACCEPTED" \/ j = i
      BY <1>1, <2>2
    <3>2. \A p : p \in Open' <=> p \in Open \cup {{u, v}}
      BY <1>6, <2>1, <3>1 DEF Open
    <3>3. QED
      BY <3>2
  <2>3. CASE s # "ACCEPTED"
    <3>1. \A j \in Ids : request'[j].status = "ACCEPTED" <=> request[j].status = "ACCEPTED"
      BY <1>1, <2>3
    <3>2. \A p : p \in Open' <=> p \in Open
      BY <1>6, <3>1 DEF Open
    <3>3. QED
      BY <3>2
  <2>4. QED
    BY <2>2, <2>3
<1>8. UNCHANGED <<chatLive, blocks>>
  BY DEF WriteAnswer
<1>9. Chat!Answer(u, v)
  BY <1>3, <1>5, <1>7, <1>8 DEF Chat!Answer, Asked, Open
<1>10. QED
  BY <1>2, <1>9

LEMMA ChatBlock ==
  ASSUME ChatInv, NEW u \in ChatUsers, NEW v \in ChatUsers, BlockUser(u, v)
  PROVE  Chat!Block(u, v)
<1>1. ASSUME NEW i \in Ids
      PROVE  IF request[i].status \in ChatRow /\ Pair(i) = {u, v}
               THEN request'[i] = DeletedRequest ELSE request'[i] = request[i]
  BY <1>1 DEF BlockUser, Between
<1>2. \A i \in Ids : request'[i].status = "PENDING"
                       => request'[i] = request[i] /\ Pair(i) # {u, v}
  BY <1>1 DEF DeletedRequest, ChatRow
<1>3. \A i \in Ids : request[i].status = "PENDING" /\ Pair(i) # {u, v}
                       => request'[i] = request[i]
  BY <1>1
<1>4. Asked' = Asked \ {<<u, v>>, <<v, u>>}
  <2>1. \A p : p \in Asked' <=> \E j \in Ids : /\ request'[j].status = "PENDING"
                                              /\ p = <<request'[j].sender, request'[j].receiver>>
    BY DEF Asked
  <2>2. \A p : p \in Asked <=> \E j \in Ids : /\ request[j].status = "PENDING"
                                             /\ p = <<request[j].sender, request[j].receiver>>
    BY DEF Asked
  <2>3. \A j \in Ids : Pair(j) = {u, v} <=>
                         <<request[j].sender, request[j].receiver>> \in {<<u, v>>, <<v, u>>}
    BY DEF Pair
  <2>4. \A p : p \in Asked' <=> p \in Asked \ {<<u, v>>, <<v, u>>}
    BY <1>2, <1>3, <2>1, <2>2, <2>3
  <2>5. QED
    BY <2>4
<1>5. \A i \in Ids : request'[i].status = "ACCEPTED" <=>
                       request[i].status = "ACCEPTED" /\ Pair(i) # {u, v}
  BY <1>1 DEF DeletedRequest, ChatRow
<1>6. \A i \in Ids : request'[i].status = "ACCEPTED" => Pair(i)' = Pair(i)
  BY <1>1 DEF DeletedRequest, Pair
<1>7. Open' = Open \ {{u, v}}
  <2>1. \A p : p \in Open' <=> p \in Open \ {{u, v}}
    BY <1>5, <1>6 DEF Open
  <2>2. QED
    BY <2>1
<1>8. {u, v} \subseteq chatLive /\ blocks' = blocks \cup {<<u, v>>} /\ chatLive' = chatLive
  BY DEF BlockUser
<1>9. QED
  BY <1>4, <1>7, <1>8 DEF Chat!Block, Chat!Parted, Asked, Open

LEMMA ChatErase ==
  ASSUME ChatInv, NEW u \in ChatUsers, DeleteChatUser(u)
  PROVE  Chat!Erase(u)
<1>1. ASSUME NEW i \in Ids
      PROVE  IF u \in Pair(i) THEN request'[i] = DeletedRequest
                              ELSE request'[i] = request[i]
  BY DEF DeleteChatUser
<1>2. \A i \in Ids : request'[i].status \in ChatRow => request'[i] = request[i] /\ u \notin Pair(i)
  BY <1>1 DEF DeletedRequest, ChatRow
<1>3. Asked' = {p \in Asked : u \notin {p[1], p[2]}}
  <2>1. \A p : p \in Asked' <=> \E j \in Ids : /\ request'[j].status = "PENDING"
                                              /\ p = <<request'[j].sender, request'[j].receiver>>
    BY DEF Asked
  <2>2. \A p : p \in Asked <=> \E j \in Ids : /\ request[j].status = "PENDING"
                                             /\ p = <<request[j].sender, request[j].receiver>>
    BY DEF Asked
  <2>3. \A p : p \in Asked' <=> p \in Asked /\ u \notin {p[1], p[2]}
    BY <1>1, <1>2, <2>1, <2>2 DEF Pair, ChatRow
  <2>4. QED
    BY <2>3
<1>4. Open' = {p \in Open : u \notin p}
  <2>1. \A i \in Ids : request'[i].status = "ACCEPTED" <=>
                         request[i].status = "ACCEPTED" /\ u \notin Pair(i)
    BY <1>1, <1>2 DEF ChatRow
  <2>2. \A i \in Ids : request'[i].status = "ACCEPTED" => Pair(i)' = Pair(i)
    BY <1>2 DEF Pair, ChatRow
  <2>3. \A p : p \in Open' <=> p \in Open /\ u \notin p
    BY <2>1, <2>2 DEF Open
  <2>4. QED
    BY <2>3
<1>5. QED
  BY <1>3, <1>4 DEF DeleteChatUser, Chat!Erase, Asked, Open

LEMMA ChatStep ==
  ASSUME ChatInv, SerialChatInv, [SerialChatNext]_chatVars
  PROVE  Chat!Next \/ UNCHANGED ChatVars
<1>1. CASE UNCHANGED chatVars
  BY <1>1, SameRows DEF chatVars, chatRows
<1>2. ASSUME NEW h \in ChatHandlers, BeginChat(h) PROVE UNCHANGED ChatVars
  BY <1>2, SameRows DEF BeginChat, BeginSend, BeginChatAnswer
<1>3. ASSUME NEW h \in ChatHandlers, FinishChat(h) PROVE Chat!Next \/ UNCHANGED ChatVars
  <2>1. CASE CheckBlocks(h) \/ FindLatest(h) \/ AbortChat(h)
    BY <2>1, SameRows DEF CheckBlocks, FindLatest, AbortChat
  <2>2. CASE WriteSend(h)
    BY <2>2, ChatSend DEF Chat!Next
  <2>3. CASE WriteAnswer(h)
    BY <2>3, ChatAnswer DEF Chat!Next
  <2>4. QED
    BY <1>3, <2>1, <2>2, <2>3 DEF FinishChat
<1>4. ASSUME ChangeBlocks PROVE Chat!Next
  <2>1. ASSUME NEW u \in ChatUsers, NEW v \in ChatUsers, BlockUser(u, v) PROVE u # v /\ Chat!Block(u, v)
    BY <2>1, ChatBlock DEF BlockUser
  <2>2. ASSUME NEW u \in ChatUsers, NEW v \in ChatUsers, UnblockUser(u, v)
        PROVE  u # v /\ Chat!Unblock(u, v)
    BY <2>2 DEF UnblockUser, Chat!Unblock, Pair
  <2>3. QED
    BY <1>4, <2>1, <2>2 DEF ChangeBlocks, Chat!Next
<1>5. ASSUME NEW u \in ChatUsers, DeleteChatUser(u) PROVE Chat!Next
  BY <1>5, ChatErase DEF Chat!Next
<1>6. QED
  BY <1>1, <1>2, <1>3, <1>4, <1>5 DEF SerialChatNext

\* One request at a time, the rows and blocks behave as the chat of every pair should.
THEOREM ServesPrivateChat == SerialChatSpec => ImplementsPrivateChat
<1>1. ChatInit => Chat!Init
  BY DEF ChatInit, Chat!Init, FreeRequest
<1>2. ChatInv /\ SerialChatInv /\ [SerialChatNext]_chatVars => [Chat!Next]_(Chat!vars)
  BY ChatStep DEF ChatVars, Chat!vars, Asked, Open
<1>3. QED
  BY <1>1, <1>2, SerialChatInvariant, PTL DEF SerialChatSpec, ImplementsPrivateChat, Chat!Spec

-----------------------------------------------------------------------------
(* ChatPage: the inductive invariant.                                      *)

ReadRow == [what : {"permission", "blocks"}, of : Peers \cup {NoPeer}, at : {"asked", "answered"},
            seen : Bonds, blocks : SUBSET Peers]
ListingRow == [at : {"idle", "asked", "read"}, seen : SUBSET Peers, again : BOOLEAN,
               first : SUBSET HandlerCalls, others : SUBSET HandlerCalls]
DeedRow == [kind : Deeds \cup {"none"}, of : Peers \cup {NoPeer}, at : {"asked", "answered", "done"}]

ScreenTyped ==
  /\ bond \in [Peers -> Bonds] /\ permission \in Bonds
  /\ mail \in Seq(HandlerCalls) /\ linked \in BOOLEAN
  /\ chats \subseteq Peers /\ hides \subseteq Peers
  /\ chosen \in Peers \cup {NoPeer} /\ detached \in BOOLEAN
HistoryTyped ==
  /\ turns \in 0 .. MaxTurns /\ unheard \in BOOLEAN /\ crossing \in BOOLEAN
  /\ elsewhere \subseteq Peers /\ misnamed \subseteq Peers

\* An idle listing has no callers, and unless a run failed none is wanted.
ListingTyped ==
  /\ listing \in ListingRow
  /\ listing.at = "idle" => listing.first = {} /\ listing.others = {}
  /\ listing.at = "idle" /\ ~unheard => ~listing.again
ReadsTyped == reads \subseteq ReadRow /\ \A r \in reads : r.what = "permission" => r.of \in Peers
DeedTyped == deed \in DeedRow /\ (deed.at # "done" => deed.kind \in Deeds /\ deed.of \in Peers)

PageTyped == ScreenTyped /\ HistoryTyped /\ ListingTyped /\ ReadsTyped /\ DeedTyped

Untroubled == ~unheard /\ ~crossing

MyBlocks == {p \in Peers : bond[p].byMe}

\* Whom the server has unblocked, but not yet the page.
Undone == IF deed.at = "answered" /\ deed.kind = "unblock" THEN {deed.of} ELSE {}

InMail == {mail[i] : i \in DOMAIN mail}

\* The list will be loaded again.
ListDue ==
  \/ \E h \in InMail : h.kind = "refresh"
  \/ listing.at = "asked" \/ listing.again

BlockLists == {r \in reads : r.what = "blocks" /\ r.at = "answered"}

\* The list that the page has, or that is on its way, is the server's, unless it will be
\* loaded again; what the page filters it by are blocks of hers.
ListFollows ==
  /\ hides \subseteq MyBlocks \cup Undone
  /\ \A r \in BlockLists : r.blocks \subseteq MyBlocks \cup Undone
  /\ ~ListDue => /\ listing.at = "read" => listing.seen = RecentChats
                 /\ listing.at = "idle" => chats \ Undone = RecentChats \ Undone

Concerns(h, p) == p = IF h.kind = "request" THEN h.of ELSE h.other

Callers == InMail \cup listing.first \cup listing.others

AskedAbout(p) == \E r \in reads : r.what = "permission" /\ r.of = p /\ r.at = "asked"

AnswersAbout(p) == {r \in reads : r.what = "permission" /\ r.of = p /\ r.at = "answered"}

\* The permission of p will be read again, or what was read of it is true, or the next
\* answer is one of two.
PermissionFollows(p) ==
  \/ AskedAbout(p) \/ \E h \in Callers : Concerns(h, p)
  \/ \E r, q \in AnswersAbout(p) : r # q
  \/ /\ \A r \in AnswersAbout(p) : r.seen = PermissionOf(bond[p])
     /\ AnswersAbout(p) = {} => permission = PermissionOf(bond[p])

PageInv ==
  /\ PageTyped
  /\ Untroubled /\ elsewhere = {} => ListFollows
  /\ Untroubled => \A p \in Peers \ misnamed : chosen = p => PermissionFollows(p)

-----------------------------------------------------------------------------
(* ChatPage: rows.                                                         *)

LEMMA BondTyped ==
  ASSUME NEW b \in Bonds
  PROVE  /\ b.request \in RequestStates /\ b.byMe \in BOOLEAN /\ b.byThem \in BOOLEAN
         /\ PermissionOf(b) \in Bonds
  BY DEF Bonds, PermissionOf, RequestStates

LEMMA BecomesTyped ==
  ASSUME NEW b \in Bonds, NEW kind \in Deeds, NEW mine \in BOOLEAN
  PROVE  /\ Becomes(b, kind, mine) \in Bonds
         /\ Becomes(b, kind, mine).byMe = ((mine /\ kind = "block") \/ (b.byMe /\ ~(mine /\ kind = "unblock")))
<1> DEFINE g == Becomes(b, kind, mine)
<1>1. CASE kind = "send"
  BY <1>1 DEF Becomes, Bonds, RequestStates
<1>2. CASE kind = "accept"
  BY <1>2 DEF Becomes, Bonds, RequestStates
<1>3. CASE kind \in {"reject", "withdraw"}
  <2>1. g = [b EXCEPT !.request = "none"]
    BY <1>3 DEF Becomes
  <2>2. QED
    BY <1>3, <2>1 DEF Bonds, RequestStates
<1>4. CASE kind = "block"
  <2>1. CASE mine
    <3>1. g = [b EXCEPT !.request = "none", !.byMe = TRUE]
      BY <1>4, <2>1 DEF Becomes
    <3>2. PICK k \in Bonds : k = [b EXCEPT !.request = "none", !.byMe = TRUE]
      BY DEF Bonds, RequestStates
    <3>3. k.byMe
      BY <3>2 DEF Bonds
    <3>4. QED
      BY <1>4, <2>1, <3>1, <3>2, <3>3
  <2>2. CASE ~mine
    <3>1. g = [b EXCEPT !.request = "none", !.byThem = TRUE]
      BY <1>4, <2>2 DEF Becomes
    <3>2. PICK k \in Bonds : k = [b EXCEPT !.request = "none", !.byThem = TRUE]
      BY DEF Bonds, RequestStates
    <3>3. k.byMe = b.byMe
      BY <3>2 DEF Bonds
    <3>4. QED
      BY <1>4, <2>2, <3>1, <3>2, <3>3, BondTyped
  <2>3. QED
    BY <2>1, <2>2
<1>5. CASE kind = "unblock"
  <2>1. g = IF mine THEN [b EXCEPT !.byMe = FALSE] ELSE [b EXCEPT !.byThem = FALSE]
    BY <1>5 DEF Becomes
  <2>2. QED
    BY <1>5, <2>1 DEF Bonds
<1>6. QED
  BY <1>1, <1>2, <1>3, <1>4, <1>5 DEF Deeds

LEMMA ListingRowTyped ==
  ASSUME NEW l \in ListingRow
  PROVE  /\ l.at \in {"idle", "asked", "read"} /\ l.seen \in SUBSET Peers /\ l.again \in BOOLEAN
         /\ l.first \in SUBSET HandlerCalls /\ l.others \in SUBSET HandlerCalls
  BY DEF ListingRow

LEMMA ReadRowTyped ==
  ASSUME NEW r \in ReadRow
  PROVE  /\ r.what \in {"permission", "blocks"} /\ r.of \in Peers \cup {NoPeer}
         /\ r.at \in {"asked", "answered"} /\ r.seen \in Bonds /\ r.blocks \in SUBSET Peers
  BY DEF ReadRow

LEMMA DeedRowTyped ==
  ASSUME NEW d \in DeedRow
  PROVE  /\ d.kind \in Deeds \cup {"none"} /\ d.of \in Peers \cup {NoPeer}
         /\ d.at \in {"asked", "answered", "done"}
  BY DEF DeedRow

LEMMA EmptyRows ==
  /\ NoListing \in ListingRow /\ NoListing.at = "idle" /\ NoListing.first = {}
  /\ NoListing.others = {} /\ ~NoListing.again
  /\ NoDeed \in DeedRow /\ NoDeed.at = "done"
  /\ Strangers \in Bonds /\ ~Strangers.byMe
  BY DEF NoListing, ListingRow, NoDeed, DeedRow, Strangers, Bonds, RequestStates

LEMMA QuestionTyped ==
  ASSUME NEW what \in {"permission", "blocks"}, NEW p \in Peers \cup {NoPeer}
  PROVE  LET a == Question(what, p)
         IN a \in ReadRow /\ a.what = what /\ a.of = p /\ a.at = "asked"
  BY EmptyRows DEF Question, ReadRow

\* The queue of events.
LEMMA MailGrows ==
  ASSUME NEW s \in Seq(HandlerCalls), NEW t \in Seq(HandlerCalls)
  PROVE  /\ s \o t \in Seq(HandlerCalls)
         /\ \A i \in DOMAIN s : i \in DOMAIN (s \o t) /\ (s \o t)[i] = s[i]
         /\ \A i \in DOMAIN t : Len(s) + i \in DOMAIN (s \o t) /\ (s \o t)[Len(s) + i] = t[i]
  OBVIOUS

LEMMA MailShrinks ==
  ASSUME NEW s \in Seq(HandlerCalls), s # <<>>
  PROVE  /\ Tail(s) \in Seq(HandlerCalls) /\ Head(s) \in HandlerCalls
         /\ \A i \in DOMAIN s : s[i] = Head(s) \/ \E j \in DOMAIN Tail(s) : Tail(s)[j] = s[i]
<1>1. ASSUME NEW i \in DOMAIN s, i # 1 PROVE i - 1 \in DOMAIN Tail(s) /\ Tail(s)[i - 1] = s[i]
  BY <1>1
<1>2. Tail(s) \in Seq(HandlerCalls) /\ Head(s) \in HandlerCalls /\ Head(s) = s[1]
  OBVIOUS
<1>3. ASSUME NEW i \in DOMAIN s
      PROVE  s[i] = Head(s) \/ \E j \in DOMAIN Tail(s) : Tail(s)[j] = s[i]
  <2>1. CASE i = 1
    BY <1>2, <2>1
  <2>2. CASE i # 1
    BY <1>1, <2>2
  <2>3. QED
    BY <2>1, <2>2
<1>4. QED
  BY <1>2, <1>3

LEMMA TurnsTyped ==
  ASSUME turns \in 0 .. MaxTurns, TakesATurn \/ turns' = turns PROVE turns' \in 0 .. MaxTurns
  BY ChatPageAssumption DEF TakesATurn

-----------------------------------------------------------------------------
(* ChatPage: what an action leaves.                                        *)

LEMMA ListStays ==
  ASSUME ListFollows, UNCHANGED <<bond, hides, chats>>, Undone' = Undone,
         BlockLists' \subseteq BlockLists, ListDue => ListDue', ListDue' \/ listing' = listing
  PROVE  ListFollows'
<1>1. MyBlocks' = MyBlocks /\ RecentChats' = RecentChats
  BY DEF MyBlocks, RecentChats
<1>2. hides' \subseteq MyBlocks' \cup Undone'
      /\ \A r \in BlockLists' : r.blocks \subseteq MyBlocks' \cup Undone'
  BY <1>1 DEF ListFollows
<1>3. ~ListDue' => /\ listing'.at = "read" => listing'.seen = RecentChats'
                   /\ listing'.at = "idle" => chats' \ Undone' = RecentChats' \ Undone'
  BY <1>1 DEF ListFollows
<1>4. QED
  BY <1>2, <1>3 DEF ListFollows

LEMMA PermissionStays ==
  ASSUME NEW p \in Peers, PermissionFollows(p), bond'[p] = bond[p], permission' = permission,
         AnswersAbout(p)' = AnswersAbout(p),
         AskedAbout(p) \/ (\E h \in Callers : Concerns(h, p))
           => AskedAbout(p)' \/ \E h \in Callers' : Concerns(h, p)
  PROVE  PermissionFollows(p)'
<1> DEFINE A == AnswersAbout(p)
<1>1. CASE AskedAbout(p) \/ \E h \in Callers : Concerns(h, p)
  BY <1>1 DEF PermissionFollows, Concerns
<1>2. CASE \E r, q \in AnswersAbout(p) : r # q
  BY <1>2 DEF PermissionFollows
<1>3. CASE /\ \A r \in AnswersAbout(p) : r.seen = PermissionOf(bond[p])
           /\ AnswersAbout(p) = {} => permission = PermissionOf(bond[p])
  <2>1. PermissionOf(bond'[p]) = PermissionOf(bond[p])
    BY DEF PermissionOf, BlockedEither
  <2>2. QED
    BY <1>3, <2>1 DEF PermissionFollows, PermissionOf, BlockedEither
<1>4. QED
  BY <1>1, <1>2, <1>3 DEF PermissionFollows

\* A step that neither changes the requests on their way, nor what is open.
LEMMA AllStays ==
  ASSUME PageInv, PageTyped', UNCHANGED <<bond, mail, hides, chats, permission, reads, listing, chosen>>,
         Undone' = Undone, unheard => unheard', crossing => crossing',
         elsewhere \subseteq elsewhere', misnamed \subseteq misnamed'
  PROVE  PageInv'
<1>1. Untroubled' => Untroubled
  BY DEF Untroubled
<1>2. ASSUME Untroubled', elsewhere' = {} PROVE ListFollows'
  BY <1>1, <1>2, ListStays DEF PageInv, ListDue, InMail, BlockLists
<1>3. ASSUME Untroubled', NEW p \in Peers \ misnamed', chosen' = p PROVE PermissionFollows(p)'
  <2>1. PermissionFollows(p)
    BY <1>1, <1>3 DEF PageInv
  <2>2. QED
    BY <2>1, PermissionStays DEF AskedAbout, AnswersAbout, Callers, InMail
<1>4. QED
  BY <1>2, <1>3 DEF PageInv

\* A request about something is added.
LEMMA AskKeepsReads ==
  ASSUME ReadsTyped, NEW what \in {"permission", "blocks"}, NEW p \in Peers \cup {NoPeer},
         what = "permission" => p \in Peers, reads' = reads \cup {Question(what, p)}
  PROVE  /\ ReadsTyped' /\ BlockLists' = BlockLists
         /\ \A q \in Peers : AnswersAbout(q)' = AnswersAbout(q)
         /\ \A q \in Peers : AskedAbout(q) => AskedAbout(q)'
         /\ what = "permission" => AskedAbout(p)'
<1>1. PICK a \in ReadRow : a = Question(what, p) /\ a.what = what /\ a.of = p /\ a.at = "asked"
  BY QuestionTyped
<1>2. reads' = reads \cup {a} /\ a.at # "answered"
  BY <1>1
<1>3. ReadsTyped'
  BY <1>1, <1>2 DEF ReadsTyped, ReadRow
<1>4. BlockLists' = BlockLists /\ \A q \in Peers : AnswersAbout(q)' = AnswersAbout(q)
  BY <1>2 DEF BlockLists, AnswersAbout
<1>5. (\A q \in Peers : AskedAbout(q) => AskedAbout(q)') /\ (what = "permission" => AskedAbout(p)')
  BY <1>1, <1>2 DEF AskedAbout
<1>6. QED
  BY <1>3, <1>4, <1>5

LEMMA GoOnKeepsReads ==
  ASSUME ReadsTyped, NEW handlers, NEW p \in Peers \cup {NoPeer}, GoOnWith(handlers, p)
  PROVE  /\ ReadsTyped' /\ BlockLists' = BlockLists
         /\ \A q \in Peers : AnswersAbout(q)' = AnswersAbout(q)
         /\ \A q \in Peers : AskedAbout(q) => AskedAbout(q)'
         /\ p \in Peers /\ (\E h \in handlers : Concerns(h, p)) => AskedAbout(p)'
<1>1. p \in Peers => p # NoPeer
  BY ChatPageAssumption
<1>2. CASE p # NoPeer /\ Wants(handlers, p)
  <2>1. reads' = reads \cup {Question("permission", p)} /\ p \in Peers
    BY <1>2 DEF GoOnWith, AskPermission
  <2>2. QED
    BY <2>1, AskKeepsReads
<1>3. CASE ~(p # NoPeer /\ Wants(handlers, p))
  <2>1. reads' = reads
    BY <1>3 DEF GoOnWith
  <2>2. ReadsTyped' /\ BlockLists' = BlockLists
    BY <2>1 DEF ReadsTyped, ReadRow, BlockLists
  <2>3. \A q \in Peers : AnswersAbout(q)' = AnswersAbout(q) /\ (AskedAbout(q) => AskedAbout(q)')
    BY <2>1 DEF AnswersAbout, AskedAbout
  <2>4. ~(p \in Peers /\ \E h \in handlers : Concerns(h, p))
    BY <1>1, <1>3 DEF Wants, Concerns
  <2>5. QED
    BY <2>2, <2>3, <2>4
<1>4. QED
  BY <1>2, <1>3

\* loadUsers: the list will be loaded, for these callers too.
LEMMA LoadUsersMakes ==
  ASSUME ListingTyped, NEW H \in SUBSET HandlerCalls, LoadUsers(H)
  PROVE  /\ ListingTyped' /\ listing'.at # "idle" /\ (listing'.at = "asked" \/ listing'.again)
         /\ listing'.first \cup listing'.others = listing.first \cup listing.others \cup H
<1>1. listing \in ListingRow
  BY DEF ListingTyped
<1>2. CASE listing.at = "idle"
  <2>1. PICK l \in ListingRow : l = [listing EXCEPT !.at = "asked", !.first = H]
    BY <1>1 DEF ListingRow
  <2>2. l.at = "asked" /\ l.first = H /\ l.others = listing.others
    BY <1>1, <2>1 DEF ListingRow
  <2>3. listing' = l
    BY <1>2, <2>1 DEF LoadUsers
  <2>4. listing.first = {} /\ listing.others = {}
    BY <1>2 DEF ListingTyped
  <2>5. QED
    BY <2>2, <2>3, <2>4 DEF ListingTyped, ListingRow, HandlerCalls
<1>3. CASE listing.at # "idle"
  <2> DEFINE X == listing.others \cup H
  <2>1. X \in SUBSET HandlerCalls
    BY <1>1, ListingRowTyped
  <2>2. listing' = [listing EXCEPT !.others = X, !.again = TRUE]
    BY <1>3 DEF LoadUsers
  <2> HIDE DEF X
  <2>3. PICK l \in ListingRow : l = [listing EXCEPT !.others = X, !.again = TRUE]
    BY <1>1, <2>1 DEF ListingRow
  <2>4. l.at = listing.at /\ l.first = listing.first /\ l.others = X /\ l.again
    BY <1>1, <2>3 DEF ListingRow
  <2>5. QED
    BY <1>3, <2>2, <2>3, <2>4 DEF ListingTyped, ListingRow, HandlerCalls, X
<1>4. QED
  BY <1>2, <1>3

\* The rows of one pair change, and the page is told.
LEMMA ChangeMakes ==
  ASSUME PageInv, NEW p \in Peers, NEW kind \in Deeds, NEW mine \in BOOLEAN, Change(p, kind, mine)
  PROVE  /\ bond' \in [Peers -> Bonds] /\ \A q \in Peers \ {p} : bond'[q] = bond[q]
         /\ MyBlocks' = IF mine /\ kind = "block" THEN MyBlocks \cup {p}
                        ELSE IF mine /\ kind = "unblock" THEN MyBlocks \ {p} ELSE MyBlocks
         /\ turns' \in 0 .. MaxTurns /\ mail' \in Seq(HandlerCalls) /\ unheard' \in BOOLEAN
         /\ unheard => unheard'
         /\ ~unheard' => /\ InMail \subseteq InMail'
                         /\ \E h \in InMail' : h.kind = "refresh"
                         /\ mine \/ kind \notin {"block", "unblock"} => \E h \in InMail' : Concerns(h, p)
<1> DEFINE b == Becomes(bond[p], kind, mine)
           e == EventsOf(p, kind, mine)
           refresh == [kind |-> "refresh", of |-> p, other |-> IF mine THEN p ELSE NoPeer]
           update == [kind |-> "request", of |-> p, other |-> NoPeer]
<1>1. bond \in [Peers -> Bonds] /\ mail \in Seq(HandlerCalls) /\ turns \in 0 .. MaxTurns
      /\ unheard \in BOOLEAN
  BY DEF PageInv, PageTyped, ScreenTyped, HistoryTyped
<1>2. /\ TakesATurn /\ bond' = [bond EXCEPT ![p] = b]
      /\ IF linked THEN mail' = mail \o e /\ UNCHANGED unheard ELSE unheard' = TRUE /\ UNCHANGED mail
  BY DEF Change
<1>3. b \in Bonds /\ b.byMe = ((mine /\ kind = "block") \/ (bond[p].byMe /\ ~(mine /\ kind = "unblock")))
  BY <1>1, BecomesTyped
<1> HIDE DEF b
<1>4. bond' \in [Peers -> Bonds] /\ bond'[p] = b /\ \A q \in Peers \ {p} : bond'[q] = bond[q]
  BY <1>1, <1>2, <1>3
<1>5. MyBlocks' = IF mine /\ kind = "block" THEN MyBlocks \cup {p}
                  ELSE IF mine /\ kind = "unblock" THEN MyBlocks \ {p} ELSE MyBlocks
  <2>1. \A q \in Peers \ {p} : bond'[q].byMe = bond[q].byMe
    BY <1>4
  <2>2. CASE mine /\ kind = "block"
    BY <1>3, <1>4, <2>1, <2>2 DEF MyBlocks
  <2>3. CASE mine /\ kind = "unblock"
    BY <1>3, <1>4, <2>1, <2>3 DEF MyBlocks
  <2>4. CASE ~(mine /\ kind = "block") /\ ~(mine /\ kind = "unblock")
    <3>1. bond[p].byMe \in BOOLEAN
      BY <1>1, BondTyped
    <3>2. b.byMe = bond[p].byMe
      BY <1>3, <2>4, <3>1
    <3>3. QED
      BY <1>4, <2>1, <2>4, <3>2 DEF MyBlocks
  <2>5. QED
    BY <2>2, <2>3, <2>4
<1>6. refresh \in HandlerCalls /\ update \in HandlerCalls
  BY DEF HandlerCalls
<1>7. refresh.kind = "refresh" /\ Concerns(update, p) /\ (mine => Concerns(refresh, p))
  BY DEF Concerns
<1>8. e = IF kind \in {"block", "unblock"} THEN <<refresh>> ELSE <<update, refresh>>
  BY DEF EventsOf
<1> HIDE DEF refresh, update, e
<1>9. /\ e \in Seq(HandlerCalls) /\ \E i \in DOMAIN e : e[i] = refresh
      /\ kind \notin {"block", "unblock"} => \E i \in DOMAIN e : e[i] = update
  <2>1. CASE kind \in {"block", "unblock"}
    BY <1>6, <1>8, <2>1
  <2>2. CASE kind \notin {"block", "unblock"}
    <3>1. e = <<update, refresh>>
      BY <1>8, <2>2
    <3>2. 1 \in DOMAIN e /\ 2 \in DOMAIN e /\ e[1] = update /\ e[2] = refresh
      BY <3>1
    <3>3. QED
      BY <1>6, <3>1, <3>2
  <2>3. QED
    BY <2>1, <2>2
<1>10. mail' \in Seq(HandlerCalls)
  BY <1>1, <1>2, <1>9, MailGrows
<1>11. ASSUME ~unheard'
       PROVE  /\ InMail \subseteq InMail' /\ refresh \in InMail'
              /\ kind \notin {"block", "unblock"} => update \in InMail'
  <2>1. mail' = mail \o e
    BY <1>2, <1>11
  <2>2. /\ \A i \in DOMAIN mail : i \in DOMAIN mail' /\ mail'[i] = mail[i]
        /\ \A i \in DOMAIN e : Len(mail) + i \in DOMAIN mail' /\ mail'[Len(mail) + i] = e[i]
    BY <1>1, <1>9, <2>1, MailGrows
  <2>3. InMail \subseteq InMail'
    BY <2>2 DEF InMail
  <2>4. \A i \in DOMAIN e : e[i] \in InMail'
    BY <2>2 DEF InMail
  <2>5. QED
    BY <1>9, <2>3, <2>4
<1>12. turns' \in 0 .. MaxTurns /\ unheard' \in BOOLEAN /\ (unheard => unheard')
  BY <1>1, <1>2, TurnsTyped
<1>13. QED
  BY <1>4, <1>5, <1>7, <1>10, <1>11, <1>12

LEMMA ChangeKeeps ==
  ASSUME PageInv, NEW p \in Peers, NEW kind \in Deeds, NEW mine \in BOOLEAN, Change(p, kind, mine),
         UNCHANGED <<linked, chats, hides, chosen, detached, permission, listing, reads, crossing>>,
         DeedTyped', misnamed \subseteq misnamed', misnamed' \subseteq Peers,
         elsewhere \subseteq elsewhere', elsewhere' \subseteq Peers,
         mine \/ kind \notin {"block", "unblock"} \/ p \in misnamed',
         elsewhere' # {} \/ MyBlocks \cup Undone \subseteq MyBlocks' \cup Undone'
  PROVE  PageInv'
<1>1. /\ bond' \in [Peers -> Bonds] /\ \A q \in Peers \ {p} : bond'[q] = bond[q]
      /\ turns' \in 0 .. MaxTurns /\ mail' \in Seq(HandlerCalls) /\ unheard' \in BOOLEAN
      /\ unheard => unheard'
      /\ ~unheard' => /\ InMail \subseteq InMail'
                      /\ \E h \in InMail' : h.kind = "refresh"
                      /\ mine \/ kind \notin {"block", "unblock"} => \E h \in InMail' : Concerns(h, p)
  BY ChangeMakes
<1>2. PageTyped'
  BY <1>1 DEF PageInv, PageTyped, ScreenTyped, HistoryTyped, ListingTyped, ListingRow, ReadsTyped, ReadRow
<1>3. Untroubled' => Untroubled /\ ~unheard'
  BY <1>1 DEF Untroubled
<1>4. ASSUME Untroubled', elsewhere' = {} PROVE ListFollows'
  <2>1. ListFollows
    BY <1>3, <1>4 DEF PageInv
  <2>2. hides' \subseteq MyBlocks' \cup Undone'
        /\ \A r \in BlockLists' : r.blocks \subseteq MyBlocks' \cup Undone'
    BY <1>4, <2>1 DEF ListFollows, BlockLists
  <2>3. ListDue'
    BY <1>1, <1>3, <1>4 DEF ListDue
  <2>4. QED
    BY <2>2, <2>3 DEF ListFollows
<1>5. ASSUME Untroubled', NEW q \in Peers \ misnamed', chosen' = q PROVE PermissionFollows(q)'
  <2>1. PermissionFollows(q) /\ InMail \subseteq InMail' /\ Callers \subseteq Callers'
    BY <1>1, <1>3, <1>5 DEF PageInv, Callers
  <2>2. CASE q = p
    <3>1. \E h \in InMail' : Concerns(h, q)
      BY <1>1, <1>3, <1>5, <2>2
    <3>2. QED
      BY <3>1 DEF PermissionFollows, Callers, Concerns
  <2>3. CASE q # p
    BY <1>1, <2>1, <2>3, PermissionStays DEF AskedAbout, AnswersAbout
  <2>4. QED
    BY <2>2, <2>3
<1>6. QED
  BY <1>2, <1>4, <1>5 DEF PageInv

\* The peer acts.
LEMMA PeerKeeps == ASSUME PageInv, NEW p \in Peers, PeerActs(p) PROVE PageInv'
<1>1. PICK kind \in Deeds :
        /\ Change(p, kind, FALSE)
        /\ misnamed' = IF kind \in {"block", "unblock"} THEN misnamed \cup {p} ELSE misnamed
        /\ UNCHANGED <<linked, chats, hides, chosen, detached, permission, listing, reads,
                       deed, crossing, elsewhere>>
  BY DEF PeerActs
<1>2. MyBlocks' = MyBlocks /\ Undone' = Undone
  BY <1>1, ChangeMakes DEF Undone
<1>3. DeedTyped' /\ misnamed \subseteq misnamed' /\ misnamed' \subseteq Peers /\ elsewhere' \subseteq Peers
  BY <1>1 DEF PageInv, PageTyped, DeedTyped, DeedRow, HistoryTyped
<1>4. QED
  BY <1>1, <1>2, <1>3, ChangeKeeps

LEMMA ElsewhereKeeps == ASSUME PageInv, NEW p \in Peers, ActElsewhere(p) PROVE PageInv'
<1>1. PICK kind \in {"block", "unblock"} :
        /\ Change(p, kind, TRUE)
        /\ elsewhere' = elsewhere \cup {p}
        /\ UNCHANGED <<linked, chats, hides, chosen, detached, permission, listing, reads,
                       deed, crossing, misnamed>>
  BY DEF ActElsewhere
<1>2. DeedTyped' /\ misnamed' \subseteq Peers /\ elsewhere' \subseteq Peers /\ elsewhere' # {}
  BY <1>1 DEF PageInv, PageTyped, DeedTyped, DeedRow, HistoryTyped
<1>3. kind \in Deeds
  BY DEF Deeds
<1>4. QED
  BY <1>1, <1>2, <1>3, ChangeKeeps

\* Her own action is carried out.
LEMMA DeedServedKeeps == ASSUME PageInv, ServeDeed PROVE PageInv'
<1> DEFINE p == deed.of
           kind == deed.kind
<1>1. /\ deed.at = "asked" /\ Change(p, kind, TRUE)
      /\ deed' = [deed EXCEPT !.at = "answered"]
      /\ UNCHANGED <<linked, chats, hides, chosen, detached, permission, listing, reads,
                     crossing, elsewhere, misnamed>>
  BY DEF ServeDeed
<1>2. deed \in DeedRow /\ kind \in Deeds /\ p \in Peers
  BY <1>1 DEF PageInv, PageTyped, DeedTyped
<1>3. deed' \in DeedRow /\ deed'.at = "answered" /\ deed'.kind = kind /\ deed'.of = p
  BY <1>1, <1>2 DEF DeedRow
<1> HIDE DEF p, kind
<1>4. DeedTyped'
  BY <1>2, <1>3 DEF DeedTyped, DeedRow
<1>5. MyBlocks' = IF kind = "block" THEN MyBlocks \cup {p}
                  ELSE IF kind = "unblock" THEN MyBlocks \ {p} ELSE MyBlocks
  BY <1>1, <1>2, ChangeMakes
<1>6. Undone = {} /\ Undone' = IF kind = "unblock" THEN {p} ELSE {}
  BY <1>1, <1>3 DEF Undone
<1>7. MyBlocks \cup Undone \subseteq MyBlocks' \cup Undone'
  BY <1>5, <1>6
<1>8. misnamed' \subseteq Peers /\ elsewhere' \subseteq Peers
  BY <1>1 DEF PageInv, PageTyped, HistoryTyped
<1>9. QED
  BY <1>1, <1>2, <1>4, <1>7, <1>8, ChangeKeeps

\* A button is pressed, or what it asked for is refused.
LEMMA PressKeepsPage ==
  ASSUME PageInv, NEW kind \in Deeds, NEW p \in Peers, Press(kind, p) PROVE PageInv'
<1>1. /\ deed.at = "done" /\ deed' = [kind |-> kind, of |-> p, at |-> "asked"]
      /\ UNCHANGED <<bond, mail, linked, chats, hides, chosen, detached, permission, listing,
                     reads, turns, unheard, crossing, elsewhere, misnamed>>
  BY DEF Press
<1>2. DeedTyped' /\ Undone' = Undone
  BY <1>1 DEF DeedTyped, DeedRow, Undone
<1>3. PageTyped'
  BY <1>1, <1>2 DEF PageInv, PageTyped, ScreenTyped, HistoryTyped, ListingTyped, ListingRow,
                    ReadsTyped, ReadRow
<1>4. QED
  BY <1>1, <1>2, <1>3, AllStays

LEMMA ButtonsKeep ==
  ASSUME PageInv, PressRequest \/ PressBlock \/ \E p \in Peers : PressUnblock(p) PROVE PageInv'
<1>1. chosen \in Peers \cup {NoPeer} /\ hides \subseteq Peers /\ permission \in Bonds
  BY DEF PageInv, PageTyped, ScreenTyped
<1>2. CASE PressRequest
  <2>1. PICK kind \in Offered : chosen # NoPeer /\ Press(kind, chosen)
    BY <1>2 DEF PressRequest
  <2>2. kind \in Deeds
    <3>1. permission.request \in {"theirs", "mine", "none", "accepted"}
      BY <1>1, BondTyped DEF RequestStates
    <3>2. Offered \subseteq Deeds
      BY <3>1 DEF Offered, Deeds
    <3>3. QED
      BY <3>2
  <2>3. QED
    BY <1>1, <2>1, <2>2, PressKeepsPage
<1>3. CASE PressBlock
  BY <1>1, <1>3, PressKeepsPage DEF PressBlock, Deeds
<1>4. CASE \E p \in Peers : PressUnblock(p)
  BY <1>4, PressKeepsPage DEF PressUnblock, Deeds
<1>5. QED
  BY <1>2, <1>3, <1>4

LEMMA RefuseKeeps == ASSUME PageInv, RefuseDeed PROVE PageInv'
<1>1. /\ deed.at = "asked" /\ deed' = NoDeed
      /\ UNCHANGED <<bond, mail, linked, chats, hides, chosen, detached, permission, listing,
                     reads, turns, unheard, crossing, elsewhere, misnamed>>
  BY DEF RefuseDeed
<1>2. DeedTyped' /\ Undone' = Undone
  BY <1>1, EmptyRows DEF DeedTyped, DeedRow, Undone
<1>3. PageTyped'
  BY <1>1, <1>2 DEF PageInv, PageTyped, ScreenTyped, HistoryTyped, ListingTyped, ListingRow,
                    ReadsTyped, ReadRow
<1>4. QED
  BY <1>1, <1>2, <1>3, AllStays

\* What a step has to show.
LEMMA PageSteps ==
  ASSUME PageInv, PageTyped', Untroubled' => Untroubled,
         elsewhere \subseteq elsewhere', misnamed \subseteq misnamed',
         Untroubled' /\ elsewhere' = {} /\ ListFollows => ListFollows',
         \A p \in Peers \ misnamed' :
           Untroubled' /\ chosen' = p /\ (chosen = p => PermissionFollows(p)) => PermissionFollows(p)'
  PROVE  PageInv'
<1>1. Untroubled' /\ elsewhere' = {} => ListFollows'
  BY DEF PageInv
<1>2. ASSUME Untroubled', NEW p \in Peers \ misnamed', chosen' = p PROVE PermissionFollows(p)'
  <2>1. chosen = p => PermissionFollows(p)
    BY <1>2 DEF PageInv
  <2>2. QED
    BY <1>2, <2>1
<1>3. QED
  BY <1>1, <1>2 DEF PageInv

\* A request is sent, about what is open or about the blocked.
LEMMA AskingKeeps ==
  ASSUME PageInv, PageTyped', UNCHANGED <<bond, mail, hides, chats, permission, listing>>,
         Undone' = Undone, BlockLists' = BlockLists,
         \A q \in Peers : AnswersAbout(q)' = AnswersAbout(q),
         \A q \in Peers : AskedAbout(q) => AskedAbout(q)',
         \A q \in Peers : chosen' = q /\ chosen # q => AskedAbout(q)',
         Untroubled' => Untroubled, elsewhere \subseteq elsewhere', misnamed \subseteq misnamed'
  PROVE  PageInv'
<1>1. ASSUME ListFollows PROVE ListFollows'
  BY <1>1, ListStays DEF ListDue, InMail
<1>2. ASSUME NEW p \in Peers, chosen' = p, chosen = p => PermissionFollows(p)
      PROVE  PermissionFollows(p)'
  <2>1. CASE chosen = p
    BY <1>2, <2>1, PermissionStays DEF Callers, InMail
  <2>2. CASE chosen # p
    BY <1>2, <2>2 DEF PermissionFollows
  <2>3. QED
    BY <2>1, <2>2
<1>3. QED
  BY <1>1, <1>2, PageSteps

\* selectUser.
LEMMA SelectKeeps == ASSUME PageInv, NEW p \in Peers, SelectChat(p) PROVE PageInv'
<1>1. /\ TakesATurn /\ chosen' = p /\ detached' = (p \notin chats)
      /\ reads' = reads \cup {Question("permission", p)}
      /\ UNCHANGED <<bond, mail, linked, chats, hides, permission, listing, deed, unheard,
                     crossing, elsewhere, misnamed>>
  BY DEF SelectChat, AskPermission
<1>2. /\ ReadsTyped' /\ BlockLists' = BlockLists
      /\ \A q \in Peers : AnswersAbout(q)' = AnswersAbout(q)
      /\ \A q \in Peers : AskedAbout(q) => AskedAbout(q)'
      /\ AskedAbout(p)'
  BY <1>1, AskKeepsReads DEF PageInv, PageTyped
<1>3. PageTyped'
  BY <1>1, <1>2, TurnsTyped DEF PageInv, PageTyped, ScreenTyped, HistoryTyped, ListingTyped,
                                ListingRow, DeedTyped, DeedRow
<1>4. Undone' = Undone /\ (Untroubled' => Untroubled)
  BY <1>1 DEF Undone, Untroubled
<1>5. QED
  BY <1>1, <1>2, <1>3, <1>4, AskingKeeps

\* openProfileModal.
LEMMA ProfileKeeps == ASSUME PageInv, OpenProfile PROVE PageInv'
<1>1. /\ TakesATurn /\ reads' = reads \cup {Question("blocks", NoPeer)}
      /\ UNCHANGED <<bond, mail, linked, chats, hides, chosen, detached, permission, listing,
                     deed, unheard, crossing, elsewhere, misnamed>>
  BY DEF OpenProfile
<1>2. /\ ReadsTyped' /\ BlockLists' = BlockLists
      /\ \A q \in Peers : AnswersAbout(q)' = AnswersAbout(q)
      /\ \A q \in Peers : AskedAbout(q) => AskedAbout(q)'
  BY <1>1, AskKeepsReads DEF PageInv, PageTyped
<1>3. PageTyped'
  BY <1>1, <1>2, TurnsTyped DEF PageInv, PageTyped, ScreenTyped, HistoryTyped, ListingTyped,
                                ListingRow, DeedTyped, DeedRow
<1>4. Undone' = Undone /\ (Untroubled' => Untroubled)
  BY <1>1 DEF Undone, Untroubled
<1>5. QED
  BY <1>1, <1>2, <1>3, <1>4, AskingKeeps

\* The answer to a request action.
LEMMA RequestDoneKeeps == ASSUME PageInv, RequestDone PROVE PageInv'
<1>1. /\ deed.at = "answered" /\ deed.kind \notin {"block", "unblock"} /\ deed' = NoDeed
      /\ reads' = reads \/ (chosen # NoPeer /\ reads' = reads \cup {Question("permission", chosen)})
      /\ UNCHANGED <<bond, mail, linked, chats, hides, chosen, detached, permission, listing,
                     turns, unheard, crossing, elsewhere, misnamed>>
  BY DEF RequestDone, AskPermission
<1>2. chosen \in Peers \cup {NoPeer} /\ ReadsTyped
  BY DEF PageInv, PageTyped, ScreenTyped
<1>3. /\ ReadsTyped' /\ BlockLists' = BlockLists
      /\ \A q \in Peers : AnswersAbout(q)' = AnswersAbout(q)
      /\ \A q \in Peers : AskedAbout(q) => AskedAbout(q)'
  <2>1. CASE reads' = reads
    BY <1>2, <2>1 DEF ReadsTyped, ReadRow, BlockLists, AnswersAbout, AskedAbout
  <2>2. CASE chosen # NoPeer /\ reads' = reads \cup {Question("permission", chosen)}
    BY <1>2, <2>2, AskKeepsReads
  <2>3. QED
    BY <1>1, <2>1, <2>2
<1>4. PageTyped'
  BY <1>1, <1>3, EmptyRows DEF PageInv, PageTyped, ScreenTyped, HistoryTyped, ListingTyped,
                                ListingRow, DeedTyped, DeedRow
<1>5. Undone' = Undone /\ (Untroubled' => Untroubled)
  BY <1>1, EmptyRows DEF Undone, Untroubled
<1>6. QED
  BY <1>1, <1>3, <1>4, <1>5, AskingKeeps

\* A block is answered: nothing is open, and both lists are loaded.
LEMMA BlockDoneKeeps == ASSUME PageInv, BlockDone PROVE PageInv'
<1>1. /\ deed.at = "answered" /\ deed.kind = "block" /\ deed' = NoDeed
      /\ chosen' = NoPeer /\ detached' = FALSE /\ LoadUsers({})
      /\ reads' = reads \cup {Question("blocks", NoPeer)}
      /\ UNCHANGED <<bond, mail, linked, chats, hides, permission, turns, unheard, crossing,
                     elsewhere, misnamed>>
  BY DEF BlockDone
<1>2. ReadsTyped' /\ BlockLists' = BlockLists
  BY <1>1, AskKeepsReads DEF PageInv, PageTyped
<1>3. ListingTyped' /\ (listing'.at = "asked" \/ listing'.again)
  BY <1>1, LoadUsersMakes DEF PageInv, PageTyped
<1>4. PageTyped'
  BY <1>1, <1>2, <1>3, EmptyRows DEF PageInv, PageTyped, ScreenTyped, HistoryTyped, DeedTyped, DeedRow
<1>5. Undone' = Undone /\ (Untroubled' => Untroubled) /\ ListDue'
  BY <1>1, <1>3, EmptyRows DEF Undone, Untroubled, ListDue
<1>6. ASSUME ListFollows PROVE ListFollows'
  BY <1>1, <1>2, <1>5, <1>6, ListStays
<1>7. \A p \in Peers : chosen' # p
  BY <1>1, ChatPageAssumption
<1>8. QED
  BY <1>1, <1>4, <1>5, <1>6, <1>7, PageSteps

\* An unblock is answered.
LEMMA UnblockDoneKeeps == ASSUME PageInv, UnblockDone PROVE PageInv'
<1> DEFINE u == deed.of
           h == [kind |-> "refresh", of |-> u, other |-> u]
<1>1. /\ deed.at = "answered" /\ deed.kind = "unblock" /\ deed' = NoDeed
      /\ hides' = hides \ {u} /\ crossing' = (crossing \/ StillListed(u)) /\ LoadUsers({h})
      /\ UNCHANGED <<bond, mail, linked, chats, chosen, detached, permission, reads, turns,
                     unheard, elsewhere, misnamed>>
  BY DEF UnblockDone
<1>2. u \in Peers /\ ReadsTyped /\ ListingTyped
  BY <1>1 DEF PageInv, PageTyped, DeedTyped
<1>3. h \in HandlerCalls
  BY <1>2 DEF HandlerCalls
<1> HIDE DEF h, u
<1>4. /\ ListingTyped' /\ (listing'.at = "asked" \/ listing'.again)
      /\ listing'.first \cup listing'.others = listing.first \cup listing.others \cup {h}
  BY <1>1, <1>2, <1>3, LoadUsersMakes
<1>5. PageTyped'
  BY <1>1, <1>4, EmptyRows DEF PageInv, PageTyped, ScreenTyped, HistoryTyped, DeedTyped, DeedRow,
                               ReadsTyped, ReadRow
<1>6. (Untroubled' => Untroubled /\ ~StillListed(u)) /\ ListDue'
  BY <1>1, <1>4 DEF Untroubled, ListDue
<1>7. Undone = {u} /\ Undone' = {}
  BY <1>1, EmptyRows DEF Undone, u
<1>8. ASSUME Untroubled', ListFollows PROVE ListFollows'
  <2>1. MyBlocks' = MyBlocks /\ BlockLists' = BlockLists
    BY <1>1 DEF MyBlocks, BlockLists
  <2>2. hides' \subseteq MyBlocks' \cup Undone'
    BY <1>1, <1>7, <1>8, <2>1 DEF ListFollows
  <2>3. ASSUME NEW r \in BlockLists PROVE r.blocks \subseteq MyBlocks' \cup Undone'
    <3>1. u \notin r.blocks
      BY <1>6, <1>8 DEF StillListed, BlockLists
    <3>2. QED
      BY <1>7, <1>8, <2>1, <3>1 DEF ListFollows
  <2>4. QED
    BY <1>6, <2>1, <2>2, <2>3 DEF ListFollows
<1>9. ASSUME NEW p \in Peers, PermissionFollows(p) PROVE PermissionFollows(p)'
  <2>1. Callers \subseteq Callers'
    BY <1>1, <1>4 DEF Callers, InMail
  <2>2. QED
    BY <1>1, <1>9, <2>1, PermissionStays DEF AskedAbout, AnswersAbout
<1>10. QED
  BY <1>1, <1>5, <1>6, <1>8, <1>9, PageSteps

-----------------------------------------------------------------------------
(* ChatPage: events.                                                       *)

\* An event is taken from the queue.
LEMMA MailTaken ==
  ASSUME PageInv, mail # <<>>, mail' = Tail(mail)
  PROVE  mail' \in Seq(HandlerCalls) /\ Head(mail) \in HandlerCalls /\ InMail \subseteq InMail' \cup {Head(mail)}
<1>1. mail \in Seq(HandlerCalls)
  BY DEF PageInv, PageTyped, ScreenTyped
<1>2. QED
  BY <1>1, MailShrinks DEF InMail

\* Its handler loads the list.
LEMMA LoadingKeeps ==
  ASSUME PageInv, mail # <<>>, mail' = Tail(mail), LoadUsers({Head(mail)}),
         UNCHANGED <<bond, linked, chats, hides, chosen, detached, permission, reads, deed,
                     turns, unheard, crossing, elsewhere, misnamed>>
  PROVE  PageInv'
<1>1. mail' \in Seq(HandlerCalls) /\ Head(mail) \in HandlerCalls /\ InMail \subseteq InMail' \cup {Head(mail)}
  BY MailTaken
<1>2. /\ ListingTyped' /\ (listing'.at = "asked" \/ listing'.again)
      /\ listing'.first \cup listing'.others = listing.first \cup listing.others \cup {Head(mail)}
  BY <1>1, LoadUsersMakes DEF PageInv, PageTyped
<1>3. PageTyped'
  BY <1>1, <1>2 DEF PageInv, PageTyped, ScreenTyped, HistoryTyped, DeedTyped, DeedRow, ReadsTyped, ReadRow
<1>4. Undone' = Undone /\ (Untroubled' => Untroubled) /\ ListDue'
  BY <1>2 DEF Undone, Untroubled, ListDue
<1>5. ASSUME ListFollows PROVE ListFollows'
  BY <1>4, <1>5, ListStays DEF BlockLists
<1>6. ASSUME NEW p \in Peers, PermissionFollows(p) PROVE PermissionFollows(p)'
  <2>1. Callers \subseteq Callers'
    BY <1>1, <1>2 DEF Callers
  <2>2. QED
    BY <1>6, <2>1, PermissionStays DEF AskedAbout, AnswersAbout
<1>7. QED
  BY <1>3, <1>4, <1>5, <1>6, PageSteps

LEMMA RefreshEventKeeps == ASSUME PageInv, ConversationRefresh PROVE PageInv'
  BY LoadingKeeps DEF ConversationRefresh

LEMMA RequestEventKeeps == ASSUME PageInv, RequestUpdate PROVE PageInv'
<1> DEFINE h == Head(mail)
<1>1. /\ mail # <<>> /\ h.kind = "request" /\ mail' = Tail(mail)
      /\ (LoadUsers({h}) /\ UNCHANGED reads) \/ (GoOnWith({h}, chosen) /\ UNCHANGED listing)
      /\ UNCHANGED <<bond, linked, chats, hides, chosen, detached, permission, deed, turns,
                     unheard, crossing, elsewhere, misnamed>>
  BY DEF RequestUpdate
<1>2. CASE LoadUsers({h}) /\ UNCHANGED reads
  BY <1>1, <1>2, LoadingKeeps
<1>3. CASE GoOnWith({h}, chosen) /\ UNCHANGED listing
  <2>1. mail' \in Seq(HandlerCalls) /\ h \in HandlerCalls /\ InMail \subseteq InMail' \cup {h}
    BY <1>1, MailTaken
  <2>2. /\ ReadsTyped' /\ BlockLists' = BlockLists
        /\ \A q \in Peers : AnswersAbout(q)' = AnswersAbout(q)
        /\ \A q \in Peers : AskedAbout(q) => AskedAbout(q)'
        /\ \A q \in Peers : chosen = q /\ Concerns(h, q) => AskedAbout(q)'
    <3>1. ReadsTyped /\ chosen \in Peers \cup {NoPeer}
      BY DEF PageInv, PageTyped, ScreenTyped
    <3>2. PICK c \in Peers \cup {NoPeer} : c = chosen
      BY <3>1
    <3> HIDE DEF h
    <3>3. GoOnWith({h}, c)
      BY <1>3, <3>2
    <3>4. QED
      BY <3>1, <3>2, <3>3, GoOnKeepsReads
  <2> HIDE DEF h
  <2>3. PageTyped'
    BY <1>1, <1>3, <2>1, <2>2 DEF PageInv, PageTyped, ScreenTyped, HistoryTyped, ListingTyped,
                                  ListingRow, DeedTyped, DeedRow
  <2>4. Undone' = Undone /\ (Untroubled' => Untroubled) /\ (ListDue => ListDue')
    BY <1>1, <1>3, <2>1 DEF Undone, Untroubled, ListDue
  <2>5. ASSUME ListFollows PROVE ListFollows'
    BY <1>1, <1>3, <2>2, <2>4, <2>5, ListStays
  <2>6. ASSUME NEW p \in Peers, chosen = p, PermissionFollows(p) PROVE PermissionFollows(p)'
    <3>1. Callers \subseteq Callers' \cup {h}
      BY <1>3, <2>1 DEF Callers
    <3>2. Concerns(h, p) => AskedAbout(p)'
      BY <2>2, <2>6
    <3>3. QED
      BY <1>1, <2>2, <2>6, <3>1, <3>2, PermissionStays
  <2>7. QED
    BY <1>1, <2>3, <2>4, <2>5, <2>6, PageSteps
<1>4. QED
  BY <1>1, <1>2, <1>3

\* The socket is lost, and comes back.
LEMMA LinkKeeps == ASSUME PageInv, LinkDrops \/ LinkReturns PROVE PageInv'
<1>1. /\ UNCHANGED <<bond, chats, hides, chosen, detached, permission, listing, reads, deed,
                     crossing, elsewhere, misnamed>>
      /\ linked' \in BOOLEAN /\ (TakesATurn \/ turns' = turns)
      /\ \/ mail' = mail /\ unheard' = unheard
         \/ mail' = <<>> /\ unheard' = (unheard \/ mail # <<>>)
  BY DEF LinkDrops, LinkReturns
<1>2. PageTyped'
  <2>1. PageTyped
    BY DEF PageInv
  <2>2. mail' \in Seq(HandlerCalls) /\ unheard' \in BOOLEAN /\ (unheard => unheard')
    <3>1. mail \in Seq(HandlerCalls) /\ <<>> \in Seq(HandlerCalls) /\ unheard \in BOOLEAN
      BY <2>1 DEF PageTyped, ScreenTyped, HistoryTyped
    <3>2. CASE mail' = mail /\ unheard' = unheard
      BY <3>1, <3>2
    <3>3. CASE mail' = <<>> /\ unheard' = (unheard \/ mail # <<>>)
      BY <3>1, <3>3
    <3>4. QED
      BY <1>1, <3>2, <3>3
  <2>3. turns' \in 0 .. MaxTurns
    BY <1>1, <2>1, TurnsTyped DEF PageTyped, HistoryTyped
  <2>4. QED
    BY <1>1, <2>1, <2>2, <2>3 DEF PageTyped, ScreenTyped, HistoryTyped, ListingTyped, ListingRow,
                                   DeedTyped, DeedRow, ReadsTyped, ReadRow
<1>3. Untroubled' => Untroubled /\ mail' = mail
  BY <1>1 DEF Untroubled
<1>4. ASSUME Untroubled', ListFollows PROVE ListFollows'
  BY <1>1, <1>3, <1>4, ListStays DEF ListDue, InMail, Undone, BlockLists
<1>5. ASSUME Untroubled', NEW p \in Peers, PermissionFollows(p) PROVE PermissionFollows(p)'
  BY <1>1, <1>3, <1>5, PermissionStays DEF Callers, InMail, AskedAbout, AnswersAbout
<1>6. QED
  BY <1>1, <1>2, <1>3, <1>4, <1>5, PageSteps

-----------------------------------------------------------------------------
(* ChatPage: answers.                                                      *)

LEMMA RecentTyped == RecentChats \subseteq Peers /\ RecentChats \cap MyBlocks = {}
  BY DEF RecentChats, MyBlocks, BlockedEither

\* The server reads the list.
LEMMA ServeChatsKeeps == ASSUME PageInv, ServeChats PROVE PageInv'
<1>1. /\ listing.at = "asked"
      /\ listing' = [listing EXCEPT !.at = "read", !.seen = RecentChats]
      /\ UNCHANGED <<bond, mail, linked, chats, hides, chosen, detached, permission, reads,
                     deed, turns, unheard, crossing, elsewhere, misnamed>>
  BY DEF ServeChats
<1> DEFINE R == RecentChats
<1>2. listing \in ListingRow /\ R \in SUBSET Peers
  BY RecentTyped DEF PageInv, PageTyped, ListingTyped
<1> HIDE DEF R
<1>3. PICK l \in ListingRow : l = [listing EXCEPT !.at = "read", !.seen = R]
  BY <1>2 DEF ListingRow
<1>4. /\ l.at = "read" /\ l.seen = R /\ l.again = listing.again /\ l.first = listing.first
      /\ l.others = listing.others
  BY <1>2, <1>3 DEF ListingRow
<1>5. listing' = l
  BY <1>1, <1>3 DEF R
<1>6. PageTyped'
  BY <1>1, <1>4, <1>5 DEF PageInv, PageTyped, ScreenTyped, HistoryTyped, ListingTyped, ListingRow,
                          DeedTyped, DeedRow, ReadsTyped, ReadRow
<1>7. ASSUME ListFollows PROVE ListFollows'
  <2>1. MyBlocks' = MyBlocks /\ Undone' = Undone /\ BlockLists' = BlockLists /\ RecentChats' = R
    BY <1>1 DEF MyBlocks, Undone, BlockLists, RecentChats, R
  <2>2. QED
    BY <1>1, <1>4, <1>5, <1>7, <2>1 DEF ListFollows
<1>8. ASSUME NEW p \in Peers, PermissionFollows(p) PROVE PermissionFollows(p)'
  BY <1>1, <1>4, <1>5, <1>8, PermissionStays DEF Callers, InMail, AskedAbout, AnswersAbout
<1>9. Untroubled' => Untroubled
  BY <1>1 DEF Untroubled
<1>10. QED
  BY <1>1, <1>6, <1>7, <1>8, <1>9, PageSteps

\* The list has come; who waited for it goes on.
LEMMA ChatsKeep == ASSUME PageInv, ChatsAnswered PROVE PageInv'
<1> DEFINE list == listing.seen \ (hides \ {chosen})
           ready == listing.others \cup IF listing.again THEN {} ELSE listing.first
<1>1. /\ listing.at = "read" /\ chats' = list /\ SyncSelected(list)
      /\ listing' = IF listing.again
                       THEN [NoListing EXCEPT !.at = "asked", !.first = listing.first] ELSE NoListing
      /\ GoOnWith(ready, chosen')
      /\ UNCHANGED <<bond, mail, linked, hides, permission, deed, turns, unheard,
                     crossing, elsewhere, misnamed>>
  BY DEF ChatsAnswered
<1>2. /\ listing \in ListingRow /\ chosen \in Peers \cup {NoPeer} /\ detached \in BOOLEAN
      /\ ReadsTyped /\ list \subseteq Peers
  BY ListingRowTyped DEF PageInv, PageTyped, ScreenTyped, ListingTyped
<1>3. chosen' \in {chosen, NoPeer} /\ detached' \in BOOLEAN
  <2>1. CASE chosen = NoPeer \/ chosen \in list
    BY <1>1, <1>2, <2>1 DEF SyncSelected
  <2>2. CASE ~(chosen = NoPeer \/ chosen \in list)
    BY <1>1, <1>2, <2>2 DEF SyncSelected
  <2>3. QED
    BY <2>1, <2>2
<1>4. PICK c \in Peers \cup {NoPeer} : c = chosen'
  BY <1>2, <1>3
<1>5. /\ ReadsTyped' /\ BlockLists' = BlockLists
      /\ \A q \in Peers : AnswersAbout(q)' = AnswersAbout(q)
      /\ \A q \in Peers : AskedAbout(q) => AskedAbout(q)'
      /\ c \in Peers /\ (\E h \in ready : Concerns(h, c)) => AskedAbout(c)'
  <2>1. GoOnWith(ready, c)
    BY <1>1, <1>4
  <2> HIDE DEF ready
  <2>2. QED
    BY <1>2, <2>1, GoOnKeepsReads
<1>6. /\ ListingTyped'
      /\ listing.again => listing'.at = "asked" /\ listing'.first = listing.first
      /\ ~listing.again => listing'.at = "idle"
  <2>1. CASE listing.again
    <3>1. listing' = [NoListing EXCEPT !.at = "asked", !.first = listing.first]
      BY <1>1, <2>1
    <3>2. listing' \in ListingRow /\ listing'.at = "asked" /\ listing'.first = listing.first
      BY <1>2, <3>1, ListingRowTyped DEF NoListing, ListingRow
    <3>3. QED
      BY <2>1, <3>2 DEF ListingTyped, ListingRow, HandlerCalls
  <2>2. CASE ~listing.again
    <3>1. listing' = NoListing
      BY <1>1, <2>2
    <3>2. QED
      BY <2>2, <3>1, EmptyRows DEF ListingTyped, ListingRow, HandlerCalls
  <2>3. QED
    BY <2>1, <2>2
<1>7. PageTyped'
  <2> HIDE DEF list, ready
  <2>1. chosen' \in Peers \cup {NoPeer} /\ chats' \subseteq Peers
    BY <1>1, <1>2, <1>4
  <2>2. QED
    BY <1>1, <1>3, <1>5, <1>6, <2>1 DEF PageInv, PageTyped, ScreenTyped, HistoryTyped, DeedTyped, DeedRow
<1>8. ASSUME ListFollows PROVE ListFollows'
  <2>1. MyBlocks' = MyBlocks /\ Undone' = Undone /\ RecentChats' = RecentChats /\ InMail' = InMail
    BY <1>1 DEF MyBlocks, Undone, RecentChats, InMail
  <2>2. CASE listing.again
    <3>1. ListDue'
      BY <1>6, <2>2 DEF ListDue
    <3>2. QED
      BY <1>1, <1>5, <1>8, <2>1, <3>1 DEF ListFollows
  <2>3. CASE ~listing.again
    <3>1. ASSUME ~ListDue' PROVE chats' \ Undone' = RecentChats' \ Undone'
      <4>1. ~ListDue
        BY <1>1, <2>1, <2>3, <3>1 DEF ListDue
      <4>2. chats' = RecentChats \ (hides \ {chosen}) /\ hides \subseteq MyBlocks \cup Undone
        BY <1>1, <1>8, <4>1 DEF ListFollows
      <4>3. QED
        BY <2>1, <4>2, RecentTyped
    <3>2. QED
      BY <1>1, <1>5, <1>6, <1>8, <2>1, <2>3, <3>1 DEF ListFollows
  <2>4. QED
    BY <2>2, <2>3
<1>9. ASSUME NEW p \in Peers, chosen' = p, PermissionFollows(p) PROVE PermissionFollows(p)'
  <2>1. \A h \in Callers : h \in Callers' \/ h \in ready
    <3>1. InMail' = InMail
      BY <1>1 DEF InMail
    <3>2. CASE listing.again
      BY <1>6, <3>1, <3>2 DEF Callers
    <3>3. CASE ~listing.again
      BY <3>1, <3>3 DEF Callers
    <3>4. QED
      BY <3>2, <3>3
  <2>2. ASSUME NEW h \in ready, Concerns(h, p) PROVE AskedAbout(p)'
    BY <1>4, <1>5, <1>9, <2>2
  <2> HIDE DEF ready
  <2>3. QED
    BY <1>1, <1>5, <1>9, <2>1, <2>2, PermissionStays
<1>10. ASSUME NEW p \in Peers, chosen' = p PROVE chosen = p
  BY <1>3, <1>10, ChatPageAssumption
<1>11. Untroubled' => Untroubled
  BY <1>1 DEF Untroubled
<1>12. QED
  BY <1>1, <1>7, <1>8, <1>9, <1>10, <1>11, PageSteps

\* Nothing is said of the page once a request has failed.
LEMMA TroubleKeeps ==
  ASSUME PageInv, PageTyped', unheard', elsewhere \subseteq elsewhere' PROVE PageInv'
  BY DEF PageInv, Untroubled

LEMMA ChatsFailKeeps == ASSUME PageInv, ChatsFail PROVE PageInv'
<1> DEFINE ready == {h \in listing.first \cup listing.others : h.kind = "request"}
<1>1. /\ TakesATurn /\ listing' = [NoListing EXCEPT !.again = listing.again]
      /\ GoOnWith(ready, chosen) /\ unheard' = TRUE
      /\ UNCHANGED <<bond, mail, linked, chats, hides, chosen, detached, permission, deed,
                     crossing, elsewhere, misnamed>>
  BY DEF ChatsFail
<1>2. listing \in ListingRow /\ chosen \in Peers \cup {NoPeer} /\ ReadsTyped
  BY DEF PageInv, PageTyped, ScreenTyped, ListingTyped
<1> HIDE DEF ready
<1>3. ReadsTyped'
  <2>1. PICK c \in Peers \cup {NoPeer} : c = chosen
    BY <1>2
  <2>2. GoOnWith(ready, c)
    BY <1>1, <2>1
  <2>3. QED
    BY <1>2, <2>2, GoOnKeepsReads
<1>4. ListingTyped'
  <2>1. listing' \in ListingRow /\ listing'.first = {} /\ listing'.others = {}
    BY <1>1, <1>2, ListingRowTyped DEF NoListing, ListingRow
  <2>2. QED
    BY <1>1, <2>1 DEF ListingTyped, ListingRow, HandlerCalls
<1>5. PageTyped'
  BY <1>1, <1>3, <1>4, TurnsTyped DEF PageInv, PageTyped, ScreenTyped, HistoryTyped, DeedTyped, DeedRow
<1>6. QED
  BY <1>1, <1>5, TroubleKeeps

LEMMA ReadFailsKeeps == ASSUME PageInv, NEW r, ReadFails(r) PROVE PageInv'
<1>1. /\ TakesATurn /\ reads' = reads \ {r} /\ permission' \in {permission, Strangers} /\ unheard' = TRUE
      /\ UNCHANGED <<bond, mail, linked, chats, hides, chosen, detached, listing, deed,
                     crossing, elsewhere, misnamed>>
  BY DEF ReadFails
<1>2. PageTyped'
  BY <1>1, TurnsTyped, EmptyRows DEF PageInv, PageTyped, ScreenTyped, HistoryTyped, ListingTyped,
     ListingRow, DeedTyped, DeedRow, ReadsTyped, ReadRow
<1>3. QED
  BY <1>1, <1>2, TroubleKeeps

\* The server answers one of the other requests.
LEMMA ServeReadKeeps == ASSUME PageInv, NEW r, ServeRead(r) PROVE PageInv'
<1> DEFINE s == IF r.what = "permission" THEN PermissionOf(bond[r.of]) ELSE r.seen
           b == IF r.what = "blocks" THEN MyBlocks ELSE r.blocks
<1>1. /\ r \in reads /\ r.at = "asked"
      /\ reads' = (reads \ {r}) \cup {[r EXCEPT !.at = "answered", !.seen = s, !.blocks = b]}
      /\ UNCHANGED <<bond, mail, linked, chats, hides, chosen, detached, permission, listing,
                     deed, turns, unheard, crossing, elsewhere, misnamed>>
  BY DEF ServeRead, MyBlocks
<1>2. /\ r \in ReadRow /\ bond \in [Peers -> Bonds] /\ (r.what = "permission" => r.of \in Peers)
      /\ \A q \in reads : q \in ReadRow
  BY <1>1 DEF PageInv, PageTyped, ScreenTyped, ReadsTyped
<1>3. s \in Bonds /\ b \in SUBSET Peers
  <2>1. s \in Bonds
    BY <1>2, ReadRowTyped, BondTyped
  <2>2. b \in SUBSET Peers
    BY <1>2, ReadRowTyped DEF MyBlocks
  <2>3. QED
    BY <2>1, <2>2
<1>4. (r.what = "permission" => s = PermissionOf(bond[r.of])) /\ (r.what = "blocks" => b = MyBlocks)
  OBVIOUS
<1> HIDE DEF s, b
<1>5. PICK a \in ReadRow : a = [r EXCEPT !.at = "answered", !.seen = s, !.blocks = b]
  BY <1>2, <1>3 DEF ReadRow
<1>6. a.what = r.what /\ a.of = r.of /\ a.at = "answered" /\ a.seen = s /\ a.blocks = b
  BY <1>2, <1>5 DEF ReadRow
<1>7. reads' = (reads \ {r}) \cup {a}
  BY <1>1, <1>5
<1>8. PageTyped'
  BY <1>1, <1>2, <1>6, <1>7 DEF PageInv, PageTyped, ScreenTyped, HistoryTyped, ListingTyped,
     ListingRow, DeedTyped, DeedRow, ReadsTyped, ReadRow
<1>9. ASSUME ListFollows PROVE ListFollows'
  <2>1. MyBlocks' = MyBlocks /\ Undone' = Undone /\ RecentChats' = RecentChats /\ (ListDue' <=> ListDue)
    BY <1>1 DEF MyBlocks, Undone, RecentChats, InMail, ListDue
  <2>2. ASSUME NEW q \in BlockLists' PROVE q.blocks \subseteq MyBlocks \cup Undone
    <3>1. CASE q = a
      BY <1>4, <1>6, <2>2, <3>1 DEF BlockLists
    <3>2. CASE q # a
      <4>1. q \in BlockLists
        BY <1>7, <2>2, <3>2 DEF BlockLists
      <4>2. QED
        BY <1>9, <4>1 DEF ListFollows
    <3>3. QED
      BY <3>1, <3>2
  <2>3. QED
    BY <1>1, <1>9, <2>1, <2>2 DEF ListFollows
<1>10. ASSUME NEW p \in Peers, PermissionFollows(p) PROVE PermissionFollows(p)'
  <2>1. CASE ~(r.what = "permission" /\ r.of = p)
    <3>1. AnswersAbout(p)' = AnswersAbout(p) /\ (AskedAbout(p) => AskedAbout(p)')
      BY <1>1, <1>6, <1>7, <2>1 DEF AnswersAbout, AskedAbout
    <3>2. QED
      BY <1>1, <1>10, <3>1, PermissionStays DEF Callers, InMail
  <2>2. CASE r.what = "permission" /\ r.of = p
    <3>1. AnswersAbout(p)' = AnswersAbout(p) \cup {a}
      BY <1>1, <1>6, <1>7, <2>2 DEF AnswersAbout
    <3>2. a.seen = PermissionOf(bond[p])
      BY <1>4, <1>6, <2>2
    <3>3. CASE AnswersAbout(p) \subseteq {a}
      <4>1. AnswersAbout(p)' = {a}
        BY <3>1, <3>3
      <4>2. QED
        BY <1>1, <3>2, <4>1 DEF PermissionFollows, PermissionOf, BlockedEither
    <3>4. CASE ~(AnswersAbout(p) \subseteq {a})
      BY <3>1, <3>4 DEF PermissionFollows
    <3>5. QED
      BY <3>3, <3>4
  <2>3. QED
    BY <2>1, <2>2
<1>11. Untroubled' => Untroubled
  BY <1>1 DEF Untroubled
<1>12. QED
  BY <1>1, <1>8, <1>9, <1>10, <1>11, PageSteps

\* The permission has come.
LEMMA PermissionKeeps == ASSUME PageInv, NEW r, PermissionAnswered(r) PROVE PageInv'
<1>1. /\ r.what = "permission" /\ r \in reads /\ r.at = "answered"
      /\ reads' = reads \ {r} /\ crossing' = (crossing \/ AnsweredTwice(r))
      /\ permission' = IF r.of = chosen THEN r.seen ELSE permission
      /\ UNCHANGED <<bond, mail, linked, chats, hides, chosen, detached, listing, deed, turns,
                     unheard, elsewhere, misnamed>>
  BY DEF PermissionAnswered, Takes, ForWhom
<1>2. r \in ReadRow /\ r.seen \in Bonds
  BY <1>1, ReadRowTyped DEF PageInv, PageTyped, ReadsTyped
<1>3. PageTyped'
  BY <1>1, <1>2 DEF PageInv, PageTyped, ScreenTyped, HistoryTyped, ListingTyped,
     ListingRow, DeedTyped, DeedRow, ReadsTyped, ReadRow
<1>4. Untroubled' => Untroubled /\ ~AnsweredTwice(r)
  BY <1>1 DEF Untroubled
<1>5. ASSUME ListFollows PROVE ListFollows'
  BY <1>1, <1>5, ListStays DEF ListDue, InMail, Undone, BlockLists
<1>6. ASSUME Untroubled', NEW p \in Peers, chosen = p, PermissionFollows(p) PROVE PermissionFollows(p)'
  <2>1. AskedAbout(p) => AskedAbout(p)'
    BY <1>1 DEF AskedAbout
  <2>2. CASE r.of # p
    <3>1. AnswersAbout(p)' = AnswersAbout(p) /\ permission' = permission
      BY <1>1, <1>6, <2>2 DEF AnswersAbout
    <3>2. QED
      BY <1>1, <1>6, <2>1, <3>1, PermissionStays DEF Callers, InMail
  <2>3. CASE r.of = p
    <3>1. AnswersAbout(p)' = AnswersAbout(p) \ {r} /\ r \in AnswersAbout(p) /\ permission' = r.seen
      BY <1>1, <1>6, <2>3 DEF AnswersAbout
    <3>2. AnswersAbout(p) = {r}
      BY <1>1, <1>4, <1>6, <2>3, <3>1 DEF AnsweredTwice, AnswersAbout
    <3>3. CASE AskedAbout(p) \/ \E h \in Callers : Concerns(h, p)
      BY <1>1, <2>1, <3>3 DEF PermissionFollows, Callers, InMail, Concerns
    <3>4. CASE r.seen = PermissionOf(bond[p])
      BY <1>1, <3>1, <3>2, <3>4 DEF PermissionFollows, PermissionOf, BlockedEither
    <3>5. QED
      BY <1>6, <3>1, <3>2, <3>3, <3>4 DEF PermissionFollows
  <2>4. QED
    BY <2>2, <2>3
<1>7. QED
  BY <1>1, <1>3, <1>4, <1>5, <1>6, PageSteps

\* The list of the blocked has come.
LEMMA BlocksKeep == ASSUME PageInv, NEW r, BlocksAnswered(r) PROVE PageInv'
<1>1. /\ r.what = "blocks" /\ r \in reads /\ r.at = "answered"
      /\ reads' = reads \ {r} /\ crossing' = (crossing \/ AnsweredTwice(r))
      /\ hides' = r.blocks /\ chats' = chats \ r.blocks
      /\ chosen' = (IF chosen \in r.blocks THEN NoPeer ELSE chosen)
      /\ detached' = (detached /\ ~(chosen \in r.blocks))
      /\ UNCHANGED <<bond, mail, linked, permission, listing, deed, turns, unheard,
                     elsewhere, misnamed>>
  BY DEF BlocksAnswered, Takes
<1>2. r \in ReadRow /\ r.blocks \in SUBSET Peers
  BY <1>1, ReadRowTyped DEF PageInv, PageTyped, ReadsTyped
<1>3. PageTyped'
  BY <1>1, <1>2 DEF PageInv, PageTyped, ScreenTyped, HistoryTyped, ListingTyped,
     ListingRow, DeedTyped, DeedRow, ReadsTyped, ReadRow
<1>4. Untroubled' => Untroubled
  BY <1>1 DEF Untroubled
<1>5. ASSUME ListFollows PROVE ListFollows'
  <2>1. MyBlocks' = MyBlocks /\ Undone' = Undone /\ RecentChats' = RecentChats
        /\ BlockLists' \subseteq BlockLists /\ r \in BlockLists /\ (ListDue' <=> ListDue)
    BY <1>1 DEF MyBlocks, Undone, RecentChats, InMail, ListDue, BlockLists
  <2>2. r.blocks \subseteq MyBlocks \cup Undone
    BY <1>5, <2>1 DEF ListFollows
  <2>3. ASSUME ~ListDue, listing.at = "idle" PROVE chats' \ Undone = RecentChats \ Undone
    <3>1. chats \ Undone = RecentChats \ Undone
      BY <1>5, <2>3 DEF ListFollows
    <3>2. QED
      BY <1>1, <2>2, <3>1, RecentTyped
  <2>4. QED
    BY <1>1, <1>5, <2>1, <2>2, <2>3 DEF ListFollows
<1>6. ASSUME NEW p \in Peers, PermissionFollows(p) PROVE PermissionFollows(p)'
  <2>1. AnswersAbout(p)' = AnswersAbout(p) /\ (AskedAbout(p) => AskedAbout(p)')
    BY <1>1 DEF AnswersAbout, AskedAbout
  <2>2. QED
    BY <1>1, <1>6, <2>1, PermissionStays DEF Callers, InMail
<1>7. ASSUME NEW p \in Peers, chosen' = p PROVE chosen = p
  BY <1>1, <1>7, ChatPageAssumption
<1>8. QED
  BY <1>1, <1>3, <1>4, <1>5, <1>6, <1>7, PageSteps

LEMMA PageStart == ASSUME ChatPageInit PROVE PageInv
<1>1. PageTyped
  <2>1. ScreenTyped
    <3>1. mail \in Seq(HandlerCalls)
      BY DEF ChatPageInit
    <3>2. bond \in [Peers -> Bonds] /\ permission \in Bonds
      BY EmptyRows DEF ChatPageInit
    <3>3. QED
      BY <3>1, <3>2, ChatPageAssumption DEF ChatPageInit, ScreenTyped
  <2>2. HistoryTyped
    <3>1. MaxTurns \in Nat
      BY ChatPageAssumption
    <3>2. turns \in 0 .. MaxTurns
      BY <3>1 DEF ChatPageInit
    <3>3. QED
      BY <3>2 DEF ChatPageInit, HistoryTyped
  <2>3. ListingTyped
    BY EmptyRows DEF ChatPageInit, ListingTyped, NoListing
  <2>4. ReadsTyped
    BY DEF ChatPageInit, ReadsTyped
  <2>5. DeedTyped
    BY EmptyRows DEF ChatPageInit, DeedTyped, NoDeed
  <2>6. QED
    BY <2>1, <2>2, <2>3, <2>4, <2>5 DEF PageTyped
<1>2. RecentChats = chats
  BY ChatPageAssumption DEF ChatPageInit, RecentChats, BlockedEither, Strangers
<1>3. ListFollows
  BY <1>2, EmptyRows DEF ChatPageInit, ListFollows, BlockLists, NoListing
<1>4. \A p \in Peers : chosen # p
  BY ChatPageAssumption DEF ChatPageInit
<1>5. QED
  BY <1>1, <1>3, <1>4 DEF PageInv

LEMMA PageStep == ASSUME PageInv, [ChatPageNext]_chatPageVars PROVE PageInv'
<1>1. CASE UNCHANGED chatPageVars
  <2>1. PageTyped' /\ Undone' = Undone
    BY <1>1 DEF chatPageVars, PageInv, PageTyped, ScreenTyped, HistoryTyped, ListingTyped,
       ListingRow, DeedTyped, DeedRow, ReadsTyped, ReadRow, Undone
  <2>2. QED
    BY <1>1, <2>1, AllStays DEF chatPageVars
<1>2. CASE \E p \in Peers : PeerActs(p) \/ ActElsewhere(p) \/ SelectChat(p) \/ PressUnblock(p)
  BY <1>2, PeerKeeps, ElsewhereKeeps, SelectKeeps, ButtonsKeep
<1>3. CASE ServeChats \/ ChatsAnswered \/ ChatsFail
  BY <1>3, ServeChatsKeeps, ChatsKeep, ChatsFailKeeps
<1>4. CASE \E r \in reads : ServeRead(r) \/ PermissionAnswered(r) \/ BlocksAnswered(r) \/ ReadFails(r)
  BY <1>4, ServeReadKeeps, PermissionKeeps, BlocksKeep, ReadFailsKeeps
<1>5. CASE RequestUpdate \/ ConversationRefresh \/ LinkDrops \/ LinkReturns
  BY <1>5, RequestEventKeeps, RefreshEventKeeps, LinkKeeps
<1>6. CASE PressRequest \/ PressBlock \/ OpenProfile \/ ServeDeed \/ RefuseDeed
  BY <1>6, ButtonsKeep, ProfileKeeps, DeedServedKeeps, RefuseKeeps
<1>7. CASE RequestDone \/ BlockDone \/ UnblockDone
  BY <1>7, RequestDoneKeeps, BlockDoneKeeps, UnblockDoneKeeps
<1>8. QED
  BY <1>1, <1>2, <1>3, <1>4, <1>5, <1>6, <1>7 DEF ChatPageNext

\* The invariant of the page and the requests on their way to and from it.
THEOREM PageInductive == ChatPageSpec => []PageInv
<1>1. ChatPageInit => PageInv
  BY PageStart
<1>2. PageInv /\ [ChatPageNext]_chatPageVars => PageInv'
  BY PageStep
<1>3. QED
  BY <1>1, <1>2, PTL DEF ChatPageSpec

\* What the page shows, its requests and the events keep their types.
THEOREM PageTypeCorrect == ChatPageSpec => []ChatPageTypeOK
<1>1. ASSUME PageInv PROVE ChatPageTypeOK
  <2>1. \A r \in reads : r.what \in {"permission", "blocks"} /\ r.at \in {"asked", "answered"}
    BY <1>1, ReadRowTyped DEF PageInv, PageTyped, ReadsTyped
  <2>2. QED
    BY <1>1, <2>1 DEF ChatPageTypeOK, PageInv, PageTyped, ScreenTyped, HistoryTyped, ListingTyped,
                      ListingRow, DeedTyped, DeedRow
<1>2. QED
  BY <1>1, PageInductive, PTL

\* When everything has arrived, the page shows what the server would answer (loadUsers,
\* loadChatPermission and their callers).
THEOREM PageCatchesUpAlways == ChatPageSpec => []PageCatchesUp
<1>1. ASSUME PageInv, Quiescent, ~unheard, ~crossing
      PROVE  /\ elsewhere = {} => chats = RecentChats
             /\ chosen \notin misnamed \cup {NoPeer} => permission = PermissionOf(bond[chosen])
  <2>1. Untroubled /\ InMail = {} /\ Undone = {}
    BY <1>1 DEF Untroubled, InMail, Undone, Quiescent
  <2>2. Callers = {} /\ ~ListDue
    BY <1>1, <2>1 DEF Callers, ListDue, Quiescent, PageInv, PageTyped, ListingTyped
  <2>3. ASSUME elsewhere = {} PROVE chats = RecentChats
    BY <1>1, <2>1, <2>2, <2>3 DEF PageInv, ListFollows, Quiescent
  <2>4. ASSUME chosen \notin misnamed \cup {NoPeer} PROVE permission = PermissionOf(bond[chosen])
    <3>1. chosen \in Peers
      BY <1>1, <2>4 DEF PageInv, PageTyped, ScreenTyped
    <3>2. PermissionFollows(chosen)
      BY <1>1, <2>1, <2>4, <3>1 DEF PageInv
    <3>3. ~AskedAbout(chosen) /\ AnswersAbout(chosen) = {}
      BY <1>1 DEF Quiescent, AskedAbout, AnswersAbout
    <3>4. QED
      BY <2>2, <3>2, <3>3 DEF PermissionFollows
  <2>5. QED
    BY <2>3, <2>4
<1>2. PageInv => PageCatchesUp
  BY <1>1 DEF PageCatchesUp
<1>3. QED
  BY <1>2, PageInductive, PTL
================================================================================
