# A TLA+ model of the chat application

This directory models the chat application in this repository (a NestJS server
with Prisma on PostgreSQL, Socket.IO and Redis, and its browser client) and
checks what it promises. Paths such as `chat.service.ts:1322` are under
`src/src/chat`, `src/src/user` and so on; `schema.prisma` is under `src/prisma`,
`app.js` and `admin.js` under `src/public`.

1. [The system](#1-the-system): components, state, operations, hard behaviours
2. [How the code becomes TLA+](#2-how-the-code-becomes-tla)
3. [The modules](#3-the-modules)
4. [The runs](#4-the-runs): what TLC checks, bounds, fairness
5. [The proofs](#5-the-proofs): what TLAPS proves, and how
6. [Not modelled](#6-not-modelled)
7. [Plan](#7-plan)

## 1. The system

One or several Node processes serve HTTP and WebSocket requests. All of them
share one PostgreSQL database; Redis relays events between processes and caches
messages; attachments are files on the local disk or objects in Cloudflare R2.
A handler is an `async` function: between two `await`s nothing else runs in its
process, and at each `await` anything may. There is no lock anywhere above the
database. The browser client is one long script with the same rule: its
functions await requests, devices and storage, and share global variables.

| Component | State | Operations that change it | Hard behaviour | What makes it correct |
|---|---|---|---|---|
| Groups (`chat.service.ts:1072-1389`) | `Group`, `GroupMember`, `GroupJoinRequest` rows | create, invite, accept, reject, remove, promote, leave; erasing an account cascades | every handler decides on rows read before its write | an administrator and an owner at all times, entry by invitation only, no dangling rows |
| Chat requests and blocks (`chat.service.ts:944-1070`, `user.service.ts:2135-2186`) | `ChatRequest`, `UserBlock` rows | send, accept, reject, withdraw, block, unblock; account erasure | no unique key on a pair; acceptance never looks at blocks | a chat opens only by the will of both, and stays shut after a block |
| Resumable uploads (`chat-upload.service.ts`, `app.js:4600-5300`) | a JSON record and an assembled file per session, the final file, the message; the browser's queue of files | create, upload a chunk, finalize, cancel; every request first repairs the record; Stop, Retry, Remove | crashes between file, record and message; two requests on one session; lost answers, retries | the attachment is the file that was sent, whole, in order and once; a finished upload stays finished |
| Accounts (`user.service.ts`, `auth.service.ts`) | `User` rows: role, approval, ban, token version, scheduled deletion | register, approve, ban, unban, remove role, delete, schedule, cancel, purge | counts of administrators read before writes; a purge that lists accounts first | an administrator at all times; revoked tokens stay dead; who cancels in time keeps the account |
| Text messages (`app.js`, `chat.gateway.ts:822`, `chat.service.ts:1391-1595`) | queues in the browser, drafts in memory, `Message` rows | send, acknowledge, persist, commit, roll back, retry | shown before it is stored; deadlines with late answers; two queues and several flushes | nothing written vanishes or is stored twice; the reader sees what is stored |
| Attachments (`chat.controller.ts:597`, `chat-attachment-storage.service.ts`, the cache in `chat.service.ts`) | files, `Message` rows, copies in Redis | send, delete for everyone, expire, erase with the account | stale copies, failing deletions, stops | a message that names a file has it; a file that nobody names goes |
| Retention (`chat-retention.service.ts`) | messages, preferences, theme pictures | hourly cleanup in batches | failing deletions, preferences saved meanwhile | what is expired goes away |
| Timelines (`app.js`, `chat.service.ts:367-466`) | cached pages of each chat, requests under way | open, scroll, refresh, receive, hide, clear, reload | answers that arrive for another chat, or after news | no gap in what is shown |
| Chat list and permission (`app.js:8983-10713`) | list, open chat, permission shown | events, requests, own actions | answers out of order, joined requests, lost connections | at rest the page shows what the server would answer |
| Gateway and presence (`chat.gateway.ts`, `redis.service.ts`) | sockets per user in each process, a hash in Redis | connect, disconnect, publish, restart | connects and disconnects interleave with awaits on Redis; a process that gave Redis up | presence agrees with open sockets when things are quiet |
| Calls (`app.js:12918-13348`) | one call per browser: connection, devices | call, accept, decline, hang up, flip the camera | any of them while a device is awaited | devices are released with the call |
| Message keys (`app.js:1009-1159`, `user.service.ts:2089`) | key pair per browser, public key and backup at the server, profiles on their way | ensure, publish, back up, change password, answers with the profile | overlapping calls, several browsers, a key that changes under an `await` | the published key is held, the backup opens |
| Reports (`user.service.ts:1389-1780`) | `UserReport` rows | file, review, ban | reads one after the other, deletions in between | what a report says is true |
| Push, mail, backups, profile, settings | one row or file each | single writes | external services fail | a failure must not undo what was stored |

Components meet in four places. *Account erasure* deletes rows of all others in
one transaction, and files after it: `Erase` in `AdminAccounts`, `DeleteUser` of
`GroupMembership`, `DeleteChatUser` of `ChatRequests`, `EraseRows` and `EraseFile`
of `AttachmentLife`, `EraseAccount` of `Reports`. *Permission to chat* is read by
messages and uploads (`assertUsersCanChat`, `ensureGroupMember`) and shown by
`ChatPage`. *Messages* are created by the gateway, by the HTTP controller and by
the finalization of an upload; the latter two delete the attachment when creation
fails. *Notifications* (`notifyUser`) may throw after a caller has written.

The hazards of the code, each with its line and the properties aimed at it, are
in `PROJECT.json` under `hazards`.

## 2. How the code becomes TLA+

* **Requests.** A request in flight is a record, one for each member of a set of
  handlers (`req[h]` in `GroupMembership` and `AdminAccounts`, `chatReq[h]` in
  `ChatRequests`, and so on). It holds what the handler has read and decided; idle
  means that the slot is free. A `Begin...` or `Read...` action is the handler up to
  the last read it decides on, a `Write...` action is the statement or transaction
  that follows. Anything may happen between the two.
* **Transactions.** A transaction is one step. Those modelled here only write,
  and the row locks that they hold until they commit make them serializable. One
  `findUnique` with `include`, or reads started together by `Promise.all`, is one
  step as well: the rows it returns are those at one moment. For `Promise.all`
  this is an abstraction (the reads may straddle a write); the properties of the
  interleaved runs do not depend on the lists that it feeds.
* **Missing rows.** `update` and `delete` of a row that is gone throw, and so does
  an insertion that breaks a foreign key: the guard of the write says which rows
  must exist, and the handler whose guard is false can only `Abort`.
* **Failures.** `Abort(h)` ends a request at any point without its write: a
  refusal, an exception, a lost connection, or the stop of the process. Several
  aborts in a row are the crash of a process with several requests in flight. No
  state of the groups and chats lives in the process, so a restart needs no action
  there. In `AdminAccounts` a start of the server also makes administrators: it is the
  action `Restart`, and ends every request, because `render.yaml` runs one instance with
  a disk, which stops before the next one starts. In `UploadSession` the state is files,
  and a failure between any two effects on them leaves them as they are; one during
  `writeFile` leaves the record torn. In the modules of later layers stops, lost
  connections, reloads, failing requests and failing deletions are actions of their own,
  counted by a bound (`MaxStops`, `MaxMishaps`, `MaxTroubles`, `MaxLosses`, ...).
* **Accounts.** `live` is the set of users whose row exists (and, for
  invitations, whose e-mail address is verified). Accounts are erased at any time:
  by an administrator, or by the hourly purge.
* **Data.** Names, avatars, contents and wording are left out. Of timestamps the
  order remains: `older` in `GroupMembership`, the order of ids in `ChatRequests`,
  `born` in `AttachmentLife`. Only `Timeline` has messages with equal dates, because
  there they make a difference.
* **One at a time.** `Serial...Spec` is the specification with the restriction that a
  request begins only when no other is in flight. It is not what the server guarantees.
  It separates what a handler gets wrong by itself from what only interleaving
  breaks, and it is where the strongest properties hold. For groups and chats accounts
  are erased at any time there too, so decisions still go stale; in `AdminAccounts` an
  erasure is a request like others, and logins, registrations, dates and restarts happen
  at any time.
* **History variables.** Some variables record what has happened, for the properties
  only: no guard of a step reads them. They name the exceptions that a property makes,
  so that it says exactly when the code keeps it (section 4 lists them).

## 3. The modules

### The server's rows and files

**`GroupMembership`** models one group. `group`, `createdBy`, `role`, `older` and
`invite` are the rows of `Group`, `GroupMember` and `GroupJoinRequest`.
`NextGroupOwner` is `pickNextGroupOwner`. `BeginInvite`, `ListInvitees` and
`WriteInvites` are the three awaits of `inviteGroupMembers`; `CreateGroup` writes
the group and leaves the invitations to `WriteInvites`, as the code does without a
transaction; `BeginAnswer`, `WriteAccept` and `WriteReject` are the two answers to
an invitation; `BeginRemove`/`WriteRemove`, `BeginPromote`/`WritePromote` and
`BeginLeave`/`WriteDissolve`/`WriteLeave` are removal, promotion and departure.
The check of the invited users in `createGroup` and the creation are one step: an
account deleted between them makes the later `WriteInvites` fail just as one deleted
after it.

**`GroupCharter`** is the abstract specification of a group, with neither requests
nor rows: people are admitted, promoted, depart or are erased, an existing group has
an owner who is one of its administrators, and it ends only with its last member or
with its owner's account. `GroupMembership!ImplementsCharter` is the refinement.

**`ChatRequests`** models the requests and blocks of all pairs of `ChatUsers`. `request`
is the table `ChatRequest`, indexed by ids in the order of creation; `blocks` is
`UserBlock`. `sendRequest` has four awaits and therefore four actions: `BeginSend`,
`CheckBlocks`, `FindLatest`, `WriteSend`. `BeginChatAnswer`/`WriteAnswer` are acceptance,
rejection and withdrawal, which the code writes the same way. `CanChat` is the
decision of `getChatPermission`. `willing` is a history variable: who has ever asked
for, or accepted, a chat with whom. `blockUser` and `unblockUser` check that the
other account exists before they write; the check is part of the step, because the
foreign keys of `UserBlock` repeat it at the time of the write. `sendRequest`
notifies the receiver after its write; whether that fails changes no state.

**`PrivateChat`** is the abstract specification: of each pair, whether one has asked
the other, whether the chat is open, and who blocks whom. It lets a user ask one
whose account has just been erased: `ChatRequest` has no foreign keys, and the code
can write such a row.

**`UploadSession`** models one session of a resumable upload to the local disk, the
storage mode `stream`. `meta` is the record on disk, `assembled` and `final` say which
inode is at the path of the assembled file and of each final file, `bytes` what is in
each inode, `sent` how many messages name each final file. A request in flight has its
own copy of the record (`rec`), its place in the handler (`at`), and the file it is
appending to (`fd`). `Read`, `Stat`, `Cut` and `WriteRecord` are the repair that every
handler begins with (`syncStreamSessionRecord`); `StartChunk`, `PlaceFirst`, `Open`,
`AppendByte` and `CheckAppended` are `uploadChunk`; `StartFinalize`, `Look`,
`UnlinkFinal`, `Verify`, `Move`, `Send`, `SendFails` and `Clean` are `finalizeSession`
and `finalizeLocalSession`; `StartCancel` is `cancelSession`. A byte is its position in
the file, so that what was sent can be compared with what is stored. `Resume` is the
request that the client makes next (`uploadAttachmentTask` in `app.js`).
Left out: the check that sender and receiver may still chat, which only refuses (a
refusal at that place leaves what `Abort` leaves), `fileUrl`, which is a function of the
final name, and the temporary file of a request's chunk, which no other request sees.

**`AdminAccounts`** models the table `User`. `user` holds role, approval, ban and, in
three values, `deletionScheduledFor`; `earlier` is the order of those dates, which the
purge follows. `tokenVersion` only grows, and a token is compared with it for equality,
so what matters is whether a token or a login has the current one: `sessions` and
`loggingIn`, and `Revoke` for an increment. `bootstrap` is the account that has the
configured address, if any. A handler reads a row (`ReadBan`, `ReadDemote`, ...), counts
administrators where the code does (`CountAdmins`, `CountOthers`), and writes
(`WriteBan`, ...); `rest` is what is left of the loop of `bulkUpdateUsersByAdmin` or of
the purge (`BeginPurge`, `PurgeOne`), which goes on after a failure (`Fail`).
`BeginLogin` and `SignToken` are `login` before and after the comparison of passwords;
`Register` is `register`; `Restart` is `AdminBootstrapService`. `asked` is a history
variable: who has ever scheduled the deletion of the own account.

**`AccountCharter`** is the abstract specification: who has an account, is approved,
banned, an administrator, about to leave or logged in, and who may change that, without
rows, requests, tokens or dates. Each decision about another account is by an
administrator who is one and logged in *at that moment*, and each takes effect at once:
whoever is banned, loses the role, changes the password or asks to leave is logged out,
and an administrator asks to leave only while another one stays.
`AdminAccounts!ImplementsAccountCharter` is the refinement. That an administrator may be
demoted by one who is leaving is part of the charter, since the code does it
(`AccountLastAdmin`).

**`AttachmentLife`** follows the files of one account's messages. `file` is what is
stored, `row[m]` the message, which names its file (`"kept"`) or has been deleted for
everyone (`"bare"`). `StoreAttachment`, `CreateMessage`/`CreateFails` and
`DropAttachment` are `uploadAttachment`: the file comes first, and goes again whatever
`createEncryptedMessage` threw. `ReadForAction` decides on the row or on a copy from
Redis (`Copies`), `BareMessage` and `Unlink` are `deleteMessageForEveryone`.
`ReadBatch`, `DeleteExpiredFile` and `DeleteExpiredRows` are `cleanupExpiredMessages`;
`ReadForErasure`, `EraseRows` and `EraseFile` are the erasure of the account, which
lists the files, deletes the rows and then the files. `DeleteAttachment` fails aloud in
R2 and silently on disk; a file in `stuck` never goes. The five minutes in which a
message may be deleted for everyone and the sixty seconds of a cached copy are far
shorter than the days of retention: an expired message has no action under way.

**`ChatThemes`** models the theme that two contacts share. `pref[o]` is the row of
`ContactPreference`, `files` the pictures. `UploadTheme`, `ChooseTheme` and
`UpdateNickname` start a change, `ReadPreference` and `WritePreference` are
`saveContactPreference`, which writes the whole row from an older read.
`ReadOldPreferences`, `DeletePreferences`, `ClearPreferences`, `DeleteThemePath`,
`ReadReferences` and `Sweep` are `cleanupExpiredThemeUploads`, with ids of rows, so that a
row made anew in between is another row.

**`Reports`** has one group, one message and the `UserReport` rows. `SubmitReport`,
`CheckReport` (one query at a time) and `InsertReport` are `createReport`;
`PressVerdict`, `ReadReport`, `ReadTarget`, `BanTarget` and `WriteVerdict` are what
`admin.js` offers and `reviewReportByAdmin` does; `EraseAccount`, `DeleteThing`,
`LeaveGroup` and `Unban` are what happens meanwhile, with `onDelete` as the schema says.

### Between server and page

**`Presence`** models one user on several processes. A process sends commands to Redis
over one connection (`pipe`), Redis runs them in order (`RunCommand`) and the handler
that waits goes on when the answer comes (`GetAnswer`); publications come over another
(`feed`, `HandleRedisMessage`). `HandleConnection` and `HandleDisconnect` change the
map `onlineUsers` and start that chain; `shown[p]` is what the browsers at `p` were told
last. `alone[p]` is a process that gave Redis up when it started.

**`MessageSending`** follows texts in one direct conversation. `outgoing` and `active`
are `queuedOutgoingTextMessages` and its one message on the way, `offline` is
`offlineQueuedMessages`, `flush[f]` one run of `flushOfflineQueuedMessages` with its own
copy of the queue, `calls[c]` an emit with its deadline, `late[t]` packets that nobody
waits for. At the server `HandleMessage` shows the draft and acknowledges, `Persist` and
`PersistFails` store it or roll it back; `ReaderGets` and `ShowFrame` are the reader's
screen, where a draft waits for an animation frame. `Disconnect`, `BackOnline`,
`Reconnect`, `Reload`, `ServerStops`, `ReaderLeaves` and `ReaderReturns` are the faults.
A refusal by the server throws and answers nothing, so that the deadline passes
(`RefuseMessage`); a session that has ended is answered with an error, on which the queue
gives the text up and a flush keeps it (`RejectMessage`). `RefuseNext` is an error the
browser itself meets, after which a text goes offline if the connection is to blame, even
when the page still counts as connected.

**`TextLife`** is the abstract specification of that conversation, with no queues,
packets or rows: each text has a life of its own (`life`: kept by the browser, taken by the
server, stored or dropped, or given up and its author told) and a place on the reader's
screen (`shown`). The exceptions are states of it: a text that no queue holds may still
arrive (`adrift`) or be `lost`, and of one that was sent again in doubt only that stays
promised which the reader has seen. `MessageSending!ImplementsTextLife` is the refinement;
`LifeOf` and `ViewOf` are the mapping. `NoTextVanishes` says which texts may be lost.

**`AttachmentQueue`** is the browser's side of uploads, which `UploadSession` has from
the server's side. `run` is the request that `processAttachmentUploadQueue` awaits,
`task` what the browser knows of each file, `session` the session at the server,
`strays` requests that nobody waits for and that the server may still handle.
`GetReply`, `GetError` and `LoseReply` continue `uploadAttachmentTask`; `CatchError`,
`ScheduleRetry` and `RetryTimer` are its handling of failures, `SendWhole` the one
direct attempt; `PressStop`, `PressRetry` and `PressRemove` are the user, at any moment.
The server takes a request up in one step: how two of them overlap is the business of
`UploadSession`. But one that makes a message may store it and then fail, because its
notification throws or the server stops: then `FinalizeSession` leaves the session open and
the browser, which gets an error or nothing, may ask again. `answered[f]` counts the
messages stored by requests that ended well, `misjudged[f]` those stored by requests that
then failed. `pauseAttachmentUpload` and `resumeAttachmentUpload` have no caller in the
interface and are left out.

**`Calls`** models two browsers that call one another. `setups` are the runs of
`startCall` and `acceptIncomingCall`, which go on with whatever `activeCall` is by then;
`working` and `live` are the connections and the devices that nobody has closed.
`PressFlip`, `FlipCamera` and `FlipFails` are `flipActiveCamera`. Descriptions and
candidates of the connection, and the gateway's check that the two may chat, are left
out.

**`Keys`** models one account in several browsers. `ensures` are the calls of
`ensureEncryptionKeys`, one step for each await (`Matched`, `Restored`, `Verified`,
`Generated`, `Imported`, `Packed`, then `UpdatePublicKey` at the server and `Synced`).
Each reads the storage, the unlock material and `currentUser` at the moment the code does:
`Restored` takes the page's public key for the check of a restored pair, and `Verified`
stores the pair with the key the page has when the check has ended. `answers[<<d, r>>]` are
profiles on their way to a page, as the row was when the server read it: `GetProfile` sends
one to an open page and `ApplyCurrentUser` takes it over, however late; `LogIn` and `Reopen`
ask for the one that `StartApp` starts with. A request that the server has not taken up when
its page closes is lost with it. `AskForPassword`, `Resolved` and `ChangePassword` are
`changePassword` in the page, where it may have to restore the pair first, and at the
server. A pair of keys is a number, a backup a pair and the password it opens with.

### The page

**`Timeline`** models the pages of the open chat. `kept[c]` is
`conversationHistoryCache`, `loads` the requests of `loadMessageChunk`, `news` and
`renders` pushed messages before and after the browser got them, `saved` the session
storage. `PageOf` is `getMessages`, `Merge` what `loadMessageChunk` does with a page,
`ClearAtServer` and `GetCleared` clear a chat. A message is a number and
`Date(m) == m \div 2`, so that two messages can have one date.

**`ChatPage`** models the list of chats and the permission of the open one. `bond[p]`
stands for the rows that `ChatRequests` has in detail, `mail` for the events on their
way, `listing` for the one run of `loadUsers` with those who joined it, `reads` for the
other requests: a permission (`AskPermission`), or the list of the users she has blocked,
which `BlockDone` and the settings (`OpenProfile`) load. `PermissionOf` and `RecentChats`
are what the server answers; the open conversation stays in the list though she has
blocked the other. Unblocking from the open conversation is left out (section 6).

### Checking and proving

**`MCGroupMembership`, `MCChatRequests`, `MCUploadSession`, `MCAdminAccounts`** add
symmetry sets, and the sizes of chunks. **`MCChats`, `MCAccounts`, `MCServer`,
`MCPages`, `MCSending`** put independent modules side by side: a variable `part` picks
one of them at the start, and only that one takes steps, so that one run of TLC checks
several modules without multiplying their states. The parts share no state, in the code
or here. Fairness is asked of a part's actions under `part = ...`. Parts of one run may
share model values, so that one permutation permutes them all. That a behaviour of such a
composition is one of each of its parts, so that what is proved of a part holds of the
composition, is itself proved (section 5).
**`GroupMembershipProofs`, `UploadSessionProofs`, `AdminAccountsProofs`, `KeysProofs`**
hold the proofs about the module of that name, **`AttachmentLifeProofs`** those about
`AttachmentLife` and `ChatThemes`, **`ChatRequestsProofs`** those about `ChatRequests` and
`ChatPage`, **`PagesProofs`** those about `Reports`, `Calls`, `Presence` and `Timeline`,
**`SendingProofs`** those about `MessageSending` and `AttachmentQueue`. Each composition is
at the end of one of them: `MCChats` in `KeysProofs`, `MCAccounts` in
`UploadSessionProofs`, `MCServer` in `AttachmentLifeProofs`, `MCPages` in `PagesProofs`,
`MCSending` in `SendingProofs`.

Operators marked *Seeded bug* are not part of a specification. Each is a plausible
mistake in the definition that follows it, and a check that replaces that definition
by it finds a property violated; `PROJECT.json` lists them under `mutants`.

## 4. The runs

| Run | Parts and bounds | Properties | Shows |
|---|---|---|---|
| `ChatsSerial` | groups: 3 users, 3 invitations, 2 handlers; chats: 3 users, 3 rows, 2 handlers; one request at a time | `InvitationsAreDue`, `OneRequestPerPair`, `JoinsByPendingInvite`, `ImplementsCharter`, `ImplementsPrivateChat` | what each handler guarantees alone |
| `ChatsInterleaved` | groups: 3 users, 2 invitations, 2 handlers; chats: 2 users, 2 rows, 3 handlers; keys: 2 browsers, 2 calls each at a time, 1 answer awaited by each page, 2 pairs, 3 calls in all, 2 passwords, 1 snag | `ChatsTypesOK`, `NoDanglingRows`, `BothWereWilling`, `PublishedKeyIsHeld`, `BackupOpens`, `AdminsStayAdmins`, `JoinsByInvite` | what no interleaving breaks |
| `AccountsSerial` | uploads: 3 chunks of 2, 2 and 1 bytes, 2 inodes, 2 names, 1 handler; accounts: 2 users, 2 handlers, `Take` = 2; one request at a time, with fairness | `AttachmentsInOrder`, `CompletedIsSent`, `SessionsAreAllowed`, `EndedStaysEnded`, `PendingUploadsEnd`, `PurgesOnlyDue`, `DueGetsItsTurn`, `ImplementsAccountCharter` | what each handler guarantees alone, that resuming ends, that the purge gets to everyone, and that every decision about an account was allowed |
| `AccountsInterleaved` | uploads: 1 chunk of 1 byte, 2 handlers; accounts: 2 users, 2 handlers | `CompletedHasMessage`, `AdminsAreNotBanned`, `ErasedByWill` | what no interleaving breaks |
| `Server` | files: 2 messages, 1 action at a time, batches of 2, 1 mishap; themes: 2 pictures, 2 changes at a time and in all, 1 failed cleanup; with fairness | `NamedFilesExist`, `NoLostFiles`, `ExpiredMessagesGo`, `OldThemesGo` | files and rows agree, and what is old goes |
| `Pages` | presence: 2 processes, 2 sockets, 1 stop; page: 2 peers, 3 turns, 2 requests of a kind; timeline: chats of 3+1 and 1 messages, pages of 1, 2 loads, 2 moves, 1 loss; calls: 2 dials, 1 flip, 1 hitch; reports: 3 accounts, 1 report, 1 upheaval | `PagesTypesOK`, `PresenceSettles`, `PageCatchesUp`, `NothingIsSkipped`, `DevicesAreReleased`, `ReportsAreTrue` | what open pages show and hold |
| `Sending` | texts: 2 texts, 2 flushes, 1 trouble, 1 failure; files: 2 files of 1 part, 1 retry, 1 press, 2 faults; with fairness | `NoTextVanishes`, `StoredOnce`, `ReaderSeesWhatIsStored`, `FilesAreSentOnce`, `OutgoingDrains`, `QueuedFilesGetTheirTurn`, `ImplementsTextLife` | what reaches the server and the reader, how often and in what order, and that both queues go on |
| `GroupLastAdmin` | `GroupSpec`, 3 users, 2 invitations, 2 handlers | `KeepsAnAdmin` is violated | a group loses its last administrator |
| `ChatUnblock` | `ChatSpec`, 2 users, 2 rows, 2 handlers | `UnblockStaysLocked` is violated | unblocking opens a chat |
| `UploadOverlap` | `UploadSpec`, 3 chunks of 1 byte, 2 inodes, 1 name, 2 handlers | `AttachmentsInOrder` is violated | an attachment with a doubled chunk is sent |
| `AccountLastAdmin` | `SerialAccountSpec`, 2 users, 2 handlers, `Take` = 2 | `KeepsAnAdmin` is violated | the server loses its last administrator |
| `OfflineQueue` | `SendingSpec`, 2 texts, 2 flushes, 1 trouble | `QueuedTextsWillSend` is violated | a text that was queued offline is lost |

**Bounds.** Three users are the least for a group with an administrator who removes
another, and a third who inherits it; three invitations let one user be invited again
after refusing. Two handlers are the least for a race between two writes. For a pair,
two users and two rows are enough for requests in both directions, or a withdrawal and
a second request; three handlers let a block and two late writes meet. The third user
and the third row of `ChatsSerial` show that pairs do not disturb one another.
`MaxRequests` and `Invites` bound how many rows are ever created; rows are not recycled.
For uploads, chunks of two bytes let an append stop inside
a chunk, the short last chunk is the boundary of `Filled`, and three chunks are the least
for a doubled chunk to be followed by one more that makes the size right. An inode is
free again when no path and no descriptor leads to it, so two are enough to have one
assembled and one final. Final names are drawn once; the second is for a finalization
that died before it recorded the first, or for two at the same time. `MaxSent` bounds the
count of messages, of which only zero, one and more matter. The interleaved runs use the
smallest file that has the race in question. For accounts, two are enough for an
administrator and whom the decision is about; an id is never used again, so `Users` also
bounds the registrations. `Take` is 25 in the code: with two accounts and `Take` = 2 one
account whose erasure always fails has to leave room for the other, and with `Take` = 1
`DueGetsItsTurn` does not hold, as it should not. `BatchSize` stands to `Messages` in the
same way: one message whose file R2 never lets go must leave room for the other.
Two processes and two sockets are the least for presence to come from elsewhere, and one
stop leaves a stale field. Two texts are the least for one to overtake the other, two
flushes for a text to be in both. Two files are the least for a queue that has to go on;
one part and one retry meet every branch of the retries (a part lost, a session spent, a
finalization lost). In `Timeline` pages of one message make every load meet an edge, and
two of the messages share a date. Two browsers with two overlapping calls are the least
for two key pairs; three calls in all let a browser come back. A snag (`MaxSnags`) is a
request that fails, a page that is closed, or a profile that an open page asks for; one
profile on its way to a page (`Requests`) is enough for it to be older than what the page
has by then. Two dials are a call in
either direction, or one after another. `MaxTurns`, `MaxMoves`, `MaxPresses` and their
like bound how often somebody acts or something fails, never how steps interleave.

**Deadlock** is checked in `AccountLastAdmin`, where the server can always restart.
Elsewhere it is not checked, because a behaviour may really come to rest: accounts can
all be erased and requests all end, everything may be sent, and no request gets past the
record of an upload that was left half written. That what must go on does go on is what
the liveness properties are for.

**Fairness.** The groups, chats, pages, calls, keys and reports have no background work,
every property of theirs is about what may never be, and nothing makes a user act: no
fairness is assumed. Where there is:

* `AccountsSerial`, uploads (`ResumingSpec`): weak fairness of `ProceedUpload(h)` (an
  `await` on a file or on the database returns, or fails, which is also a step), and
  strong fairness of the client's next request (`scheduleAttachmentUploadRetry` asks
  again after a delay, and the user's *Retry* continues after four attempts; strong,
  because other requests of the session come and go in between). `PendingUploadsEnd` is
  `ResumingEnds` for the behaviours in which uploads take steps, and makes an exception
  of those in which requests fail again and again. `Abort` is never a refusal
  (`Over`), so a session that refuses for ever is not excused.
* `AccountsSerial`, accounts (`PurgingSpec`): weak fairness of each handler, and strong
  fairness of the beginning of the purge (the cron job of `AccountDeletionService` starts
  it every hour, whatever else runs; strong, because one request at a time it has to find
  a moment between requests). `DueGetsItsTurn` makes an exception of a server that
  restarts for ever and of an account whose own erasure fails for ever; that other
  erasures fail is no excuse.
* `Server` (`CleanupFairness`, `CleaningFairness`): weak fairness of every step of the
  two cleanups, which `ChatRetentionService` starts every hour, and of the two steps of
  a change of a preference. Failures and stops are not fair, and bounded.
* `Sending` (`SendingFairness`, `QueueFairness`): weak fairness of the loops of the
  browser (`EmitNext`, `FlushEmit`), of an emit's end, by answer or by its deadline of
  ten seconds (`TimeOut` or `HandleMessage`), of the request of the upload queue being
  handled and its answer or its failure being read (`Serve`, `GetReply` and `GetError`, of
  which one at most is possible at a time), and of the retry timer. Nothing is assumed of
  the connection coming back.

**Known behaviour that the properties except.** The code does all of the following; a
property names the case by a history variable and claims everything else.

| Exception | What the code does |
|---|---|
| `overtaken` (`NoTextVanishes`) | a text queued offline while a flush runs is overwritten (`app.js:11367`); the run `OfflineQueue` shows it |
| `reloaded` (`NoTextVanishes`) | a reload drops the queue in memory |
| `doubtful` (`StoredOnce`) | a text whose deadline passed is sent again, and the server does not look for a message with the same id |
| `unannounced`, `raced`, `missed` (`ReaderSeesWhatIsStored`) | a message whose notification threw is stored and rolled back on the screens; a draft whose answer came before its frame stays; a reader without connection hears nothing |
| `unheard` (`FilesAreSentOnce`) | the answer to a finalization was lost: the file is shown as failed, or sent again. A stopped upload whose finalization is under way is sent all the same |
| `misjudged` (`FilesAreSentOnce`) | a request stores the message and then fails, because the notification throws (`chat.service.ts:1559`, `push-notification.service.ts:109`) or the server stops before the session is completed (`chat-upload.service.ts:1030`): the file is shown as failed, and every Retry may store another message. Their number is not bounded |
| `misjudged` (`NamedFilesExist`) | the message is stored, its notification throws, and the handler deletes the file (`chat.controller.ts:679`) |
| `spilt` (`NoLostFiles`) | a deletion failed or was cut off by a stop, or the file was sent while its account was being erased |
| `erred`, `Haunted`, `stale` (`PresenceSettles`) | a command to Redis failed; a socket that closed while its token was checked is kept for ever; a stopped process leaves its field |
| twin dates, `unseen`, `tangled` (`NothingIsSkipped`) | a page asks for strictly older messages; a page read before a pushed message displaces it; two loads of one chat overlap, or the answer to clearing a chat empties another |
| `unheard`, `crossing`, `elsewhere`, `misnamed` (`PageCatchesUp`) | reconnecting loads nothing; two answers cross, or a list of the blocked that was read before an unblock comes after it and hides the user again (`app.js:6595`); a block lifted on another page stays in the filter; `conversation:refresh` names the receiver's own id, so that a block by the other side changes no permission by itself. (The older list of the blocked came out of the proof: it takes four turns, and the run allows three.) |
| `overlaid` (`DevicesAreReleased`) | calls overlap, or a call ends while its camera is switched |
| `crossed` (`PublishedKeyIsHeld`) | two calls of `ensureEncryptionKeys` overlap, the answer to a publication is lost, a change of password writes the storage under a call, a key is published that a call begun under another one will drop, a late profile puts an older public key back into the page (`applyCurrentUser`, `app.js:6919`), or the page takes over another key while a call verifies a restored pair. (The lost answer and the dropped key came out of the proof; the run needs each of the others.) |
| `misfiled` (`BackupOpens`) | a page with an older pair changes the password, or a restored pair is stored with the public key that came during its check (`app.js:1086`), and later published and backed up so. (A public key that is published without a backup erases the stored one, `user.service.ts:2105`; the property allows no backup.) |

That a theme picture in use keeps its file is not claimed: a theme that is chosen again
while the cleanup runs loses its picture. The code's test
(`chat-retention.service.spec.ts:244`) speaks of orphaned files only.

**Five violations.**
*`GroupLastAdmin`*: two administrators leave at the same time. Each handler has read
two administrators, so neither promotes a successor; both transactions commit, and the
third member stays in a group that nobody can administer, although
`chat.service.ts:1263` says "A group must keep at least one admin".
*`ChatUnblock`*: `sendRequest` finds no block and awaits; `blockUser` blocks the pair
and deletes its requests; `sendRequest` now creates its request. `acceptRequest` looks
at no blocks, so the request can be accepted under the block, and `unblockUser` opens
the chat, while answering "Chat stays locked until a new request is sent and accepted"
(`user.service.ts:2184`). `BothWereWilling` bounds the damage: the chat that opens is
one that both sides asked for or accepted at some time.
*`UploadOverlap`*: a client loses the connection while its request still appends chunk 1,
and sends chunk 1 again. The second request finds the file as long as its first chunk
before the first has appended anything. Both append; both find the file too long and
refuse; but the next request takes the length of the file for the number of chunks, so
the last chunk counts as uploaded, and `finalizeSession` sends an attachment that holds
chunk 1 twice and lacks the last one. `chat-upload.service.ts:769` says "Chunks must be
uploaded in order". One request at a time, `AccountsSerial` shows, the same repair is
right.
*`AccountLastAdmin`*: administrator A schedules the deletion of the own account while B is
an administrator, logs in again, and removes B's role (B's address is not, or no longer,
the configured one). The count at `user.service.ts:1221` includes A, so it refuses
nothing with "At least one admin account must remain." (`:1226`); when A's date passes,
the purge erases A without counting again. No two requests overlap.
*`OfflineQueue`*: two texts are written; the connection is lost while the first is being
sent, and it is queued offline. The window's `online` event starts a flush, whose copy of
the queue is the first text, while the socket is still down; socket.io buffers what it
emits. Meanwhile the queue of outgoing texts finds the socket down and queues the second
text offline. The flush's emit times out, and its end replaces the offline queue by its
own copy (`app.js:11367`): the second text is in no queue any more, although the page
says "They will send when you reconnect." (`:11325`).

## 5. The proofs

The theorems hold for every set of users, invitations, handlers, messages, files, texts,
processes, sockets, browsers and reviewers, for every number of rows and for every value
of the bounds. They use the assumptions that the modules name: null values are not users,
invitations or persons; numbers that bound something are natural numbers, a batch and a
chunk positive ones; a file has at least one part, and each chunk adds bytes to those
before it; there is a message and a text (a record needs one in its field);
the two parties of a call differ; `"queue"`, the caller that is not a flush, is not the
name of one. They do not use that any set is finite, nor, for accounts, how many the
purge takes.

*Interleaved* (`GroupSpec`, `ChatSpec`, `UploadSpec`, `AccountSpec`). Each module has its
theorem of types (`GroupTypeCorrect` and so on). In `GroupMembershipProofs` the inductive
invariant `GroupInv` adds to `GroupTypeOK` that no row dangles and that a request to
answer an invitation still names its invitee as long as the row exists: without the
latter, an acceptance could add somebody else. From it follow `NothingDangles`,
`AdminsKeepRole` and `EntryByInvite`. In `ChatRequestsProofs`, `ChatInv` says that the
sender of every request is willing, that an accepted request has two willing sides, and
that an acceptance in flight finds a row between the same two users: that is what makes a
late acceptance of a row that was withdrawn, or sent again the other way, harmless.
`ChatsAreConsensual` follows.

In `UploadSessionProofs`, `FilledFits` shows that the number of chunks that fit into a
file always exists (by the least number of a set of numbers that is not empty, which
`WFMin` gives), and `UploadTypeCorrect` follows with `Appending`: a handler that appends
has its chunk not yet written whole. `MInv` adds that whoever holds a record marked
completed, the disk or a handler, holds one whose name a message was created with: a
handler only gets such a record by `Send`, or by reading it. `CompletedWithMessage`
follows.

In `AdminAccountsProofs`, `IInv` adds to `AccountTypeOK` that a ban that is about to be
written is not about an administrator (`BansSpareAdmins`: the role is given only at a
start of the server, which ends every request), and that dates and the purge's lists name
only accounts that asked (`DatesAreAsked`, `PurgesAreAsked`). `AdminsAreNeverBanned` and
`NobodyIsErasedUnasked` follow. The steps of a request are grouped by what they do, read,
write a row or erase one, and one lemma says of each group what it leaves (`ReadTyped`,
`WriteTyped`, `EraseTyped`); each invariant is then shown once per group.

*One at a time* (`SerialGroupSpec` and so on). `SerialGroupInv` and `SerialChatInv` add
what the request in flight knows: `GroupPlanFits` and `ChatPlanFits` relate its record to
the rows (the successor that a leaving administrator picked is a member, if the account
still exists; the row that a sender found is the only row of the pair), and they say that
no other request is in flight. From it follow `OwnerAdministers`, `SerialKeepsAnAdmin`,
`InvitationsStayDue`, `EntryByPendingInvite`, `OneRowPerPair` and
`UnblockingOpensNothing`. So the first two violations above need two requests in flight,
whatever the number of users. `OwnerAdministers` is the reason for `SerialKeepsAnAdmin`:
erasing an account could otherwise take the only administrator away, and it is preserved
because `NextGroupOwner` prefers administrators and a leaving only administrator promotes
the successor. `OwnerIsAdmin` is part of the refinement of the charter in the runs;
`UnblockStaysLocked` is what `ChatUnblock` refutes when requests interleave.

For uploads, `SerialUploadInv` adds to `MInv` that no two requests are in flight
(`UploadAlone`), that a handler's copy differs from the record only in what it is about to
write (`Agrees`), that what it has found out about the files still holds when it acts on
it (`Holds`; this is what an overlapping request breaks), and that the assembled file and
every final file are in order, the final ones complete and never appended to
(`FilesStored`). `AttachmentsAreTheFile`, `CompletedHasAll` and `EndedIsFinal` follow.

For accounts, `SerialAccountInv` adds to `IInv` that nobody has a session *or a login in
flight* who is not approved or is banned (`AllAllowed`), that a ban which does not
increment `tokenVersion` is about an account that is banned already (`BansEndSessions`),
and that all the purge still lists is due (`PurgesAreDue`). `SessionsStayAllowed` and
`PurgeSparesOthers` follow.

*Refinement.* `ServesCharter` and `ServesPrivateChat` show that one request at a time the
handlers implement the abstract specifications: one lemma per action maps the step to an
abstract step or a stutter, under the invariants above.

`ServesAccountCharter` needs more than these: the charter asks at the moment of the write
who decides, and the code asked when the request came in. `Mandate`, part of the invariant
`CInv`, says what a request in flight may still rely on: an administrator with a session
who is not the one it bans, demotes or erases, and none of those still on its list
(`ByAdmin`); the owner's session (`ByOwner`); and that what was read of the row, or
counted, is still so (`StillSo`). Logins, registrations, dates that pass and restarts
happen in between and leave it. The write then sets at most one column (`Sets`), and is
one step of the charter.

`TextsLiveAsPromised` is about `SendingSpec`, in which everything interleaves. `SendingInv`
(below) allows a text that the server has dropped, or whose author was told, to be sent
again; in a life that would be a step back. `LifeInv` says that it does not happen without
a doubt: a text that was taken or given up has no packet under way, and where a queue or a
flush still has it, its call was lost, so that the end of the flush will drop it or the
next attempt will be one in doubt (`ConcludedOK`); one that was given up has left the
browser (`GivenUpOK`); it is written, taken and drawn in this order (`OrderOK`). One lemma
per action says what becomes of each text (`May`), most by way of what the step leaves
alone (`Rests`, `Settles`).

*Files and rows* (`LifeSpec`). `AttachmentLifeProofs` follows a file through the five
processes that touch it. `RowsFollowUploads` says when an upload answers for the file,
`ActionsFollowRows` that an action about to delete a file belongs to a message that does
not name it, whatever the action was decided on; `CleanupFollowsRows` that what the
cleanup has read and may delete has lost its file or will not get it back, and
`ErasureFollowsRows` that the erasure of an account knows every file that a message
names, but for messages sent after it read them. `FilesAreKnown` is `NoLostFiles` with
the process that still answers for each file. `NamedFilesStay` and `NoFileIsLost` follow.

For theme pictures (`ThemesSpec`), `ThemesTypeCorrect` has to bound the number of the row
that a preference is in, for a row that is deleted and made anew is another row:
`RowsCounted` says that the rows so far and the changes that are still to write them are
no more than the changes that were asked for.

*Pages.* In `PagesProofs`, `ReportsInv` says of a report in the making that it is about
something its reporter could read (`HonestFiling`; the checks of `createReport` are awaits
apart, and what they established must survive until the row is written), of a review in
flight that the account it bans is the one the report named, or names no more
(`HonestReview`), and of each kept row that it is true (`TrueRow`). `ReportsStayTrue`
follows. `PhoneInv` is said of a browser whose calls never ran into each other: only one
setup has got as far as making its connection (`OneSetsUp`), the setup and the call are
about the same peer or the call was hung up and its devices are gone (`SetupsFollow`),
and while a camera is switched both devices are live and the stream keeps the old one
(`FlipsFollow`). `CallsReleaseDevices` follows, since a browser without call and setup
holds nothing (`IdleHoldsNothing`, `NothingElseIsLive`).

For presence, the invariant relates three things that are each late: the commands a
process has sent to Redis, its answers, and what the browsers were told. `MapIsSockets`
and `FieldFollows` tie a process's field to its sockets once its commands are through;
`WillBeTold` says that the browsers of a process are told the truth, or some process has
yet to announce a change, or a question about it is on its way. A step of one process
does not disturb the others (`PresenceFrame`). `PresenceAlwaysSettles` follows.

For the cached messages, `Shown` is `NothingIsSkipped` for one chat. It is not inductive:
a page is put into the cache long after it was read. `LoadFits` says of each request under
way what makes its page safe to put in: the page leaves nothing out above its oldest
message (`PageFits`, proved of `getMessages` in `PageOfFits`), what was stored after it was
read is accounted for, and, if it asks for older messages, the place it starts from is
still where the cache ends. `OneLoad` says that a chat with two requests under way is
`tangled`, `ClearingFits` that what a request to clear a chat has listed stays hidden. Most
steps change no place (`Steady`): `AllSteady` carries `Shown` and `LoadFits` over these,
`MostSteady` over a step that changes the place of one chat. `PageShows` is where the
property meets the code: a message above the new place is in the page, or shares its date
with the oldest of it. `NothingSkipped` follows.

*The list of chats* (`ChatPageSpec`). `PageCatchesUp` speaks of a page to which nothing is
on its way; `PageInv`, in `ChatRequestsProofs`, says what holds until then. `ListFollows`:
the list, or the one that is being loaded, is the server's unless it is due to be loaded
again (`ListDue`), and what the page filters it by are blocks of hers, but for one the
server has lifted without the page knowing (`Undone`). `PermissionFollows`: the permission
of the open chat, or the answer about it, is true, or it will be asked for again by a
handler or a request on its way. Both hold while nothing was lost and no answers crossed
(`Untroubled`), and each action has a lemma. `PageCatchesUpAlways` follows.

*Keys* (`KeysSpec`). `KeysProofs` shows that the storage of a browser, the variables of
its calls and the account agree: a call that asks the server brings a backup of the pair
it publishes, made under the password of its token (`CallsAreSound`, `PageFollows`), so
that the server's row opens (`BackupAlwaysOpens`); a call that holds a pair holds the
stored one (`StorageFollows`), and once a browser has published a key no call is left
that would drop it (`AuthorHolds`; `AuthorKeepsThePair`). That the halves of a pair belong
together is not free: a call checks them against one key and stores another, so `CallOK`
claims it only while nothing was `misfiled`, and `VerifiedKeeps` has the case. A profile may
be of any age; `GetProfileKeeps` and `ApplyCurrentUserKeeps` show that what it does to a
page with a published key is covered by `crossed`, named in section 4.

*Sending* (`SendingSpec`). In `SendingProofs` the invariant says where a text may be. It
is in the queue in memory once and then never again (`QueueOK`); a flush has each text of
its copy once (`FlushesOK`); the copies and the offline queue, which the end of a flush
overwrites, have the same texts but for the excused ones (`CopiesAgree`); without a doubt
about it a text is in one flush at most, and while it waits in a queue it has not been
stored (`AllOnce`); the reader's screen has the stored messages (`ScreenOK`). The steps
are few moves of one text - to the offline queue, out of the queue, through a flush, the
loss of a call - and one lemma shows of each that it keeps the invariant. `TextsAreKept`,
`TextsAreStoredOnce` and `ReaderIsUpToDate` follow.

For attachments (`QueueSpec`) the invariant, `FileFits`, is about one file: what its run
needs to know of the task (`RunFits`); that a late request was made when the task was as
far as it needs (`StrayFits`); that one request in the file's life sends it as a whole
(`OneDirect`), so that the messages of requests that ended well number at most one of the
session and one of that request (`Counted`); and that unless an answer was lost the browser
knows of such a message (`Heard`). Messages of requests that stored one and failed
(`misjudged`) have no bound, in the code and in the type (`QueueTypeCorrect`). A lemma
each says what an answer, a late request, a lost one, a stop and the next request do to
one file, and `OthersFit` and `RunContinues`, `RunEnds` carry it to the list.
`FilesSentOnce` follows.

*Compositions.* `ChatsTypeCorrect`, `ServerTypeCorrect`, `PagesTypeCorrect` and
`BothTypeCorrect` are about `InterleavedChats`, `Server`, `Pages` and `Sending` as the runs
have them, with their fairness. Each rests on a lemma (`EachPartTalks`, `EachPartServes`,
`EachPageIsItself`, `EachPartSends`) by which a behaviour of the composition is one of
every part, the parts that are not picked stuttering: so every other theorem about a part
carries over in the same way. `ChatsKeepTheirPromises` does this for the two refinements of
`SerialChats`; `RacesBreakNothing` and `AccountsKeepTheirPromises` state everything but the
liveness of the runs `AccountsInterleaved` and `AccountsSerial`.

*Only model-checked*: the five violations; the liveness properties `PendingUploadsEnd`,
`DueGetsItsTurn`, `ExpiredMessagesGo`, `OldThemesGo`, `OutgoingDrains` and
`QueuedFilesGetTheirTurn`, which are out of the prover's reach. Every other property of
the passing runs, every invariant, action property and refinement, is proved. The types of
uploads, accounts, files, themes and texts are stated by theorems alone: in those runs TLC
checks what says more. What the prover cannot look into, the recursive `SelectSeq` among
it, the proved modules do not use.

## 6. Not modelled

* **Single writes that no decision of another operation reads**: `updateGroup`, names,
  avatars and settings, `markConversationRead`, push subscriptions, backups. There is
  nothing to interleave with.
* **Relays without state**: typing indicators, reactions, descriptions and candidates of
  calls.
* **External services**: mail, push deliveries, R2. Their failures are in the modules
  that call them. The parts of an upload that R2 keeps (`r2-multipart`) are in
  `AttachmentQueue` from the browser's side; the server's side only passes them on. The
  mode `chunked` is no longer given to new sessions.
* **Rendering and forms**, more than half of `app.js`, and the pages for login and
  settings: they show what a request answered. Voice recording, pinned and archived
  chats and search keep their state in one browser, and nothing else decides on it.
* **Configuration**, helpers, the desktop shell.
* Of accounts, passwords, names, tokens' lifetimes and the replacement of name and
  password by a second registration. Of private keys, the cryptography.
* Unblocking from the open conversation (`app.js:11019`): it shows only when the block was
  set on another page, which `PageCatchesUp` excepts as `elsewhere`.
* Group conversations in `MessageSending`, `Timeline` and `ChatPage`: they differ from
  direct ones in whom a message is announced to and in the date of joining, not in the
  protocol.

## 7. Plan

1. `GroupMembership`, `GroupCharter`, `ChatRequests`, `PrivateChat`, `UploadSession`,
   `AdminAccounts` - done, checked and proved.
2. `Presence`, `MessageSending`, `AttachmentLife`, `AttachmentQueue`, `Calls`, `Keys`,
   `Reports`, `Timeline`, `ChatPage`, `ChatThemes` - done, checked and proved.
3. `TextLife`, an abstract specification of a conversation that `MessageSending`
   implements but for the exceptions it names, and `AccountCharter`, one of accounts that
   `AdminAccounts` implements - done, checked and proved.
4. Not begun: the same for uploads, where `UploadSession` and `AttachmentQueue` would
   together implement one promise about a file; they speak of one session from two sides,
   and share no variables yet.
