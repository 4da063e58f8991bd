-------------------------------- MODULE Keys --------------------------------
(***************************************************************************)
(* The message keys of one account and the browsers it is used from.       *)
(*                                                                         *)
(* Every browser keeps a pair of keys in its local storage; the server     *)
(* keeps the account's public key, which everybody encrypts for, and a     *)
(* backup of the private key, encrypted with what the password yields.     *)
(* ensureEncryptionKeys (public/app.js) brings the three together: when    *)
(* the page starts, and again before every message it encrypts or          *)
(* decrypts.  It awaits the browser's cryptography and the server, and     *)
(* nothing keeps two of its calls apart.                                   *)
(*                                                                         *)
(* A pair is a number, given when it is generated; Nothing is no pair.     *)
(* Passwords are numbered too: the account's first one is 1.               *)
(***************************************************************************)
EXTENDS Naturals, FiniteSets

CONSTANTS
    Devices,      \* browsers that use the account, each with one page
    KeyTasks,     \* calls of ensureEncryptionKeys that a page can have at once
    Requests,     \* requests answered with the profile that a page can await at once
    MaxPairs,     \* bound: pairs generated
    MaxEnsures,   \* bound: calls of ensureEncryptionKeys
    MaxPasswords, \* bound: passwords the account has had
    MaxSnags      \* bound: requests that fail, pages that are closed, and profiles
                  \* asked for by pages that are open

ASSUME KeysAssumption ==
    /\ {MaxPairs, MaxEnsures, MaxPasswords, MaxSnags} \subseteq Nat
    /\ MaxPasswords > 0
    /\ Devices # {} /\ KeyTasks # {} /\ Requests # {}

Nothing == 0
Pairs == 0 .. MaxPairs
Passwords == 1 .. MaxPasswords

NoBackup == [pair |-> Nothing, password |-> 0]
Backups == [pair : Pairs, password : 0 .. MaxPasswords]

\* Where a call of ensureEncryptionKeys waits.
Awaits == {"matching", "restoring", "verifying", "generating", "importing",
           "packing", "asking", "answering"}

\* What such a call keeps in its variables: savedPrivateKey (what the backup yields,
\* while that is restored and verified), savedPublicKey (then the key it is verified
\* with), serverPublicKey, generatedNewKeyPair, keyBackupPayload.
Resting == [at |-> "done", force |-> FALSE, private |-> Nothing,
            public |-> Nothing, known |-> Nothing, made |-> FALSE,
            payload |-> NoBackup]

VARIABLES
    account,   \* the account's row: publicKey, the backup, the password
    local,     \* the pair in each browser's local storage
    unlocks,   \* the unlock material in each page's session storage: of which password
    token,     \* the password each browser's token was issued under; 0: none
    pages,     \* currentUser of each page, with its keys; "closed" pages have none
    secret,    \* currentPrivateKey of each page
    ensures,   \* the calls of ensureEncryptionKeys
    answers,   \* the profiles that the server has sent to each page
    changing,  \* a change of password of each page: the backup it sends
    spent,     \* pairs generated, calls made, snags
    author,    \* history: the browser that wrote the account's public key, if any
    crossed,   \* history: browsers where the storage was written across a call,
               \* where a key was published that another call was about to drop,
               \* where a call never learnt that its key was published, where a
               \* late profile put an older key back, or where the page took over
               \* another key while a call was verifying a restored pair
    misfiled   \* history: a page changed the password with an older pair, or
               \* stored a restored one under another key

keysVars == <<account, local, unlocks, token, pages, secret, ensures, answers,
              changing, spent, author, crossed, misfiled>>

Closed == [open |-> FALSE, public |-> Nothing, backup |-> NoBackup]
NoAnswer == [sent |-> FALSE, public |-> Nothing, backup |-> NoBackup]
NotChanging == [at |-> "no", backup |-> NoBackup]

KeysTypeOK ==
    /\ account \in [public : Pairs, backup : Backups, password : Passwords]
    /\ local \in [Devices -> [private : Pairs, public : Pairs]]
    /\ unlocks \in [Devices -> 0 .. MaxPasswords]
    /\ token \in [Devices -> 0 .. MaxPasswords]
    /\ pages \in [Devices -> [open : BOOLEAN, public : Pairs, backup : Backups]]
    /\ secret \in [Devices -> Pairs]
    /\ ensures \in [Devices \X KeyTasks ->
            [at : Awaits \cup {"done"}, force : BOOLEAN, private : Pairs,
             public : Pairs, known : Pairs, made : BOOLEAN, payload : Backups]]
    /\ answers \in [Devices \X Requests -> [sent : BOOLEAN, public : Pairs, backup : Backups]]
    /\ changing \in [Devices -> [at : {"no", "resolving", "asked"}, backup : Backups]]
    /\ spent \in [pairs : Pairs, ensures : 0 .. MaxEnsures, snags : 0 .. MaxSnags]
    /\ author \subseteq Devices /\ crossed \subseteq Devices
    /\ misfiled \in BOOLEAN

KeysInit ==
    /\ account = [public |-> Nothing, backup |-> NoBackup, password |-> 1]
    /\ local = [d \in Devices |-> [private |-> Nothing, public |-> Nothing]]
    /\ unlocks = [d \in Devices |-> 0]
    /\ token = [d \in Devices |-> 0]
    /\ pages = [d \in Devices |-> Closed]
    /\ secret = [d \in Devices |-> Nothing]
    /\ ensures = [e \in Devices \X KeyTasks |-> Resting]
    /\ answers = [r \in Devices \X Requests |-> NoAnswer]
    /\ changing = [d \in Devices |-> NotChanging]
    /\ spent = [pairs |-> 0, ensures |-> 0, snags |-> 0]
    /\ author = {} /\ crossed = {} /\ misfiled = FALSE

-----------------------------------------------------------------------------
(* ensureEncryptionKeys, one step per await                                *)

GoesTo(d, t, state) == ensures' = [ensures EXCEPT ![<<d, t>>] = state]

\* A backup opens with the password it was made with, and with no other.
Opened(backup, password) == IF password = backup.password THEN backup.pair ELSE Nothing

\* What the call does when it holds a pair, and when it holds none: restore the backup
\* that the page knows of, with the unlock material of that moment, or generate a pair.
Holding(state) == [state EXCEPT !.at = "importing"]
Lacking(d, page, state) ==
    IF page.backup = NoBackup
        THEN [state EXCEPT !.at = "generating", !.private = Nothing, !.public = Nothing]
        ELSE [state EXCEPT !.at = "restoring", !.private = Opened(page.backup, unlocks[d]),
                           !.public = Nothing]

\* The call reads the stored pair and the public key the page knows.
Starting(d, page, force) ==
    LET state == [Resting EXCEPT !.force = force, !.private = local[d].private,
                                 !.public = local[d].public, !.known = page.public]
    IN  IF Nothing \notin {state.private, state.public}
            THEN [state EXCEPT !.at = "matching"]
            ELSE Lacking(d, page, state)

Counts(field) == spent' = [spent EXCEPT ![field] = @ + 1]

\* Another call has a pair that the page does not know yet to be the account's.
Unsynced(d) ==
    \E t \in KeyTasks : /\ ensures[<<d, t>>].at # "verifying"
                        /\ ensures[<<d, t>>].public \notin {Nothing, pages[d].public}

\* encryptTextForConversation and decryptTextMessage make a call of their own.
EnsureKeys(d, t) ==
    /\ pages[d].open /\ ensures[<<d, t>>].at = "done"
    /\ spent.ensures < MaxEnsures /\ Counts("ensures")
    /\ secret' = [secret EXCEPT ![d] = Nothing]
    /\ GoesTo(d, t, Starting(d, pages[d], FALSE))
    /\ crossed' = IF Unsynced(d) THEN crossed \cup {d} ELSE crossed
    /\ UNCHANGED <<account, local, unlocks, token, pages, answers, changing, author, misfiled>>

\* The storage is written: another call of the page may be on its way, or the page may
\* have taken over another key meanwhile.
Overlapped(d, t, pair, public) ==
    \/ public \notin {Nothing, pair}
    \/ \E other \in KeyTasks \ {t} : ensures[<<d, other>>].at # "done"

\* Seeded bug: the pair is kept in the page's memory only.
Stores_InMemory(d, t, pair, public) ==
    /\ local' = local
    /\ crossed' = IF Overlapped(d, t, pair, public) THEN crossed \cup {d} ELSE crossed

Stores(d, t, pair, public) ==
    /\ local' = [local EXCEPT ![d] = [private |-> pair, public |-> public]]
    /\ crossed' = IF Overlapped(d, t, pair, public) THEN crossed \cup {d} ELSE crossed

\* The call goes on, with the pair it has after doesEncryptionKeyPairMatch: a
\* pair that is not the account's is dropped, here and from the storage.
Matches(state) ==
    /\ state.known \in {Nothing, state.public}
    /\ state.private = state.public

Matched(d, t) ==
    LET state == ensures[<<d, t>>]
    IN  /\ state.at = "matching"
        /\ IF Matches(state)
               THEN GoesTo(d, t, Holding(state)) /\ UNCHANGED <<local, crossed>>
               ELSE GoesTo(d, t, Lacking(d, pages[d], state)) /\ Stores(d, t, Nothing, Nothing)
        /\ UNCHANGED <<account, unlocks, token, pages, secret, answers, changing, spent,
                       author, misfiled>>

\* A pair that was restored is verified with the key that the page has by now.
Restored(d, t) ==
    LET state == ensures[<<d, t>>]
    IN  /\ state.at = "restoring"
        /\ GoesTo(d, t, IF Nothing \notin {state.private, pages[d].public}
                          THEN [state EXCEPT !.at = "verifying", !.public = pages[d].public]
                          ELSE [state EXCEPT !.at = "generating", !.private = Nothing])
        /\ UNCHANGED <<account, local, unlocks, token, pages, secret, answers, changing, spent,
                       author, crossed, misfiled>>

\* A pair that passed is stored, and with it the key that the page has when the answer
\* comes, which need not be the one it was verified with; a pair that failed is left, and
\* the unlock material with it.
Verified(d, t) ==
    LET state == ensures[<<d, t>>]
        public == pages[d].public
    IN  /\ state.at = "verifying"
        /\ \/ /\ state.private = state.public
              /\ Stores(d, t, state.private, public)
              /\ GoesTo(d, t, [state EXCEPT !.at = IF public = Nothing THEN "generating"
                                                                      ELSE "importing",
                                            !.public = public])
              /\ misfiled' = (misfiled \/ public \notin {Nothing, state.private})
              /\ UNCHANGED unlocks
           \/ /\ state.private # state.public
              /\ unlocks' = [unlocks EXCEPT ![d] = 0]
              /\ GoesTo(d, t, [state EXCEPT !.at = "generating", !.private = Nothing,
                                            !.public = Nothing])
              /\ UNCHANGED <<local, crossed, misfiled>>
        /\ UNCHANGED <<account, token, pages, secret, answers, changing, spent, author>>

\* generateAndPersistEncryptionKeyPair.
Generated(d, t) ==
    LET pair == spent.pairs + 1
    IN  /\ ensures[<<d, t>>].at = "generating"
        /\ spent.pairs < MaxPairs /\ Counts("pairs")
        /\ Stores(d, t, pair, pair)
        /\ GoesTo(d, t, Holding([ensures[<<d, t>>] EXCEPT !.private = pair, !.public = pair,
                                                   !.made = TRUE]))
        /\ UNCHANGED <<account, unlocks, token, pages, secret, answers, changing, author, misfiled>>

\* The backup is encrypted with the unlock material that the page has now, if any.
Imported(d, t) ==
    LET state == ensures[<<d, t>>]
    IN  /\ state.at = "importing"
        /\ secret' = [secret EXCEPT ![d] = state.private]
        /\ GoesTo(d, t, [state EXCEPT !.at = "packing",
                                      !.payload = IF unlocks[d] = 0 THEN NoBackup
                                                  ELSE [pair |-> state.private,
                                                        password |-> unlocks[d]]])
        /\ UNCHANGED <<account, local, unlocks, token, pages, answers, changing, spent,
                       author, crossed, misfiled>>

\* shouldSyncBackup and shouldSyncPublicKey: what the call sends, if anything.
Packs(page, state) ==
    IF \/ page.backup = NoBackup
       \/ state.made
       \/ page.public # state.public
        THEN state.payload ELSE NoBackup

Packed(d, t) ==
    LET state == ensures[<<d, t>>]
        payload == Packs(pages[d], state)
    IN  /\ state.at = "packing"
        /\ GoesTo(d, t, IF state.force \/ state.known = Nothing \/ payload # NoBackup
                          THEN [state EXCEPT !.at = "asking", !.payload = payload]
                          ELSE Resting)
        /\ UNCHANGED <<account, local, unlocks, token, pages, secret, answers, changing, spent,
                       author, crossed, misfiled>>

-----------------------------------------------------------------------------
(* The server                                                              *)

\* Seeded bug: a request without a backup leaves the stored one as it is.
UpdatedKeys_KeepsBackup(state) ==
    [account EXCEPT !.public = state.public,
                    !.backup = IF state.payload = NoBackup THEN @ ELSE state.payload]

\* updatePublicKey: both fields are written, whatever the request brings.
UpdatedKeys(state) ==
    [account EXCEPT !.public = state.public, !.backup = state.payload]

\* Another call, which began when the page knew of another key, will drop the pair.
Doomed(d, t) ==
    \E other \in KeyTasks \ {t} :
        /\ ensures[<<d, other>>].at = "matching"
        /\ ensures[<<d, other>>].known \notin {Nothing, ensures[<<d, t>>].public}

UpdatePublicKey(d, t) ==
    LET state == ensures[<<d, t>>]
    IN  /\ state.at = "asking" /\ token[d] = account.password
        /\ account' = UpdatedKeys(state)
        /\ author' = {d}
        /\ GoesTo(d, t, [state EXCEPT !.at = "answering"])
        /\ crossed' = IF Doomed(d, t) THEN crossed \cup {d} ELSE crossed
        /\ UNCHANGED <<local, unlocks, token, pages, secret, answers, changing, spent, misfiled>>

\* The page takes the answer over: its own key, and the backup it sent or none.
Synced(d, t) ==
    LET state == ensures[<<d, t>>]
    IN  /\ state.at = "answering"
        /\ pages' = [pages EXCEPT ![d] = [@ EXCEPT !.public = state.public,
                                               !.backup = state.payload]]
        /\ GoesTo(d, t, Resting)
        /\ UNCHANGED <<account, local, unlocks, token, secret, answers, changing, spent,
                       author, crossed, misfiled>>

\* The request or its answer is lost: the call ends with an error.
SyncFails(d, t) ==
    /\ ensures[<<d, t>>].at \in {"asking", "answering"}
    /\ spent.snags < MaxSnags /\ Counts("snags")
    /\ GoesTo(d, t, Resting)
    /\ crossed' = IF ensures[<<d, t>>].at = "answering" THEN crossed \cup {d} ELSE crossed
    /\ UNCHANGED <<account, local, unlocks, token, pages, secret, answers, changing, author, misfiled>>

-----------------------------------------------------------------------------
(* The profile                                                             *)

\* The server reads the row and answers; the answer may be a while on its way, or never
\* arrive.  (Asked to delete an account whose deletion is already due, the server answers
\* with a profile from which it left the keys out: requestAccountDeletion.)
SendsProfile(d, r, public, backup) ==
    /\ token[d] = account.password /\ ~answers[<<d, r>>].sent
    /\ answers' = [answers EXCEPT ![<<d, r>>] =
                     [sent |-> TRUE, public |-> public, backup |-> backup]]

\* saveProfile, saveSettings and the other requests that are answered with the profile.
GetProfile(d, r) ==
    /\ pages[d].open
    /\ spent.snags < MaxSnags /\ Counts("snags")
    /\ \/ SendsProfile(d, r, account.public, account.backup)
       \/ SendsProfile(d, r, Nothing, NoBackup)
    /\ UNCHANGED <<account, local, unlocks, token, pages, secret, ensures, changing, author,
                   crossed, misfiled>>

Consumes(d, r) == answers' = [answers EXCEPT ![<<d, r>>] = NoAnswer]

\* applyCurrentUser: the page takes over what the row held when it was read.
ApplyCurrentUser(d, r) ==
    LET answer == answers[<<d, r>>]
    IN  /\ pages[d].open /\ answer.sent /\ Consumes(d, r)
        /\ pages' = [pages EXCEPT ![d] = [@ EXCEPT !.public = answer.public,
                                                   !.backup = answer.backup]]
        /\ crossed' = IF d \in author /\ answer.public \notin {Nothing, account.public}
                          THEN crossed \cup {d} ELSE crossed
        /\ UNCHANGED <<account, local, unlocks, token, secret, ensures, changing, spent,
                       author, misfiled>>

-----------------------------------------------------------------------------
(* Pages                                                                   *)

\* A page starts: it asks for the profile.
Starts(d, r) ==
    /\ ~pages[d].open /\ \A other \in Requests : ~answers[<<d, other>>].sent
    /\ UNCHANGED <<account, local, pages, secret, ensures, changing, spent, author,
                   crossed, misfiled>>

\* Logging in yields the unlock material of the password that was typed.
LogIn(d, r) ==
    /\ Starts(d, r)
    /\ token' = [token EXCEPT ![d] = account.password]
    /\ unlocks' = [unlocks EXCEPT ![d] = account.password]
    /\ answers' = [answers EXCEPT ![<<d, r>>] =
                     [sent |-> TRUE, public |-> account.public, backup |-> account.backup]]

\* The token is still good; the session storage lasts as long as the tab.
Reopen(d, r) ==
    /\ Starts(d, r) /\ SendsProfile(d, r, account.public, account.backup)
    /\ \/ UNCHANGED unlocks
       \/ unlocks' = [unlocks EXCEPT ![d] = 0]
    /\ UNCHANGED token

\* startApp: the profile has come, and a call that always syncs is made.
StartApp(d, t, r) ==
    LET answer == answers[<<d, r>>]
        page == [open |-> TRUE, public |-> answer.public, backup |-> answer.backup]
    IN  /\ ~pages[d].open /\ answer.sent /\ Consumes(d, r)
        /\ spent.ensures < MaxEnsures /\ Counts("ensures")
        /\ pages' = [pages EXCEPT ![d] = page]
        /\ GoesTo(d, t, Starting(d, page, TRUE))
        /\ UNCHANGED <<account, local, unlocks, token, secret, changing, author, crossed,
                       misfiled>>

\* The page goes, and with it what it awaits.
Drops(d) ==
    /\ pages' = [pages EXCEPT ![d] = Closed]
    /\ secret' = [secret EXCEPT ![d] = Nothing]
    /\ ensures' = [e \in Devices \X KeyTasks |-> IF e[1] = d THEN Resting ELSE ensures[e]]
    /\ answers' = [r \in Devices \X Requests |-> IF r[1] = d THEN NoAnswer ELSE answers[r]]
    /\ changing' = [changing EXCEPT ![d] = NotChanging]

ClosePage(d) ==
    /\ pages[d].open \/ \E r \in Requests : answers[<<d, r>>].sent
    /\ spent.snags < MaxSnags /\ Counts("snags")
    /\ Drops(d)
    /\ UNCHANGED <<account, local, unlocks, token, author, crossed, misfiled>>

\* forceSessionLogout: the token and the unlock material go, the pair stays.
LogsOut(d) ==
    /\ Drops(d)
    /\ token' = [token EXCEPT ![d] = 0]
    /\ unlocks' = [unlocks EXCEPT ![d] = 0]

\* A request under a token that was issued before the password changed.
LogoutByServer(d) ==
    /\ pages[d].open /\ token[d] # account.password
    /\ LogsOut(d)
    /\ UNCHANGED <<account, local, spent, author, crossed, misfiled>>

-----------------------------------------------------------------------------
(* changePassword                                                          *)

\* The request, with a backup of the pair under the new password.
PasswordRequest(pair) ==
    [at |-> "asked", backup |-> IF pair = Nothing THEN NoBackup
                                ELSE [pair |-> pair, password |-> account.password + 1]]

\* resolveCurrentUserPrivateKeyForBackup takes the stored pair; without one it restores
\* the backup that the page knows of.
AskForPassword(d) ==
    LET backup == pages[d].backup
    IN  /\ pages[d].open /\ changing[d].at = "no"
        /\ account.password < MaxPasswords
        /\ changing' = [changing EXCEPT ![d] =
              IF local[d].private # Nothing \/ backup = NoBackup
                  THEN PasswordRequest(local[d].private)
                  ELSE [at |-> "resolving",
                        backup |-> [backup EXCEPT !.pair = Opened(backup, unlocks[d])]]]
        /\ UNCHANGED <<account, local, unlocks, token, pages, secret, ensures, answers, spent,
                       author, crossed, misfiled>>

\* What it has restored it stores, with the key that the page has by now.
Resolved(d) ==
    LET pair == changing[d].backup.pair
    IN  /\ changing[d].at = "resolving"
        /\ pair # Nothing => account.password < MaxPasswords
        /\ changing' = [changing EXCEPT ![d] = IF pair = Nothing THEN NotChanging ELSE PasswordRequest(pair)]
        /\ local' = IF pair = Nothing THEN local
                    ELSE [local EXCEPT ![d] =
                            [private |-> pair, public |-> IF pages[d].public = Nothing
                                                              THEN @.public
                                                              ELSE pages[d].public]]
        /\ crossed' = IF /\ pair # Nothing
                         /\ \/ local[d].private # Nothing
                            \/ \E t \in KeyTasks : ensures[<<d, t>>].at # "done"
                          THEN crossed \cup {d} ELSE crossed
        /\ UNCHANGED <<account, unlocks, token, pages, secret, ensures, answers, spent, author,
                       misfiled>>

\* The server writes the password and the backup; the page logs out.
ChangePassword(d) ==
    LET backup == changing[d].backup
    IN  /\ changing[d].at = "asked" /\ token[d] = account.password
        /\ account.password < MaxPasswords
        /\ account' = [account EXCEPT !.password = @ + 1, !.backup = backup]
        /\ misfiled' = (misfiled \/ backup.pair \notin {Nothing, account.public})
        /\ LogsOut(d)
        /\ UNCHANGED <<local, spent, author, crossed>>

-----------------------------------------------------------------------------
KeysNext ==
    \E d \in Devices :
        \/ \E t \in KeyTasks :
              \/ EnsureKeys(d, t) \/ Matched(d, t) \/ Restored(d, t) \/ Verified(d, t)
              \/ Generated(d, t) \/ Imported(d, t) \/ Packed(d, t)
              \/ UpdatePublicKey(d, t) \/ Synced(d, t) \/ SyncFails(d, t)
        \/ \E r \in Requests :
              \/ LogIn(d, r) \/ Reopen(d, r) \/ GetProfile(d, r) \/ ApplyCurrentUser(d, r)
              \/ \E t \in KeyTasks : StartApp(d, t, r)
        \/ ClosePage(d) \/ LogoutByServer(d)
        \/ AskForPassword(d) \/ Resolved(d) \/ ChangePassword(d)

KeysSpec == KeysInit /\ [][KeysNext]_keysVars

-----------------------------------------------------------------------------
(* Properties                                                              *)

AtRest(d) == \A t \in KeyTasks : ensures[<<d, t>>].at = "done"

\* The browser that published the account's key can open what is encrypted
\* for it: the pair in its storage is the published one as soon as its calls
\* have ended.  Two calls that overlap may each generate a pair, and then the
\* stored and the published one can differ (ensureEncryptionKeys has no lock,
\* nor has the change of password): `crossed' names the browsers where that
\* may have happened.
PublishedKeyIsHeld ==
    \A d \in author \ crossed : AtRest(d) => local[d].private = account.public

\* A backup the server keeps opens with the account's password and yields the
\* private key of the account's public key: every login can read the messages
\* (updatePublicKey writes the two together, changePassword encrypts it anew).
\* Not so once a page that still held an older pair has changed the password.
BackupOpens ==
    account.backup # NoBackup /\ ~misfiled
        => /\ account.backup.pair = account.public
           /\ account.backup.password = account.password
=============================================================================
