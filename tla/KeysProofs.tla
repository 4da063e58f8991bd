---------------------------- MODULE KeysProofs ----------------------------
(***************************************************************************)
(* The message keys, for any number of browsers, of calls a page can have  *)
(* at once, of pairs and of passwords.                                     *)
(*                                                                         *)
(* What makes it work is that the storage of a browser, the variables of   *)
(* its calls and the account agree as long as its calls do not cross:      *)
(* every call that holds a pair holds the stored one (StorageFollows), and *)
(* once the browser has published a key, no call is left that would drop   *)
(* it (AuthorHolds).  A call that asks the server brings a backup of the   *)
(* pair it publishes, made with the password its token was issued under    *)
(* (CallsAreSound, PageFollows), so the server's row opens.  A pair whose  *)
(* halves do not belong together comes only of a key that changed while a  *)
(* restored pair was verified, which `misfiled' records.                   *)
(*                                                                         *)
(* At the end groups and private chats are put together (MCChats).         *)
(***************************************************************************)
EXTENDS MCChats, GroupMembershipProofs, ChatRequestsProofs, TLAPS

HoldsPair == {"importing", "packing", "asking", "answering"}
LacksPair == {"restoring", "verifying", "generating"}

\* What a call has when it gets there: a pair whose halves belong together, if no pair has
\* been mixed; and a backup of its private key, made with the password that the browser's
\* token was issued under.
CallOK(s, issued, mixed) ==
  /\ s.at \in HoldsPair => s.public # Nothing /\ (~mixed => s.private = s.public)
  /\ s.at \in {"matching", "verifying"} => s.private # Nothing /\ s.public # Nothing
  /\ s.at \in {"packing", "asking", "answering"} /\ s.payload # NoBackup
       => s.payload.pair = s.private /\ s.payload.password = issued

\* A closed page runs nothing, the unlock material is of the token's password, and
\* a change of password that the server can still accept brings a backup made for it.
PageFollows(d) ==
  /\ ~pages[d].open
       => changing[d].at = "no" /\ \A t \in KeyTasks : ensures[<<d, t>>].at = "done"
  /\ unlocks[d] \in {0, token[d]} /\ token[d] <= account.password
  /\ changing[d].at = "asked" /\ token[d] = account.password /\ changing[d].backup # NoBackup
       => /\ changing[d].backup.pair # Nothing
          /\ changing[d].backup.password = account.password + 1

CallsAreSound(d) == \A t \in KeyTasks : CallOK(ensures[<<d, t>>], token[d], misfiled)

\* The pair that a call works with is the stored one, and none is stored while it has none;
\* the halves of a pair belong together.
IsStored(s, l) ==
  /\ s.at \in HoldsPair => s.private = s.public
  /\ s.at \in HoldsPair \cup {"matching"} => l.private = s.private /\ l.public = s.public
  /\ s.at \in LacksPair => Nothing \in {l.private, l.public}

StorageFollows(d) ==
  d \notin crossed => \A t \in KeyTasks : IsStored(ensures[<<d, t>>], local[d])

\* A call that will not drop the pair with this public key.
Keeps(s, key) == s.at \notin LacksPair /\ (s.at = "matching" => s.known \in {Nothing, key})

AuthorHolds(d) ==
  d \in author \ crossed =>
    /\ account.public # Nothing
    /\ local[d].private = account.public /\ local[d].public = account.public
    /\ \A t \in KeyTasks : Keeps(ensures[<<d, t>>], account.public)
    /\ pages[d].open => \/ pages[d].public \in {Nothing, account.public}
                        \/ \E t \in KeyTasks : ensures[<<d, t>>].at = "answering"
    /\ ~pages[d].open =>
         \A r \in Requests : answers[<<d, r>>].sent => answers[<<d, r>>].public = account.public

DeviceInv(d) == PageFollows(d) /\ CallsAreSound(d) /\ StorageFollows(d) /\ AuthorHolds(d)

KeysInv == KeysTypeOK /\ (\A d \in Devices : DeviceInv(d)) /\ BackupOpens

CallRow == [at : Awaits \cup {"done"}, force : BOOLEAN, private : Pairs,
            public : Pairs, known : Pairs, made : BOOLEAN, payload : Backups]
PageRow == [open : BOOLEAN, public : Pairs, backup : Backups]
LocalRow == [private : Pairs, public : Pairs]
AnswerRow == [sent : BOOLEAN, public : Pairs, backup : Backups]
ChangeRow == [at : {"no", "resolving", "asked"}, backup : Backups]
AccountRow == [public : Pairs, backup : Backups, password : Passwords]
SpentRow == [pairs : Pairs, ensures : 0 .. MaxEnsures, snags : 0 .. MaxSnags]

LEMMA KeyConstants ==
  /\ Nothing \in Pairs /\ NoBackup \in Backups /\ NoBackup.pair = Nothing /\ NoBackup.password = 0
  /\ MaxPairs \in Nat /\ MaxEnsures \in Nat /\ MaxPasswords \in Nat \ {0} /\ MaxSnags \in Nat
  /\ Pairs \subseteq Nat /\ Passwords \subseteq Nat /\ 1 \in Passwords
  BY KeysAssumption DEF Nothing, Pairs, NoBackup, Backups, Passwords

LEMMA RowsTyped ==
  /\ Resting \in CallRow /\ Resting.at = "done"
  /\ Closed \in PageRow /\ Closed.open = FALSE /\ NotChanging \in ChangeRow /\ NotChanging.at = "no"
  /\ NoAnswer \in AnswerRow /\ NoAnswer.sent = FALSE
  BY KeyConstants DEF Resting, CallRow, Closed, PageRow, NotChanging, ChangeRow, NoAnswer, AnswerRow

LEMMA KeysTyped ==
  ASSUME KeysTypeOK
  PROVE  /\ account \in AccountRow /\ local \in [Devices -> LocalRow]
         /\ unlocks \in [Devices -> 0 .. MaxPasswords] /\ token \in [Devices -> 0 .. MaxPasswords]
         /\ pages \in [Devices -> PageRow] /\ secret \in [Devices -> Pairs]
         /\ ensures \in [Devices \X KeyTasks -> CallRow] /\ changing \in [Devices -> ChangeRow]
         /\ answers \in [Devices \X Requests -> AnswerRow]
         /\ spent \in SpentRow /\ author \subseteq Devices /\ crossed \subseteq Devices
         /\ misfiled \in BOOLEAN
  BY DEF KeysTypeOK, AccountRow, LocalRow, PageRow, CallRow, ChangeRow, AnswerRow, SpentRow

LEMMA KeysTypedBack ==
  ASSUME account' \in AccountRow, local' \in [Devices -> LocalRow],
         unlocks' \in [Devices -> 0 .. MaxPasswords], token' \in [Devices -> 0 .. MaxPasswords],
         pages' \in [Devices -> PageRow], secret' \in [Devices -> Pairs],
         ensures' \in [Devices \X KeyTasks -> CallRow], changing' \in [Devices -> ChangeRow],
         answers' \in [Devices \X Requests -> AnswerRow],
         spent' \in SpentRow, author' \subseteq Devices, crossed' \subseteq Devices,
         misfiled' \in BOOLEAN
  PROVE  KeysTypeOK'
  BY DEF KeysTypeOK, AccountRow, LocalRow, PageRow, CallRow, ChangeRow, AnswerRow, SpentRow

LEMMA CallTyped ==
  ASSUME NEW s \in CallRow
  PROVE  /\ s.at \in Awaits \cup {"done"} /\ s.force \in BOOLEAN /\ s.private \in Pairs
         /\ s.public \in Pairs /\ s.known \in Pairs /\ s.made \in BOOLEAN /\ s.payload \in Backups
  BY DEF CallRow

LEMMA OtherRowsTyped ==
  /\ \A x \in PageRow : x.open \in BOOLEAN /\ x.public \in Pairs /\ x.backup \in Backups
  /\ \A x \in LocalRow : x.private \in Pairs /\ x.public \in Pairs
  /\ \A x \in ChangeRow : x.at \in {"no", "resolving", "asked"} /\ x.backup \in Backups
  /\ \A x \in AnswerRow : x.sent \in BOOLEAN /\ x.public \in Pairs /\ x.backup \in Backups
  /\ \A x \in AccountRow : x.public \in Pairs /\ x.backup \in Backups /\ x.password \in Passwords
  /\ \A x \in Backups : x.pair \in Pairs /\ x.password \in 0 .. MaxPasswords
  BY DEF PageRow, LocalRow, ChangeRow, AnswerRow, AccountRow, Backups

LEMMA CountsTyped ==
  ASSUME KeysTypeOK
  PROVE  /\ spent.ensures < MaxEnsures /\ Counts("ensures") => spent' \in SpentRow
         /\ spent.snags < MaxSnags /\ Counts("snags") => spent' \in SpentRow
         /\ spent.pairs < MaxPairs /\ Counts("pairs") => spent' \in SpentRow
         /\ spent.pairs < MaxPairs => spent.pairs + 1 \in Pairs /\ spent.pairs + 1 # Nothing
         /\ UNCHANGED spent => spent' \in SpentRow
<1>1. spent \in SpentRow
  BY KeysTyped
<1>2. /\ spent.ensures \in 0 .. MaxEnsures /\ spent.snags \in 0 .. MaxSnags /\ spent.pairs \in Pairs
  BY <1>1 DEF SpentRow
<1>3. ASSUME spent.ensures < MaxEnsures, Counts("ensures") PROVE spent' \in SpentRow
  <2>1. PICK n \in 0 .. MaxEnsures : n = spent.ensures + 1
    BY <1>2, <1>3, KeyConstants
  <2>2. spent' = [spent EXCEPT !["ensures"] = n]
    BY <1>3, <2>1 DEF Counts
  <2>3. QED
    BY <1>1, <2>2, Zenon DEF SpentRow
<1>4. ASSUME spent.snags < MaxSnags, Counts("snags") PROVE spent' \in SpentRow
  <2>1. PICK n \in 0 .. MaxSnags : n = spent.snags + 1
    BY <1>2, <1>4, KeyConstants
  <2>2. spent' = [spent EXCEPT !["snags"] = n]
    BY <1>4, <2>1 DEF Counts
  <2>3. QED
    BY <1>1, <2>2, Zenon DEF SpentRow
<1>5. ASSUME spent.pairs < MaxPairs
      PROVE  /\ Counts("pairs") => spent' \in SpentRow
             /\ spent.pairs + 1 \in Pairs /\ spent.pairs + 1 # Nothing
  <2>1. PICK n \in Pairs : n = spent.pairs + 1 /\ n # Nothing
    BY <1>2, <1>5, KeyConstants DEF Pairs, Nothing
  <2>2. ASSUME Counts("pairs") PROVE spent' \in SpentRow
    <3>1. spent' = [spent EXCEPT !["pairs"] = n]
      BY <2>1, <2>2 DEF Counts
    <3>2. QED
      BY <1>1, <3>1, Zenon DEF SpentRow
  <2>3. QED
    BY <2>1, <2>2
<1>6. QED
  BY <1>1, <1>3, <1>4, <1>5

\* What the browsers other than d keep when d takes a step: everything, save that one
\* may no longer be the author.
Others(d) ==
  /\ misfiled => misfiled'
  /\ \A e \in Devices \ {d} :
    /\ local'[e] = local[e] /\ unlocks'[e] = unlocks[e] /\ token'[e] = token[e]
    /\ pages'[e] = pages[e] /\ changing'[e] = changing[e]
    /\ \A t \in KeyTasks : ensures'[<<e, t>>] = ensures[<<e, t>>]
    /\ \A r \in Requests : answers'[<<e, r>>] = answers[<<e, r>>]
    /\ e \in crossed => e \in crossed'
    /\ e \in author' => e \in author /\ account'.public = account.public

LEMMA DeviceFrame ==
  ASSUME KeysInv, NEW d \in Devices, KeysTypeOK', Others(d),
         account.password <= account'.password, DeviceInv(d)', BackupOpens'
  PROVE  KeysInv'
<1>1. SUFFICES ASSUME NEW e \in Devices \ {d} PROVE DeviceInv(e)'
  BY DEF KeysInv
<1>2. DeviceInv(e)
  BY DEF KeysInv
<1>3. /\ local'[e] = local[e] /\ unlocks'[e] = unlocks[e] /\ token'[e] = token[e]
      /\ pages'[e] = pages[e] /\ changing'[e] = changing[e]
      /\ \A t \in KeyTasks : ensures'[<<e, t>>] = ensures[<<e, t>>]
      /\ \A r \in Requests : answers'[<<e, r>>] = answers[<<e, r>>]
      /\ misfiled => misfiled'
      /\ e \in crossed => e \in crossed'
      /\ e \in author' => e \in author /\ account'.public = account.public
  BY DEF Others
<1>4. /\ account.password \in Nat /\ account'.password \in Nat /\ token[e] \in Nat
  <2>1. account \in AccountRow /\ token \in [Devices -> 0 .. MaxPasswords]
    BY KeysTyped DEF KeysInv
  <2>2. account' \in AccountRow
    BY DEF KeysTypeOK, AccountRow
  <2>3. account.password \in Passwords /\ account'.password \in Passwords
    BY <2>1, <2>2, OtherRowsTyped
  <2>4. token[e] \in 0 .. MaxPasswords
    BY <2>1
  <2>5. account.password \in Nat /\ account'.password \in Nat
    BY <2>3, KeyConstants, Zenon
  <2>6. token[e] \in Nat
    BY <2>4
  <2>7. QED
    BY <2>5, <2>6
<1>5. PageFollows(e)'
  <2>1. PageFollows(e)
    BY <1>2 DEF DeviceInv
  <2>2. token'[e] <= account'.password
    BY <1>3, <1>4, <2>1 DEF PageFollows
  <2>3. token'[e] = account'.password => account'.password = account.password
    BY <1>3, <1>4, <2>1 DEF PageFollows
  <2>4. QED
    BY <1>3, <2>1, <2>2, <2>3 DEF PageFollows
<1>6. CallsAreSound(e)'
  BY <1>2, <1>3 DEF DeviceInv, CallsAreSound, CallOK
<1>7. StorageFollows(e)'
  BY <1>2, <1>3 DEF DeviceInv, StorageFollows, IsStored
<1>8. AuthorHolds(e)'
  BY <1>2, <1>3 DEF DeviceInv, AuthorHolds, Keeps
<1>9. QED
  BY <1>5, <1>6, <1>7, <1>8 DEF DeviceInv

\* A call of ensureEncryptionKeys goes on to s; it writes l to the storage and leaves
\* the unlock material u.
LEMMA CallFrame ==
  ASSUME KeysInv, NEW d \in Devices, NEW t \in KeyTasks,
         NEW s \in CallRow, NEW l \in LocalRow, NEW u \in {0, unlocks[d]},
         ensures' = [ensures EXCEPT ![<<d, t>>] = s],
         local' = [local EXCEPT ![d] = l], unlocks' = [unlocks EXCEPT ![d] = u],
         UNCHANGED <<account, token, pages, answers, changing, author>>,
         misfiled' \in BOOLEAN, misfiled => misfiled',
         secret' \in [Devices -> Pairs], spent' \in SpentRow,
         crossed' \in {crossed, crossed \cup {d}},
         pages[d].open,
         CallOK(s, token[d], misfiled'),
         d \notin crossed' =>
           /\ IsStored(s, l)
           /\ \/ l = local[d]
              \/ \A other \in KeyTasks \ {t} : ensures[<<d, other>>].at = "done",
         d \in author \ crossed' =>
           /\ l = local[d] /\ Keeps(s, account.public)
           /\ ensures[<<d, t>>].at = "answering" => s.at = "answering"
  PROVE  KeysInv'
<1>1. KeysTypeOK /\ DeviceInv(d) /\ BackupOpens
  BY DEF KeysInv
<1>2. /\ local \in [Devices -> LocalRow] /\ unlocks \in [Devices -> 0 .. MaxPasswords]
      /\ ensures \in [Devices \X KeyTasks -> CallRow] /\ crossed \subseteq Devices
      /\ token \in [Devices -> 0 .. MaxPasswords] /\ account \in AccountRow
  BY <1>1, KeysTyped
<1>3. /\ local'[d] = l /\ unlocks'[d] = u /\ ensures'[<<d, t>>] = s
      /\ \A other \in KeyTasks \ {t} : ensures'[<<d, other>>] = ensures[<<d, other>>]
      /\ d \notin crossed' => d \notin crossed
  BY <1>2
<1>4. KeysTypeOK'
  <2>1. 0 \in 0 .. MaxPasswords
    BY KeyConstants
  <2>2. /\ local' \in [Devices -> LocalRow] /\ ensures' \in [Devices \X KeyTasks -> CallRow]
        /\ unlocks' \in [Devices -> 0 .. MaxPasswords] /\ crossed' \subseteq Devices
    BY <1>2, <2>1
  <2>3. QED
    BY <1>1, <2>2, KeysTyped, KeysTypedBack
<1>5. Others(d)
  BY <1>2 DEF Others
<1>6. PageFollows(d)'
  BY <1>1, <1>3 DEF DeviceInv, PageFollows
<1>7. CallsAreSound(d)'
  <2>1. SUFFICES ASSUME NEW o \in KeyTasks PROVE CallOK(ensures'[<<d, o>>], token[d], misfiled')
    BY DEF CallsAreSound, CallOK
  <2>2. CASE o = t
    BY <1>3, <2>2
  <2>3. CASE o # t
    BY <1>1, <1>3, <2>3 DEF DeviceInv, CallsAreSound, CallOK
  <2>4. QED
    BY <2>2, <2>3
<1>8. StorageFollows(d)'
  <2>1. SUFFICES ASSUME d \notin crossed', NEW o \in KeyTasks
                 PROVE  IsStored(ensures'[<<d, o>>], l)
    BY <1>3 DEF StorageFollows, IsStored
  <2>2. CASE o = t
    BY <1>3, <2>1, <2>2
  <2>3. CASE o # t
    BY <1>1, <1>3, <2>1, <2>3 DEF DeviceInv, StorageFollows, IsStored, HoldsPair, LacksPair
  <2>4. QED
    BY <2>2, <2>3
<1>9. AuthorHolds(d)'
  <2>1. SUFFICES ASSUME d \in author \ crossed'
                 PROVE  /\ account.public # Nothing
                        /\ l.private = account.public /\ l.public = account.public
                        /\ \A o \in KeyTasks : Keeps(ensures'[<<d, o>>], account.public)
                        /\ pages[d].open => \/ pages[d].public \in {Nothing, account.public}
                                            \/ \E o \in KeyTasks : ensures'[<<d, o>>].at = "answering"
    BY <1>3 DEF AuthorHolds, Keeps
  <2>2. /\ account.public # Nothing
        /\ local[d].private = account.public /\ local[d].public = account.public
        /\ \A o \in KeyTasks : Keeps(ensures[<<d, o>>], account.public)
        /\ \/ pages[d].public \in {Nothing, account.public}
           \/ \E o \in KeyTasks : ensures[<<d, o>>].at = "answering"
    BY <1>1, <1>3, <2>1 DEF DeviceInv, AuthorHolds
  <2>3. \A o \in KeyTasks : Keeps(ensures'[<<d, o>>], account.public)
    BY <1>3, <2>1, <2>2
  <2>4. \A o \in KeyTasks : ensures[<<d, o>>].at = "answering" => ensures'[<<d, o>>].at = "answering"
    BY <1>3, <2>1
  <2>5. QED
    BY <2>1, <2>2, <2>3, <2>4
<1>10. BackupOpens'
  BY <1>1 DEF BackupOpens
<1>11. account.password <= account'.password
  <2>1. account.password \in Nat
    BY <1>2, OtherRowsTyped, KeyConstants
  <2>2. QED
    BY <2>1
<1>12. DeviceInv(d)'
  BY <1>6, <1>7, <1>8, <1>9 DEF DeviceInv
<1>13. QED
  BY <1>4, <1>5, <1>10, <1>11, <1>12, DeviceFrame

-----------------------------------------------------------------------------
(* The steps of ensureEncryptionKeys                                       *)

LEMMA CallFacts ==
  ASSUME KeysInv, NEW d \in Devices, NEW t \in KeyTasks
  PROVE  /\ ensures[<<d, t>>] \in CallRow /\ local[d] \in LocalRow /\ pages[d] \in PageRow
         /\ ensures \in [Devices \X KeyTasks -> CallRow]
         /\ local = [local EXCEPT ![d] = local[d]]
         /\ unlocks = [unlocks EXCEPT ![d] = unlocks[d]] /\ unlocks[d] \in 0 .. MaxPasswords
         /\ secret \in [Devices -> Pairs] /\ spent \in SpentRow
         /\ \A x \in Pairs : [secret EXCEPT ![d] = x] \in [Devices -> Pairs]
         /\ [secret EXCEPT ![d] = Nothing] \in [Devices -> Pairs]
         /\ KeysTypeOK /\ BackupOpens /\ PageFollows(d) /\ CallOK(ensures[<<d, t>>], token[d], misfiled)
         /\ ensures[<<d, t>>].at # "done" => pages[d].open
         /\ d \notin crossed => IsStored(ensures[<<d, t>>], local[d])
         /\ AuthorHolds(d) /\ unlocks[d] \in {0, token[d]} /\ misfiled \in BOOLEAN
<1>1. KeysTypeOK /\ DeviceInv(d) /\ BackupOpens
  BY DEF KeysInv
<1>2. /\ local \in [Devices -> LocalRow] /\ unlocks \in [Devices -> 0 .. MaxPasswords]
      /\ ensures \in [Devices \X KeyTasks -> CallRow] /\ pages \in [Devices -> PageRow]
      /\ secret \in [Devices -> Pairs] /\ spent \in SpentRow /\ misfiled \in BOOLEAN
  BY <1>1, KeysTyped
<1>3. [secret EXCEPT ![d] = Nothing] \in [Devices -> Pairs]
  BY <1>2, KeyConstants
<1>4. QED
  BY <1>1, <1>2, <1>3 DEF DeviceInv, PageFollows, CallsAreSound, StorageFollows

LEMMA HoldingIs ==
  ASSUME NEW s \in CallRow
  PROVE  /\ Holding(s) \in CallRow /\ Holding(s).at = "importing" /\ Holding(s).private = s.private
         /\ Holding(s).public = s.public /\ Holding(s).payload = s.payload
<1>1. "importing" \in Awaits \cup {"done"}
  BY DEF Awaits
<1>2. QED
  BY <1>1, Zenon DEF Holding, CallRow

\* Without a pair, a call turns to the backup or to a new pair.
LEMMA LackingIs ==
  ASSUME KeysTypeOK, NEW d \in Devices, NEW page \in PageRow, NEW s \in CallRow
  PROVE  /\ Lacking(d, page, s) \in CallRow
         /\ Lacking(d, page, s).at \in {"restoring", "generating"}
<1>1. PICK pair \in Pairs : pair = Opened(page.backup, unlocks[d])
  <2>1. page.backup.pair \in Pairs /\ Nothing \in Pairs
    BY OtherRowsTyped, KeyConstants
  <2>2. QED
    BY <2>1 DEF Opened
<1>2. {"restoring", "generating"} \subseteq Awaits \cup {"done"} /\ Nothing \in Pairs
  BY KeyConstants DEF Awaits
<1>3. CASE page.backup = NoBackup
  <2>1. Lacking(d, page, s) = [s EXCEPT !.at = "generating", !.private = Nothing, !.public = Nothing]
    BY <1>3, Zenon DEF Lacking
  <2>2. /\ [s EXCEPT !.at = "generating", !.private = Nothing, !.public = Nothing] \in CallRow
        /\ [s EXCEPT !.at = "generating", !.private = Nothing, !.public = Nothing].at = "generating"
    BY <1>2, Zenon DEF CallRow
  <2>3. QED
    BY <2>1, <2>2
<1>4. CASE page.backup # NoBackup
  <2>1. Lacking(d, page, s) = [s EXCEPT !.at = "restoring", !.private = pair, !.public = Nothing]
    BY <1>1, <1>4, Zenon DEF Lacking
  <2>2. /\ [s EXCEPT !.at = "restoring", !.private = pair, !.public = Nothing] \in CallRow
        /\ [s EXCEPT !.at = "restoring", !.private = pair, !.public = Nothing].at = "restoring"
    BY <1>2, Zenon DEF CallRow
  <2>3. QED
    BY <2>1, <2>2
<1>5. QED
  BY <1>3, <1>4

\* A call begins with the stored pair, or has to find one.
LEMMA StartingIs ==
  ASSUME KeysTypeOK, NEW d \in Devices, NEW page \in PageRow, NEW force \in BOOLEAN
  PROVE  /\ Starting(d, page, force) \in CallRow
         /\ LET s == Starting(d, page, force)
            IN  \/ /\ s.at = "matching" /\ s.private # Nothing /\ s.public # Nothing
                   /\ s.private = local[d].private /\ s.public = local[d].public
                   /\ s.known = page.public
                \/ /\ s.at \in {"restoring", "generating"}
                   /\ Nothing \in {local[d].private, local[d].public}
<1>1. PICK l \in LocalRow : l = local[d]
  BY KeysTyped
<1>2. /\ l.private \in Pairs /\ l.public \in Pairs /\ page.public \in Pairs
      /\ Nothing \in Pairs /\ NoBackup \in Backups
  BY <1>1, OtherRowsTyped, KeyConstants
<1>3. PICK b \in CallRow :
         /\ b = [Resting EXCEPT !.force = force, !.private = local[d].private,
                                !.public = local[d].public, !.known = page.public]
         /\ b.private = l.private /\ b.public = l.public /\ b.known = page.public
  <2> DEFINE b == [Resting EXCEPT !.force = force, !.private = l.private,
                                  !.public = l.public, !.known = page.public]
  <2>1. b \in CallRow /\ b.private = l.private /\ b.public = l.public /\ b.known = page.public
    BY <1>2, RowsTyped, Zenon DEF CallRow
  <2>2. b = [Resting EXCEPT !.force = force, !.private = local[d].private,
                            !.public = local[d].public, !.known = page.public]
    BY <1>1
  <2> HIDE DEF b
  <2>3. QED
    BY <2>1, <2>2
<1> DEFINE meets == [b EXCEPT !.at = "matching"]
           lacks == Lacking(d, page, b)
<1>4. /\ meets \in CallRow /\ meets.at = "matching" /\ meets.private = l.private
      /\ meets.public = l.public /\ meets.known = page.public
  <2>1. "matching" \in Awaits \cup {"done"}
    BY DEF Awaits
  <2>2. QED
    BY <1>3, <2>1, Zenon DEF CallRow
<1>5. /\ lacks \in CallRow /\ lacks.at \in {"restoring", "generating"}
  BY <1>3, LackingIs
<1>6. Starting(d, page, force)
        = IF Nothing \notin {b.private, b.public} THEN meets ELSE lacks
  BY <1>3, Zenon DEF Starting
<1> HIDE DEF meets, lacks
<1>7. CASE Nothing \notin {l.private, l.public}
  BY <1>1, <1>3, <1>4, <1>6, <1>7
<1>8. CASE Nothing \in {l.private, l.public}
  BY <1>1, <1>3, <1>5, <1>6, <1>8
<1>9. QED
  BY <1>7, <1>8

LEMMA EnsureKeysKeeps ==
  ASSUME KeysInv, NEW d \in Devices, NEW t \in KeyTasks, EnsureKeys(d, t)
  PROVE  KeysInv'
<1>1. PICK s \in CallRow : s = Starting(d, pages[d], FALSE)
  BY CallFacts, StartingIs
<1>2. \/ /\ s.at = "matching" /\ s.private # Nothing /\ s.public # Nothing
         /\ s.private = local[d].private /\ s.public = local[d].public
         /\ s.known = pages[d].public
      \/ /\ s.at \in {"restoring", "generating"}
         /\ Nothing \in {local[d].private, local[d].public}
  BY <1>1, CallFacts, StartingIs
<1>3. /\ pages[d].open /\ ensures[<<d, t>>].at = "done"
      /\ ensures' = [ensures EXCEPT ![<<d, t>>] = s]
      /\ secret' = [secret EXCEPT ![d] = Nothing]
      /\ crossed' = IF Unsynced(d) THEN crossed \cup {d} ELSE crossed
      /\ UNCHANGED <<account, local, unlocks, token, pages, answers, changing, author, misfiled>>
  BY <1>1, CallFacts DEF EnsureKeys, GoesTo
<1>4. spent' \in SpentRow
  BY CountsTyped, CallFacts DEF EnsureKeys
<1>5. PICK l \in LocalRow, u \in {0, unlocks[d]} : l = local[d] /\ u = unlocks[d]
  BY CallFacts
<1>6. local' = [local EXCEPT ![d] = l] /\ unlocks' = [unlocks EXCEPT ![d] = u]
  BY <1>3, <1>5, CallFacts
<1>7. /\ CallOK(s, token[d], misfiled') /\ IsStored(s, l)
      /\ misfiled' \in BOOLEAN /\ misfiled' = misfiled /\ (misfiled => misfiled')
  BY <1>2, <1>3, <1>5, CallFacts DEF CallOK, IsStored, HoldsPair, LacksPair
<1>8. ASSUME d \in author \ crossed' PROVE Keeps(s, account.public)
  <2>1. ~Unsynced(d) /\ d \in author \ crossed
    BY <1>3, <1>8
  <2>2. /\ account.public # Nothing
        /\ local[d].private = account.public /\ local[d].public = account.public
        /\ \/ pages[d].public \in {Nothing, account.public}
           \/ \E o \in KeyTasks : ensures[<<d, o>>].at = "answering"
    BY <1>3, <2>1, CallFacts DEF AuthorHolds
  <2>3. s.at = "matching" /\ s.known = pages[d].public
    BY <1>2, <2>2
  <2>4. ASSUME NEW o \in KeyTasks, ensures[<<d, o>>].at = "answering"
        PROVE  pages[d].public \in {Nothing, account.public}
    <3>1. ensures[<<d, o>>].public = local[d].public
      BY <2>1, <2>4, CallFacts DEF IsStored, HoldsPair
    <3>2. ensures[<<d, o>>].public \in {Nothing, pages[d].public}
      BY <2>1, <2>4, CallFacts DEF Unsynced
    <3>3. QED
      BY <3>1, <3>2, <2>2
  <2>5. pages[d].public \in {Nothing, account.public}
    BY <2>2, <2>4
  <2>6. QED
    BY <2>3, <2>5 DEF Keeps, LacksPair
<1>9. crossed' \in {crossed, crossed \cup {d}} /\ secret' \in [Devices -> Pairs]
  BY <1>3, CallFacts
<1>10. QED
  BY <1>3, <1>4, <1>5, <1>6, <1>7, <1>8, <1>9, CallFrame

\* The pair is dropped, which leaves the author no pair at all: so the author has none
\* to drop.
LEMMA MatchedKeeps ==
  ASSUME KeysInv, NEW d \in Devices, NEW t \in KeyTasks, Matched(d, t)
  PROVE  KeysInv'
<1>1. PICK old \in CallRow : old = ensures[<<d, t>>]
  BY CallFacts
<1>2. /\ old.at = "matching" /\ pages[d].open
      /\ UNCHANGED <<account, unlocks, token, pages, secret, answers, changing, spent, author, misfiled>>
  BY <1>1, CallFacts DEF Matched
<1>3. /\ spent' \in SpentRow /\ secret' \in [Devices -> Pairs]
      /\ misfiled' \in BOOLEAN /\ misfiled' = misfiled /\ (misfiled => misfiled')
  BY <1>2, CallFacts
<1>4. PICK u \in {0, unlocks[d]} : u = unlocks[d] /\ unlocks' = [unlocks EXCEPT ![d] = u]
  BY <1>2, CallFacts
<1>5. CASE Matches(old)
  <2>1. PICK s \in CallRow :
           /\ s = Holding(old) /\ s.at = "importing" /\ s.private = old.private
           /\ s.public = old.public /\ s.payload = old.payload
    BY HoldingIs
  <2>2. PICK l \in LocalRow : l = local[d] /\ local = [local EXCEPT ![d] = l]
    BY CallFacts
  <2>3. ensures' = [ensures EXCEPT ![<<d, t>>] = s] /\ local' = local /\ crossed' = crossed
    BY <1>1, <1>5, <2>1 DEF Matched, GoesTo
  <2>4. CallOK(old, token[d], misfiled) /\ (d \notin crossed => IsStored(old, l))
    BY <1>1, <2>2, CallFacts
  <2>5. CallOK(s, token[d], misfiled')
    BY <1>2, <1>3, <1>5, <2>1, <2>4 DEF CallOK, Matches, HoldsPair
  <2>6. d \notin crossed' => IsStored(s, l)
    BY <1>2, <1>5, <2>1, <2>3, <2>4 DEF IsStored, Matches, LacksPair, HoldsPair
  <2>7. Keeps(s, account.public)
    BY <2>1 DEF Keeps, LacksPair
  <2>8. QED
    BY <1>1, <1>2, <1>3, <1>4, <2>2, <2>3, <2>5, <2>6, <2>7, CallFrame
<1>6. CASE ~Matches(old)
  <2>1. PICK s \in CallRow : s = Lacking(d, pages[d], old) /\ s.at \in {"restoring", "generating"}
    BY CallFacts, LackingIs
  <2>2. PICK l \in LocalRow : l = [private |-> Nothing, public |-> Nothing]
    BY KeyConstants DEF LocalRow
  <2>3. /\ ensures' = [ensures EXCEPT ![<<d, t>>] = s] /\ local' = [local EXCEPT ![d] = l]
        /\ crossed' = IF Overlapped(d, t, Nothing, Nothing) THEN crossed \cup {d} ELSE crossed
    BY <1>1, <1>6, <2>1, <2>2 DEF Matched, GoesTo, Stores
  <2>4. CallOK(s, token[d], misfiled') /\ IsStored(s, l)
    BY <2>1, <2>2 DEF CallOK, IsStored, HoldsPair, LacksPair
  <2>5. d \notin crossed' => \A other \in KeyTasks \ {t} : ensures[<<d, other>>].at = "done"
    BY <2>3 DEF Overlapped
  <2>6. d \notin author \ crossed'
    <3>1. SUFFICES ASSUME d \in author \ crossed PROVE FALSE
      BY <2>3
    <3>2. /\ local[d].private = account.public /\ local[d].public = account.public
          /\ Keeps(old, account.public) /\ IsStored(old, local[d])
      BY <1>1, <3>1, CallFacts DEF AuthorHolds
    <3>3. QED
      BY <1>2, <1>6, <3>2 DEF Matches, Keeps, IsStored
  <2>7. crossed' \in {crossed, crossed \cup {d}}
    BY <2>3
  <2>8. QED
    BY <1>2, <1>3, <1>4, <2>3, <2>4, <2>5, <2>6, <2>7, CallFrame
<1>7. QED
  BY <1>5, <1>6

LEMMA RestoredKeeps ==
  ASSUME KeysInv, NEW d \in Devices, NEW t \in KeyTasks, Restored(d, t)
  PROVE  KeysInv'
<1>1. PICK old \in CallRow : old = ensures[<<d, t>>]
  BY CallFacts
<1>2. /\ old.at = "restoring" /\ pages[d].open
      /\ UNCHANGED <<account, local, unlocks, token, pages, secret, answers, changing, spent, author,
                     crossed, misfiled>>
  BY <1>1, CallFacts DEF Restored
<1>3. /\ spent' \in SpentRow /\ secret' \in [Devices -> Pairs]
      /\ misfiled' \in BOOLEAN /\ misfiled' = misfiled /\ (misfiled => misfiled')
  BY <1>2, CallFacts
<1>4. PICK l \in LocalRow, u \in {0, unlocks[d]} :
         /\ l = local[d] /\ unlocks' = [unlocks EXCEPT ![d] = u]
         /\ local' = [local EXCEPT ![d] = l]
  BY <1>2, CallFacts
<1>5. PICK key \in Pairs : key = pages[d].public
  BY CallFacts, OtherRowsTyped
<1>6. PICK s \in CallRow :
         /\ ensures' = [ensures EXCEPT ![<<d, t>>] = s]
         /\ s.at \in {"verifying", "generating"}
         /\ s.at = "verifying" => s.private # Nothing /\ s.public # Nothing
  <2>1. /\ [old EXCEPT !.at = "verifying", !.public = key] \in CallRow
        /\ [old EXCEPT !.at = "verifying", !.public = key].at = "verifying"
        /\ [old EXCEPT !.at = "verifying", !.public = key].private = old.private
        /\ [old EXCEPT !.at = "verifying", !.public = key].public = key
        /\ [old EXCEPT !.at = "generating", !.private = Nothing] \in CallRow
        /\ [old EXCEPT !.at = "generating", !.private = Nothing].at = "generating"
    <3>1. {"verifying", "generating"} \subseteq Awaits \cup {"done"} /\ Nothing \in Pairs
      BY KeyConstants DEF Awaits
    <3>2. QED
      BY <3>1, Zenon DEF CallRow
  <2>2. ensures' = [ensures EXCEPT ![<<d, t>>] =
                      IF Nothing \notin {old.private, key}
                        THEN [old EXCEPT !.at = "verifying", !.public = key]
                        ELSE [old EXCEPT !.at = "generating", !.private = Nothing]]
    BY <1>1, <1>5, Zenon DEF Restored, GoesTo
  <2>3. CASE Nothing \notin {old.private, key}
    BY <2>1, <2>2, <2>3, Zenon
  <2>4. CASE Nothing \in {old.private, key}
    BY <2>1, <2>2, <2>4, Zenon
  <2>5. QED
    BY <2>3, <2>4
<1>7. CallOK(s, token[d], misfiled') /\ (d \notin crossed => IsStored(s, l))
  <2>1. d \notin crossed => IsStored(old, l)
    BY <1>1, <1>4, CallFacts
  <2>2. QED
    BY <1>2, <1>6, <2>1 DEF CallOK, IsStored, HoldsPair, LacksPair
<1>8. d \notin author \ crossed'
  BY <1>1, <1>2, CallFacts DEF AuthorHolds, Keeps, LacksPair
<1>9. QED
  BY <1>2, <1>3, <1>4, <1>6, <1>7, <1>8, CallFrame

\* The pair is stored with the key that the page has by now: where that is another one, the
\* browser has crossed, and a pair has been mixed.
LEMMA VerifiedKeeps ==
  ASSUME KeysInv, NEW d \in Devices, NEW t \in KeyTasks, Verified(d, t)
  PROVE  KeysInv'
<1>1. PICK old \in CallRow : old = ensures[<<d, t>>]
  BY CallFacts
<1>2. /\ old.at = "verifying" /\ pages[d].open
      /\ UNCHANGED <<account, token, pages, secret, answers, changing, spent, author>>
  BY <1>1, CallFacts DEF Verified
<1>3. spent' \in SpentRow /\ secret' \in [Devices -> Pairs]
  BY <1>2, CallFacts
<1>4. d \notin author \ crossed
  BY <1>1, <1>2, CallFacts DEF AuthorHolds, Keeps, LacksPair
<1>5. CASE old.private = old.public
  <2>1. PICK key \in Pairs : key = pages[d].public
    BY CallFacts, OtherRowsTyped
  <2>2. PICK next \in Awaits \cup {"done"} :
           next = IF key = Nothing THEN "generating" ELSE "importing"
    BY DEF Awaits
  <2>3. PICK s \in CallRow :
           /\ s = [old EXCEPT !.at = next, !.public = key]
           /\ s.at = next /\ s.private = old.private /\ s.public = key
    <3>1. /\ [old EXCEPT !.at = next, !.public = key] \in CallRow
          /\ [old EXCEPT !.at = next, !.public = key].at = next
          /\ [old EXCEPT !.at = next, !.public = key].private = old.private
          /\ [old EXCEPT !.at = next, !.public = key].public = key
      BY <2>1, <2>2, Zenon DEF CallRow
    <3>2. QED
      BY <3>1
  <2>4. PICK l \in LocalRow : l = [private |-> old.private, public |-> key]
    BY CallTyped DEF LocalRow
  <2>5. /\ ensures' = [ensures EXCEPT ![<<d, t>>] = s] /\ local' = [local EXCEPT ![d] = l]
        /\ crossed' = IF Overlapped(d, t, old.private, key) THEN crossed \cup {d} ELSE crossed
        /\ misfiled' = (misfiled \/ key \notin {Nothing, old.private})
        /\ unlocks' = unlocks
    BY <1>1, <1>5, <2>1, <2>2, <2>3, <2>4, Zenon DEF Verified, GoesTo, Stores
  <2>6. PICK u \in {0, unlocks[d]} : unlocks' = [unlocks EXCEPT ![d] = u]
    BY <2>5, CallFacts
  <2>7. misfiled' \in BOOLEAN /\ (misfiled => misfiled')
    BY <2>5
  <2>8. d \notin crossed' => IsStored(s, l)
    <3>1. d \notin crossed' => key \in {Nothing, old.private}
      BY <2>5 DEF Overlapped
    <3>2. QED
      BY <2>2, <2>3, <2>4, <3>1 DEF IsStored, HoldsPair, LacksPair
  <2>9. CallOK(s, token[d], misfiled')
    <3>1. ~misfiled' => key \in {Nothing, old.private}
      BY <2>5
    <3>2. QED
      BY <2>2, <2>3, <3>1 DEF CallOK, HoldsPair
  <2>10. /\ d \notin crossed' => \A other \in KeyTasks \ {t} : ensures[<<d, other>>].at = "done"
         /\ crossed' \in {crossed, crossed \cup {d}} /\ d \notin author \ crossed'
    BY <1>4, <2>5 DEF Overlapped
  <2>11. QED
    BY <1>2, <1>3, <2>5, <2>6, <2>7, <2>8, <2>9, <2>10, CallFrame
<1>6. CASE old.private # old.public
  <2>1. PICK s \in CallRow :
           /\ s = [old EXCEPT !.at = "generating", !.private = Nothing, !.public = Nothing]
           /\ s.at = "generating"
    <3>1. Nothing \in Pairs /\ "generating" \in Awaits \cup {"done"}
      BY KeyConstants DEF Awaits
    <3>2. /\ [old EXCEPT !.at = "generating", !.private = Nothing, !.public = Nothing] \in CallRow
          /\ [old EXCEPT !.at = "generating", !.private = Nothing, !.public = Nothing].at
               = "generating"
      BY <3>1, Zenon DEF CallRow
    <3>3. QED
      BY <3>2
  <2>2. /\ ensures' = [ensures EXCEPT ![<<d, t>>] = s] /\ local' = local
        /\ crossed' = crossed /\ unlocks' = [unlocks EXCEPT ![d] = 0] /\ misfiled' = misfiled
    BY <1>1, <1>6, <2>1, Zenon DEF Verified, GoesTo
  <2>3. PICK l \in LocalRow : l = local[d] /\ local' = [local EXCEPT ![d] = l]
    BY <2>2, CallFacts
  <2>4. CallOK(s, token[d], misfiled') /\ (d \notin crossed => IsStored(s, l))
    <3>1. d \notin crossed => IsStored(old, l)
      BY <1>1, <2>3, CallFacts
    <3>2. QED
      BY <1>2, <2>1, <3>1 DEF CallOK, IsStored, HoldsPair, LacksPair
  <2>5. misfiled' \in BOOLEAN
    BY <2>2, CallFacts
  <2>6. QED
    BY <1>2, <1>3, <1>4, <2>2, <2>3, <2>4, <2>5, CallFrame
<1>7. QED
  BY <1>5, <1>6

LEMMA GeneratedKeeps ==
  ASSUME KeysInv, NEW d \in Devices, NEW t \in KeyTasks, Generated(d, t)
  PROVE  KeysInv'
<1>1. PICK old \in CallRow : old = ensures[<<d, t>>]
  BY CallFacts
<1>2. /\ old.at = "generating" /\ pages[d].open /\ spent.pairs < MaxPairs /\ Counts("pairs")
      /\ UNCHANGED <<account, unlocks, token, pages, secret, answers, changing, author, misfiled>>
  BY <1>1, CallFacts DEF Generated
<1>3. /\ spent' \in SpentRow /\ secret' \in [Devices -> Pairs]
      /\ misfiled' \in BOOLEAN /\ misfiled' = misfiled /\ (misfiled => misfiled')
  BY <1>2, CallFacts, CountsTyped
<1>4. PICK u \in {0, unlocks[d]} : unlocks' = [unlocks EXCEPT ![d] = u]
  BY <1>2, CallFacts
<1>5. PICK pair \in Pairs : pair = spent.pairs + 1 /\ pair # Nothing
  BY <1>2, CallFacts, CountsTyped
<1>6. PICK s \in CallRow :
         /\ s = Holding([old EXCEPT !.private = pair, !.public = pair, !.made = TRUE])
         /\ s.at = "importing" /\ s.private = pair /\ s.public = pair
  <2>1. /\ [old EXCEPT !.private = pair, !.public = pair, !.made = TRUE] \in CallRow
        /\ [old EXCEPT !.private = pair, !.public = pair, !.made = TRUE].private = pair
        /\ [old EXCEPT !.private = pair, !.public = pair, !.made = TRUE].public = pair
    BY Zenon DEF CallRow
  <2>2. QED
    BY <2>1, HoldingIs
<1>7. PICK l \in LocalRow : l = [private |-> pair, public |-> pair]
  BY DEF LocalRow
<1>8. /\ ensures' = [ensures EXCEPT ![<<d, t>>] = s] /\ local' = [local EXCEPT ![d] = l]
      /\ crossed' = IF Overlapped(d, t, pair, pair) THEN crossed \cup {d} ELSE crossed
  BY <1>1, <1>5, <1>6, <1>7, Zenon DEF Generated, GoesTo, Stores
<1>9. CallOK(s, token[d], misfiled') /\ IsStored(s, l)
  BY <1>5, <1>6, <1>7 DEF CallOK, IsStored, HoldsPair, LacksPair
<1>10. d \notin author \ crossed
  BY <1>1, <1>2, CallFacts DEF AuthorHolds, Keeps, LacksPair
<1>11. /\ d \notin crossed' => \A other \in KeyTasks \ {t} : ensures[<<d, other>>].at = "done"
       /\ crossed' \in {crossed, crossed \cup {d}} /\ d \notin author \ crossed'
  BY <1>8, <1>10 DEF Overlapped
<1>12. QED
  BY <1>2, <1>3, <1>4, <1>8, <1>9, <1>11, CallFrame

LEMMA ImportedKeeps ==
  ASSUME KeysInv, NEW d \in Devices, NEW t \in KeyTasks, Imported(d, t)
  PROVE  KeysInv'
<1>1. PICK old \in CallRow : old = ensures[<<d, t>>]
  BY CallFacts
<1>2. /\ old.at = "importing" /\ pages[d].open
      /\ secret' = [secret EXCEPT ![d] = old.private]
      /\ UNCHANGED <<account, local, unlocks, token, pages, answers, changing, spent, author, crossed,
                     misfiled>>
  BY <1>1, CallFacts DEF Imported
<1>3. /\ spent' \in SpentRow /\ secret' \in [Devices -> Pairs]
      /\ misfiled' \in BOOLEAN /\ misfiled' = misfiled /\ (misfiled => misfiled')
  BY <1>2, CallFacts, CallTyped
<1>4. PICK l \in LocalRow, u \in {0, unlocks[d]} :
         /\ l = local[d] /\ unlocks' = [unlocks EXCEPT ![d] = u]
         /\ local' = [local EXCEPT ![d] = l]
  BY <1>2, CallFacts
<1>5. PICK payload \in Backups :
         /\ payload = IF unlocks[d] = 0 THEN NoBackup
                      ELSE [pair |-> old.private, password |-> unlocks[d]]
         /\ payload # NoBackup => payload.pair = old.private /\ payload.password = token[d]
  <2>1. /\ old.private \in Pairs /\ unlocks[d] \in 0 .. MaxPasswords /\ unlocks[d] \in {0, token[d]}
        /\ NoBackup \in Backups
    BY CallFacts, CallTyped, KeyConstants
  <2>2. [pair |-> old.private, password |-> unlocks[d]] \in Backups
    BY <2>1 DEF Backups
  <2>3. QED
    BY <2>1, <2>2
<1>6. PICK s \in CallRow :
         /\ s = [old EXCEPT !.at = "packing", !.payload = payload] /\ s.at = "packing"
         /\ s.private = old.private /\ s.public = old.public /\ s.payload = payload
         /\ ensures' = [ensures EXCEPT ![<<d, t>>] = s]
  <2>1. "packing" \in Awaits \cup {"done"}
    BY DEF Awaits
  <2>2. /\ [old EXCEPT !.at = "packing", !.payload = payload] \in CallRow
        /\ [old EXCEPT !.at = "packing", !.payload = payload].at = "packing"
        /\ [old EXCEPT !.at = "packing", !.payload = payload].private = old.private
        /\ [old EXCEPT !.at = "packing", !.payload = payload].public = old.public
        /\ [old EXCEPT !.at = "packing", !.payload = payload].payload = payload
    BY <2>1, Zenon DEF CallRow
  <2>3. ensures' = [ensures EXCEPT ![<<d, t>>] =
                      [old EXCEPT !.at = "packing", !.payload = payload]]
    BY <1>1, <1>5, Zenon DEF Imported, GoesTo
  <2>4. QED
    BY <2>2, <2>3
<1>7. CallOK(old, token[d], misfiled) /\ (d \notin crossed => IsStored(old, l))
  BY <1>1, <1>4, CallFacts
<1>8. /\ CallOK(s, token[d], misfiled') /\ (d \notin crossed => IsStored(s, l))
      /\ Keeps(s, account.public)
  BY <1>2, <1>3, <1>5, <1>6, <1>7 DEF CallOK, IsStored, HoldsPair, LacksPair, Keeps
<1>9. QED
  BY <1>1, <1>2, <1>3, <1>4, <1>6, <1>8, CallFrame, ZenonT(60)

\* What a call sends along is the pair it holds, under the password of the unlock material.
LEMMA PackedKeeps ==
  ASSUME KeysInv, NEW d \in Devices, NEW t \in KeyTasks, Packed(d, t)
  PROVE  KeysInv'
<1>1. PICK old \in CallRow : old = ensures[<<d, t>>]
  BY CallFacts
<1>2. /\ old.at = "packing" /\ pages[d].open
      /\ UNCHANGED <<account, local, unlocks, token, pages, secret, answers, changing, spent, author,
                     crossed, misfiled>>
  BY <1>1, CallFacts DEF Packed
<1>3. /\ spent' \in SpentRow /\ secret' \in [Devices -> Pairs]
      /\ misfiled' \in BOOLEAN /\ misfiled' = misfiled /\ (misfiled => misfiled')
  BY <1>2, CallFacts
<1>4. PICK l \in LocalRow, u \in {0, unlocks[d]} :
         /\ l = local[d] /\ unlocks' = [unlocks EXCEPT ![d] = u]
         /\ local' = [local EXCEPT ![d] = l]
  BY <1>2, CallFacts
<1>5. CallOK(old, token[d], misfiled) /\ (d \notin crossed => IsStored(old, l))
  BY <1>1, <1>4, CallFacts
<1>6. PICK payload \in Backups :
         /\ payload = Packs(pages[d], old)
         /\ payload # NoBackup => payload = old.payload
  <2>1. old.payload \in Backups /\ NoBackup \in Backups
    BY CallTyped, KeyConstants
  <2>2. QED
    BY <2>1 DEF Packs
<1>7. PICK s \in CallRow :
         /\ ensures' = [ensures EXCEPT ![<<d, t>>] = s]
         /\ \/ /\ s.at = "asking" /\ s.private = old.private /\ s.public = old.public
               /\ s.payload = payload
            \/ s.at = "done"
  <2>1. /\ [old EXCEPT !.at = "asking", !.payload = payload] \in CallRow
        /\ [old EXCEPT !.at = "asking", !.payload = payload].at = "asking"
        /\ [old EXCEPT !.at = "asking", !.payload = payload].private = old.private
        /\ [old EXCEPT !.at = "asking", !.payload = payload].public = old.public
        /\ [old EXCEPT !.at = "asking", !.payload = payload].payload = payload
    <3>1. "asking" \in Awaits \cup {"done"}
      BY DEF Awaits
    <3>2. QED
      BY <3>1, Zenon DEF CallRow
  <2>2. ensures' = [ensures EXCEPT ![<<d, t>>] =
                      IF old.force \/ old.known = Nothing \/ payload # NoBackup
                        THEN [old EXCEPT !.at = "asking", !.payload = payload]
                        ELSE Resting]
    BY <1>1, <1>6, Zenon DEF Packed, GoesTo
  <2>3. CASE old.force \/ old.known = Nothing \/ payload # NoBackup
    BY <2>1, <2>2, <2>3, Zenon
  <2>4. CASE ~(old.force \/ old.known = Nothing \/ payload # NoBackup)
    BY <2>2, <2>4, RowsTyped, Zenon
  <2>5. QED
    BY <2>3, <2>4
<1>8. /\ CallOK(s, token[d], misfiled') /\ (d \notin crossed => IsStored(s, l))
      /\ Keeps(s, account.public)
  BY <1>2, <1>3, <1>5, <1>6, <1>7 DEF CallOK, IsStored, HoldsPair, LacksPair, Keeps
<1>9. QED
  BY <1>1, <1>2, <1>3, <1>4, <1>7, <1>8, CallFrame

LEMMA SyncFailsKeeps ==
  ASSUME KeysInv, NEW d \in Devices, NEW t \in KeyTasks, SyncFails(d, t)
  PROVE  KeysInv'
<1>1. PICK old \in CallRow : old = ensures[<<d, t>>]
  BY CallFacts
<1>2. /\ old.at \in {"asking", "answering"} /\ pages[d].open
      /\ crossed' = IF old.at = "answering" THEN crossed \cup {d} ELSE crossed
      /\ UNCHANGED <<account, local, unlocks, token, pages, secret, answers, changing, author, misfiled>>
  BY <1>1, CallFacts DEF SyncFails
<1>3. /\ spent' \in SpentRow /\ secret' \in [Devices -> Pairs]
      /\ misfiled' \in BOOLEAN /\ misfiled' = misfiled /\ (misfiled => misfiled')
  BY <1>2, CallFacts, CountsTyped DEF SyncFails
<1>4. PICK l \in LocalRow, u \in {0, unlocks[d]} :
         /\ l = local[d] /\ unlocks' = [unlocks EXCEPT ![d] = u]
         /\ local' = [local EXCEPT ![d] = l]
  BY <1>2, CallFacts
<1>5. PICK s \in CallRow : ensures' = [ensures EXCEPT ![<<d, t>>] = s] /\ s.at = "done"
  BY RowsTyped DEF SyncFails, GoesTo
<1>6. CallOK(s, token[d], misfiled') /\ IsStored(s, l) /\ Keeps(s, account.public)
  BY <1>5 DEF CallOK, IsStored, HoldsPair, LacksPair, Keeps
<1>7. misfiled' \in BOOLEAN /\ (misfiled => misfiled')
  BY <1>2, CallFacts
<1>8. QED
  BY <1>1, <1>2, <1>3, <1>4, <1>5, <1>6, <1>7, CallFrame

-----------------------------------------------------------------------------
(* The server, the pages and the change of password                        *)

\* What the server publishes is the pair that is stored, unless another call crossed.
LEMMA UpdatePublicKeyKeeps ==
  ASSUME KeysInv, NEW d \in Devices, NEW t \in KeyTasks, UpdatePublicKey(d, t)
  PROVE  KeysInv'
<1>1. PICK old \in CallRow : old = ensures[<<d, t>>]
  BY CallFacts
<1>2. /\ old.at = "asking" /\ pages[d].open /\ token[d] = account.password
      /\ account' = UpdatedKeys(old) /\ author' = {d}
      /\ crossed' = IF Doomed(d, t) THEN crossed \cup {d} ELSE crossed
      /\ UNCHANGED <<local, unlocks, token, pages, secret, answers, changing, spent, misfiled>>
  BY <1>1, CallFacts DEF UpdatePublicKey
<1>3. PICK s \in CallRow :
         /\ s = [old EXCEPT !.at = "answering"] /\ s.at = "answering" /\ s.payload = old.payload
         /\ s.private = old.private /\ s.public = old.public
  <2>1. "answering" \in Awaits \cup {"done"}
    BY DEF Awaits
  <2>2. /\ [old EXCEPT !.at = "answering"] \in CallRow
        /\ [old EXCEPT !.at = "answering"].at = "answering"
        /\ [old EXCEPT !.at = "answering"].private = old.private
        /\ [old EXCEPT !.at = "answering"].public = old.public
        /\ [old EXCEPT !.at = "answering"].payload = old.payload
    BY <2>1, Zenon DEF CallRow
  <2>3. QED
    BY <2>2
<1>4. ensures' = [ensures EXCEPT ![<<d, t>>] = s]
  BY <1>1, <1>3, Zenon DEF UpdatePublicKey, GoesTo
<1>5. /\ ensures'[<<d, t>>] = s
      /\ \A other \in KeyTasks \ {t} : ensures'[<<d, other>>] = ensures[<<d, other>>]
      /\ \A e \in Devices \ {d}, other \in KeyTasks : ensures'[<<e, other>>] = ensures[<<e, other>>]
      /\ ensures' \in [Devices \X KeyTasks -> CallRow]
  BY <1>4, CallFacts
<1>6. /\ account' \in AccountRow /\ account'.public = old.public /\ account'.backup = old.payload
      /\ account'.password = account.password
  <2>1. account \in AccountRow /\ old.public \in Pairs /\ old.payload \in Backups
    BY CallFacts, CallTyped, KeysTyped
  <2>2. /\ [account EXCEPT !.public = old.public, !.backup = old.payload] \in AccountRow
        /\ [account EXCEPT !.public = old.public, !.backup = old.payload].public = old.public
        /\ [account EXCEPT !.public = old.public, !.backup = old.payload].backup = old.payload
        /\ [account EXCEPT !.public = old.public, !.backup = old.payload].password = account.password
    BY <2>1, Zenon DEF AccountRow
  <2>3. QED
    BY <1>2, <2>2, Zenon DEF UpdatedKeys
<1>7. KeysTypeOK'
  BY <1>2, <1>5, <1>6, CallFacts, KeysTyped, KeysTypedBack
<1>8. Others(d)
  BY <1>2, <1>5 DEF Others
<1>9. CallOK(old, token[d], misfiled) /\ (d \notin crossed => IsStored(old, local[d]))
  BY <1>1, CallFacts
<1>10. PageFollows(d)'
  <2>1. PageFollows(d)
    BY CallFacts
  <2>2. QED
    BY <1>2, <1>5, <1>6, <2>1 DEF PageFollows
<1>11. CallsAreSound(d)'
  <2>1. SUFFICES ASSUME NEW o \in KeyTasks PROVE CallOK(ensures'[<<d, o>>], token[d], misfiled)
    BY <1>2 DEF CallsAreSound, CallOK
  <2>2. CASE o = t
    BY <1>2, <1>3, <1>5, <1>9, <2>2, ZenonT(40) DEF CallOK, HoldsPair
  <2>3. CASE o # t
    BY <1>5, <2>3, CallFacts
  <2>4. QED
    BY <2>2, <2>3
<1>12. StorageFollows(d)'
  <2>1. SUFFICES ASSUME d \notin crossed', NEW o \in KeyTasks
                 PROVE  IsStored(ensures'[<<d, o>>], local[d])
    BY <1>2 DEF StorageFollows, IsStored
  <2>2. d \notin crossed
    BY <1>2, <2>1
  <2>3. CASE o = t
    BY <1>2, <1>3, <1>5, <1>9, <2>2, <2>3 DEF IsStored, HoldsPair, LacksPair
  <2>4. CASE o # t
    BY <1>5, <2>2, <2>4, CallFacts
  <2>5. QED
    BY <2>3, <2>4
<1>13. AuthorHolds(d)'
  <2>1. SUFFICES ASSUME d \notin crossed'
                 PROVE  /\ old.public # Nothing
                        /\ local[d].private = old.public /\ local[d].public = old.public
                        /\ \A o \in KeyTasks : Keeps(ensures'[<<d, o>>], old.public)
                        /\ \E o \in KeyTasks : ensures'[<<d, o>>].at = "answering"
    BY <1>2, <1>6 DEF AuthorHolds, Keeps
  <2>2. d \notin crossed /\ ~Doomed(d, t)
    BY <1>2, <2>1
  <2>3. /\ old.public # Nothing
        /\ local[d].private = old.public /\ local[d].public = old.public
    <3>1. /\ local[d].private = old.private /\ local[d].public = old.public /\ old.public # Nothing
      BY <1>2, <1>9, <2>2 DEF CallOK, IsStored, HoldsPair
    <3>2. old.private = old.public
      BY <1>2, <1>9, <2>2 DEF IsStored, HoldsPair
    <3>3. QED
      BY <3>1, <3>2
  <2>4. ASSUME NEW o \in KeyTasks PROVE Keeps(ensures'[<<d, o>>], old.public)
    <3>1. CASE o = t
      BY <1>3, <1>5, <3>1 DEF Keeps, LacksPair
    <3>2. CASE o # t
      <4>1. IsStored(ensures[<<d, o>>], local[d])
        BY <2>2, CallFacts
      <4>2. ensures[<<d, o>>].at \notin LacksPair
        BY <2>3, <4>1 DEF IsStored
      <4>3. ensures[<<d, o>>].at = "matching" => ensures[<<d, o>>].known \in {Nothing, old.public}
        BY <1>1, <2>2, <3>2 DEF Doomed
      <4>4. QED
        BY <1>5, <3>2, <4>2, <4>3 DEF Keeps
    <3>3. QED
      BY <3>1, <3>2
  <2>5. QED
    BY <1>3, <1>5, <2>3, <2>4
<1>14. BackupOpens'
  <2>1. SUFFICES ASSUME old.payload # NoBackup, ~misfiled
                 PROVE  old.payload.pair = old.public /\ old.payload.password = account.password
    BY <1>2, <1>6 DEF BackupOpens
  <2>2. QED
    BY <1>2, <1>9, <2>1 DEF CallOK, HoldsPair
<1>15. account.password <= account'.password
  <2>1. account.password \in Nat
    BY CallFacts, KeysTyped, OtherRowsTyped, KeyConstants
  <2>2. QED
    BY <1>6, <2>1
<1>16. QED
  BY <1>7, <1>8, <1>10, <1>11, <1>12, <1>13, <1>14, <1>15, DeviceFrame DEF DeviceInv

LEMMA SyncedKeeps ==
  ASSUME KeysInv, NEW d \in Devices, NEW t \in KeyTasks, Synced(d, t)
  PROVE  KeysInv'
<1>1. PICK old \in CallRow : old = ensures[<<d, t>>]
  BY CallFacts
<1>2. /\ old.at = "answering" /\ pages[d].open
      /\ UNCHANGED <<account, local, unlocks, token, secret, answers, changing, spent, author,
                     crossed, misfiled>>
  BY <1>1, CallFacts DEF Synced
<1>3. PICK page \in PageRow :
         /\ pages' = [pages EXCEPT ![d] = page] /\ page.open /\ page.public = old.public
  <2>1. PICK was \in PageRow : was = pages[d]
    BY CallFacts
  <2>2. /\ [was EXCEPT !.public = old.public, !.backup = old.payload] \in PageRow
        /\ [was EXCEPT !.public = old.public, !.backup = old.payload].open = was.open
        /\ [was EXCEPT !.public = old.public, !.backup = old.payload].public = old.public
    BY CallTyped, Zenon DEF PageRow
  <2>3. pages' = [pages EXCEPT ![d] = [was EXCEPT !.public = old.public, !.backup = old.payload]]
    BY <1>1, <2>1, Zenon DEF Synced
  <2>4. QED
    BY <1>2, <2>1, <2>2, <2>3, Zenon
<1>4. /\ \A other \in KeyTasks \ {t} : ensures'[<<d, other>>] = ensures[<<d, other>>]
      /\ \A e \in Devices \ {d}, other \in KeyTasks : ensures'[<<e, other>>] = ensures[<<e, other>>]
      /\ ensures' \in [Devices \X KeyTasks -> CallRow]
      /\ ensures'[<<d, t>>].at = "done"
  <2>1. ensures' = [ensures EXCEPT ![<<d, t>>] = Resting]
    BY DEF Synced, GoesTo
  <2>2. QED
    BY <2>1, CallFacts, RowsTyped
<1>5. /\ pages' \in [Devices -> PageRow] /\ pages'[d] = page
      /\ \A e \in Devices \ {d} : pages'[e] = pages[e]
  BY <1>3, CallFacts, KeysTyped
<1>6. KeysTypeOK'
  BY <1>2, <1>4, <1>5, CallFacts, KeysTyped, KeysTypedBack
<1>7. Others(d)
  BY <1>2, <1>4, <1>5 DEF Others
<1>8. PageFollows(d)'
  <2>1. PageFollows(d)
    BY CallFacts
  <2>2. QED
    BY <1>2, <1>3, <1>5, <2>1 DEF PageFollows
<1>9. CallsAreSound(d)'
  <2>1. SUFFICES ASSUME NEW o \in KeyTasks PROVE CallOK(ensures'[<<d, o>>], token[d], misfiled)
    BY <1>2 DEF CallsAreSound, CallOK
  <2>2. CASE o = t
    BY <1>4, <2>2 DEF CallOK, HoldsPair
  <2>3. CASE o # t
    BY <1>4, <2>3, CallFacts
  <2>4. QED
    BY <2>2, <2>3
<1>10. StorageFollows(d)'
  <2>1. SUFFICES ASSUME d \notin crossed, NEW o \in KeyTasks
                 PROVE  IsStored(ensures'[<<d, o>>], local[d])
    BY <1>2 DEF StorageFollows, IsStored
  <2>2. CASE o = t
    BY <1>4, <2>2 DEF IsStored, HoldsPair, LacksPair
  <2>3. CASE o # t
    BY <1>4, <2>1, <2>3, CallFacts
  <2>4. QED
    BY <2>2, <2>3
<1>11. AuthorHolds(d)'
  <2>1. SUFFICES ASSUME d \in author \ crossed
                 PROVE  /\ account.public # Nothing
                        /\ local[d].private = account.public /\ local[d].public = account.public
                        /\ \A o \in KeyTasks : Keeps(ensures'[<<d, o>>], account.public)
                        /\ page.public = account.public
    BY <1>2, <1>3, <1>5 DEF AuthorHolds, Keeps
  <2>2. /\ account.public # Nothing
        /\ local[d].private = account.public /\ local[d].public = account.public
        /\ \A o \in KeyTasks : Keeps(ensures[<<d, o>>], account.public)
        /\ IsStored(old, local[d])
    BY <1>1, <2>1, CallFacts DEF AuthorHolds
  <2>3. page.public = account.public
    BY <1>2, <1>3, <2>2 DEF IsStored, HoldsPair
  <2>4. \A o \in KeyTasks : Keeps(ensures'[<<d, o>>], account.public)
    BY <1>4, <2>2 DEF Keeps, LacksPair
  <2>5. QED
    BY <2>2, <2>3, <2>4
<1>12. BackupOpens'
  BY <1>2, CallFacts DEF BackupOpens
<1>13. account.password <= account'.password
  <2>1. account.password \in Nat
    BY CallFacts, KeysTyped, OtherRowsTyped, KeyConstants
  <2>2. QED
    BY <1>2, <2>1
<1>14. QED
  BY <1>6, <1>7, <1>8, <1>9, <1>10, <1>11, <1>12, <1>13, DeviceFrame DEF DeviceInv

\* A page starts under a password that is the account's, and is sent the row as it is.
LEMMA StartsKeeps ==
  ASSUME KeysInv, NEW d \in Devices, NEW r \in Requests, LogIn(d, r) \/ Reopen(d, r)
  PROVE  KeysInv'
<1>1. /\ KeysTypeOK /\ DeviceInv(d) /\ BackupOpens /\ account \in AccountRow
      /\ answers \in [Devices \X Requests -> AnswerRow]
      /\ token \in [Devices -> 0 .. MaxPasswords] /\ unlocks \in [Devices -> 0 .. MaxPasswords]
  BY KeysTyped DEF KeysInv
<1>2. /\ ~pages[d].open /\ \A other \in Requests : ~answers[<<d, other>>].sent
      /\ UNCHANGED <<account, local, pages, secret, ensures, changing, spent, author, crossed,
                     misfiled>>
  BY DEF LogIn, Reopen, Starts
<1>3. PICK answer \in AnswerRow :
         /\ answer = [sent |-> TRUE, public |-> account.public, backup |-> account.backup]
         /\ answer.public = account.public
  <2>1. account.public \in Pairs /\ account.backup \in Backups
    BY <1>1, OtherRowsTyped
  <2>2. [sent |-> TRUE, public |-> account.public, backup |-> account.backup] \in AnswerRow
    BY <2>1, Zenon DEF AnswerRow
  <2>3. QED
    BY <2>2
<1>4. answers' = [answers EXCEPT ![<<d, r>>] = answer]
  BY <1>3, Zenon DEF LogIn, Reopen, SendsProfile
<1>5. /\ answers' \in [Devices \X Requests -> AnswerRow] /\ answers'[<<d, r>>] = answer
      /\ \A other \in Requests \ {r} : answers'[<<d, other>>] = answers[<<d, other>>]
      /\ \A e \in Devices \ {d}, other \in Requests : answers'[<<e, other>>] = answers[<<e, other>>]
  BY <1>1, <1>4
<1>6. /\ token' \in [Devices -> 0 .. MaxPasswords] /\ unlocks' \in [Devices -> 0 .. MaxPasswords]
      /\ \A e \in Devices \ {d} : token'[e] = token[e] /\ unlocks'[e] = unlocks[e]
      /\ token'[d] = account.password /\ unlocks'[d] \in {0, token'[d]}
  <2>1. /\ account.password \in 0 .. MaxPasswords /\ 0 \in 0 .. MaxPasswords
        /\ unlocks[d] \in {0, token[d]}
    <3>1. account.password \in Passwords /\ unlocks[d] \in {0, token[d]}
      BY <1>1, OtherRowsTyped DEF DeviceInv, PageFollows
    <3>2. Passwords \subseteq 0 .. MaxPasswords /\ 0 \in 0 .. MaxPasswords
      BY KeyConstants DEF Passwords
    <3>3. QED
      BY <3>1, <3>2
  <2>2. CASE LogIn(d, r)
    BY <1>1, <2>1, <2>2 DEF LogIn
  <2>3. CASE Reopen(d, r)
    BY <1>1, <2>1, <2>3 DEF Reopen, SendsProfile
  <2>4. QED
    BY <2>2, <2>3
<1>7. KeysTypeOK'
  BY <1>1, <1>2, <1>5, <1>6, KeysTyped, KeysTypedBack
<1>8. Others(d)
  BY <1>2, <1>5, <1>6 DEF Others
<1>9. account.password \in Nat
  BY <1>1, OtherRowsTyped, KeyConstants
<1>10. PageFollows(d)'
  BY <1>1, <1>2, <1>6, <1>9 DEF DeviceInv, PageFollows
<1>11. CallsAreSound(d)'
  BY <1>1, <1>2 DEF DeviceInv, PageFollows, CallsAreSound, CallOK, HoldsPair
<1>12. StorageFollows(d)'
  BY <1>1, <1>2 DEF DeviceInv, StorageFollows, IsStored
<1>13. AuthorHolds(d)'
  <2>1. \A other \in Requests :
           answers'[<<d, other>>].sent => answers'[<<d, other>>].public = account.public
    BY <1>2, <1>3, <1>5
  <2>2. QED
    BY <1>1, <1>2, <2>1 DEF DeviceInv, AuthorHolds, Keeps
<1>14. BackupOpens'
  BY <1>1, <1>2 DEF BackupOpens
<1>15. account.password <= account'.password
  BY <1>2, <1>9
<1>16. QED
  BY <1>7, <1>8, <1>10, <1>11, <1>12, <1>13, <1>14, <1>15, DeviceFrame DEF DeviceInv

\* A profile that is sent, or that the page has taken over.
LEMMA ConsumesTyped ==
  ASSUME KeysInv, NEW d \in Devices, NEW r \in Requests, NEW answer \in AnswerRow,
         answers' = [answers EXCEPT ![<<d, r>>] = answer]
  PROVE  /\ answers' \in [Devices \X Requests -> AnswerRow] /\ answers'[<<d, r>>] = answer
         /\ \A other \in Requests \ {r} : answers'[<<d, other>>] = answers[<<d, other>>]
         /\ \A e \in Devices \ {d}, other \in Requests :
              answers'[<<e, other>>] = answers[<<e, other>>]
<1>1. answers \in [Devices \X Requests -> AnswerRow]
  BY KeysTyped DEF KeysInv
<1>2. QED
  BY <1>1

\* A page opens with what the row held when the page started.  The author's is still the key
\* it published: nobody else has written one.
LEMMA StartAppKeeps ==
  ASSUME KeysInv, NEW d \in Devices, NEW t \in KeyTasks, NEW r \in Requests, StartApp(d, t, r)
  PROVE  KeysInv'
<1>1. PICK answer \in AnswerRow : answer = answers[<<d, r>>]
  BY KeysTyped DEF KeysInv
<1>2. PICK page \in PageRow :
         /\ page = [open |-> TRUE, public |-> answer.public, backup |-> answer.backup]
         /\ page.open /\ page.public = answer.public
  <2>1. answer.public \in Pairs /\ answer.backup \in Backups
    BY OtherRowsTyped
  <2>2. [open |-> TRUE, public |-> answer.public, backup |-> answer.backup] \in PageRow
    BY <2>1, Zenon DEF PageRow
  <2>3. QED
    BY <2>2
<1>3. /\ ~pages[d].open /\ answer.sent /\ Consumes(d, r)
      /\ pages' = [pages EXCEPT ![d] = page]
      /\ ensures' = [ensures EXCEPT ![<<d, t>>] = Starting(d, page, TRUE)]
      /\ UNCHANGED <<account, local, unlocks, token, secret, changing, author, crossed, misfiled>>
      /\ spent' \in SpentRow
  BY <1>1, <1>2, CountsTyped, CallFacts DEF StartApp, GoesTo
<1>4. PICK s \in CallRow : s = Starting(d, page, TRUE)
  BY CallFacts, StartingIs
<1>5. \/ /\ s.at = "matching" /\ s.private # Nothing /\ s.public # Nothing
         /\ s.private = local[d].private /\ s.public = local[d].public
         /\ s.known = page.public
      \/ /\ s.at \in {"restoring", "generating"}
         /\ Nothing \in {local[d].private, local[d].public}
  <2>1. KeysTypeOK
    BY CallFacts
  <2>2. QED
    BY <1>4, <2>1, StartingIs
<1>6. /\ ensures'[<<d, t>>] = s
      /\ \A other \in KeyTasks \ {t} : ensures'[<<d, other>>] = ensures[<<d, other>>]
      /\ \A e \in Devices \ {d}, other \in KeyTasks : ensures'[<<e, other>>] = ensures[<<e, other>>]
      /\ ensures' \in [Devices \X KeyTasks -> CallRow]
  BY <1>3, <1>4, CallFacts
<1>7. /\ pages' \in [Devices -> PageRow] /\ pages'[d] = page
      /\ \A e \in Devices \ {d} : pages'[e] = pages[e]
  BY <1>3, CallFacts, KeysTyped
<1>8. /\ answers' \in [Devices \X Requests -> AnswerRow]
      /\ \A e \in Devices \ {d}, other \in Requests : answers'[<<e, other>>] = answers[<<e, other>>]
  BY <1>3, RowsTyped, ConsumesTyped DEF Consumes
<1>9. KeysTypeOK'
  BY <1>3, <1>6, <1>7, <1>8, CallFacts, KeysTyped, KeysTypedBack
<1>10. Others(d)
  BY <1>3, <1>6, <1>7, <1>8 DEF Others
<1>11. account.password \in Nat
  BY CallFacts, KeysTyped, OtherRowsTyped, KeyConstants
<1>12. changing[d].at = "no" /\ \A o \in KeyTasks : ensures[<<d, o>>].at = "done"
  BY <1>3, CallFacts DEF PageFollows
<1>13. PageFollows(d)'
  <2>1. PageFollows(d)
    BY CallFacts
  <2>2. QED
    BY <1>2, <1>3, <1>7, <1>12, <2>1 DEF PageFollows
<1>14. CallsAreSound(d)'
  BY <1>5, <1>6, <1>12 DEF CallsAreSound, CallOK, HoldsPair
<1>15. StorageFollows(d)'
  BY <1>3, <1>5, <1>6, <1>12 DEF StorageFollows, IsStored, HoldsPair, LacksPair
<1>16. AuthorHolds(d)'
  <2>1. SUFFICES ASSUME d \in author \ crossed
                 PROVE  /\ account.public # Nothing
                        /\ local[d].private = account.public /\ local[d].public = account.public
                        /\ \A o \in KeyTasks : Keeps(ensures'[<<d, o>>], account.public)
                        /\ page.public = account.public
    BY <1>2, <1>3, <1>7 DEF AuthorHolds, Keeps
  <2>2. /\ account.public # Nothing
        /\ local[d].private = account.public /\ local[d].public = account.public
        /\ answer.public = account.public
    BY <1>1, <1>3, <2>1, CallFacts DEF AuthorHolds
  <2>3. \A o \in KeyTasks : Keeps(ensures'[<<d, o>>], account.public)
    BY <1>2, <1>5, <1>6, <1>12, <2>2 DEF Keeps, LacksPair
  <2>4. QED
    BY <1>2, <2>2, <2>3
<1>17. BackupOpens'
  BY <1>3, CallFacts DEF BackupOpens
<1>18. account.password <= account'.password
  BY <1>3, <1>11
<1>19. QED
  BY <1>9, <1>10, <1>13, <1>14, <1>15, <1>16, <1>17, <1>18, DeviceFrame DEF DeviceInv

\* A step that changes no more than what the page of d knows or is about to know.
LEMMA PageFrame ==
  ASSUME KeysInv, NEW d \in Devices, pages[d].open,
         NEW page \in PageRow, page.open, pages' = [pages EXCEPT ![d] = page],
         answers' \in [Devices \X Requests -> AnswerRow],
         \A e \in Devices \ {d}, r \in Requests : answers'[<<e, r>>] = answers[<<e, r>>],
         crossed' \in {crossed, crossed \cup {d}}, spent' \in SpentRow,
         \/ page = pages[d]
         \/ d \in author \ crossed' => page.public \in {Nothing, account.public},
         UNCHANGED <<account, local, unlocks, token, secret, ensures, changing, author, misfiled>>
  PROVE  KeysInv'
<1>1. /\ KeysTypeOK /\ DeviceInv(d) /\ BackupOpens /\ pages \in [Devices -> PageRow]
      /\ account \in AccountRow /\ crossed \subseteq Devices
  BY KeysTyped DEF KeysInv
<1>2. /\ pages' \in [Devices -> PageRow] /\ pages'[d] = page
      /\ \A e \in Devices \ {d} : pages'[e] = pages[e]
      /\ crossed' \subseteq Devices /\ crossed \subseteq crossed'
  BY <1>1
<1>3. KeysTypeOK'
  BY <1>1, <1>2, KeysTyped, KeysTypedBack
<1>4. Others(d)
  BY <1>2 DEF Others
<1>5. PageFollows(d)'
  BY <1>1, <1>2 DEF DeviceInv, PageFollows
<1>6. CallsAreSound(d)'
  BY <1>1 DEF DeviceInv, CallsAreSound, CallOK
<1>7. StorageFollows(d)'
  BY <1>1, <1>2 DEF DeviceInv, StorageFollows, IsStored
<1>8. AuthorHolds(d)'
  BY <1>1, <1>2 DEF DeviceInv, AuthorHolds, Keeps
<1>9. BackupOpens'
  BY <1>1 DEF BackupOpens
<1>10. account.password <= account'.password
  <2>1. account.password \in Nat
    BY <1>1, OtherRowsTyped, KeyConstants
  <2>2. QED
    BY <2>1
<1>11. QED
  BY <1>3, <1>4, <1>5, <1>6, <1>7, <1>8, <1>9, <1>10, DeviceFrame DEF DeviceInv

\* Nothing changes at the page while a profile is on its way.
LEMMA GetProfileKeeps ==
  ASSUME KeysInv, NEW d \in Devices, NEW r \in Requests, GetProfile(d, r)
  PROVE  KeysInv'
<1>1. /\ pages[d].open
      /\ UNCHANGED <<account, local, unlocks, token, pages, secret, ensures, changing, author,
                     crossed, misfiled>>
  BY DEF GetProfile
<1>2. PICK answer \in AnswerRow : answers' = [answers EXCEPT ![<<d, r>>] = answer]
  <2>1. account.public \in Pairs /\ account.backup \in Backups
    BY KeysTyped, OtherRowsTyped DEF KeysInv
  <2>2. \A public \in Pairs, backup \in Backups :
           [sent |-> TRUE, public |-> public, backup |-> backup] \in AnswerRow
    BY DEF AnswerRow
  <2>3. CASE SendsProfile(d, r, account.public, account.backup)
    BY <2>1, <2>2, <2>3, Zenon DEF SendsProfile
  <2>4. CASE SendsProfile(d, r, Nothing, NoBackup)
    BY <2>2, <2>4, KeyConstants, Zenon DEF SendsProfile
  <2>5. QED
    BY <2>3, <2>4 DEF GetProfile
<1>3. spent' \in SpentRow
  BY CountsTyped DEF GetProfile, KeysInv
<1>4. PICK page \in PageRow : page = pages[d] /\ pages' = [pages EXCEPT ![d] = page]
  BY <1>1, KeysTyped DEF KeysInv
<1>5. QED
  BY <1>1, <1>2, <1>3, <1>4, ConsumesTyped, PageFrame

\* What the page takes over may be old: the author that loses sight of its key has crossed.
LEMMA ApplyCurrentUserKeeps ==
  ASSUME KeysInv, NEW d \in Devices, NEW r \in Requests, ApplyCurrentUser(d, r)
  PROVE  KeysInv'
<1>1. PICK answer \in AnswerRow, was \in PageRow : answer = answers[<<d, r>>] /\ was = pages[d]
  BY KeysTyped DEF KeysInv
<1>2. /\ pages[d].open /\ answers' = [answers EXCEPT ![<<d, r>>] = NoAnswer]
      /\ crossed' = IF d \in author /\ answer.public \notin {Nothing, account.public}
                      THEN crossed \cup {d} ELSE crossed
      /\ UNCHANGED <<account, local, unlocks, token, secret, ensures, changing, spent, author,
                     misfiled>>
  BY <1>1 DEF ApplyCurrentUser, Consumes
<1>3. PICK page \in PageRow :
         pages' = [pages EXCEPT ![d] = page] /\ page.open /\ page.public = answer.public
  <2>1. answer.public \in Pairs /\ answer.backup \in Backups
    BY OtherRowsTyped
  <2>2. /\ [was EXCEPT !.public = answer.public, !.backup = answer.backup] \in PageRow
        /\ [was EXCEPT !.public = answer.public, !.backup = answer.backup].open = was.open
        /\ [was EXCEPT !.public = answer.public, !.backup = answer.backup].public = answer.public
    BY <2>1, Zenon DEF PageRow
  <2>3. pages' = [pages EXCEPT ![d] = [was EXCEPT !.public = answer.public,
                                                  !.backup = answer.backup]]
    BY <1>1, Zenon DEF ApplyCurrentUser
  <2>4. QED
    BY <1>1, <1>2, <2>2, <2>3, Zenon
<1>4. d \in author \ crossed' => page.public \in {Nothing, account.public}
  BY <1>2, <1>3
<1>5. spent' \in SpentRow
  BY <1>2, KeysTyped DEF KeysInv
<1>6. crossed' \in {crossed, crossed \cup {d}}
  BY <1>2
<1>7. QED
  BY <1>2, <1>3, <1>4, <1>5, <1>6, RowsTyped, ConsumesTyped, PageFrame

\* A page goes, and everything it was doing: the storage stays as it was.
LEMMA DropsKeeps ==
  ASSUME KeysInv, NEW d \in Devices, Drops(d),
         UNCHANGED <<local, author, crossed>>,
         spent' \in SpentRow, misfiled' \in BOOLEAN, misfiled => misfiled', account' \in AccountRow,
         account'.public = account.public, account.password <= account'.password,
         BackupOpens',
         \/ UNCHANGED <<token, unlocks>>
         \/ token' = [token EXCEPT ![d] = 0] /\ unlocks' = [unlocks EXCEPT ![d] = 0]
  PROVE  KeysInv'
<1>1. /\ KeysTypeOK /\ PageFollows(d) /\ AuthorHolds(d)
      /\ local \in [Devices -> LocalRow] /\ pages \in [Devices -> PageRow]
      /\ secret \in [Devices -> Pairs] /\ ensures \in [Devices \X KeyTasks -> CallRow]
      /\ changing \in [Devices -> ChangeRow] /\ author \subseteq Devices /\ crossed \subseteq Devices
      /\ token \in [Devices -> 0 .. MaxPasswords] /\ unlocks \in [Devices -> 0 .. MaxPasswords]
      /\ account \in AccountRow /\ answers \in [Devices \X Requests -> AnswerRow]
  BY KeysTyped DEF KeysInv, DeviceInv
<1>2. /\ pages' \in [Devices -> PageRow] /\ pages'[d] = Closed
      /\ changing' \in [Devices -> ChangeRow] /\ changing'[d] = NotChanging
      /\ secret' \in [Devices -> Pairs]
      /\ \A e \in Devices \ {d} : pages'[e] = pages[e] /\ changing'[e] = changing[e]
  BY <1>1, RowsTyped, KeyConstants DEF Drops
<1>3. /\ ensures' \in [Devices \X KeyTasks -> CallRow]
      /\ \A t \in KeyTasks : ensures'[<<d, t>>].at = "done"
      /\ \A e \in Devices \ {d}, t \in KeyTasks : ensures'[<<e, t>>] = ensures[<<e, t>>]
      /\ answers' \in [Devices \X Requests -> AnswerRow]
      /\ \A r \in Requests : ~answers'[<<d, r>>].sent
      /\ \A e \in Devices \ {d}, r \in Requests : answers'[<<e, r>>] = answers[<<e, r>>]
  BY <1>1, RowsTyped DEF Drops
<1>4. /\ token' \in [Devices -> 0 .. MaxPasswords] /\ unlocks' \in [Devices -> 0 .. MaxPasswords]
      /\ \A e \in Devices \ {d} : token'[e] = token[e] /\ unlocks'[e] = unlocks[e]
      /\ unlocks'[d] \in {0, token'[d]} /\ token'[d] \in {0, token[d]}
  BY <1>1, KeyConstants DEF PageFollows
<1>5. KeysTypeOK'
  BY <1>1, <1>2, <1>3, <1>4, KeysTypedBack
<1>6. Others(d)
  BY <1>2, <1>3, <1>4 DEF Others
<1>7. token'[d] <= account'.password
  <2>1. /\ account.password \in Passwords /\ account'.password \in Passwords
        /\ token[d] \in 0 .. MaxPasswords /\ token[d] <= account.password
    BY <1>1, OtherRowsTyped DEF PageFollows
  <2>2. account.password \in Nat /\ account'.password \in Nat /\ token[d] \in Nat
    <3>1. account.password \in Nat /\ account'.password \in Nat
      BY <2>1, KeyConstants, Zenon
    <3>2. QED
      BY <2>1, <3>1
  <2>3. CASE token'[d] = token[d]
    BY <2>1, <2>2, <2>3
  <2>4. CASE token'[d] = 0
    BY <2>2, <2>4
  <2>5. QED
    BY <1>4, <2>3, <2>4
<1>8. PageFollows(d)'
  BY <1>2, <1>3, <1>4, <1>7, RowsTyped DEF PageFollows
<1>9. CallsAreSound(d)'
  BY <1>3 DEF CallsAreSound, CallOK, HoldsPair
<1>10. StorageFollows(d)'
  BY <1>3 DEF StorageFollows, IsStored, HoldsPair, LacksPair
<1>11. AuthorHolds(d)'
  BY <1>1, <1>2, <1>3, RowsTyped DEF AuthorHolds, Keeps, LacksPair
<1>12. QED
  BY <1>5, <1>6, <1>8, <1>9, <1>10, <1>11, DeviceFrame DEF DeviceInv

LEMMA ClosingKeeps ==
  ASSUME KeysInv, NEW d \in Devices, ClosePage(d) \/ LogoutByServer(d)
  PROVE  KeysInv'
<1>1. /\ KeysTypeOK /\ BackupOpens /\ account \in AccountRow /\ misfiled \in BOOLEAN
  BY KeysTyped DEF KeysInv
<1>2. account.password \in Nat
  BY <1>1, OtherRowsTyped, KeyConstants
<1>3. /\ Drops(d) /\ UNCHANGED <<account, local, author, crossed, misfiled>>
      /\ \/ UNCHANGED <<token, unlocks>>
         \/ token' = [token EXCEPT ![d] = 0] /\ unlocks' = [unlocks EXCEPT ![d] = 0]
  BY DEF ClosePage, LogoutByServer, LogsOut
<1>4. spent' \in SpentRow
  BY <1>1, CountsTyped DEF ClosePage, LogoutByServer
<1>5. /\ account' \in AccountRow /\ misfiled' \in BOOLEAN /\ account'.public = account.public
      /\ account.password <= account'.password
  BY <1>1, <1>2, <1>3
<1>6. BackupOpens'
  BY <1>1, <1>3 DEF BackupOpens
<1>7. QED
  BY <1>3, <1>4, <1>5, <1>6, DropsKeeps

\* A backup that the server takes with a new password opens with it.
LEMMA ChangePasswordKeeps ==
  ASSUME KeysInv, NEW d \in Devices, ChangePassword(d)
  PROVE  KeysInv'
<1>1. /\ KeysTypeOK /\ BackupOpens /\ PageFollows(d) /\ account \in AccountRow
      /\ misfiled \in BOOLEAN /\ changing \in [Devices -> ChangeRow]
  BY KeysTyped DEF KeysInv, DeviceInv
<1>2. PICK backup \in Backups : backup = changing[d].backup
  BY <1>1, OtherRowsTyped
<1>3. /\ changing[d].at = "asked" /\ token[d] = account.password /\ account.password < MaxPasswords
      /\ account' = [account EXCEPT !.password = @ + 1, !.backup = backup]
      /\ misfiled' = (misfiled \/ backup.pair \notin {Nothing, account.public})
      /\ Drops(d) /\ UNCHANGED <<local, spent, author, crossed>>
      /\ token' = [token EXCEPT ![d] = 0] /\ unlocks' = [unlocks EXCEPT ![d] = 0]
  BY <1>2, Zenon DEF ChangePassword, LogsOut
<1>4. PICK next \in Passwords : next = account.password + 1 /\ account.password <= next
  <2>1. account.password \in Passwords
    BY <1>1, OtherRowsTyped
  <2>2. QED
    BY <1>3, <2>1, KeyConstants DEF Passwords
<1>5. /\ account' \in AccountRow /\ account'.public = account.public
      /\ account'.backup = backup /\ account'.password = next
  <2>1. account' = [account EXCEPT !.password = next, !.backup = backup]
    BY <1>3, <1>4, Zenon
  <2>2. /\ [account EXCEPT !.password = next, !.backup = backup] \in AccountRow
        /\ [account EXCEPT !.password = next, !.backup = backup].public = account.public
        /\ [account EXCEPT !.password = next, !.backup = backup].backup = backup
        /\ [account EXCEPT !.password = next, !.backup = backup].password = next
    BY <1>1, Zenon DEF AccountRow
  <2>3. QED
    BY <2>1, <2>2, Zenon
<1>6. BackupOpens'
  <2>1. SUFFICES ASSUME backup # NoBackup, backup.pair \in {Nothing, account.public}
                 PROVE  backup.pair = account.public /\ backup.password = next
    BY <1>3, <1>5 DEF BackupOpens
  <2>2. QED
    BY <1>1, <1>2, <1>3, <1>4, <2>1 DEF PageFollows
<1>7. misfiled' \in BOOLEAN /\ (misfiled => misfiled')
  BY <1>1, <1>3
<1>8. spent' \in SpentRow
  BY <1>1, <1>3, CountsTyped
<1>9. QED
  BY <1>3, <1>4, <1>5, <1>6, <1>7, <1>8, DropsKeeps

\* The request that the page sends: a backup of a pair, if it has one, under the next password.
LEMMA PasswordRequestIs ==
  ASSUME KeysTypeOK, NEW pair \in Pairs, account.password < MaxPasswords
  PROVE  /\ PasswordRequest(pair) \in ChangeRow /\ PasswordRequest(pair).at = "asked"
         /\ PasswordRequest(pair).backup # NoBackup
              => /\ PasswordRequest(pair).backup.pair # Nothing
                 /\ PasswordRequest(pair).backup.password = account.password + 1
<1>1. PICK next \in 0 .. MaxPasswords : next = account.password + 1
  <2>1. account.password \in Passwords
    BY KeysTyped, OtherRowsTyped
  <2>2. QED
    BY <2>1, KeyConstants DEF Passwords
<1> DEFINE backup == IF pair = Nothing THEN NoBackup ELSE [pair |-> pair, password |-> next]
<1>2. /\ backup \in Backups
      /\ backup # NoBackup => backup.pair # Nothing /\ backup.password = next
  BY KeyConstants DEF Backups
<1>3. PasswordRequest(pair) = [at |-> "asked", backup |-> backup]
  BY <1>1, Zenon DEF PasswordRequest
<1> HIDE DEF backup
<1>4. [at |-> "asked", backup |-> backup] \in ChangeRow
  BY <1>2 DEF ChangeRow
<1>5. QED
  BY <1>1, <1>2, <1>3, <1>4

\* The page begins, goes on with, or gives up a change of password, and writes l to the storage:
\* where it writes another pair, a call that is on its way has crossed, and so has the author.
LEMMA ChangingFrame ==
  ASSUME KeysInv, NEW d \in Devices, pages[d].open,
         NEW change \in ChangeRow, changing' = [changing EXCEPT ![d] = change],
         change.at = "asked" /\ change.backup # NoBackup
           => change.backup.pair # Nothing /\ change.backup.password = account.password + 1,
         NEW l \in LocalRow, local' = [local EXCEPT ![d] = l],
         crossed' \in {crossed, crossed \cup {d}},
         \/ l = local[d]
         \/ d \notin crossed' => /\ local[d].private = Nothing
                                 /\ \A t \in KeyTasks : ensures[<<d, t>>].at = "done",
         UNCHANGED <<account, unlocks, token, pages, secret, ensures, answers, spent, author,
                     misfiled>>
  PROVE  KeysInv'
<1>1. /\ KeysTypeOK /\ DeviceInv(d) /\ BackupOpens /\ account \in AccountRow
      /\ local \in [Devices -> LocalRow] /\ changing \in [Devices -> ChangeRow]
      /\ crossed \subseteq Devices
  BY KeysTyped DEF KeysInv
<1>2. /\ local' \in [Devices -> LocalRow] /\ local'[d] = l
      /\ \A e \in Devices \ {d} : local'[e] = local[e] /\ changing'[e] = changing[e]
      /\ changing' \in [Devices -> ChangeRow] /\ changing'[d] = change
      /\ crossed' \subseteq Devices /\ crossed \subseteq crossed'
  BY <1>1
<1>3. KeysTypeOK'
  BY <1>1, <1>2, KeysTyped, KeysTypedBack
<1>4. Others(d)
  BY <1>2 DEF Others
<1>5. PageFollows(d)'
  BY <1>1, <1>2 DEF DeviceInv, PageFollows
<1>6. CallsAreSound(d)'
  BY <1>1 DEF DeviceInv, CallsAreSound, CallOK
<1>7. StorageFollows(d)'
  <2>1. SUFFICES ASSUME d \notin crossed', NEW o \in KeyTasks PROVE IsStored(ensures[<<d, o>>], l)
    BY <1>2 DEF StorageFollows, IsStored
  <2>2. CASE l = local[d]
    BY <1>1, <1>2, <2>1, <2>2 DEF DeviceInv, StorageFollows
  <2>3. CASE l # local[d]
    BY <2>1, <2>3 DEF IsStored, HoldsPair, LacksPair
  <2>4. QED
    BY <2>2, <2>3
<1>8. AuthorHolds(d)'
  <2>1. SUFFICES ASSUME d \in author \ crossed'
                 PROVE  /\ account.public # Nothing
                        /\ l.private = account.public /\ l.public = account.public
                        /\ \A t \in KeyTasks : Keeps(ensures[<<d, t>>], account.public)
                        /\ \/ pages[d].public \in {Nothing, account.public}
                           \/ \E t \in KeyTasks : ensures[<<d, t>>].at = "answering"
    BY <1>2 DEF AuthorHolds, Keeps
  <2>2. d \in author \ crossed
    BY <1>2, <2>1
  <2>3. QED
    BY <1>1, <2>1, <2>2 DEF DeviceInv, AuthorHolds
<1>9. BackupOpens'
  BY <1>1 DEF BackupOpens
<1>10. account.password <= account'.password
  <2>1. account.password \in Nat
    BY <1>1, OtherRowsTyped, KeyConstants
  <2>2. QED
    BY <2>1
<1>11. QED
  BY <1>3, <1>4, <1>5, <1>6, <1>7, <1>8, <1>9, <1>10, DeviceFrame DEF DeviceInv

LEMMA AskForPasswordKeeps ==
  ASSUME KeysInv, NEW d \in Devices, AskForPassword(d)
  PROVE  KeysInv'
<1>1. PICK l \in LocalRow, backup \in Backups :
         l = local[d] /\ backup = pages[d].backup /\ local = [local EXCEPT ![d] = l]
  <2>1. local \in [Devices -> LocalRow] /\ pages \in [Devices -> PageRow]
    BY KeysTyped DEF KeysInv
  <2>2. pages[d].backup \in Backups
    BY <2>1, OtherRowsTyped
  <2>3. QED
    BY <2>1, <2>2
<1>2. /\ pages[d].open /\ account.password < MaxPasswords
      /\ UNCHANGED <<account, local, unlocks, token, pages, secret, ensures, answers, spent,
                     author, crossed, misfiled>>
      /\ local' = [local EXCEPT ![d] = l]
  BY <1>1, Zenon DEF AskForPassword
<1>3. PICK pair \in Pairs : pair = Opened(backup, unlocks[d])
  <2>1. backup.pair \in Pairs /\ Nothing \in Pairs
    BY OtherRowsTyped, KeyConstants
  <2>2. QED
    BY <2>1 DEF Opened
<1>4. PICK change \in ChangeRow :
         /\ changing' = [changing EXCEPT ![d] = change]
         /\ change.at = "asked" /\ change.backup # NoBackup
              => change.backup.pair # Nothing /\ change.backup.password = account.password + 1
  <2> DEFINE resolving == [at |-> "resolving", backup |-> [backup EXCEPT !.pair = pair]]
             stored == l.private # Nothing \/ backup = NoBackup
  <2>1. changing' = [changing EXCEPT ![d] = IF stored THEN PasswordRequest(l.private) ELSE resolving]
    BY <1>1, <1>3, Zenon DEF AskForPassword
  <2>2. /\ PasswordRequest(l.private) \in ChangeRow
        /\ PasswordRequest(l.private).backup # NoBackup
             => /\ PasswordRequest(l.private).backup.pair # Nothing
                /\ PasswordRequest(l.private).backup.password = account.password + 1
    <3>1. l.private \in Pairs /\ KeysTypeOK
      BY OtherRowsTyped DEF KeysInv
    <3>2. QED
      BY <1>2, <3>1, PasswordRequestIs
  <2>3. resolving \in ChangeRow /\ resolving.at = "resolving"
    <3>1. [backup EXCEPT !.pair = pair] \in Backups
      BY DEF Backups
    <3>2. QED
      BY <3>1 DEF ChangeRow
  <2> HIDE DEF resolving, stored
  <2>4. CASE stored
    BY <2>1, <2>2, <2>4
  <2>5. CASE ~stored
    BY <2>1, <2>3, <2>5
  <2>6. QED
    BY <2>4, <2>5
<1>5. QED
  BY <1>1, <1>2, <1>4, ChangingFrame

\* The pair is written where none should be.
LEMMA ResolvedKeeps ==
  ASSUME KeysInv, NEW d \in Devices, Resolved(d)
  PROVE  KeysInv'
<1>1. /\ KeysTypeOK /\ PageFollows(d) /\ local \in [Devices -> LocalRow]
      /\ changing \in [Devices -> ChangeRow] /\ pages \in [Devices -> PageRow]
  BY KeysTyped DEF KeysInv, DeviceInv
<1>2. PICK was \in LocalRow, pair \in Pairs, page \in PageRow :
         was = local[d] /\ pair = changing[d].backup.pair /\ page = pages[d]
  <2>1. changing[d].backup.pair \in Pairs
    BY <1>1, OtherRowsTyped
  <2>2. QED
    BY <1>1, <2>1
<1>3. /\ changing[d].at = "resolving" /\ (pair # Nothing => account.password < MaxPasswords)
      /\ changing' = [changing EXCEPT ![d] = IF pair = Nothing THEN NotChanging ELSE PasswordRequest(pair)]
      /\ crossed' = IF /\ pair # Nothing
                       /\ \/ was.private # Nothing
                          \/ \E t \in KeyTasks : ensures[<<d, t>>].at # "done"
                      THEN crossed \cup {d} ELSE crossed
      /\ UNCHANGED <<account, unlocks, token, pages, secret, ensures, answers, spent, author,
                     misfiled>>
  BY <1>2, Zenon DEF Resolved
<1>4. pages[d].open
  BY <1>1, <1>3 DEF PageFollows
<1>5. PICK l \in LocalRow : local' = [local EXCEPT ![d] = l] /\ (pair = Nothing => l = was)
  <2>1. PICK key \in Pairs : key = IF page.public = Nothing THEN was.public ELSE page.public
    <3>1. page.public \in Pairs /\ was.public \in Pairs
      BY OtherRowsTyped
    <3>2. QED
      BY <3>1
  <2>2. local' = IF pair = Nothing THEN local
                 ELSE [local EXCEPT ![d] = [private |-> pair, public |-> key]]
    BY <1>2, <2>1, Zenon DEF Resolved
  <2>3. [private |-> pair, public |-> key] \in LocalRow
    BY DEF LocalRow
  <2>4. CASE pair = Nothing
    BY <1>1, <1>2, <2>2, <2>4
  <2>5. CASE pair # Nothing
    BY <2>2, <2>3, <2>5
  <2>6. QED
    BY <2>4, <2>5
<1>6. PICK change \in ChangeRow :
         /\ changing' = [changing EXCEPT ![d] = change]
         /\ change.at = "asked" /\ change.backup # NoBackup
              => change.backup.pair # Nothing /\ change.backup.password = account.password + 1
  <2>1. CASE pair = Nothing
    BY <1>3, <2>1, RowsTyped
  <2>2. CASE pair # Nothing
    BY <1>1, <1>3, <2>2, PasswordRequestIs
  <2>3. QED
    BY <2>1, <2>2
<1>7. /\ crossed' \in {crossed, crossed \cup {d}}
      /\ \/ l = local[d]
         \/ d \notin crossed' => /\ local[d].private = Nothing
                                 /\ \A t \in KeyTasks : ensures[<<d, t>>].at = "done"
  BY <1>2, <1>3, <1>5
<1>8. QED
  BY <1>3, <1>4, <1>5, <1>6, <1>7, ChangingFrame

-----------------------------------------------------------------------------
(* The theorems                                                            *)

LEMMA KeysStart == KeysInit => KeysInv
<1>1. SUFFICES ASSUME KeysInit PROVE KeysInv
  OBVIOUS
<1>2. /\ account \in AccountRow /\ account.public = Nothing /\ account.backup = NoBackup
      /\ account.password = 1
  BY <1>1, KeyConstants DEF KeysInit, AccountRow
<1>3. /\ local \in [Devices -> LocalRow] /\ unlocks \in [Devices -> 0 .. MaxPasswords]
      /\ token \in [Devices -> 0 .. MaxPasswords] /\ secret \in [Devices -> Pairs]
      /\ spent \in SpentRow
  BY <1>1, KeyConstants DEF KeysInit, LocalRow, SpentRow, Nothing
<1>4. /\ pages = [d \in Devices |-> Closed] /\ ensures = [e \in Devices \X KeyTasks |-> Resting]
      /\ changing = [d \in Devices |-> NotChanging]
      /\ answers = [r \in Devices \X Requests |-> NoAnswer]
      /\ author = {} /\ crossed = {} /\ misfiled = FALSE
      /\ \A d \in Devices : unlocks[d] = 0 /\ token[d] = 0
  BY <1>1 DEF KeysInit
<1>5. /\ pages \in [Devices -> PageRow] /\ ensures \in [Devices \X KeyTasks -> CallRow]
      /\ changing \in [Devices -> ChangeRow] /\ answers \in [Devices \X Requests -> AnswerRow]
  BY <1>4, RowsTyped
<1>6. KeysTypeOK
  BY <1>2, <1>3, <1>4, <1>5 DEF KeysTypeOK, AccountRow, LocalRow, PageRow, CallRow, ChangeRow, AnswerRow, SpentRow
<1>7. ASSUME NEW d \in Devices PROVE DeviceInv(d)
  <2>1. \A t \in KeyTasks : ensures[<<d, t>>].at = "done"
    BY <1>4, RowsTyped
  <2>2. changing[d].at = "no" /\ unlocks[d] = 0 /\ token[d] = 0
    BY <1>4, RowsTyped
  <2>3. PageFollows(d)
    BY <1>2, <2>1, <2>2 DEF PageFollows
  <2>4. QED
    BY <1>4, <2>1, <2>3 DEF DeviceInv, CallsAreSound, CallOK, StorageFollows, IsStored,
                            AuthorHolds, HoldsPair, LacksPair
<1>8. BackupOpens
  BY <1>2 DEF BackupOpens
<1>9. QED
  BY <1>6, <1>7, <1>8 DEF KeysInv

LEMMA KeysStutter == ASSUME KeysInv, UNCHANGED keysVars PROVE KeysInv'
<1>1. KeysTypeOK' /\ BackupOpens'
  BY SMTT(20) DEF keysVars, KeysInv, KeysTypeOK, BackupOpens
<1>2. ASSUME NEW d \in Devices PROVE DeviceInv(d)'
  <2>1. DeviceInv(d)
    BY DEF KeysInv
  <2>2. PageFollows(d)' /\ CallsAreSound(d)'
    BY <2>1, SMTT(20) DEF keysVars, DeviceInv, PageFollows, CallsAreSound, CallOK
  <2>3. StorageFollows(d)' /\ AuthorHolds(d)'
    BY <2>1, SMTT(20) DEF keysVars, DeviceInv, StorageFollows, IsStored, AuthorHolds, Keeps
  <2>4. QED
    BY <2>2, <2>3 DEF DeviceInv
<1>3. QED
  BY <1>1, <1>2 DEF KeysInv

\* Every step of the pages and of the server leaves the invariant true.
THEOREM KeysInductive == KeysSpec => []KeysInv
<1>1. ASSUME KeysInv, [KeysNext]_keysVars PROVE KeysInv'
  <2>1. CASE UNCHANGED keysVars
    BY <1>1, <2>1, KeysStutter
  <2>2. ASSUME NEW d \in Devices, NEW t \in KeyTasks,
               \/ EnsureKeys(d, t) \/ Matched(d, t) \/ Restored(d, t) \/ Verified(d, t)
               \/ Generated(d, t) \/ Imported(d, t) \/ Packed(d, t)
               \/ UpdatePublicKey(d, t) \/ Synced(d, t) \/ SyncFails(d, t)
        PROVE  KeysInv'
    BY <1>1, <2>2, EnsureKeysKeeps, MatchedKeeps, RestoredKeeps, VerifiedKeeps, GeneratedKeeps,
       ImportedKeeps, PackedKeeps, UpdatePublicKeyKeeps, SyncedKeeps, SyncFailsKeeps
  <2>3. ASSUME NEW d \in Devices, NEW r \in Requests,
               \/ LogIn(d, r) \/ Reopen(d, r) \/ GetProfile(d, r) \/ ApplyCurrentUser(d, r)
               \/ \E t \in KeyTasks : StartApp(d, t, r)
        PROVE  KeysInv'
    BY <1>1, <2>3, StartsKeeps, GetProfileKeeps, ApplyCurrentUserKeeps, StartAppKeeps
  <2>4. ASSUME NEW d \in Devices,
               \/ ClosePage(d) \/ LogoutByServer(d)
               \/ AskForPassword(d) \/ Resolved(d) \/ ChangePassword(d)
        PROVE  KeysInv'
    BY <1>1, <2>4, ClosingKeeps, AskForPasswordKeeps, ResolvedKeeps, ChangePasswordKeeps
  <2>5. QED
    BY <1>1, <2>1, <2>2, <2>3, <2>4 DEF KeysNext
<1>2. QED
  BY <1>1, KeysStart, PTL DEF KeysSpec

\* Whatever the browsers and the server do, every variable keeps to its type.
THEOREM KeysTypeCorrect == KeysSpec => []KeysTypeOK
<1>1. KeysInv => KeysTypeOK
  BY DEF KeysInv
<1>2. QED
  BY <1>1, KeysInductive, PTL

\* With any number of browsers, calls and passwords, the backup that the server keeps opens
\* with the account's password and holds the account's key (updatePublicKey, changePassword).
THEOREM BackupAlwaysOpens == KeysSpec => []BackupOpens
<1>1. KeysInv => BackupOpens
  BY DEF KeysInv
<1>2. QED
  BY <1>1, KeysInductive, PTL

\* The browser that published the account's key keeps the pair, unless its calls crossed
\* (ensureEncryptionKeys, public/app.js).
THEOREM AuthorKeepsThePair == KeysSpec => []PublishedKeyIsHeld
<1>1. KeysInv => PublishedKeyIsHeld
  BY KeysTyped DEF KeysInv, DeviceInv, AuthorHolds, PublishedKeyIsHeld
<1>2. QED
  BY <1>1, KeysInductive, PTL
-----------------------------------------------------------------------------
(* The three parts together                                                    *)

\* A behaviour of the three parts is, for each of them, one of its own behaviours: the parts
\* that are not picked stutter.
LEMMA EachPartTalks == InterleavedChats => GroupSpec /\ ChatSpec /\ KeysSpec
<1>1. ChatsInit({"groups", "chats", "keys"}) => GroupInit /\ ChatInit /\ KeysInit
  BY DEF ChatsInit
<1>2. [InterleavedChatsNext]_chatsVars
        => [GroupNext]_groupVars /\ [ChatNext]_chatVars /\ [KeysNext]_keysVars
  BY DEF InterleavedChatsNext, Steps, chatsVars
<1>3. QED
  BY <1>1, <1>2, PTL DEF InterleavedChats, GroupSpec, ChatSpec, KeysSpec

\* The same where the server takes one request at a time.
LEMMA EachPartTakesTurns == SerialChats => SerialGroupSpec /\ SerialChatSpec
<1>1. ChatsInit({"groups", "chats"}) => GroupInit /\ ChatInit
  BY DEF ChatsInit
<1>2. [SerialChatsNext]_chatsVars => [SerialGroupNext]_groupVars /\ [SerialChatNext]_chatVars
  BY DEF SerialChatsNext, Steps, chatsVars
<1>3. QED
  BY <1>1, <1>2, PTL DEF SerialChats, SerialGroupSpec, SerialChatSpec

\* Groups, private chats and keys, composed: every state of the part that is picked is well
\* typed, and in fact so is every state of the others.
THEOREM ChatsTypeCorrect == InterleavedChats => []ChatsTypesOK
<1>1. GroupTypeOK /\ ChatTypeOK /\ KeysTypeOK => ChatsTypesOK
  BY DEF ChatsTypesOK
<1>2. QED
  BY <1>1, EachPartTalks, GroupTypeCorrect, ChatTypeCorrect, KeysTypeCorrect, PTL
\* Where the server takes one request at a time, groups and private chats keep both of their
\* promises together: the charter of a group (GroupCharter), and that a chat opens only when
\* one of two users asked and the other accepted (PrivateChat).
THEOREM ChatsKeepTheirPromises == SerialChats => ImplementsCharter /\ ImplementsPrivateChat
  BY EachPartTakesTurns, ServesCharter, ServesPrivateChat, PTL
=======================================================================
