----------------------------- MODULE AdminAccounts -----------------------------
(***************************************************************************)
(* The accounts of the server: registration, approval, bans, the           *)
(* administrators, the sessions that tokenVersion revokes, and deletion,   *)
(* at once by an administrator or after a delay by the hourly purge.  The  *)
(* module models UserService, AuthService, the guards of every request and *)
(* AdminBootstrapService, which makes the administrators when the server   *)
(* starts, over the table User.                                            *)
(*                                                                         *)
(* A request passes its guard, reads the row it is about, counts           *)
(* administrators where it must, and writes: four awaits, so up to four    *)
(* steps, with those of others in between.  A row that is gone makes the   *)
(* write throw (Fail).  render.yaml runs one instance with a disk, which   *)
(* stops before the next one starts: Restart ends every request.           *)
(*                                                                         *)
(* Passwords, names and e-mail addresses are left out, but for one: which  *)
(* account has the address BOOTSTRAP_ADMIN_EMAIL.  tokenVersion is only    *)
(* ever incremented, and compared for equality with the number in a token: *)
(* a token with an older number is void for good.  So the number is left   *)
(* out too, and what remains of it is sessions, the accounts of which      *)
(* somebody holds a token with the current number, and loggingIn, those    *)
(* with a login in flight that has read the current number.                *)
(***************************************************************************)
EXTENDS Naturals, FiniteSets

CONSTANTS
  Users,     \* ids of accounts (uuids: never used twice); bounds the registrations
  Handlers,  \* the requests, logins among them, that can be in flight at the same time
  Take,      \* how many due accounts a purge lists
  NoUser,    \* null, for a field that holds a user
  Unset      \* BOOTSTRAP_ADMIN_EMAIL is not configured

ASSUME AccountNullAssumption == NoUser \notin Users /\ Unset \notin Users /\ NoUser # Unset
ASSUME TakeAssumption == Take \in Nat \ {0}

VARIABLES
  user,       \* the rows of User, by id
  unused,     \* the ids that no account has had
  earlier,    \* <<u, v>>: the deletionScheduledFor of u precedes that of v
  sessions,   \* the accounts with a token of the current tokenVersion
  loggingIn,  \* the accounts with a login in flight that has read that version
  bootstrap,  \* the account with the configured address, NoUser, or Unset
  asked,      \* history: who has ever scheduled the deletion of the account
  req         \* the requests in flight

tokens == <<sessions, loggingIn>>
accountVars == <<user, unused, earlier, sessions, loggingIn, bootstrap, asked, req>>

(***************************************************************************)
(* deletion stands for deletionScheduledFor: null, a date to come, or one  *)
(* that has passed.                                                        *)
(***************************************************************************)
Row == [role : {"USER", "ADMIN"}, isApproved : BOOLEAN, isBanned : BOOLEAN,
        deletion : {"null", "ahead", "passed"}]

live      == DOMAIN user
Admins    == {u \in live : user[u].role = "ADMIN"}
Scheduled == {u \in live : user[u].deletion # "null"}
Due       == {u \in live : user[u].deletion = "passed"}

Loops     == {"approve", "ban", "unban"}   \* alone, or for many accounts by bulkUpdateUsersByAdmin
AdminOps  == Loops \cup {"demote", "erase"}
SelfOps   == {"schedule", "cancel", "password", "email"}

(***************************************************************************)
(* op is the handler and at its next await; target the row it decided      *)
(* about, and bump whether the write increments tokenVersion; rest the     *)
(* accounts that it has still to work through.                             *)
(***************************************************************************)
Working(op, S) == [op |-> op, at |-> "read", target |-> NoUser, bump |-> FALSE, rest |-> S]

Decided(op, place, u, bump, S) ==
  [op |-> op, at |-> place, target |-> u, bump |-> bump, rest |-> S]

Idle == Working("idle", {})

Request ==
  {r \in [op : AdminOps \cup SelfOps \cup {"purge"}, at : {"read", "count", "write"},
          target : Users \cup {NoUser}, bump : BOOLEAN, rest : SUBSET Users] :
     r.at = "read" <=> r.target = NoUser}

AccountInit ==
  /\ user = [u \in {} |-> NoUser]
  /\ unused = Users
  /\ earlier = {}
  /\ sessions = {}
  /\ loggingIn = {}
  /\ bootstrap = Unset
  /\ asked = {}
  /\ req = [h \in Handlers |-> Idle]

--------------------------------------------------------------------------------
(***************************************************************************)
(* What the statements do.                                                 *)
(***************************************************************************)
\* tokenVersion is incremented: the tokens and logins of before count no more.
Revoke(S) ==
  /\ sessions' = sessions \ S
  /\ loggingIn' = loggingIn \ S

\* user.update: throws when the row is gone.
Update(u, row, bump) ==
  /\ u \in live
  /\ user' = [user EXCEPT ![u] = row]
  /\ Revoke(IF bump THEN {u} ELSE {})

\* user.create
Insert(u, row) ==
  /\ unused' = unused \ {u}
  /\ user' = [v \in live \cup {u} |-> IF v = u THEN row ELSE user[v]]

WithoutDate(u) == {p \in earlier : p[1] # u /\ p[2] # u}

\* The transaction of deleteUserPermanentlyInternal.
Erase(u) ==
  /\ u \in live
  /\ user' = [v \in live \ {u} |-> user[v]]
  /\ earlier' = WithoutDate(u)
  /\ bootstrap' = IF bootstrap = u THEN NoUser ELSE bootstrap
  /\ Revoke({u})
  /\ UNCHANGED <<unused, asked>>

\* A login takes the place of a request.
Room == Cardinality(loggingIn) < Cardinality({h \in Handlers : req[h] = Idle})

Start(h, r) == Room /\ req[h] = Idle /\ req' = [req EXCEPT ![h] = r]
Step(h, r)  == req' = [req EXCEPT ![h] = r]
Reads       == UNCHANGED <<user, unused, earlier, tokens, bootstrap, asked>>

At(h, op, place) == req[h].op = op /\ req[h].at = place

\* The accounts whose turn it is: the purge keeps the order of their dates, a bulk update
\* has the order of the request, which may be any.
Turn(h) ==
  IF req[h].op = "purge"
    THEN {u \in req[h].rest : \A v \in req[h].rest : <<v, u>> \notin earlier}
    ELSE req[h].rest

\* The request goes on with the accounts S, or answers.
GoOn(h, S) == Step(h, IF S = {} THEN Idle ELSE Working(req[h].op, S))

\* The request has read a row, which exists, and will count or write.
Decide(h, u, place, bump) ==
  /\ u \in req[h].rest
  /\ Step(h, Decided(req[h].op, place, u, bump, req[h].rest \ {u}))
  /\ Reads

--------------------------------------------------------------------------------
(***************************************************************************)
(* Sessions.  register creates an account that cannot log in yet.          *)
(***************************************************************************)
NewUser == [role |-> "USER", isApproved |-> FALSE, isBanned |-> FALSE, deletion |-> "null"]

Register(u) ==
  /\ u \in unused
  /\ Insert(u, NewUser)
  /\ bootstrap' \in (IF bootstrap = NoUser THEN {NoUser, u} ELSE {bootstrap})
  /\ UNCHANGED <<earlier, tokens, asked, req>>

\* login reads the row, awaits the comparison of passwords, and signs what it read.  Every
\* account has emailVerified, so login itself never writes.
BeginLogin(u) ==
  /\ Room
  /\ u \in live
  /\ user[u].isApproved /\ ~user[u].isBanned
  /\ loggingIn' = loggingIn \cup {u}
  /\ UNCHANGED <<user, unused, earlier, sessions, bootstrap, asked, req>>

SignToken(u) ==
  /\ u \in loggingIn
  /\ sessions' = sessions \cup {u}
  /\ loggingIn' = loggingIn \ {u}
  /\ UNCHANGED <<user, unused, earlier, bootstrap, asked, req>>

\* The password is wrong, or the login fails.
EndLogin(u) ==
  /\ u \in loggingIn
  /\ loggingIn' = loggingIn \ {u}
  /\ UNCHANGED <<user, unused, earlier, sessions, bootstrap, asked, req>>

JwtGuard(u) ==
  /\ u \in live \cap sessions
  /\ user[u].isApproved /\ ~user[u].isBanned

AdminGuard(u) == JwtGuard(u) /\ user[u].role = "ADMIN"

--------------------------------------------------------------------------------
(***************************************************************************)
(* Administrators.  A request for several accounts is bulkUpdateUsers-     *)
(* ByAdmin; removeAdminRoleByAdmin ("demote") and deleteUserPermanently-   *)
(* ByAdmin ("erase") take one.  An administrator cannot ban, demote or     *)
(* erase the own account.                                                  *)
(***************************************************************************)
BeginAdmin(h, a, op, S) ==
  /\ AdminGuard(a)
  /\ op \in AdminOps /\ S # {}
  /\ op \in {"demote", "erase"} => Cardinality(S) = 1
  /\ op \in {"ban", "demote", "erase"} => a \notin S
  /\ Start(h, Working(op, S))
  /\ Reads

ReadApprove(h, u) ==
  /\ At(h, "approve", "read")
  /\ Decide(h, u, "write", ~user[u].isApproved)

\* Seeded bug: the condition of the increment is that of unban.
ReadBanUnbanning(h, u) ==
  /\ At(h, "ban", "read")
  /\ user[u].role # "ADMIN"
  /\ Decide(h, u, "write", user[u].isBanned)

ReadBan(h, u) ==
  /\ At(h, "ban", "read")
  /\ user[u].role # "ADMIN"
  /\ Decide(h, u, "write", ~user[u].isBanned)

ReadUnban(h, u) ==
  /\ At(h, "unban", "read")
  /\ Decide(h, u, "write", user[u].isBanned)

ReadDemote(h, u) ==
  /\ At(h, "demote", "read")
  /\ user[u].role = "ADMIN" /\ u # bootstrap
  /\ Decide(h, u, "count", TRUE)

ReadErase(h, u) ==
  /\ At(h, "erase", "read")
  /\ u # bootstrap
  /\ Decide(h, u, IF user[u].role = "ADMIN" THEN "count" ELSE "write", FALSE)

CountAdmins(h) ==
  /\ req[h].op \in {"demote", "erase"} /\ req[h].at = "count"
  /\ Cardinality(Admins) > 1
  /\ Step(h, Decided(req[h].op, "write", req[h].target, req[h].bump, req[h].rest))
  /\ Reads

\* The write of a request to the row that it decided about.
WriteRow(h, op, row) ==
  /\ At(h, op, "write")
  /\ Update(req[h].target, row, req[h].bump)
  /\ GoOn(h, req[h].rest)

Stored(h) == user[req[h].target]

WriteApprove(h) ==
  /\ WriteRow(h, "approve", [Stored(h) EXCEPT !.isApproved = TRUE])
  /\ UNCHANGED <<unused, earlier, bootstrap, asked>>

WriteBan(h) ==
  /\ WriteRow(h, "ban", [Stored(h) EXCEPT !.isBanned = TRUE])
  /\ UNCHANGED <<unused, earlier, bootstrap, asked>>

WriteUnban(h) ==
  /\ WriteRow(h, "unban", [Stored(h) EXCEPT !.isBanned = FALSE])
  /\ UNCHANGED <<unused, earlier, bootstrap, asked>>

WriteDemote(h) ==
  /\ WriteRow(h, "demote", [Stored(h) EXCEPT !.role = "USER"])
  /\ UNCHANGED <<unused, earlier, bootstrap, asked>>

WriteErase(h) ==
  /\ At(h, "erase", "write")
  /\ Erase(req[h].target)
  /\ Step(h, Idle)

--------------------------------------------------------------------------------
(***************************************************************************)
(* What users do to their own account: changePassword and an e-mail of     *)
(* updateProfile decide nothing from what they read of it.                 *)
(***************************************************************************)
BeginSelf(h, u, op) ==
  /\ JwtGuard(u)
  /\ \/ /\ op \in {"schedule", "cancel"}
        /\ Start(h, Working(op, {u}))
     \/ /\ op \in {"password", "email"}
        /\ Start(h, Decided(op, "write", u, op = "password", {}))
  /\ Reads

\* requestAccountDeletion; ensureSelfDeleteAllowed counts the others for an administrator.
ReadSchedule(h, u) ==
  /\ At(h, "schedule", "read")
  /\ u # bootstrap /\ u \notin Scheduled
  /\ Decide(h, u, IF user[u].role = "ADMIN" THEN "count" ELSE "write", TRUE)

\* Seeded bug: counts administrators who are leaving too.
CountOthersLeaving(h) ==
  /\ At(h, "schedule", "count")
  /\ Admins \ {req[h].target} # {}
  /\ Step(h, Decided(req[h].op, "write", req[h].target, req[h].bump, req[h].rest))
  /\ Reads

CountOthers(h) ==
  /\ At(h, "schedule", "count")
  /\ Admins \ (Scheduled \cup {req[h].target}) # {}
  /\ Step(h, Decided(req[h].op, "write", req[h].target, req[h].bump, req[h].rest))
  /\ Reads

WriteSchedule(h) ==
  LET u == req[h].target
  IN  /\ WriteRow(h, "schedule", [Stored(h) EXCEPT !.deletion = "ahead"])
      /\ earlier' = WithoutDate(u) \cup {<<v, u>> : v \in Scheduled \ {u}}
      /\ asked' = asked \cup {u}
      /\ UNCHANGED <<unused, bootstrap>>

ReadCancel(h, u) ==
  /\ At(h, "cancel", "read")
  /\ u \in Scheduled
  /\ Decide(h, u, "write", FALSE)

WriteCancel(h) ==
  /\ WriteRow(h, "cancel", [Stored(h) EXCEPT !.deletion = "null"])
  /\ earlier' = WithoutDate(req[h].target)
  /\ UNCHANGED <<unused, bootstrap, asked>>

WritePassword(h) ==
  /\ WriteRow(h, "password", Stored(h))
  /\ UNCHANGED <<unused, earlier, bootstrap, asked>>

\* The address is unique: the configured one is given up, or taken where nobody has it.
WriteEmail(h) ==
  LET u == req[h].target
  IN  /\ WriteRow(h, "email", Stored(h))
      /\ \/ bootstrap = u /\ bootstrap' = NoUser
         \/ bootstrap = NoUser /\ bootstrap' = u
      /\ UNCHANGED <<unused, earlier, asked>>

--------------------------------------------------------------------------------
(***************************************************************************)
(* The purge: cleanupExpiredDeletedAccounts lists what is due, the         *)
(* earliest first, and erases it account by account.                       *)
(***************************************************************************)
DatePasses(u) ==
  /\ u \in Scheduled \ Due
  /\ \A v \in Scheduled \ Due : <<v, u>> \notin earlier
  /\ user' = [user EXCEPT ![u].deletion = "passed"]
  /\ UNCHANGED <<unused, earlier, tokens, bootstrap, asked, req>>

\* Seeded bug: lists every account with a date.
BeginPurgeScheduled(h) ==
  \E S \in SUBSET Scheduled :
    /\ S # {}
    /\ Cardinality(S) = Take \/ (Cardinality(S) < Take /\ S = Scheduled)
    /\ \A u \in S, v \in Scheduled \ S : <<u, v>> \in earlier
    /\ req[h] = Idle /\ Step(h, Working("purge", S))
    /\ Reads

\* Seeded bug: an account without a date counts as due.
BeginPurgeNull(h) ==
  \E S \in SUBSET {u \in live : user[u].deletion # "ahead"} :
    /\ S # {} /\ Cardinality(S) <= Take
    /\ req[h] = Idle /\ Step(h, Working("purge", S))
    /\ Reads

BeginPurge(h) ==
  \E S \in SUBSET Due :
    /\ S # {}
    /\ Cardinality(S) = Take \/ (Cardinality(S) < Take /\ S = Due)
    /\ \A u \in S, v \in Due \ S : <<u, v>> \in earlier
    /\ req[h] = Idle /\ Step(h, Working("purge", S))
    /\ Reads

PurgeOne(h, u) ==
  /\ At(h, "purge", "read")
  /\ u \in Turn(h)
  /\ Erase(u)
  /\ GoOn(h, req[h].rest \ {u})

--------------------------------------------------------------------------------
\* Seeded bug: the loop does not catch, so the first account that fails ends it.
FailAll(h) ==
  /\ req[h] # Idle
  /\ Step(h, Idle)
  /\ Reads

(***************************************************************************)
(* A refusal or an error ends a request; a loop goes on with the rest.     *)
(***************************************************************************)
Fail(h) ==
  /\ req[h] # Idle
  /\ IF req[h].at = "read"
       THEN \E u \in Turn(h) : GoOn(h, req[h].rest \ {u})
       ELSE GoOn(h, req[h].rest)
  /\ Reads

(***************************************************************************)
(* The server stops, and starts with BOOTSTRAP_ADMIN_EMAIL unset or the    *)
(* address of u: AdminBootstrapService creates that administrator, or      *)
(* repairs the account (onModuleInit, before requests are served).         *)
(***************************************************************************)
\* Seeded bug: a banned account becomes an administrator, still banned.
RepairedRole(row) == [row EXCEPT !.role = "ADMIN", !.isApproved = TRUE]

Sound(row)    == row.role = "ADMIN" /\ row.isApproved /\ ~row.isBanned
Repaired(row) == [row EXCEPT !.role = "ADMIN", !.isApproved = TRUE, !.isBanned = FALSE]

Restart ==
  /\ req' = [h \in Handlers |-> Idle]
  /\ loggingIn' = {}
  /\ \/ /\ bootstrap' = Unset
        /\ UNCHANGED <<user, unused, sessions>>
     \/ \E u \in live :
          /\ bootstrap' = u
          /\ user' = [user EXCEPT ![u] = Repaired(@)]
          /\ sessions' = IF Sound(user[u]) THEN sessions ELSE sessions \ {u}
          /\ UNCHANGED unused
     \/ \E u \in unused :
          /\ bootstrap' = u
          /\ Insert(u, Repaired(NewUser))
          /\ UNCHANGED sessions
  /\ UNCHANGED <<earlier, asked>>

--------------------------------------------------------------------------------
Begin(h) ==
  \/ \E a \in Users, op \in AdminOps, S \in SUBSET Users : BeginAdmin(h, a, op, S)
  \/ \E u \in Users, op \in SelfOps : BeginSelf(h, u, op)
  \/ BeginPurge(h)

Proceed(h) ==
  \/ \E u \in live : \/ ReadApprove(h, u) \/ ReadBan(h, u) \/ ReadUnban(h, u)
                     \/ ReadDemote(h, u) \/ ReadErase(h, u)
                     \/ ReadSchedule(h, u) \/ ReadCancel(h, u) \/ PurgeOne(h, u)
  \/ CountAdmins(h) \/ CountOthers(h)
  \/ WriteApprove(h) \/ WriteBan(h) \/ WriteUnban(h) \/ WriteDemote(h) \/ WriteErase(h)
  \/ WriteSchedule(h) \/ WriteCancel(h) \/ WritePassword(h) \/ WriteEmail(h)

Elsewhere ==
  \/ \E u \in Users : \/ Register(u) \/ DatePasses(u)
                      \/ BeginLogin(u) \/ SignToken(u) \/ EndLogin(u)
  \/ Restart

AccountNext ==
  \/ \E h \in Handlers : Begin(h) \/ Proceed(h) \/ Fail(h)
  \/ Elsewhere

AccountSpec == AccountInit /\ [][AccountNext]_accountVars

\* The same handlers, one request at a time, logins aside.
Quiet == \A h \in Handlers : req[h] = Idle

SerialAccountNext ==
  \/ Quiet /\ \E h \in Handlers : Begin(h)
  \/ \E h \in Handlers : Proceed(h) \/ Fail(h)
  \/ Elsewhere

SerialAccountSpec == AccountInit /\ [][SerialAccountNext]_accountVars

\* A request that has begun goes on or fails, and the purge gets its turn, by the hour,
\* between the requests of others.
PurgingSpec ==
  /\ SerialAccountSpec
  /\ \A h \in Handlers : WF_accountVars(Proceed(h) \/ Fail(h))
  /\ SF_accountVars(\E h \in Handlers : Quiet /\ BeginPurge(h))

--------------------------------------------------------------------------------
(***************************************************************************)
(* Properties.                                                             *)
(***************************************************************************)

\* Types of the rows, the tokens and the requests in flight.
AccountTypeOK ==
  /\ live \subseteq Users
  /\ user \in [live -> Row]
  /\ unused \subseteq Users \ live
  /\ earlier \subseteq Scheduled \X Scheduled
  /\ sessions \subseteq live
  /\ loggingIn \subseteq live
  /\ bootstrap \in live \cup {NoUser, Unset}
  /\ asked \subseteq Users
  /\ req \in [Handlers -> Request \cup {Idle}]

\* "Admin accounts cannot be banned": not even by a ban in flight, or one before the
\* server made the account an administrator.
AdminsAreNotBanned == \A u \in Admins : ~user[u].isBanned

\* One request at a time, whoever holds a token of the current version may use it: a ban
\* has ended all sessions of the account ("bans a non-admin user and invalidates existing
\* sessions"), and no login in flight brings one back.
SessionsAreAllowed ==
  \A u \in sessions : user[u].isApproved /\ ~user[u].isBanned

ErasedByAdmin(u) == \E h \in Handlers : At(h, "erase", "write") /\ req[h].target = u

\* One request at a time, the purge erases only what is due: who cancels keeps the account.
PurgesOnlyDue == [][\A u \in live \ live' : ErasedByAdmin(u) \/ u \in Due]_accountVars

\* Whatever requests are in flight, no account is erased that neither an administrator
\* chose nor its owner ever asked for.
ErasedByWill == [][\A u \in live \ live' : ErasedByAdmin(u) \/ u \in asked]_accountVars

PurgeFails(u) == \E h \in Handlers : At(h, "purge", "read") /\ u \in Turn(h) /\ Fail(h)

\* An account that is due is erased, or kept by its owner, unless its own erasure fails
\* again and again: the failures of up to Take - 1 others do not keep it waiting.
DueGetsItsTurn ==
  \/ \A u \in Users : []<>(u \notin Due) \/ []<><<PurgeFails(u)>>_accountVars
  \/ []<><<Restart>>_accountVars

\* "At least one admin account must remain."
KeepsAnAdmin == [][Admins # {} => Admins' # {}]_accountVars

(***************************************************************************)
(* One request at a time, the accounts implement their charter.  It sees   *)
(* of a row only what its columns say of the account; reads, dates that    *)
(* pass and logins in flight are invisible to it.                          *)
(***************************************************************************)
Approved == {u \in live : user[u].isApproved}
Banned   == {u \in live : user[u].isBanned}

Charter ==
  INSTANCE AccountCharter WITH
    fresh <- unused, accounts <- live, approved <- Approved, banned <- Banned,
    admins <- Admins, leaving <- Scheduled, present <- sessions

\* Every decision of the server about an account is one that its charter allows: made by
\* an administrator who is still one and whose session has not ended, or by the owner.
ImplementsAccountCharter == Charter!Spec
================================================================================
