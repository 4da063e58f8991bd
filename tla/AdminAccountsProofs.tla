-------------------------- MODULE AdminAccountsProofs --------------------------
(***************************************************************************)
(* Proofs about AdminAccounts, for any set of accounts, any number of      *)
(* requests in flight and any length of the purge's list.  The first part  *)
(* holds however requests interleave (AccountSpec); the second when one request   *)
(* runs at a time (SerialAccountSpec).                                            *)
(***************************************************************************)
EXTENDS AdminAccounts, TLAPS

\* A request in flight has all its fields.
LEMMA BusyTyped ==
  ASSUME AccountTypeOK, NEW h \in Handlers, req[h].op # "idle"
  PROVE  /\ req[h] \in Request
         /\ req[h].op \in AdminOps \cup SelfOps \cup {"purge"}
         /\ req[h].target \in Users \cup {NoUser}
         /\ req[h].bump \in BOOLEAN
         /\ req[h].rest \in SUBSET Users
         /\ req[h].at # "read" => req[h].target \in Users
<1>1. req[h] \in Request
  BY DEF AccountTypeOK, Idle, Working
<1>2. QED
  BY <1>1 DEF Request

\* Changing one request keeps the others.
LEMMA StepTyped ==
  ASSUME AccountTypeOK, NEW h \in Handlers, NEW r \in Request \cup {Idle},
         req' = [req EXCEPT ![h] = r]
  PROVE  /\ req' \in [Handlers -> Request \cup {Idle}]
         /\ req'[h] = r
         /\ \A k \in Handlers \ {h} : req'[k] = req[k]
  BY DEF AccountTypeOK

\* A request that goes on works through what is left of its accounts.
LEMMA GoOnTyped ==
  ASSUME AccountTypeOK, NEW h \in Handlers, req[h].op # "idle", NEW S \in SUBSET Users, GoOn(h, S)
  PROVE  /\ req' \in [Handlers -> Request \cup {Idle}]
         /\ req'[h] = Idle \/ (/\ req'[h].op = req[h].op /\ req'[h].at = "read"
                               /\ req'[h].rest = S)
         /\ \A k \in Handlers \ {h} : req'[k] = req[k]
<1> DEFINE r == Working(req[h].op, S)
           n == IF S = {} THEN Idle ELSE r
<1>1. r \in Request /\ r.op = req[h].op /\ r.at = "read" /\ r.rest = S
  BY BusyTyped DEF Request, Working
<1>2. req' = [req EXCEPT ![h] = n]
  BY DEF GoOn, Step
<1>3. n \in Request \cup {Idle}
  BY <1>1
<1> HIDE DEF n
<1>4. /\ req' \in [Handlers -> Request \cup {Idle}]
      /\ req'[h] = n
      /\ \A k \in Handlers \ {h} : req'[k] = req[k]
  BY <1>2, <1>3, StepTyped
<1>5. QED
  BY <1>1, <1>4 DEF n

\* What a request has decided, from the row that it read or from a count.
LEMMA DecidedTyped ==
  ASSUME AccountTypeOK, NEW h \in Handlers, req[h].op # "idle", NEW u \in Users,
         NEW place \in {"count", "write"}, NEW bump, bump \in BOOLEAN, NEW S \in SUBSET Users,
         Step(h, Decided(req[h].op, place, u, bump, S))
  PROVE  /\ req' \in [Handlers -> Request \cup {Idle}]
         /\ req'[h].op = req[h].op /\ req'[h].at = place
         /\ req'[h].target = u /\ req'[h].bump = bump /\ req'[h].rest = S
         /\ \A k \in Handlers \ {h} : req'[k] = req[k]
<1> DEFINE r == Decided(req[h].op, place, u, bump, S)
<1>1. r \in Request
  BY BusyTyped, AccountNullAssumption DEF Request, Decided
<1>2. /\ r.op = req[h].op /\ r.at = place /\ r.target = u /\ r.bump = bump /\ r.rest = S
      /\ req' = [req EXCEPT ![h] = r]
  BY DEF Decided, Step
<1> HIDE DEF r
<1>3. QED
  BY <1>1, <1>2, StepTyped

\* A new request.
LEMMA BeginTyped ==
  ASSUME AccountTypeOK, NEW h \in Handlers, Begin(h)
  PROVE  /\ Reads
         /\ req' \in [Handlers -> Request \cup {Idle}]
         /\ \A k \in Handlers \ {h} : req'[k] = req[k]
         /\ \/ req'[h].at = "read" /\ req'[h].op # "purge"
            \/ req'[h].at = "write" /\ req'[h].op \in {"password", "email"}
            \/ /\ req'[h].op = "purge" /\ req'[h].at = "read"
               /\ req'[h].rest \subseteq Due
<1>1. CASE \E a \in Users, op \in AdminOps, S \in SUBSET Users : BeginAdmin(h, a, op, S)
  <2>1. PICK a \in Users, op \in AdminOps, S \in SUBSET Users : BeginAdmin(h, a, op, S)
    BY <1>1
  <2>2. /\ Working(op, S) \in Request
        /\ Working(op, S).at = "read" /\ Working(op, S).op # "purge"
    BY DEF Request, Working, AdminOps, Loops
  <2>3. QED
    BY <2>1, <2>2, StepTyped DEF BeginAdmin, Start
<1>2. CASE \E u \in Users, op \in SelfOps : BeginSelf(h, u, op)
  <2>1. PICK u \in Users, op \in SelfOps : BeginSelf(h, u, op)
    BY <1>2
  <2>2. CASE op \in {"schedule", "cancel"} /\ Start(h, Working(op, {u}))
    <3>1. /\ Working(op, {u}) \in Request
          /\ Working(op, {u}).at = "read" /\ Working(op, {u}).op # "purge"
      BY DEF Request, Working, SelfOps
    <3>2. QED
      BY <2>1, <2>2, <3>1, StepTyped DEF BeginSelf, Start
  <2>3. CASE /\ op \in {"password", "email"}
             /\ Start(h, Decided(op, "write", u, op = "password", {}))
    <3> DEFINE r == Decided(op, "write", u, op = "password", {})
    <3>1. r \in Request /\ r.at = "write" /\ r.op = op
      BY AccountNullAssumption DEF Request, Decided, SelfOps
    <3>2. req' = [req EXCEPT ![h] = r]
      BY <2>3 DEF Start
    <3> HIDE DEF r
    <3>3. QED
      BY <2>1, <2>3, <3>1, <3>2, StepTyped DEF BeginSelf
  <2>4. QED
    BY <2>1, <2>2, <2>3 DEF BeginSelf
<1>3. CASE BeginPurge(h)
  <2>1. PICK S \in SUBSET Due : Reads /\ Step(h, Working("purge", S))
    BY <1>3 DEF BeginPurge
  <2>2. /\ Working("purge", S) \in Request
        /\ Working("purge", S).at = "read" /\ Working("purge", S).op = "purge"
        /\ Working("purge", S).rest = S
    BY DEF Request, Working, Due, AccountTypeOK
  <2>3. QED
    BY <2>1, <2>2, StepTyped DEF Step
<1>4. QED
  BY <1>1, <1>2, <1>3 DEF Begin

--------------------------------------------------------------------------------
(***************************************************************************)
(* The steps of a request by what they do: read, write a row, erase a row. *)
(***************************************************************************)
ReadStep(h) ==
  \/ \E u \in live : \/ ReadApprove(h, u) \/ ReadBan(h, u) \/ ReadUnban(h, u)
                     \/ ReadDemote(h, u) \/ ReadErase(h, u)
                     \/ ReadSchedule(h, u) \/ ReadCancel(h, u)
  \/ CountAdmins(h) \/ CountOthers(h) \/ Fail(h)

WriteStep(h) ==
  \/ WriteApprove(h) \/ WriteBan(h) \/ WriteUnban(h) \/ WriteDemote(h)
  \/ WriteSchedule(h) \/ WriteCancel(h) \/ WritePassword(h) \/ WriteEmail(h)

EraseStep(h) == WriteErase(h) \/ \E u \in live : PurgeOne(h, u)

LEMMA StepKinds ==
  ASSUME NEW h, Proceed(h) \/ Fail(h)
  PROVE  ReadStep(h) \/ WriteStep(h) \/ EraseStep(h)
  BY DEF Proceed, ReadStep, WriteStep, EraseStep

\* A request in flight that At names is no idle one.
LEMMA AtBusy ==
  ASSUME NEW h, NEW op \in AdminOps \cup SelfOps \cup {"purge"}, NEW place, At(h, op, place)
  PROVE  req[h].op # "idle"
  BY DEF At, AdminOps, SelfOps, Loops

\* A ban that is about to be written was decided from a row without the administrator's
\* role, and increments tokenVersion unless that row was banned already.
BanDecided(h) ==
  At(h, "ban", "write") =>
    /\ req[h].target \in live
    /\ user[req[h].target].role # "ADMIN"
    /\ req[h].bump \/ user[req[h].target].isBanned

\* One read of a row by a request.
LEMMA ReadRowTyped ==
  ASSUME AccountTypeOK, NEW h \in Handlers, NEW op \in AdminOps \cup SelfOps, NEW u \in live,
         At(h, op, "read"), NEW place \in {"count", "write"}, NEW bump, bump \in BOOLEAN,
         Decide(h, u, place, bump)
  PROVE  /\ Reads
         /\ req' \in [Handlers -> Request \cup {Idle}]
         /\ \A k \in Handlers \ {h} : req'[k] = req[k]
         /\ req'[h].op = op /\ req'[h].at = place /\ req'[h].target = u /\ req'[h].bump = bump
<1>1. req[h].op # "idle" /\ req[h].op = op
  BY AtBusy DEF At
<1>2. u \in Users /\ req[h].rest \ {u} \in SUBSET Users
  BY <1>1, BusyTyped DEF AccountTypeOK
<1>3. Step(h, Decided(req[h].op, place, u, bump, req[h].rest \ {u})) /\ Reads
  BY DEF Decide
<1> DEFINE S == req[h].rest \ {u}
<1> HIDE DEF S
<1>4. S \in SUBSET Users /\ Step(h, Decided(req[h].op, place, u, bump, S))
  BY <1>2, <1>3 DEF S
<1>5. /\ req' \in [Handlers -> Request \cup {Idle}]
      /\ req'[h].op = req[h].op /\ req'[h].at = place
      /\ req'[h].target = u /\ req'[h].bump = bump
      /\ \A k \in Handlers \ {h} : req'[k] = req[k]
  BY <1>1, <1>2, <1>4, DecidedTyped, ZenonT(60)
<1>6. QED
  BY <1>1, <1>3, <1>5

LEMMA ReadTyped ==
  ASSUME AccountTypeOK, NEW h \in Handlers, ReadStep(h)
  PROVE  /\ Reads
         /\ req' \in [Handlers -> Request \cup {Idle}]
         /\ \A k \in Handlers \ {h} : req'[k] = req[k]
         /\ req'[h].op = "purge" => req[h].op = "purge" /\ req'[h].rest \subseteq req[h].rest
         /\ BanDecided(h)'
<1> USE DEF AdminOps, SelfOps, Loops
<1>1. ASSUME NEW u \in live, ReadApprove(h, u)
      PROVE  /\ Reads /\ req' \in [Handlers -> Request \cup {Idle}]
             /\ \A k \in Handlers \ {h} : req'[k] = req[k]
             /\ req'[h].op = "approve"
  BY <1>1, ReadRowTyped DEF ReadApprove, AccountTypeOK, Row
<1>2. ASSUME NEW u \in live, ReadUnban(h, u)
      PROVE  /\ Reads /\ req' \in [Handlers -> Request \cup {Idle}]
             /\ \A k \in Handlers \ {h} : req'[k] = req[k]
             /\ req'[h].op = "unban"
  BY <1>2, ReadRowTyped DEF ReadUnban, AccountTypeOK, Row
<1>3. ASSUME NEW u \in live, ReadBan(h, u)
      PROVE  /\ Reads /\ req' \in [Handlers -> Request \cup {Idle}]
             /\ \A k \in Handlers \ {h} : req'[k] = req[k]
             /\ req'[h].op = "ban" /\ req'[h].target = u
             /\ req'[h].bump \/ user[u].isBanned
             /\ user[u].role # "ADMIN"
  BY <1>3, ReadRowTyped, ZenonT(60) DEF ReadBan, AccountTypeOK, Row
<1>4. ASSUME NEW u \in live, ReadDemote(h, u)
      PROVE  /\ Reads /\ req' \in [Handlers -> Request \cup {Idle}]
             /\ \A k \in Handlers \ {h} : req'[k] = req[k]
             /\ req'[h].op = "demote"
  BY <1>4, ReadRowTyped DEF ReadDemote
<1>5. ASSUME NEW u \in live, ReadErase(h, u)
      PROVE  /\ Reads /\ req' \in [Handlers -> Request \cup {Idle}]
             /\ \A k \in Handlers \ {h} : req'[k] = req[k]
             /\ req'[h].op = "erase"
  BY <1>5, ReadRowTyped DEF ReadErase
<1>6. ASSUME NEW u \in live, ReadSchedule(h, u)
      PROVE  /\ Reads /\ req' \in [Handlers -> Request \cup {Idle}]
             /\ \A k \in Handlers \ {h} : req'[k] = req[k]
             /\ req'[h].op = "schedule"
  BY <1>6, ReadRowTyped DEF ReadSchedule
<1>7. ASSUME NEW u \in live, ReadCancel(h, u)
      PROVE  /\ Reads /\ req' \in [Handlers -> Request \cup {Idle}]
             /\ \A k \in Handlers \ {h} : req'[k] = req[k]
             /\ req'[h].op = "cancel"
  BY <1>7, ReadRowTyped DEF ReadCancel
<1>8. CASE CountAdmins(h) \/ CountOthers(h)
  <2>1. /\ req[h].op \in {"demote", "erase", "schedule"} /\ req[h].at = "count" /\ Reads
        /\ Step(h, Decided(req[h].op, "write", req[h].target, req[h].bump, req[h].rest))
    BY <1>8 DEF CountAdmins, CountOthers, At
  <2>2. req[h].target \in Users /\ req[h].bump \in BOOLEAN /\ req[h].rest \in SUBSET Users
    BY <2>1, BusyTyped
  <2>3. /\ req' \in [Handlers -> Request \cup {Idle}]
        /\ \A k \in Handlers \ {h} : req'[k] = req[k]
        /\ req'[h].op = req[h].op
    BY <2>1, <2>2, DecidedTyped, ZenonT(60)
  <2>4. QED
    BY <2>1, <2>3 DEF BanDecided, At
<1>9. CASE Fail(h)
  <2>1. req[h].op # "idle"
    BY <1>9 DEF Fail, AccountTypeOK, Request
  <2>2. PICK S \in SUBSET req[h].rest : GoOn(h, S) /\ Reads
    BY <1>9 DEF Fail, Turn
  <2>3. S \in SUBSET Users
    BY <2>1, BusyTyped
  <2>4. /\ req' \in [Handlers -> Request \cup {Idle}]
        /\ \A k \in Handlers \ {h} : req'[k] = req[k]
        /\ req'[h] = Idle \/ (/\ req'[h].op = req[h].op /\ req'[h].at = "read"
                              /\ req'[h].rest = S)
    BY <2>1, <2>2, <2>3, GoOnTyped
  <2>5. QED
    BY <2>2, <2>4 DEF BanDecided, At, Idle, Working
<1>10. CASE \E u \in live : ReadBan(h, u)
  <2>1. PICK u \in live : ReadBan(h, u)
    BY <1>10
  <2>2. user' = user
    BY <1>3, <2>1 DEF Reads
  <2>3. BanDecided(h)'
    BY <1>3, <2>1, <2>2 DEF BanDecided, live
  <2>4. QED
    BY <1>3, <2>1, <2>3
<1>11. CASE \E u \in live : \/ ReadApprove(h, u) \/ ReadUnban(h, u) \/ ReadDemote(h, u)
                            \/ ReadErase(h, u) \/ ReadSchedule(h, u) \/ ReadCancel(h, u)
  <2>1. /\ Reads /\ req' \in [Handlers -> Request \cup {Idle}]
        /\ \A k \in Handlers \ {h} : req'[k] = req[k]
        /\ req'[h].op \in {"approve", "unban", "demote", "erase", "schedule", "cancel"}
    BY <1>1, <1>2, <1>4, <1>5, <1>6, <1>7, <1>11
  <2>2. QED
    BY <2>1 DEF BanDecided, At
<1>12. QED
  BY <1>8, <1>9, <1>10, <1>11 DEF ReadStep

\* What a write of one row leaves.
LEMMA RowWritten ==
  ASSUME AccountTypeOK, NEW h \in Handlers, NEW op \in AdminOps \cup SelfOps, NEW row \in Row,
         WriteRow(h, op, row)
  PROVE  /\ req[h].op = op /\ req[h].target \in live
         /\ live' = live /\ user' \in [live -> Row]
         /\ user'[req[h].target] = row
         /\ \A v \in live \ {req[h].target} : user'[v] = user[v]
         /\ sessions' \subseteq sessions /\ loggingIn' \subseteq loggingIn
         /\ req[h].bump => req[h].target \notin sessions' \cup loggingIn'
         /\ req' \in [Handlers -> Request \cup {Idle}]
         /\ req'[h] = Idle \/ (req'[h].op = op /\ req'[h].at = "read")
         /\ \A k \in Handlers \ {h} : req'[k] = req[k]
<1>1. req[h].op # "idle" /\ req[h].op = op
  BY AtBusy DEF WriteRow, At
<1>2. req[h].rest \in SUBSET Users
  BY <1>1, BusyTyped
<1>3. GoOn(h, req[h].rest)
  BY DEF WriteRow
<1>4. /\ req' \in [Handlers -> Request \cup {Idle}]
      /\ req'[h] = Idle \/ (req'[h].op = req[h].op /\ req'[h].at = "read")
      /\ \A k \in Handlers \ {h} : req'[k] = req[k]
  BY <1>1, <1>2, <1>3, GoOnTyped
<1>5. /\ req[h].target \in live
      /\ user' = [user EXCEPT ![req[h].target] = row]
      /\ user \in [live -> Row]
  BY DEF WriteRow, Update, AccountTypeOK
<1>6. /\ live' = live /\ user' \in [live -> Row]
      /\ user'[req[h].target] = row
      /\ \A v \in live \ {req[h].target} : user'[v] = user[v]
  BY <1>5 DEF live
<1>7. /\ sessions' \subseteq sessions /\ loggingIn' \subseteq loggingIn
      /\ req[h].bump => req[h].target \notin sessions' \cup loggingIn'
  BY DEF WriteRow, Update, Revoke
<1>8. QED
  BY <1>1, <1>4, <1>5, <1>6, <1>7

(***************************************************************************)
(* What a write does to the row it stores: it makes nobody an              *)
(* administrator, bans only by a ban, lets nobody wait for approval again, *)
(* and sets no date but for who asks.                                      *)
(***************************************************************************)
Changes(h, op, row) ==
  LET u == req[h].target
  IN  /\ row.role \in {user[u].role, "USER"}
      /\ user[u].isApproved => row.isApproved
      /\ row.isBanned => user[u].isBanned \/ op = "ban"
      /\ op = "ban" => row.isBanned /\ row.role = user[u].role

Dates(h, row) ==
  LET u == req[h].target
  IN  \/ /\ row.deletion = user[u].deletion
         /\ asked' = asked /\ earlier' = earlier
      \/ /\ row.deletion = "null"
         /\ asked' = asked /\ earlier' = WithoutDate(u)
      \/ /\ row.deletion = "ahead"
         /\ asked' = asked \cup {u}
         /\ earlier' = WithoutDate(u) \cup {<<v, u>> : v \in Scheduled \ {u}}

Others(h) == unused' = unused /\ bootstrap' \in {bootstrap, NoUser, req[h].target}

LEMMA WriteTyped ==
  ASSUME AccountTypeOK, NEW h \in Handlers, WriteStep(h)
  PROVE  \E op \in AdminOps \cup SelfOps, row \in Row :
           WriteRow(h, op, row) /\ Changes(h, op, row) /\ Dates(h, row) /\ Others(h)
<1> DEFINE r == Stored(h)
<1>0. ASSUME NEW op, NEW row, WriteRow(h, op, row)
      PROVE  r \in Row
  BY <1>0 DEF WriteRow, Update, AccountTypeOK, Stored
<1>1. CASE WriteApprove(h)
  <2> DEFINE row == [r EXCEPT !.isApproved = TRUE]
  <2>1. r \in Row /\ WriteRow(h, "approve", row)
    BY <1>0, <1>1 DEF WriteApprove
  <2>2. row \in Row /\ Changes(h, "approve", row)
    BY <2>1 DEF Changes, Row, Stored
  <2>3. Dates(h, row)
    BY <1>1, <2>1 DEF WriteApprove, Dates, Row, Stored
  <2>4. Others(h)
    BY <1>1 DEF WriteApprove, Others
  <2>5. "approve" \in AdminOps \cup SelfOps
    BY DEF AdminOps, SelfOps, Loops
  <2> HIDE DEF row
  <2>6. QED
    BY <2>1, <2>2, <2>3, <2>4, <2>5
<1>2. CASE WriteBan(h)
  <2> DEFINE row == [r EXCEPT !.isBanned = TRUE]
  <2>1. r \in Row /\ WriteRow(h, "ban", row)
    BY <1>0, <1>2 DEF WriteBan
  <2>2. row \in Row /\ Changes(h, "ban", row)
    BY <2>1 DEF Changes, Row, Stored
  <2>3. Dates(h, row)
    BY <1>2, <2>1 DEF WriteBan, Dates, Row, Stored
  <2>4. Others(h)
    BY <1>2 DEF WriteBan, Others
  <2>5. "ban" \in AdminOps \cup SelfOps
    BY DEF AdminOps, SelfOps, Loops
  <2> HIDE DEF row
  <2>6. QED
    BY <2>1, <2>2, <2>3, <2>4, <2>5
<1>3. CASE WriteUnban(h)
  <2> DEFINE row == [r EXCEPT !.isBanned = FALSE]
  <2>1. r \in Row /\ WriteRow(h, "unban", row)
    BY <1>0, <1>3 DEF WriteUnban
  <2>2. row \in Row /\ Changes(h, "unban", row)
    BY <2>1 DEF Changes, Row, Stored
  <2>3. Dates(h, row)
    BY <1>3, <2>1 DEF WriteUnban, Dates, Row, Stored
  <2>4. Others(h)
    BY <1>3 DEF WriteUnban, Others
  <2>5. "unban" \in AdminOps \cup SelfOps
    BY DEF AdminOps, SelfOps, Loops
  <2> HIDE DEF row
  <2>6. QED
    BY <2>1, <2>2, <2>3, <2>4, <2>5
<1>4. CASE WriteDemote(h)
  <2> DEFINE row == [r EXCEPT !.role = "USER"]
  <2>1. r \in Row /\ WriteRow(h, "demote", row)
    BY <1>0, <1>4 DEF WriteDemote
  <2>2. row \in Row /\ Changes(h, "demote", row)
    BY <2>1 DEF Changes, Row, Stored
  <2>3. Dates(h, row)
    BY <1>4, <2>1 DEF WriteDemote, Dates, Row, Stored
  <2>4. Others(h)
    BY <1>4 DEF WriteDemote, Others
  <2>5. "demote" \in AdminOps \cup SelfOps
    BY DEF AdminOps, SelfOps, Loops
  <2> HIDE DEF row
  <2>6. QED
    BY <2>1, <2>2, <2>3, <2>4, <2>5
<1>5. CASE WriteSchedule(h)
  <2> DEFINE row == [r EXCEPT !.deletion = "ahead"]
  <2>1. r \in Row /\ WriteRow(h, "schedule", row)
    BY <1>0, <1>5 DEF WriteSchedule
  <2>2. row \in Row /\ Changes(h, "schedule", row)
    BY <2>1 DEF Changes, Row, Stored
  <2>3. Dates(h, row)
    BY <1>5, <2>1 DEF WriteSchedule, Dates, Row, Stored
  <2>4. Others(h)
    BY <1>5 DEF WriteSchedule, Others
  <2>5. "schedule" \in AdminOps \cup SelfOps
    BY DEF AdminOps, SelfOps, Loops
  <2> HIDE DEF row
  <2>6. QED
    BY <2>1, <2>2, <2>3, <2>4, <2>5
<1>6. CASE WriteCancel(h)
  <2> DEFINE row == [r EXCEPT !.deletion = "null"]
  <2>1. r \in Row /\ WriteRow(h, "cancel", row)
    BY <1>0, <1>6 DEF WriteCancel
  <2>2. row \in Row /\ Changes(h, "cancel", row)
    BY <2>1 DEF Changes, Row, Stored
  <2>3. Dates(h, row)
    BY <1>6, <2>1 DEF WriteCancel, Dates, Row, Stored
  <2>4. Others(h)
    BY <1>6 DEF WriteCancel, Others
  <2>5. "cancel" \in AdminOps \cup SelfOps
    BY DEF AdminOps, SelfOps, Loops
  <2> HIDE DEF row
  <2>6. QED
    BY <2>1, <2>2, <2>3, <2>4, <2>5
<1>7. CASE WritePassword(h)
  <2> DEFINE row == r
  <2>1. r \in Row /\ WriteRow(h, "password", row)
    BY <1>0, <1>7 DEF WritePassword
  <2>2. row \in Row /\ Changes(h, "password", row)
    BY <2>1 DEF Changes, Row, Stored
  <2>3. Dates(h, row)
    BY <1>7, <2>1 DEF WritePassword, Dates, Row, Stored
  <2>4. Others(h)
    BY <1>7 DEF WritePassword, Others
  <2>5. "password" \in AdminOps \cup SelfOps
    BY DEF AdminOps, SelfOps, Loops
  <2> HIDE DEF row
  <2>6. QED
    BY <2>1, <2>2, <2>3, <2>4, <2>5
<1>8. CASE WriteEmail(h)
  <2> DEFINE row == r
  <2>1. r \in Row /\ WriteRow(h, "email", row)
    BY <1>0, <1>8 DEF WriteEmail
  <2>2. row \in Row /\ Changes(h, "email", row)
    BY <2>1 DEF Changes, Row, Stored
  <2>3. Dates(h, row)
    BY <1>8, <2>1 DEF WriteEmail, Dates, Row, Stored
  <2>4. Others(h)
    BY <1>8 DEF WriteEmail, Others
  <2>5. "email" \in AdminOps \cup SelfOps
    BY DEF AdminOps, SelfOps, Loops
  <2> HIDE DEF row
  <2>6. QED
    BY <2>1, <2>2, <2>3, <2>4, <2>5
<1>9. QED
  BY <1>1, <1>2, <1>3, <1>4, <1>5, <1>6, <1>7, <1>8 DEF WriteStep

\* The erasure of an account, by an administrator or the purge.
LEMMA EraseTyped ==
  ASSUME AccountTypeOK, NEW h \in Handlers, EraseStep(h)
  PROVE  \E u \in live :
           /\ live' = live \ {u} /\ user' \in [live' -> Row]
           /\ \A v \in live' : user'[v] = user[v]
           /\ ErasedByAdmin(u) \/ (req[h].op = "purge" /\ u \in req[h].rest)
           /\ unused' = unused /\ asked' = asked
           /\ earlier' = WithoutDate(u)
           /\ bootstrap' \in live' \cup {NoUser, Unset}
           /\ sessions' = sessions \ {u} /\ loggingIn' = loggingIn \ {u}
           /\ req' \in [Handlers -> Request \cup {Idle}]
           /\ \/ req'[h] = Idle
              \/ /\ req'[h].op = "purge" /\ req[h].op = "purge" /\ req'[h].at = "read"
                 /\ req'[h].rest = req[h].rest \ {u}
           /\ \A k \in Handlers \ {h} : req'[k] = req[k]
<1>1. ASSUME NEW u, Erase(u)
      PROVE  /\ u \in live /\ live' = live \ {u} /\ user' \in [live' -> Row]
             /\ \A v \in live' : user'[v] = user[v]
             /\ unused' = unused /\ asked' = asked
             /\ earlier' = WithoutDate(u)
             /\ bootstrap' \in live' \cup {NoUser, Unset}
             /\ sessions' = sessions \ {u} /\ loggingIn' = loggingIn \ {u}
  BY <1>1 DEF Erase, Revoke, live, AccountTypeOK
<1>2. CASE WriteErase(h)
  <2>1. /\ Erase(req[h].target) /\ At(h, "erase", "write")
        /\ req' = [req EXCEPT ![h] = Idle]
    BY <1>2 DEF WriteErase, Step
  <2>2. /\ req' \in [Handlers -> Request \cup {Idle}] /\ req'[h] = Idle
        /\ \A k \in Handlers \ {h} : req'[k] = req[k]
    BY <2>1, StepTyped
  <2>3. ErasedByAdmin(req[h].target)
    BY <2>1 DEF ErasedByAdmin
  <2>4. QED
    BY <1>1, <2>1, <2>2, <2>3
<1>3. CASE \E u \in live : PurgeOne(h, u)
  <2>1. PICK u \in live : PurgeOne(h, u)
    BY <1>3
  <2>2. /\ req[h].op = "purge" /\ u \in req[h].rest /\ Erase(u)
        /\ GoOn(h, req[h].rest \ {u})
    BY <2>1 DEF PurgeOne, At, Turn
  <2>3. req[h].rest \ {u} \in SUBSET Users
    BY <2>2, BusyTyped
  <2>4. /\ req' \in [Handlers -> Request \cup {Idle}]
        /\ req'[h] = Idle \/ (/\ req'[h].op = "purge" /\ req'[h].at = "read"
                              /\ req'[h].rest = req[h].rest \ {u})
        /\ \A k \in Handlers \ {h} : req'[k] = req[k]
    BY <2>2, <2>3, GoOnTyped
  <2>5. QED
    BY <1>1, <2>2, <2>4
<1>4. QED
  BY <1>2, <1>3 DEF EraseStep

--------------------------------------------------------------------------------
(***************************************************************************)
(* However requests interleave.  The role of an administrator is given     *)
(* only at the start of the server, which ends every request: so no ban    *)
(* that has read a row meets an administrator when it writes.  A date is   *)
(* set only for the account that asks, and a purge lists only accounts     *)
(* with a date: so all that it lists have asked.                           *)
(***************************************************************************)
BansSpareAdmins ==
  \A h \in Handlers :
    At(h, "ban", "write") /\ req[h].target \in live => user[req[h].target].role # "ADMIN"

DatesAreAsked == Scheduled \subseteq asked

PurgesAreAsked == \A h \in Handlers : req[h].op = "purge" => req[h].rest \subseteq asked

IInv ==
  /\ AccountTypeOK
  /\ AdminsAreNotBanned
  /\ BansSpareAdmins
  /\ DatesAreAsked
  /\ PurgesAreAsked

\* The empty table.
LEMMA InitHolds ==
  ASSUME AccountInit
  PROVE  IInv
<1>1. live = {}
  BY DEF AccountInit, live
<1>2. AccountTypeOK
  BY <1>1 DEF AccountInit, AccountTypeOK, Scheduled
<1>3. \A h \in Handlers : req[h].op = "idle"
  BY DEF AccountInit, Idle, Working
<1>4. QED
  BY <1>1, <1>2, <1>3 DEF IInv, AdminsAreNotBanned, Admins, BansSpareAdmins, DatesAreAsked,
                          Scheduled, PurgesAreAsked, At

\* A step that leaves the rows alone: it begins a request, reads, or ends one.
LEMMA ReadKeeps ==
  ASSUME IInv, NEW h \in Handlers, Begin(h) \/ ReadStep(h)
  PROVE  IInv' /\ live' = live
<1>1. /\ Reads /\ req' \in [Handlers -> Request \cup {Idle}]
      /\ \A k \in Handlers \ {h} : req'[k] = req[k]
      /\ req'[h].op = "purge" => \/ req[h].op = "purge" /\ req'[h].rest \subseteq req[h].rest
                                \/ req'[h].rest \subseteq Due
      /\ ~At(h, "ban", "write")' \/ BanDecided(h)'
  BY BeginTyped, ReadTyped DEF IInv, At
<1>2. live' = live /\ AccountTypeOK'
  BY <1>1 DEF IInv, Reads, AccountTypeOK, live, Scheduled, tokens
<1>3. AdminsAreNotBanned' /\ DatesAreAsked'
  BY <1>1 DEF IInv, Reads, AdminsAreNotBanned, Admins, DatesAreAsked, Scheduled, live
<1>4. BansSpareAdmins'
  BY <1>1 DEF IInv, Reads, BansSpareAdmins, BanDecided, At, live
<1>5. PurgesAreAsked'
  BY <1>1 DEF IInv, Reads, PurgesAreAsked, DatesAreAsked, Scheduled, Due
<1>6. QED
  BY <1>2, <1>3, <1>4, <1>5 DEF IInv

\* A step that writes a row.
LEMMA WriteKeeps ==
  ASSUME IInv, NEW h \in Handlers, WriteStep(h)
  PROVE  IInv' /\ live' = live
<1> DEFINE u == req[h].target
<1>1. PICK op \in AdminOps \cup SelfOps, row \in Row :
        WriteRow(h, op, row) /\ Changes(h, op, row) /\ Dates(h, row) /\ Others(h)
  BY WriteTyped DEF IInv
<1>2. /\ req[h].op = op /\ u \in live
      /\ live' = live /\ user' \in [live -> Row]
      /\ user'[u] = row
      /\ \A v \in live \ {u} : user'[v] = user[v]
      /\ sessions' \subseteq sessions /\ loggingIn' \subseteq loggingIn
      /\ req' \in [Handlers -> Request \cup {Idle}]
      /\ req'[h] = Idle \/ (req'[h].op = op /\ req'[h].at = "read")
      /\ \A k \in Handlers \ {h} : req'[k] = req[k]
  BY <1>1, RowWritten DEF IInv
<1>3. At(h, op, "write") /\ op # "purge"
  BY <1>1 DEF WriteRow, AdminOps, Loops, SelfOps
<1>4. asked' \in {asked, asked \cup {u}} /\ asked' \subseteq Users
  BY <1>1, <1>2 DEF Dates, IInv, AccountTypeOK
<1>5. earlier' \subseteq Scheduled' \X Scheduled' /\ Scheduled' \subseteq asked'
  <2>1. CASE /\ row.deletion = user[u].deletion
             /\ asked' = asked /\ earlier' = earlier
    <3>1. Scheduled' = Scheduled
      BY <1>2, <2>1 DEF Scheduled
    <3>2. QED
      BY <2>1, <3>1 DEF IInv, AccountTypeOK, DatesAreAsked
  <2>2. CASE /\ row.deletion = "null"
             /\ asked' = asked /\ earlier' = WithoutDate(u)
    <3>1. Scheduled' = Scheduled \ {u}
      BY <1>2, <2>2 DEF Scheduled
    <3>2. QED
      BY <2>2, <3>1 DEF IInv, AccountTypeOK, DatesAreAsked, WithoutDate
  <2>3. CASE /\ row.deletion = "ahead"
             /\ asked' = asked \cup {u}
             /\ earlier' = WithoutDate(u) \cup {<<v, u>> : v \in Scheduled \ {u}}
    <3>1. Scheduled' = Scheduled \cup {u}
      BY <1>2, <2>3 DEF Scheduled
    <3>2. QED
      BY <2>3, <3>1 DEF IInv, AccountTypeOK, DatesAreAsked, WithoutDate
  <2>4. QED
    BY <1>1, <2>1, <2>2, <2>3 DEF Dates
<1>6. AccountTypeOK'
  BY <1>1, <1>2, <1>4, <1>5 DEF IInv, AccountTypeOK, Others
<1>7. AdminsAreNotBanned'
  <2>1. row.role = "ADMIN" => ~row.isBanned
    BY <1>1, <1>2, <1>3 DEF Changes, IInv, AdminsAreNotBanned, Admins, BansSpareAdmins
  <2>2. QED
    BY <1>2, <2>1 DEF IInv, AdminsAreNotBanned, Admins
<1>8. BansSpareAdmins'
  <2>1. \A v \in live : user'[v].role = "ADMIN" => user[v].role = "ADMIN"
    BY <1>1, <1>2 DEF Changes
  <2>2. QED
    BY <1>2, <2>1 DEF IInv, BansSpareAdmins, At, Idle, Working
<1>9. PurgesAreAsked'
  BY <1>2, <1>3, <1>4 DEF IInv, PurgesAreAsked, Idle, Working
<1>10. QED
  BY <1>2, <1>5, <1>6, <1>7, <1>8, <1>9 DEF IInv, DatesAreAsked

\* A step that erases an account.
LEMMA EraseKeeps ==
  ASSUME IInv, NEW h \in Handlers, EraseStep(h)
  PROVE  IInv' /\ \A u \in live \ live' : ErasedByAdmin(u) \/ u \in asked
<1>1. PICK u \in live :
        /\ live' = live \ {u} /\ user' \in [live' -> Row]
        /\ \A v \in live' : user'[v] = user[v]
        /\ ErasedByAdmin(u) \/ (req[h].op = "purge" /\ u \in req[h].rest)
        /\ unused' = unused /\ asked' = asked
        /\ earlier' = WithoutDate(u)
        /\ bootstrap' \in live' \cup {NoUser, Unset}
        /\ sessions' = sessions \ {u} /\ loggingIn' = loggingIn \ {u}
        /\ req' \in [Handlers -> Request \cup {Idle}]
        /\ \/ req'[h] = Idle
           \/ /\ req'[h].op = "purge" /\ req[h].op = "purge" /\ req'[h].at = "read"
              /\ req'[h].rest = req[h].rest \ {u}
        /\ \A k \in Handlers \ {h} : req'[k] = req[k]
  BY EraseTyped DEF IInv
<1>2. Scheduled' = Scheduled \ {u}
  BY <1>1 DEF Scheduled
<1>3. AccountTypeOK' /\ DatesAreAsked'
  BY <1>1, <1>2 DEF IInv, AccountTypeOK, WithoutDate, DatesAreAsked
<1>4. AdminsAreNotBanned'
  BY <1>1 DEF IInv, AdminsAreNotBanned, Admins
<1>5. BansSpareAdmins'
  BY <1>1 DEF IInv, BansSpareAdmins, At, Idle, Working
<1>6. PurgesAreAsked'
  BY <1>1 DEF IInv, PurgesAreAsked, Idle, Working
<1>7. ErasedByAdmin(u) \/ u \in asked
  BY <1>1 DEF IInv, PurgesAreAsked
<1>8. QED
  BY <1>1, <1>3, <1>4, <1>5, <1>6, <1>7 DEF IInv

\* A new row, by a registration or at the start of the server.
LEMMA InsertTyped ==
  ASSUME AccountTypeOK, NEW u \in unused, NEW row \in Row, row.deletion = "null", Insert(u, row)
  PROVE  /\ live' = live \cup {u} /\ u \in Users \ live
         /\ user' \in [live' -> Row] /\ user'[u] = row
         /\ \A v \in live : user'[v] = user[v]
         /\ unused' = unused \ {u} /\ Scheduled' = Scheduled
<1>1. u \in Users /\ u \notin live
  BY DEF AccountTypeOK
<1>2. live' = live \cup {u} /\ unused' = unused \ {u}
  BY DEF Insert, live
<1>3. user' = [v \in live \cup {u} |-> IF v = u THEN row ELSE user[v]]
  BY DEF Insert
<1>4. /\ user' \in [live' -> Row] /\ user'[u] = row
      /\ \A v \in live : user'[v] = user[v]
  BY <1>1, <1>2, <1>3 DEF AccountTypeOK
<1>5. QED
  BY <1>1, <1>2, <1>4 DEF Scheduled

\* A registration gives nobody a role or a date.
LEMMA RegisterKeeps ==
  ASSUME IInv, NEW u \in Users, Register(u)
  PROVE  IInv' /\ live \subseteq live'
<1>1. NewUser \in Row /\ NewUser.deletion = "null" /\ NewUser.role # "ADMIN"
  BY DEF NewUser, Row
<1>2. /\ live' = live \cup {u} /\ u \in Users \ live
      /\ user' \in [live' -> Row] /\ user'[u] = NewUser
      /\ \A v \in live : user'[v] = user[v]
      /\ unused' = unused \ {u} /\ Scheduled' = Scheduled
  BY <1>1, InsertTyped DEF Register, IInv
<1>3. AccountTypeOK' /\ DatesAreAsked'
  BY <1>2 DEF IInv, AccountTypeOK, DatesAreAsked, Register, tokens
<1>4. AdminsAreNotBanned'
  BY <1>1, <1>2 DEF IInv, AdminsAreNotBanned, Admins
<1>5. BansSpareAdmins' /\ PurgesAreAsked'
  BY <1>1, <1>2 DEF IInv, BansSpareAdmins, PurgesAreAsked, Register, At
<1>6. QED
  BY <1>2, <1>3, <1>4, <1>5 DEF IInv

\* A date that passes is one that was asked for.
LEMMA DateKeeps ==
  ASSUME IInv, NEW u \in Users, DatePasses(u)
  PROVE  IInv' /\ live \subseteq live'
<1>1. u \in live /\ u \in Scheduled /\ user \in [live -> Row]
  BY DEF DatePasses, Scheduled, IInv, AccountTypeOK
<1> DEFINE row == [user[u] EXCEPT !.deletion = "passed"]
<1>2. row \in Row /\ row.deletion = "passed" /\ row.role = user[u].role
      /\ row.isBanned = user[u].isBanned
  BY <1>1 DEF Row
<1>3. user' = [user EXCEPT ![u] = row]
  BY DEF DatePasses
<1> HIDE DEF row
<1>4. /\ live' = live /\ user' \in [live -> Row] /\ user'[u] = row
      /\ \A v \in live \ {u} : user'[v] = user[v]
  BY <1>1, <1>2, <1>3 DEF live
<1>5. Scheduled' = Scheduled
  BY <1>1, <1>2, <1>4 DEF Scheduled
<1>6. AccountTypeOK' /\ DatesAreAsked'
  BY <1>4, <1>5 DEF IInv, AccountTypeOK, DatesAreAsked, DatePasses, tokens
<1>7. AdminsAreNotBanned' /\ BansSpareAdmins' /\ PurgesAreAsked'
  BY <1>2, <1>4 DEF IInv, AdminsAreNotBanned, Admins, BansSpareAdmins, PurgesAreAsked, At,
                    DatePasses
<1>8. QED
  BY <1>4, <1>6, <1>7 DEF IInv

\* A login changes no row.
LEMMA LoginKeeps ==
  ASSUME IInv, NEW u \in Users, BeginLogin(u) \/ SignToken(u) \/ EndLogin(u)
  PROVE  IInv' /\ live' = live
<1>1. /\ user' = user /\ unused' = unused /\ earlier' = earlier
      /\ bootstrap' = bootstrap /\ asked' = asked /\ req' = req
      /\ sessions' \subseteq live /\ loggingIn' \subseteq live
  BY DEF BeginLogin, SignToken, EndLogin, IInv, AccountTypeOK
<1>2. live' = live /\ Scheduled' = Scheduled /\ Admins' = Admins
  BY <1>1 DEF live, Scheduled, Admins
<1>3. QED
  BY <1>1, <1>2 DEF IInv, AccountTypeOK, AdminsAreNotBanned, BansSpareAdmins, DatesAreAsked,
                    PurgesAreAsked, At

\* The row that the start of the server leaves.
LEMMA RepairedTyped ==
  ASSUME NEW r \in Row
  PROVE  /\ Repaired(r) \in Row /\ Repaired(r).deletion = r.deletion
         /\ Repaired(r).role = "ADMIN"
         /\ Repaired(r).isApproved /\ ~Repaired(r).isBanned
         /\ Sound(r) => Repaired(r).isApproved = r.isApproved /\ Repaired(r).isBanned = r.isBanned
  BY DEF Repaired, Sound, Row

\* After the start of the server each row is as before, or that of a sound administrator.
LEMMA RestartTyped ==
  ASSUME AccountTypeOK, Restart
  PROVE  /\ live \subseteq live' /\ live' \subseteq Users /\ user' \in [live' -> Row]
         /\ \A v \in live' : (v \in live /\ user'[v] = user[v])
                             \/ (user'[v].isApproved /\ ~user'[v].isBanned)
         /\ Scheduled' = Scheduled
         /\ unused' \subseteq Users \ live'
         /\ sessions' \subseteq sessions /\ bootstrap' \in live' \cup {NoUser, Unset}
<1>1. CASE /\ bootstrap' = Unset
           /\ UNCHANGED <<user, unused, sessions>>
  <2>1. live' = live /\ Scheduled' = Scheduled
    BY <1>1 DEF live, Scheduled
  <2>2. QED
    BY <1>1, <2>1 DEF AccountTypeOK
<1>2. CASE \E u \in live :
             /\ bootstrap' = u
             /\ user' = [user EXCEPT ![u] = Repaired(@)]
             /\ sessions' = IF Sound(user[u]) THEN sessions ELSE sessions \ {u}
             /\ UNCHANGED unused
  <2>1. PICK u \in live :
          /\ bootstrap' = u
          /\ user' = [user EXCEPT ![u] = Repaired(@)]
          /\ sessions' = IF Sound(user[u]) THEN sessions ELSE sessions \ {u}
          /\ UNCHANGED unused
    BY <1>2
  <2> DEFINE row == Repaired(user[u])
  <2>2. /\ user[u] \in Row /\ row \in Row /\ row.deletion = user[u].deletion
        /\ row.isApproved /\ ~row.isBanned
    BY RepairedTyped DEF AccountTypeOK
  <2>3. user' = [user EXCEPT ![u] = row]
    BY <2>1
  <2> HIDE DEF row
  <2>4. /\ live' = live /\ user' \in [live -> Row] /\ user'[u] = row
        /\ \A v \in live \ {u} : user'[v] = user[v]
    BY <2>2, <2>3 DEF live, AccountTypeOK
  <2>5. Scheduled' = Scheduled
    BY <2>2, <2>4 DEF Scheduled
  <2>6. QED
    BY <2>1, <2>2, <2>4, <2>5 DEF AccountTypeOK
<1>3. CASE \E u \in unused :
             /\ bootstrap' = u
             /\ Insert(u, Repaired(NewUser))
             /\ UNCHANGED sessions
  <2>1. PICK u \in unused :
          /\ bootstrap' = u
          /\ Insert(u, Repaired(NewUser))
          /\ UNCHANGED sessions
    BY <1>3
  <2> DEFINE row == Repaired(NewUser)
  <2>2. NewUser \in Row /\ NewUser.deletion = "null"
    BY DEF NewUser, Row
  <2>3. /\ row \in Row /\ row.deletion = "null"
        /\ row.isApproved /\ ~row.isBanned
    BY <2>2, RepairedTyped
  <2>4. Insert(u, row)
    BY <2>1
  <2> HIDE DEF row
  <2>5. /\ live' = live \cup {u} /\ u \in Users \ live
        /\ user' \in [live' -> Row] /\ user'[u] = row
        /\ \A v \in live : user'[v] = user[v]
        /\ unused' = unused \ {u} /\ Scheduled' = Scheduled
    BY <2>3, <2>4, InsertTyped
  <2>6. QED
    BY <2>1, <2>3, <2>5 DEF AccountTypeOK
<1>4. QED
  BY <1>1, <1>2, <1>3 DEF Restart

\* The start of the server ends every request, and unbans whom it makes administrator.
LEMMA RestartKeeps ==
  ASSUME IInv, Restart
  PROVE  IInv' /\ live \subseteq live'
<1>1. /\ live \subseteq live' /\ live' \subseteq Users /\ user' \in [live' -> Row]
      /\ \A v \in live' : (v \in live /\ user'[v] = user[v])
                          \/ (user'[v].isApproved /\ ~user'[v].isBanned)
      /\ Scheduled' = Scheduled
      /\ unused' \subseteq Users \ live'
      /\ sessions' \subseteq sessions /\ bootstrap' \in live' \cup {NoUser, Unset}
  BY RestartTyped DEF IInv
<1>2. /\ req' = [h \in Handlers |-> Idle] /\ loggingIn' = {}
      /\ earlier' = earlier /\ asked' = asked
  BY DEF Restart
<1>3. AccountTypeOK' /\ DatesAreAsked'
  BY <1>1, <1>2 DEF IInv, AccountTypeOK, DatesAreAsked
<1>4. AdminsAreNotBanned'
  BY <1>1 DEF IInv, AdminsAreNotBanned, Admins
<1>5. BansSpareAdmins' /\ PurgesAreAsked'
  BY <1>2 DEF BansSpareAdmins, PurgesAreAsked, At, Idle, Working
<1>6. QED
  BY <1>1, <1>3, <1>4, <1>5 DEF IInv

\* Every step keeps the invariant and erases only what IInv allows.
LEMMA NextKeeps ==
  ASSUME IInv, [AccountNext]_accountVars
  PROVE  IInv' /\ \A u \in live \ live' : ErasedByAdmin(u) \/ u \in asked
<1>1. CASE \E h \in Handlers : Begin(h) \/ Proceed(h) \/ Fail(h)
  BY <1>1, StepKinds, ReadKeeps, WriteKeeps, EraseKeeps
<1>2. CASE Elsewhere
  BY <1>2, RegisterKeeps, DateKeeps, LoginKeeps, RestartKeeps DEF Elsewhere
<1>3. CASE UNCHANGED accountVars
  <2>1. /\ user' = user /\ unused' = unused /\ earlier' = earlier /\ sessions' = sessions
        /\ loggingIn' = loggingIn /\ bootstrap' = bootstrap /\ asked' = asked /\ req' = req
    BY <1>3 DEF accountVars
  <2>2. live' = live /\ Scheduled' = Scheduled /\ Admins' = Admins
    BY <2>1 DEF live, Scheduled, Admins
  <2>3. QED
    BY <2>1, <2>2 DEF IInv, AccountTypeOK, AdminsAreNotBanned, BansSpareAdmins, DatesAreAsked,
                      PurgesAreAsked, At
<1>4. QED
  BY <1>1, <1>2, <1>3 DEF AccountNext

\* AccountTypeOK and what the invariant adds to it hold at all times.
THEOREM Invariance == AccountSpec => []IInv
<1>1. AccountInit => IInv
  BY InitHolds
<1>2. IInv /\ [AccountNext]_accountVars => IInv'
  BY NextKeeps
<1>3. QED
  BY <1>1, <1>2, PTL DEF AccountSpec

\* Rows, tokens and requests in flight keep their types, whatever the server is asked.
THEOREM AccountTypeCorrect == AccountSpec => []AccountTypeOK
<1>1. IInv => AccountTypeOK
  BY DEF IInv
<1>2. QED
  BY <1>1, Invariance, PTL

\* No administrator is banned: not by a ban in flight, nor by one before the account was
\* made an administrator when the server started.
THEOREM AdminsAreNeverBanned == AccountSpec => []AdminsAreNotBanned
<1>1. IInv => AdminsAreNotBanned
  BY DEF IInv
<1>2. QED
  BY <1>1, Invariance, PTL

\* An account is erased by an administrator, or after its owner has scheduled it.
THEOREM NobodyIsErasedUnasked == AccountSpec => ErasedByWill
<1>1. IInv /\ [AccountNext]_accountVars => [\A u \in live \ live' : ErasedByAdmin(u) \/ u \in asked]_accountVars
  BY NextKeeps
<1>2. QED
  BY <1>1, Invariance, PTL DEF AccountSpec, ErasedByWill

--------------------------------------------------------------------------------
(***************************************************************************)
(* One request at a time, with logins at any moment.  What a request has   *)
(* read is still so when it writes: a ban that does not increment          *)
(* tokenVersion writes to an account that is banned already and, by        *)
(* AllAllowed, has neither a session nor a login in flight; and what the   *)
(* purge still lists is due.                                               *)
(***************************************************************************)
Alone == \A h, k \in Handlers : req[h] # Idle /\ req[k] # Idle => h = k

AllAllowed ==
  \A u \in sessions \cup loggingIn : user[u].isApproved /\ ~user[u].isBanned

BansEndSessions == \A h \in Handlers : BanDecided(h)

PurgesAreDue == \A h \in Handlers : req[h].op = "purge" => req[h].rest \subseteq Due

SerialAccountInv ==
  /\ IInv
  /\ Alone
  /\ AllAllowed
  /\ BansEndSessions
  /\ PurgesAreDue

\* While one request goes on, no other begins.
LEMMA AloneKept ==
  ASSUME Alone, NEW h \in Handlers, Quiet \/ req[h] # Idle,
         \A k \in Handlers \ {h} : req'[k] = req[k]
  PROVE  Alone' /\ \A k \in Handlers \ {h} : req[k] = Idle /\ req'[k] = Idle
<1>1. \A k \in Handlers \ {h} : req[k] = Idle
  BY DEF Alone, Quiet
<1>2. \A k \in Handlers \ {h} : req'[k] = Idle
  BY <1>1
<1>3. Alone'
  BY <1>2 DEF Alone, Idle, Working
<1>4. QED
  BY <1>1, <1>2, <1>3

\* An idle request neither bans nor purges.
LEMMA IdleHarmless == Idle.op = "idle"
  BY DEF Idle, Working

\* The only request in flight begins, reads, or fails.
LEMMA SerialReadKeeps ==
  ASSUME SerialAccountInv, NEW h \in Handlers,
         (Quiet /\ Begin(h)) \/ (req[h] # Idle /\ ReadStep(h))
  PROVE  SerialAccountInv'
<1>1. IInv' /\ live' = live
  BY ReadKeeps DEF SerialAccountInv
<1>2. /\ Reads
      /\ \A k \in Handlers \ {h} : req'[k] = req[k]
      /\ req'[h].op = "purge" =>
           (req[h].op = "purge" /\ req'[h].rest \subseteq req[h].rest)
           \/ req'[h].rest \subseteq Due
      /\ ~At(h, "ban", "write")' \/ BanDecided(h)'
  BY BeginTyped, ReadTyped DEF SerialAccountInv, IInv, At
<1>3. Alone' /\ \A k \in Handlers \ {h} : req'[k] = Idle
  BY <1>2, AloneKept DEF SerialAccountInv
<1>4. AllAllowed' /\ Due' = Due
  BY <1>2 DEF SerialAccountInv, Reads, tokens, AllAllowed, Due, live
<1>5. BansEndSessions'
  BY <1>2, <1>3, IdleHarmless DEF BansEndSessions, BanDecided, At
<1>6. PurgesAreDue'
  BY <1>2, <1>3, <1>4, IdleHarmless DEF SerialAccountInv, PurgesAreDue
<1>7. QED
  BY <1>1, <1>3, <1>4, <1>5, <1>6 DEF SerialAccountInv

\* The only request in flight writes a row.
LEMMA SerialWriteKeeps ==
  ASSUME SerialAccountInv, NEW h \in Handlers, req[h] # Idle, WriteStep(h)
  PROVE  SerialAccountInv'
<1> DEFINE u == req[h].target
<1>1. PICK op \in AdminOps \cup SelfOps, row \in Row :
        WriteRow(h, op, row) /\ Changes(h, op, row)
  BY WriteTyped DEF SerialAccountInv, IInv
<1>2. /\ req[h].op = op /\ u \in live
      /\ user'[u] = row
      /\ \A v \in live \ {u} : user'[v] = user[v]
      /\ sessions' \subseteq sessions /\ loggingIn' \subseteq loggingIn
      /\ req[h].bump => u \notin sessions' \cup loggingIn'
      /\ req'[h] = Idle \/ (req'[h].op = op /\ req'[h].at = "read")
      /\ \A k \in Handlers \ {h} : req'[k] = req[k]
  BY <1>1, RowWritten DEF SerialAccountInv, IInv
<1>3. At(h, op, "write") /\ op # "purge"
  BY <1>1 DEF WriteRow, AdminOps, Loops, SelfOps
<1>4. IInv'
  BY WriteKeeps DEF SerialAccountInv
<1>5. Alone' /\ \A k \in Handlers \ {h} : req'[k] = Idle
  BY <1>2, AloneKept DEF SerialAccountInv
<1>6. AllAllowed'
  <2>1. /\ user[u].isApproved => row.isApproved
        /\ row.isBanned => user[u].isBanned \/ req[h].bump
    BY <1>1, <1>2, <1>3 DEF Changes, SerialAccountInv, BansEndSessions, BanDecided
  <2>2. sessions \subseteq live /\ loggingIn \subseteq live
    BY DEF SerialAccountInv, IInv, AccountTypeOK
  <2>3. QED
    BY <1>2, <2>1, <2>2 DEF SerialAccountInv, AllAllowed
<1>7. BansEndSessions' /\ PurgesAreDue'
  BY <1>2, <1>3, <1>5, IdleHarmless DEF BansEndSessions, BanDecided, PurgesAreDue, At
<1>8. QED
  BY <1>4, <1>5, <1>6, <1>7 DEF SerialAccountInv

\* The only request in flight erases an account.
LEMMA SerialEraseKeeps ==
  ASSUME SerialAccountInv, NEW h \in Handlers, req[h] # Idle, EraseStep(h)
  PROVE  SerialAccountInv' /\ \A u \in live \ live' : ErasedByAdmin(u) \/ u \in Due
<1>1. PICK u \in live :
        /\ live' = live \ {u}
        /\ \A v \in live' : user'[v] = user[v]
        /\ ErasedByAdmin(u) \/ (req[h].op = "purge" /\ u \in req[h].rest)
        /\ sessions' = sessions \ {u} /\ loggingIn' = loggingIn \ {u}
        /\ \/ req'[h] = Idle
           \/ /\ req'[h].op = "purge" /\ req[h].op = "purge" /\ req'[h].at = "read"
              /\ req'[h].rest = req[h].rest \ {u}
        /\ \A k \in Handlers \ {h} : req'[k] = req[k]
  BY EraseTyped DEF SerialAccountInv, IInv
<1>2. IInv'
  BY EraseKeeps DEF SerialAccountInv
<1>3. Alone' /\ \A k \in Handlers \ {h} : req'[k] = Idle
  BY <1>1, AloneKept DEF SerialAccountInv
<1>4. AllAllowed'
  BY <1>1 DEF SerialAccountInv, IInv, AccountTypeOK, AllAllowed
<1>5. BansEndSessions'
  BY <1>1, <1>3, IdleHarmless DEF BansEndSessions, BanDecided, At
<1>6. PurgesAreDue'
  <2>1. Due' = Due \ {u}
    BY <1>1 DEF Due
  <2>2. QED
    BY <1>1, <1>3, <2>1, IdleHarmless DEF SerialAccountInv, PurgesAreDue
<1>7. ErasedByAdmin(u) \/ u \in Due
  BY <1>1 DEF SerialAccountInv, PurgesAreDue
<1>8. QED
  BY <1>1, <1>2, <1>3, <1>4, <1>5, <1>6, <1>7 DEF SerialAccountInv

\* Registrations, dates, logins and the start of the server.
LEMMA SerialElsewhereKeeps ==
  ASSUME SerialAccountInv, Elsewhere
  PROVE  SerialAccountInv' /\ live \subseteq live'
<1>1. ASSUME NEW u \in Users, Register(u)
      PROVE  SerialAccountInv' /\ live \subseteq live'
  <2>1. NewUser \in Row /\ NewUser.deletion = "null"
    BY DEF NewUser, Row
  <2>2. /\ live' = live \cup {u} /\ u \in Users \ live
        /\ \A v \in live : user'[v] = user[v]
    BY <1>1, <2>1, InsertTyped DEF Register, SerialAccountInv, IInv
  <2>3. UNCHANGED <<tokens, req>>
    BY <1>1 DEF Register
  <2>4. AllAllowed' /\ BansEndSessions' /\ Alone'
    BY <2>2, <2>3 DEF SerialAccountInv, IInv, AccountTypeOK, AllAllowed, BansEndSessions, BanDecided, Alone, At,
                      tokens
  <2>5. Due \subseteq Due'
    BY <2>2 DEF Due
  <2>6. PurgesAreDue'
    BY <2>3, <2>5 DEF SerialAccountInv, PurgesAreDue
  <2>7. QED
    BY <1>1, <2>2, <2>4, <2>6, RegisterKeeps DEF SerialAccountInv
<1>2. ASSUME NEW u \in Users, DatePasses(u)
      PROVE  SerialAccountInv' /\ live \subseteq live'
  <2> DEFINE row == [user[u] EXCEPT !.deletion = "passed"]
  <2>1. u \in live /\ user \in [live -> Row]
    BY <1>2 DEF DatePasses, Scheduled, SerialAccountInv, IInv, AccountTypeOK
  <2>2. row.deletion = "passed" /\ row.isBanned = user[u].isBanned
        /\ row.isApproved = user[u].isApproved /\ row.role = user[u].role
    BY <2>1 DEF Row
  <2>3. user' = [user EXCEPT ![u] = row] /\ UNCHANGED <<tokens, req>>
    BY <1>2 DEF DatePasses
  <2> HIDE DEF row
  <2>4. /\ live' = live /\ user'[u] = row
        /\ \A v \in live \ {u} : user'[v] = user[v]
    BY <2>1, <2>3 DEF live
  <2>5. AllAllowed' /\ BansEndSessions' /\ Alone'
    <3>1. /\ row.isBanned = user[u].isBanned /\ row.isApproved = user[u].isApproved
          /\ row.role = user[u].role
      BY <2>2
    <3>2. AllAllowed' /\ Alone'
      BY <3>1, <2>3, <2>4 DEF SerialAccountInv, IInv, AccountTypeOK, AllAllowed, Alone, tokens
    <3>3. BansEndSessions'
      BY <3>1, <2>3, <2>4 DEF SerialAccountInv, BansEndSessions, BanDecided, At
    <3>4. QED
      BY <3>2, <3>3
  <2>6. Due \subseteq Due'
    BY <2>2, <2>4 DEF Due
  <2>7. PurgesAreDue'
    BY <2>3, <2>6 DEF SerialAccountInv, PurgesAreDue
  <2>8. QED
    BY <1>2, <2>4, <2>5, <2>7, DateKeeps DEF SerialAccountInv
<1>3. ASSUME NEW u \in Users, BeginLogin(u) \/ SignToken(u) \/ EndLogin(u)
      PROVE  SerialAccountInv' /\ live \subseteq live'
  <2>1. /\ user' = user /\ req' = req
        /\ sessions' \cup loggingIn' \subseteq sessions \cup loggingIn \cup {u}
        /\ u \in sessions' \cup loggingIn' =>
             \/ u \in sessions \cup loggingIn
             \/ user[u].isApproved /\ ~user[u].isBanned
    BY <1>3 DEF BeginLogin, SignToken, EndLogin
  <2>2. live' = live /\ Due' = Due
    BY <2>1 DEF live, Due
  <2>3. AllAllowed' /\ BansEndSessions' /\ Alone' /\ PurgesAreDue'
    BY <2>1, <2>2 DEF SerialAccountInv, AllAllowed, BansEndSessions, BanDecided, Alone, At, PurgesAreDue
  <2>4. QED
    BY <1>3, <2>2, <2>3, LoginKeeps DEF SerialAccountInv
<1>4. ASSUME Restart
      PROVE  SerialAccountInv' /\ live \subseteq live'
  <2>1. /\ live' \subseteq Users
        /\ \A v \in live' : (v \in live /\ user'[v] = user[v])
                           \/ (user'[v].isApproved /\ ~user'[v].isBanned)
        /\ live \subseteq live' /\ sessions' \subseteq sessions
    BY <1>4, RestartTyped DEF SerialAccountInv, IInv
  <2>2. req' = [h \in Handlers |-> Idle] /\ loggingIn' = {}
    BY <1>4 DEF Restart
  <2>3. AllAllowed'
    BY <2>1, <2>2 DEF SerialAccountInv, IInv, AccountTypeOK, AllAllowed
  <2>4. Alone' /\ BansEndSessions' /\ PurgesAreDue'
    BY <2>2, IdleHarmless DEF Alone, BansEndSessions, BanDecided, PurgesAreDue, At
  <2>5. QED
    BY <1>4, <2>1, <2>3, <2>4, RestartKeeps DEF SerialAccountInv
<1>5. QED
  BY <1>1, <1>2, <1>3, <1>4 DEF Elsewhere

\* Only a request in flight takes a step.
LEMMA ProceedBusy ==
  ASSUME NEW h, Proceed(h) \/ Fail(h)
  PROVE  req[h] # Idle
  BY IdleHarmless
     DEF Proceed, Fail, At, WriteRow, ReadApprove, ReadBan, ReadUnban, ReadDemote, ReadErase,
         ReadSchedule, ReadCancel, PurgeOne, CountAdmins, CountOthers, WriteApprove,
         WriteBan, WriteUnban, WriteDemote, WriteErase, WriteSchedule, WriteCancel,
         WritePassword, WriteEmail

\* Every step keeps the serial invariant and erases only what is due or chosen.
LEMMA SerialNextKeeps ==
  ASSUME SerialAccountInv, [SerialAccountNext]_accountVars
  PROVE  SerialAccountInv' /\ \A u \in live \ live' : ErasedByAdmin(u) \/ u \in Due
<1>1. CASE Quiet /\ \E h \in Handlers : Begin(h)
  <2>1. PICK h \in Handlers : Begin(h)
    BY <1>1
  <2>2. live' = live
    BY <2>1, ReadKeeps DEF SerialAccountInv
  <2>3. QED
    BY <1>1, <2>1, <2>2, SerialReadKeeps
<1>2. CASE \E h \in Handlers : Proceed(h) \/ Fail(h)
  <2>1. PICK h \in Handlers : Proceed(h) \/ Fail(h)
    BY <1>2
  <2>2. req[h] # Idle
    BY <2>1, ProceedBusy
  <2>3. CASE ReadStep(h)
    BY <2>2, <2>3, SerialReadKeeps, ReadKeeps DEF SerialAccountInv
  <2>4. CASE WriteStep(h)
    BY <2>2, <2>4, SerialWriteKeeps, WriteKeeps DEF SerialAccountInv
  <2>5. CASE EraseStep(h)
    BY <2>2, <2>5, SerialEraseKeeps
  <2>6. QED
    BY <2>1, <2>3, <2>4, <2>5, StepKinds
<1>3. CASE Elsewhere
  BY <1>3, SerialElsewhereKeeps
<1>4. CASE UNCHANGED accountVars
  <2>1. IInv'
    BY <1>4, NextKeeps DEF SerialAccountInv
  <2>2. user' = user /\ sessions' = sessions /\ loggingIn' = loggingIn /\ req' = req
    BY <1>4 DEF accountVars
  <2>3. live' = live /\ Due' = Due
    BY <2>2 DEF live, Due
  <2>4. QED
    BY <2>1, <2>2, <2>3 DEF SerialAccountInv, Alone, AllAllowed, BansEndSessions, BanDecided,
                            PurgesAreDue, At
<1>5. QED
  BY <1>1, <1>2, <1>3, <1>4 DEF SerialAccountNext

\* The empty table.
LEMMA SerialInit ==
  ASSUME AccountInit
  PROVE  SerialAccountInv
<1>1. IInv
  BY InitHolds
<1>2. \A h \in Handlers : req[h] = Idle
  BY DEF AccountInit
<1>3. QED
  BY <1>1, <1>2, IdleHarmless DEF AccountInit, SerialAccountInv, Alone, AllAllowed, BansEndSessions,
                                  BanDecided, PurgesAreDue, At

\* With one request at a time the serial invariant holds at all times.
THEOREM SerialInvariance == SerialAccountSpec => []SerialAccountInv
<1>1. AccountInit => SerialAccountInv
  BY SerialInit
<1>2. SerialAccountInv /\ [SerialAccountNext]_accountVars => SerialAccountInv'
  BY SerialNextKeeps
<1>3. QED
  BY <1>1, <1>2, PTL DEF SerialAccountSpec

\* One request at a time, every session is that of an approved account without a ban.
THEOREM SessionsStayAllowed == SerialAccountSpec => []SessionsAreAllowed
<1>1. SerialAccountInv => SessionsAreAllowed
  BY DEF SerialAccountInv, AllAllowed, SessionsAreAllowed
<1>2. QED
  BY <1>1, SerialInvariance, PTL

\* One request at a time, the purge erases only accounts that are due.
THEOREM PurgeSparesOthers == SerialAccountSpec => PurgesOnlyDue
<1>1. SerialAccountInv /\ [SerialAccountNext]_accountVars => [\A u \in live \ live' : ErasedByAdmin(u) \/ u \in Due]_accountVars
  BY SerialNextKeeps
<1>2. QED
  BY <1>1, SerialInvariance, PTL DEF SerialAccountSpec, PurgesOnlyDue

--------------------------------------------------------------------------------
(***************************************************************************)
(* One request at a time, the accounts implement AccountCharter.  What the *)
(* charter asks of a decision is established when a request passes its     *)
(* guard and reads, and used when it writes: so the invariant says what a  *)
(* request in flight may still rely on.  Its administrator is one of       *)
(* those who have a session, and not the one that it bans, demotes or      *)
(* erases; who schedules or cancels a deletion has a session; and what was *)
(* read or counted is still so.                                            *)
(***************************************************************************)
ByAdmin(h) ==
  req[h].op \in AdminOps =>
    \E a \in Admins \cap sessions :
      req[h].op \in {"ban", "demote", "erase"} => a \notin req[h].rest \cup {req[h].target}

ByOwner(h) ==
  req[h].op \in {"schedule", "cancel"} =>
    req[h].rest \cup {req[h].target} \subseteq sessions \cup {NoUser}

StillSo(h) ==
  LET u == req[h].target
  IN  /\ u \notin req[h].rest
      /\ req[h].op \in {"demote", "schedule"} /\ req[h].at # "read" => req[h].bump
      /\ At(h, "cancel", "write") => ~req[h].bump
      /\ At(h, "approve", "write") /\ req[h].bump => u \in live /\ ~user[u].isApproved
      /\ At(h, "unban", "write") /\ req[h].bump => u \in live /\ user[u].isBanned
      /\ At(h, "schedule", "write") /\ u \in Admins => Admins \ (Scheduled \cup {u}) # {}

Mandate(h) == ByAdmin(h) /\ ByOwner(h) /\ StillSo(h)

CInv == SerialAccountInv /\ \A h \in Handlers : Mandate(h)

LEMMA IdleMandate ==
  ASSUME NEW h, req[h] = Idle
  PROVE  Mandate(h)
  BY DEF Idle, Working, Mandate, ByAdmin, ByOwner, StillSo, At, AdminOps, Loops

\* Who has no request in flight needs no mandate.
LEMMA MandatesKept ==
  ASSUME CInv, NEW h \in Handlers, Quiet \/ req[h] # Idle,
         \A k \in Handlers \ {h} : req'[k] = req[k], Mandate(h)', SerialAccountInv'
  PROVE  CInv'
<1>1. \A k \in Handlers \ {h} : req'[k] = Idle
  BY AloneKept DEF CInv, SerialAccountInv
<1>2. ASSUME NEW k \in Handlers \ {h}
      PROVE  Mandate(k)'
  BY <1>1, <1>2 DEF Idle, Working, Mandate, ByAdmin, ByOwner, StillSo, At, AdminOps, Loops
<1>3. QED
  BY <1>2 DEF CInv

\* A request that has read a row keeps its mandate, but for what it has read.
LEMMA DecideMandate ==
  ASSUME CInv, NEW h \in Handlers, NEW u \in live, NEW place \in {"count", "write"},
         NEW bump, Decide(h, u, place, bump)
  PROVE  /\ req'[h].op = req[h].op /\ req'[h].at = place
         /\ req'[h].target = u /\ req'[h].bump = bump /\ u \notin req'[h].rest
         /\ live' = live /\ user' = user
         /\ ByAdmin(h)' /\ ByOwner(h)'
<1>1. /\ req' = [req EXCEPT ![h] = Decided(req[h].op, place, u, bump, req[h].rest \ {u})]
      /\ u \in req[h].rest /\ Reads
  BY DEF Decide, Step
<1>2. req'[h] = Decided(req[h].op, place, u, bump, req[h].rest \ {u})
  BY <1>1 DEF CInv, SerialAccountInv, IInv, AccountTypeOK
<1>3. /\ req'[h].op = req[h].op /\ req'[h].at = place
      /\ req'[h].target = u /\ req'[h].bump = bump /\ req'[h].rest = req[h].rest \ {u}
  BY <1>2 DEF Decided
<1>4. user' = user /\ sessions' = sessions
  BY <1>1 DEF Reads, tokens
<1>5. live' = live /\ Admins' = Admins
  BY <1>4 DEF live, Admins
<1>6. ByAdmin(h) /\ ByOwner(h)
  BY DEF CInv, Mandate
<1>7. ByAdmin(h)'
  BY <1>1, <1>3, <1>4, <1>5, <1>6 DEF ByAdmin
<1>8. ByOwner(h)'
  BY <1>1, <1>3, <1>4, <1>6, ZenonT(40) DEF ByOwner, CInv, SerialAccountInv, IInv, AccountTypeOK
<1>9. QED
  BY <1>1, <1>3, <1>4, <1>5, <1>7, <1>8

\* What a request reads or counts is what its mandate says of it.
LEMMA ReadMandate ==
  ASSUME CInv, NEW h \in Handlers, req[h] # Idle, ReadStep(h)
  PROVE  Mandate(h)'
<1> USE DEF At
<1>1. ASSUME NEW u \in live, ReadApprove(h, u)
      PROVE  Mandate(h)'
  <2>1. Decide(h, u, "write", ~user[u].isApproved) /\ req[h].op = "approve"
    BY <1>1 DEF ReadApprove
  <2>2. /\ req'[h].op = "approve" /\ req'[h].at = "write" /\ req'[h].target = u
        /\ req'[h].bump = ~user[u].isApproved /\ u \notin req'[h].rest
        /\ live' = live /\ user' = user
        /\ ByAdmin(h)' /\ ByOwner(h)'
    BY <2>1, DecideMandate
  <2>3. req'[h].bump => ~user'[u].isApproved
    BY <2>2, Zenon
  <2>4. StillSo(h)'
    BY <2>2, <2>3 DEF StillSo
  <2>5. QED
    BY <2>2, <2>4 DEF Mandate
<1>2. ASSUME NEW u \in live, ReadBan(h, u)
      PROVE  Mandate(h)'
  <2>1. Decide(h, u, "write", ~user[u].isBanned) /\ req[h].op = "ban"
    BY <1>2 DEF ReadBan
  <2>2. QED
    BY <2>1, DecideMandate DEF Mandate, StillSo
<1>3. ASSUME NEW u \in live, ReadUnban(h, u)
      PROVE  Mandate(h)'
  <2>1. Decide(h, u, "write", user[u].isBanned) /\ req[h].op = "unban"
    BY <1>3 DEF ReadUnban
  <2>2. QED
    BY <2>1, DecideMandate DEF Mandate, StillSo
<1>4. ASSUME NEW u \in live, ReadDemote(h, u)
      PROVE  Mandate(h)'
  <2>1. Decide(h, u, "count", TRUE) /\ req[h].op = "demote"
    BY <1>4 DEF ReadDemote
  <2>2. QED
    BY <2>1, DecideMandate, ZenonT(40) DEF Mandate, StillSo
<1>5. ASSUME NEW u \in live, ReadErase(h, u)
      PROVE  Mandate(h)'
  <2>1. /\ req[h].op = "erase"
        /\ Decide(h, u, "count", FALSE) \/ Decide(h, u, "write", FALSE)
    BY <1>5 DEF ReadErase
  <2>2. QED
    BY <2>1, DecideMandate DEF Mandate, StillSo
<1>6. ASSUME NEW u \in live, ReadSchedule(h, u)
      PROVE  Mandate(h)'
  <2>1. /\ req[h].op = "schedule"
        /\ Decide(h, u, "count", TRUE) \/ (Decide(h, u, "write", TRUE) /\ u \notin Admins)
    BY <1>6 DEF ReadSchedule, Admins
  <2>2. CASE Decide(h, u, "count", TRUE)
    BY <2>1, <2>2, DecideMandate, ZenonT(40) DEF Mandate, StillSo
  <2>3. CASE Decide(h, u, "write", TRUE) /\ u \notin Admins
    <3>1. /\ req'[h].op = "schedule" /\ req'[h].target = u /\ req'[h].bump = TRUE
          /\ u \notin req'[h].rest /\ live' = live /\ user' = user
          /\ ByAdmin(h)' /\ ByOwner(h)'
      BY <2>1, <2>3, DecideMandate
    <3>2. u \notin Admins'
      BY <2>3, <3>1 DEF Admins
    <3>3. QED
      BY <3>1, <3>2 DEF Mandate, StillSo
  <2>4. QED
    BY <2>1, <2>2, <2>3
<1>7. ASSUME NEW u \in live, ReadCancel(h, u)
      PROVE  Mandate(h)'
  <2>1. Decide(h, u, "write", FALSE) /\ req[h].op = "cancel"
    BY <1>7 DEF ReadCancel
  <2>2. QED
    BY <2>1, DecideMandate DEF Mandate, StillSo
<1>8. CASE CountAdmins(h) \/ CountOthers(h)
  <2>1. /\ req[h].op \in {"demote", "erase", "schedule"} /\ req[h].at = "count" /\ Reads
        /\ req' = [req EXCEPT ![h] =
                     Decided(req[h].op, "write", req[h].target, req[h].bump, req[h].rest)]
        /\ req[h].op = "schedule" => Admins \ (Scheduled \cup {req[h].target}) # {}
    BY <1>8 DEF CountAdmins, CountOthers, Step
  <2>2. req'[h] = Decided(req[h].op, "write", req[h].target, req[h].bump, req[h].rest)
    BY <2>1 DEF CInv, SerialAccountInv, IInv, AccountTypeOK
  <2>3. /\ req'[h].op = req[h].op /\ req'[h].at = "write" /\ req'[h].target = req[h].target
        /\ req'[h].bump = req[h].bump /\ req'[h].rest = req[h].rest
    BY <2>2 DEF Decided
  <2>4. live' = live /\ Admins' = Admins /\ Scheduled' = Scheduled /\ sessions' = sessions
    BY <2>1 DEF Reads, live, Admins, Scheduled, tokens
  <2>5. ByAdmin(h)' /\ ByOwner(h)'
    BY <2>3, <2>4 DEF CInv, Mandate, ByAdmin, ByOwner
  <2>6. StillSo(h)'
    BY <2>1, <2>3, <2>4 DEF CInv, Mandate, StillSo
  <2>7. QED
    BY <2>5, <2>6 DEF Mandate
<1>9. CASE Fail(h)
  <2>1. PICK S \in SUBSET req[h].rest : GoOn(h, S) /\ Reads
    BY <1>9 DEF Fail, Turn
  <2>2. req' = [req EXCEPT ![h] = IF S = {} THEN Idle ELSE Working(req[h].op, S)]
    BY <2>1 DEF GoOn, Step
  <2>3. req'[h] = Idle \/ req'[h] = Working(req[h].op, S)
    BY <2>2 DEF CInv, SerialAccountInv, IInv, AccountTypeOK
  <2>4. CASE req'[h] = Working(req[h].op, S)
    <3>1. /\ req'[h].op = req[h].op /\ req'[h].at = "read" /\ req'[h].target = NoUser
          /\ req'[h].bump = FALSE /\ req'[h].rest \subseteq req[h].rest
      BY <2>4 DEF Working
    <3>2. live' = live /\ Admins' = Admins /\ sessions' = sessions
      BY <2>1 DEF Reads, live, Admins, tokens
    <3>3. NoUser \notin Admins /\ NoUser \notin req[h].rest
      <4>1. Admins \subseteq Users
        BY DEF Admins, CInv, SerialAccountInv, IInv, AccountTypeOK
      <4>2. req[h].op # "idle"
        BY <1>9 DEF Fail, CInv, SerialAccountInv, IInv, AccountTypeOK, Request, AdminOps, SelfOps, Loops
      <4>3. req[h].rest \subseteq Users
        BY <4>2, BusyTyped DEF CInv, SerialAccountInv, IInv
      <4>4. QED
        BY <4>1, <4>3, AccountNullAssumption
    <3>4. ByAdmin(h)'
      BY <3>1, <3>2, <3>3 DEF CInv, Mandate, ByAdmin
    <3>5. ByOwner(h)'
      BY <3>1, <3>2 DEF CInv, Mandate, ByOwner
    <3>6. StillSo(h)'
      BY <3>1, <3>3 DEF StillSo
    <3>7. QED
      BY <3>4, <3>5, <3>6 DEF Mandate
  <2>5. CASE req'[h] = Idle
    BY <2>5 DEF Idle, Working, Mandate, ByAdmin, ByOwner, StillSo, AdminOps, Loops
  <2>6. QED
    BY <2>3, <2>4, <2>5
<1>10. QED
  BY <1>1, <1>2, <1>3, <1>4, <1>5, <1>6, <1>7, <1>8, <1>9 DEF ReadStep

\* A request that begins has just passed its guard.
LEMMA BeginMandate ==
  ASSUME CInv, NEW h \in Handlers, Begin(h)
  PROVE  Mandate(h)'
<1>1. ASSUME NEW a \in Users, NEW op \in AdminOps, NEW S \in SUBSET Users, BeginAdmin(h, a, op, S)
      PROVE  Mandate(h)'
  <2>1. /\ Reads /\ req' = [req EXCEPT ![h] = Working(op, S)]
        /\ a \in Admins \cap sessions
        /\ op \in {"ban", "demote", "erase"} => a \notin S
    BY <1>1 DEF BeginAdmin, Start, AdminGuard, JwtGuard, Admins
  <2>2. req'[h] = Working(op, S)
    BY <2>1 DEF CInv, SerialAccountInv, IInv, AccountTypeOK
  <2>3. /\ req'[h].op = op /\ req'[h].at = "read" /\ req'[h].target = NoUser
        /\ req'[h].rest = S
    BY <2>2 DEF Working
  <2>4. Admins' = Admins /\ sessions' = sessions
    BY <2>1 DEF Reads, live, Admins, tokens
  <2>5. ByAdmin(h)'
    BY <2>1, <2>3, <2>4, AccountNullAssumption DEF ByAdmin
  <2>6. ByOwner(h)' /\ StillSo(h)'
    BY <2>3, AccountNullAssumption DEF ByOwner, StillSo, At, AdminOps, Loops
  <2>7. QED
    BY <2>5, <2>6 DEF Mandate
<1>2. ASSUME NEW u \in Users, NEW op \in SelfOps, BeginSelf(h, u, op)
      PROVE  Mandate(h)'
  <2>1. /\ Reads /\ u \in sessions
        /\ \/ op \in {"schedule", "cancel"} /\ req' = [req EXCEPT ![h] = Working(op, {u})]
           \/ /\ op \in {"password", "email"}
              /\ req' = [req EXCEPT ![h] = Decided(op, "write", u, op = "password", {})]
    BY <1>2 DEF BeginSelf, Start, JwtGuard
  <2>2. \/ op \in {"schedule", "cancel"} /\ req'[h] = Working(op, {u})
        \/ /\ op \in {"password", "email"}
           /\ req'[h] = Decided(op, "write", u, op = "password", {})
    BY <2>1 DEF CInv, SerialAccountInv, IInv, AccountTypeOK
  <2>3. sessions' = sessions
    BY <2>1 DEF Reads, tokens
  <2>4. CASE op \in {"schedule", "cancel"} /\ req'[h] = Working(op, {u})
    <3>1. /\ req'[h].op = op /\ req'[h].at = "read" /\ req'[h].target = NoUser
          /\ req'[h].rest = {u}
      BY <2>4 DEF Working
    <3>2. QED
      BY <2>1, <2>3, <2>4, <3>1, AccountNullAssumption
         DEF Mandate, ByAdmin, ByOwner, StillSo, At, AdminOps, Loops
  <2>5. CASE op \in {"password", "email"} /\ req'[h] = Decided(op, "write", u, op = "password", {})
    <3>1. req'[h].op \in {"password", "email"} /\ req'[h].at = "write" /\ req'[h].rest = {}
      BY <2>5 DEF Decided
    <3>2. QED
      BY <3>1 DEF Mandate, ByAdmin, ByOwner, StillSo, At, AdminOps, Loops
  <2>6. QED
    BY <2>2, <2>4, <2>5
<1>3. CASE BeginPurge(h)
  <2>1. PICK S \in SUBSET Due : req' = [req EXCEPT ![h] = Working("purge", S)]
    BY <1>3 DEF BeginPurge, Step
  <2>2. req'[h] = Working("purge", S)
    BY <2>1 DEF CInv, SerialAccountInv, IInv, AccountTypeOK
  <2>3. /\ req'[h].op = "purge" /\ req'[h].at = "read" /\ req'[h].target = NoUser
        /\ req'[h].rest \subseteq Due
    BY <2>2 DEF Working
  <2>4. NoUser \notin Due
    BY AccountNullAssumption DEF Due, CInv, SerialAccountInv, IInv, AccountTypeOK
  <2>5. QED
    BY <2>3, <2>4 DEF Mandate, ByAdmin, ByOwner, StillSo, At, AdminOps, Loops
<1>4. QED
  BY <1>1, <1>2, <1>3 DEF Begin

\* What the write of a row does to the columns of the table.
LEMMA ColumnsWritten ==
  ASSUME CInv, NEW h \in Handlers, NEW op, NEW row \in Row, WriteRow(h, op, row)
  PROVE  /\ req[h].op = op /\ req[h].at = "write" /\ req[h].target \in live
         /\ live' = live
         /\ Approved' = IF row.isApproved THEN Approved \cup {req[h].target}
                                          ELSE Approved \ {req[h].target}
         /\ Banned' = IF row.isBanned THEN Banned \cup {req[h].target}
                                      ELSE Banned \ {req[h].target}
         /\ Admins' = IF row.role = "ADMIN" THEN Admins \cup {req[h].target}
                                            ELSE Admins \ {req[h].target}
         /\ Scheduled' = IF row.deletion # "null" THEN Scheduled \cup {req[h].target}
                                                  ELSE Scheduled \ {req[h].target}
         /\ sessions' = IF req[h].bump THEN sessions \ {req[h].target} ELSE sessions
         /\ req'[h] \in {Idle, Working(op, req[h].rest)}
<1> DEFINE u == req[h].target
<1>1. /\ req[h].op = op /\ req[h].at = "write" /\ u \in live
      /\ user' = [user EXCEPT ![u] = row] /\ user \in [live -> Row]
      /\ sessions' = sessions \ (IF req[h].bump THEN {u} ELSE {})
      /\ req' = [req EXCEPT ![h] =
                   IF req[h].rest = {} THEN Idle ELSE Working(op, req[h].rest)]
      /\ req \in [Handlers -> Request \cup {Idle}]
  BY DEF WriteRow, At, Update, Revoke, GoOn, Step, CInv, SerialAccountInv, IInv, AccountTypeOK
<1>2. live' = live /\ user'[u] = row /\ \A v \in live \ {u} : user'[v] = user[v]
  BY <1>1 DEF live
<1>3. req'[h] \in {Idle, Working(op, req[h].rest)}
  BY <1>1
<1>4. sessions' = IF req[h].bump THEN sessions \ {u} ELSE sessions
  BY <1>1
<1>5. Approved' = IF row.isApproved THEN Approved \cup {u} ELSE Approved \ {u}
  BY <1>1, <1>2 DEF Approved
<1>6. Banned' = IF row.isBanned THEN Banned \cup {u} ELSE Banned \ {u}
  BY <1>1, <1>2 DEF Banned
<1>7. Admins' = IF row.role = "ADMIN" THEN Admins \cup {u} ELSE Admins \ {u}
  BY <1>1, <1>2 DEF Admins
<1>8. Scheduled' = IF row.deletion # "null" THEN Scheduled \cup {u} ELSE Scheduled \ {u}
  BY <1>1, <1>2 DEF Scheduled
<1>9. QED
  BY <1>1, <1>2, <1>3, <1>4, <1>5, <1>6, <1>7, <1>8

\* A column that the write leaves as it was stored.
LEMMA ColumnsStored ==
  ASSUME CInv, NEW h \in Handlers, req[h].target \in live
  PROVE  /\ Stored(h) \in Row
         /\ Stored(h).isApproved <=> req[h].target \in Approved
         /\ Stored(h).isBanned <=> req[h].target \in Banned
         /\ Stored(h).role = "ADMIN" <=> req[h].target \in Admins
         /\ Stored(h).deletion # "null" <=> req[h].target \in Scheduled
  BY DEF Stored, Approved, Banned, Admins, Scheduled, CInv, SerialAccountInv, IInv, AccountTypeOK

\* A column that the row does not change stays as it is.
LEMMA ColumnsKept ==
  ASSUME CInv, NEW h \in Handlers, NEW op, NEW row \in Row, WriteRow(h, op, row)
  PROVE  /\ row.isApproved = Stored(h).isApproved => Approved' = Approved
         /\ row.isBanned = Stored(h).isBanned => Banned' = Banned
         /\ row.role = Stored(h).role => Admins' = Admins
         /\ row.deletion = Stored(h).deletion => Scheduled' = Scheduled
<1>0. /\ req[h].target \in live
      /\ Approved' = IF row.isApproved THEN Approved \cup {req[h].target}
                                       ELSE Approved \ {req[h].target}
      /\ Banned' = IF row.isBanned THEN Banned \cup {req[h].target}
                                   ELSE Banned \ {req[h].target}
      /\ Admins' = IF row.role = "ADMIN" THEN Admins \cup {req[h].target}
                                         ELSE Admins \ {req[h].target}
      /\ Scheduled' = IF row.deletion # "null" THEN Scheduled \cup {req[h].target}
                                               ELSE Scheduled \ {req[h].target}
  BY ColumnsWritten
<1>1. /\ Stored(h).isApproved <=> req[h].target \in Approved
      /\ Stored(h).isBanned <=> req[h].target \in Banned
      /\ Stored(h).role = "ADMIN" <=> req[h].target \in Admins
      /\ Stored(h).deletion # "null" <=> req[h].target \in Scheduled
  BY <1>0, ColumnsStored
<1>2. ASSUME row.isApproved = Stored(h).isApproved
      PROVE  Approved' = Approved
  <2>1. row.isApproved <=> req[h].target \in Approved
    BY <1>1, <1>2
  <2>2. QED
    BY <1>0, <2>1
<1>3. ASSUME row.isBanned = Stored(h).isBanned
      PROVE  Banned' = Banned
  <2>1. row.isBanned <=> req[h].target \in Banned
    BY <1>1, <1>3
  <2>2. QED
    BY <1>0, <2>1
<1>4. ASSUME row.role = Stored(h).role
      PROVE  Admins' = Admins
  BY <1>0, <1>1, <1>4
<1>5. ASSUME row.deletion = Stored(h).deletion
      PROVE  Scheduled' = Scheduled
  BY <1>0, <1>1, <1>5
<1>6. QED
  BY <1>2, <1>3, <1>4, <1>5

(***************************************************************************)
(* What each of the writes does: it sets at most one column.               *)
(***************************************************************************)
Sets(h, op) ==
  LET u == req[h].target
  IN  \/ /\ op = "approve" /\ Approved' = Approved \cup {u}
         /\ UNCHANGED <<Banned, Admins, Scheduled>>
      \/ /\ op = "ban" /\ Banned' = Banned \cup {u}
         /\ UNCHANGED <<Approved, Admins, Scheduled>>
      \/ /\ op = "unban" /\ Banned' = Banned \ {u}
         /\ UNCHANGED <<Approved, Admins, Scheduled>>
      \/ /\ op = "demote" /\ Admins' = Admins \ {u}
         /\ UNCHANGED <<Approved, Banned, Scheduled>>
      \/ /\ op = "schedule" /\ Scheduled' = Scheduled \cup {u}
         /\ UNCHANGED <<Approved, Banned, Admins>>
      \/ /\ op = "cancel" /\ Scheduled' = Scheduled \ {u}
         /\ UNCHANGED <<Approved, Banned, Admins>>
      \/ /\ op \in {"password", "email"}
         /\ UNCHANGED <<Approved, Banned, Admins, Scheduled>>

LEMMA WriteSets ==
  ASSUME CInv, NEW h \in Handlers, WriteStep(h)
  PROVE  /\ Sets(h, req[h].op)
         /\ req[h].at = "write" /\ req[h].target \in live
         /\ live' = live /\ unused' = unused
         /\ sessions' = IF req[h].bump THEN sessions \ {req[h].target} ELSE sessions
         /\ req'[h] \in {Idle, Working(req[h].op, req[h].rest)}
<1> DEFINE r == Stored(h)
<1>1. ASSUME NEW op, NEW row, WriteRow(h, op, row)
      PROVE  req[h].op = op /\ req[h].target \in live /\ r \in Row
  BY <1>1, ColumnsStored DEF WriteRow, At, Update
<1>2. CASE WriteApprove(h)
  <2> DEFINE row == [r EXCEPT !.isApproved = TRUE]
  <2>1. r \in Row /\ req[h].target \in live /\ WriteRow(h, "approve", row) /\ unused' = unused
    BY <1>1, <1>2 DEF WriteApprove
  <2>2. /\ row \in Row /\ row.isApproved /\ row.isBanned = r.isBanned
        /\ row.role = r.role /\ row.deletion = r.deletion
    BY <2>1 DEF Row
  <2> HIDE DEF row
  <2>3. QED
    BY <2>1, <2>2, ColumnsWritten, ColumnsKept DEF Sets
<1>3. CASE WriteBan(h)
  <2> DEFINE row == [r EXCEPT !.isBanned = TRUE]
  <2>1. r \in Row /\ req[h].target \in live /\ WriteRow(h, "ban", row) /\ unused' = unused
    BY <1>1, <1>3 DEF WriteBan
  <2>2. /\ row \in Row /\ row.isBanned /\ row.isApproved = r.isApproved
        /\ row.role = r.role /\ row.deletion = r.deletion
    BY <2>1 DEF Row
  <2> HIDE DEF row
  <2>3. QED
    BY <2>1, <2>2, ColumnsWritten, ColumnsKept DEF Sets
<1>4. CASE WriteUnban(h)
  <2> DEFINE row == [r EXCEPT !.isBanned = FALSE]
  <2>1. r \in Row /\ req[h].target \in live /\ WriteRow(h, "unban", row) /\ unused' = unused
    BY <1>1, <1>4 DEF WriteUnban
  <2>2. /\ row \in Row /\ ~row.isBanned /\ row.isApproved = r.isApproved
        /\ row.role = r.role /\ row.deletion = r.deletion
    BY <2>1 DEF Row
  <2> HIDE DEF row
  <2>3. QED
    BY <2>1, <2>2, ColumnsWritten, ColumnsKept DEF Sets
<1>5. CASE WriteDemote(h)
  <2> DEFINE row == [r EXCEPT !.role = "USER"]
  <2>1. r \in Row /\ req[h].target \in live /\ WriteRow(h, "demote", row) /\ unused' = unused
    BY <1>1, <1>5 DEF WriteDemote
  <2>2. /\ row \in Row /\ row.role # "ADMIN" /\ row.isApproved = r.isApproved
        /\ row.isBanned = r.isBanned /\ row.deletion = r.deletion
    BY <2>1 DEF Row
  <2> HIDE DEF row
  <2>3. QED
    BY <2>1, <2>2, ColumnsWritten, ColumnsKept DEF Sets
<1>6. CASE WriteSchedule(h)
  <2> DEFINE row == [r EXCEPT !.deletion = "ahead"]
  <2>1. r \in Row /\ req[h].target \in live /\ WriteRow(h, "schedule", row) /\ unused' = unused
    BY <1>1, <1>6 DEF WriteSchedule
  <2>2. /\ row \in Row /\ row.deletion # "null" /\ row.isApproved = r.isApproved
        /\ row.isBanned = r.isBanned /\ row.role = r.role
    BY <2>1 DEF Row
  <2> HIDE DEF row
  <2>3. QED
    BY <2>1, <2>2, ColumnsWritten, ColumnsKept DEF Sets
<1>7. CASE WriteCancel(h)
  <2> DEFINE row == [r EXCEPT !.deletion = "null"]
  <2>1. r \in Row /\ req[h].target \in live /\ WriteRow(h, "cancel", row) /\ unused' = unused
    BY <1>1, <1>7 DEF WriteCancel
  <2>2. /\ row \in Row /\ row.deletion = "null" /\ row.isApproved = r.isApproved
        /\ row.isBanned = r.isBanned /\ row.role = r.role
    BY <2>1 DEF Row
  <2> HIDE DEF row
  <2>3. QED
    BY <2>1, <2>2, ColumnsWritten, ColumnsKept DEF Sets
<1>8. CASE WritePassword(h) \/ WriteEmail(h)
  <2>1. /\ WriteRow(h, "password", r) \/ WriteRow(h, "email", r)
        /\ unused' = unused
    BY <1>8 DEF WritePassword, WriteEmail
  <2>2. r \in Row /\ req[h].target \in live
    BY <1>1, <2>1
  <2> HIDE DEF r
  <2>3. PICK op \in {"password", "email"} : WriteRow(h, op, r)
    BY <2>1
  <2>4. UNCHANGED <<Approved, Banned, Admins, Scheduled>>
    BY <2>2, <2>3, ColumnsKept DEF r
  <2>5. QED
    BY <2>1, <2>2, <2>3, <2>4, ColumnsWritten DEF Sets
<1>9. QED
  BY <1>2, <1>3, <1>4, <1>5, <1>6, <1>7, <1>8 DEF WriteStep

\* A date that passes changes no other column.
DateOnly ==
  /\ live' = live /\ Admins' = Admins /\ Scheduled' = Scheduled
  /\ Approved' = Approved /\ Banned' = Banned
  /\ \A v \in live : /\ user'[v].isApproved = user[v].isApproved
                     /\ user'[v].isBanned = user[v].isBanned

LEMMA DatesChangeNothing ==
  ASSUME AccountTypeOK, NEW u \in Users, DatePasses(u)
  PROVE  DateOnly
<1> DEFINE row == [user[u] EXCEPT !.deletion = "passed"]
<1>1. u \in live /\ u \in Scheduled /\ user \in [live -> Row]
  BY DEF DatePasses, Scheduled, AccountTypeOK
<1>2. row.deletion = "passed" /\ row.isBanned = user[u].isBanned
      /\ row.isApproved = user[u].isApproved /\ row.role = user[u].role
  BY <1>1 DEF Row
<1>3. user' = [user EXCEPT ![u] = row]
  BY DEF DatePasses
<1> HIDE DEF row
<1>4. /\ live' = live /\ user'[u] = row
      /\ \A v \in live \ {u} : user'[v] = user[v]
  BY <1>1, <1>3 DEF live
<1>5. /\ \A v \in live : /\ user'[v].isApproved = user[v].isApproved
                         /\ user'[v].isBanned = user[v].isBanned
                         /\ user'[v].role = user[v].role
      /\ Scheduled' = Scheduled
  BY <1>1, <1>2, <1>4 DEF Scheduled
<1>6. Admins' = Admins
  BY <1>4, <1>5 DEF Admins
<1>7. Approved' = Approved /\ Banned' = Banned
  BY <1>4, <1>5 DEF Approved, Banned
<1>8. QED
  BY <1>4, <1>5, <1>6, <1>7 DEF DateOnly

\* A loop that has written a row goes on with the mandate that it had.
LEMMA WriteMandate ==
  ASSUME CInv, NEW h \in Handlers, req[h] # Idle, WriteStep(h)
  PROVE  Mandate(h)'
<1> DEFINE u == req[h].target
           op == req[h].op
<1>1. /\ Sets(h, op) /\ req[h].at = "write" /\ u \in live
      /\ sessions' = IF req[h].bump THEN sessions \ {u} ELSE sessions
      /\ req'[h] \in {Idle, Working(op, req[h].rest)}
  BY WriteSets
<1>2. CASE req'[h] = Idle
  BY <1>2 DEF Idle, Working, Mandate, ByAdmin, ByOwner, StillSo, At, AdminOps, Loops
<1>3. CASE req'[h] = Working(op, req[h].rest)
  <2>1. /\ req'[h].op = op /\ req'[h].at = "read" /\ req'[h].target = NoUser
        /\ req'[h].rest = req[h].rest
    BY <1>3 DEF Working
  <2>2. op # "idle"
    BY <1>1 DEF Sets
  <2>3. NoUser \notin req[h].rest /\ NoUser \notin Admins
    <3>1. req[h].rest \subseteq Users
      BY <2>2, BusyTyped DEF CInv, SerialAccountInv, IInv
    <3>2. Admins \subseteq Users
      BY DEF Admins, CInv, SerialAccountInv, IInv, AccountTypeOK
    <3>3. QED
      BY <3>1, <3>2, AccountNullAssumption
  <2>4. StillSo(h)'
    BY <2>1, <2>3 DEF StillSo, At
  <2>5. ByOwner(h)'
    BY <1>1, <2>1 DEF CInv, Mandate, ByOwner, StillSo
  <2>6. ASSUME op \in AdminOps
        PROVE  ByAdmin(h)'
    <3>1. PICK a \in Admins \cap sessions :
            op \in {"ban", "demote", "erase"} => a \notin req[h].rest \cup {u}
      BY <2>6 DEF CInv, Mandate, ByAdmin
    <3>2. user[a].isApproved /\ ~user[a].isBanned
      BY <3>1 DEF CInv, SerialAccountInv, AllAllowed
    <3>3. a = u => ~req[h].bump
      BY <1>1, <2>6, <3>1, <3>2 DEF CInv, Mandate, StillSo, Sets, AdminOps, Loops, At
    <3>4. a \in sessions'
      BY <1>1, <3>1, <3>3
    <3>5. a \in Admins'
      BY <1>1, <2>6, <3>1 DEF Sets, AdminOps, Loops
    <3>6. QED
      BY <2>1, <2>3, <3>1, <3>4, <3>5 DEF ByAdmin
  <2>7. ByAdmin(h)'
    BY <2>1, <2>6 DEF ByAdmin
  <2>8. QED
    BY <2>4, <2>5, <2>7 DEF Mandate
<1>4. QED
  BY <1>1, <1>2, <1>3

\* What a request leaves behind when its account is erased.
LEMMA EraseMandate ==
  ASSUME CInv, NEW h \in Handlers, EraseStep(h)
  PROVE  Mandate(h)'
<1>1. CASE WriteErase(h)
  <2>1. req'[h] = Idle
    BY <1>1 DEF WriteErase, Step, CInv, SerialAccountInv, IInv, AccountTypeOK
  <2>2. QED
    BY <2>1 DEF Idle, Working, Mandate, ByAdmin, ByOwner, StillSo, At, AdminOps, Loops
<1>2. CASE \E u \in live : PurgeOne(h, u)
  <2>1. PICK u \in live : PurgeOne(h, u)
    BY <1>2
  <2>2. req'[h] = Idle \/ req'[h] = Working("purge", req[h].rest \ {u})
    BY <2>1 DEF PurgeOne, At, GoOn, Step, CInv, SerialAccountInv, IInv, AccountTypeOK
  <2>3. NoUser \notin req[h].rest
    BY <2>1, AccountNullAssumption
       DEF PurgeOne, At, CInv, SerialAccountInv, PurgesAreDue, Due, IInv, AccountTypeOK
  <2>4. QED
    BY <2>2, <2>3 DEF Idle, Working, Mandate, ByAdmin, ByOwner, StillSo, At, AdminOps, Loops
<1>3. QED
  BY <1>1, <1>2 DEF EraseStep

\* Nobody else takes a request's mandate away: not a registration, a date that passes or a
\* login, and a server that starts has no request.
LEMMA ElsewhereMandate ==
  ASSUME CInv, Elsewhere
  PROVE  CInv'
<1>1. SerialAccountInv'
  BY SerialElsewhereKeeps DEF CInv
<1>2. CASE Restart
  <2>1. \A h \in Handlers : req'[h] = Idle
    BY <1>2 DEF Restart
  <2>2. QED
    BY <1>1, <2>1 DEF CInv, Idle, Working, Mandate, ByAdmin, ByOwner, StillSo, At, AdminOps, Loops
<1>3. ASSUME req' = req, Admins' = Admins, Scheduled' = Scheduled,
             sessions \subseteq sessions', live \subseteq live',
             \A u \in live : /\ user'[u].isApproved = user[u].isApproved
                             /\ user'[u].isBanned = user[u].isBanned
      PROVE  CInv'
  <2>1. ASSUME NEW h \in Handlers
        PROVE  Mandate(h)'
    <3>1. Mandate(h)
      BY DEF CInv
    <3>2. ByAdmin(h)' /\ ByOwner(h)'
      BY <1>3, <3>1 DEF Mandate, ByAdmin, ByOwner
    <3>3. StillSo(h)'
      BY <1>3, <3>1 DEF Mandate, StillSo, At
    <3>4. QED
      BY <3>2, <3>3 DEF Mandate
  <2>2. QED
    BY <1>1, <2>1 DEF CInv
<1>4. ASSUME NEW u \in Users, Register(u)
      PROVE  CInv'
  <2>1. NewUser \in Row /\ NewUser.deletion = "null" /\ NewUser.role # "ADMIN"
    BY DEF NewUser, Row
  <2>2. /\ live' = live \cup {u} /\ u \in Users \ live /\ user'[u] = NewUser
        /\ \A v \in live : user'[v] = user[v]
        /\ Scheduled' = Scheduled
    BY <1>4, <2>1, InsertTyped DEF Register, CInv, SerialAccountInv, IInv
  <2>3. Admins' = Admins
    BY <2>1, <2>2 DEF Admins
  <2>4. req' = req /\ sessions' = sessions
    BY <1>4 DEF Register, tokens
  <2>5. QED
    BY <1>3, <2>2, <2>3, <2>4
<1>5. ASSUME NEW u \in Users, DatePasses(u)
      PROVE  CInv'
  <2>1. DateOnly
    BY <1>5, DatesChangeNothing DEF CInv, SerialAccountInv, IInv
  <2>2. req' = req /\ sessions' = sessions
    BY <1>5 DEF DatePasses, tokens
  <2>3. QED
    BY <1>3, <2>1, <2>2 DEF DateOnly
<1>6. ASSUME NEW u \in Users, BeginLogin(u) \/ SignToken(u) \/ EndLogin(u)
      PROVE  CInv'
  <2>1. user' = user /\ req' = req /\ sessions \subseteq sessions'
    BY <1>6 DEF BeginLogin, SignToken, EndLogin
  <2>2. live' = live /\ Admins' = Admins /\ Scheduled' = Scheduled
    BY <2>1 DEF live, Admins, Scheduled
  <2>3. QED
    BY <1>3, <2>1, <2>2
<1>7. QED
  BY <1>2, <1>4, <1>5, <1>6 DEF Elsewhere

--------------------------------------------------------------------------------
(***************************************************************************)
(* The steps of the accounts as steps of their charter.                    *)
(***************************************************************************)
CharterVars == <<unused, live, Approved, Banned, Admins, Scheduled, sessions>>

\* What the charter does not see: a step that leaves rows and sessions alone.
LEMMA CharterBlind ==
  ASSUME user' = user, unused' = unused, sessions' = sessions
  PROVE  UNCHANGED CharterVars
  BY DEF CharterVars, live, Approved, Banned, Admins, Scheduled

\* Who is logged in is approved and not banned, and has an account.
LEMMA PresentAllowed ==
  ASSUME CInv
  PROVE  /\ sessions \subseteq Approved \ Banned /\ live \subseteq Users
         /\ Approved \subseteq live /\ Banned \subseteq live /\ Admins \subseteq live
  BY DEF CInv, SerialAccountInv, AllAllowed, IInv, AccountTypeOK, Approved, Banned, Admins

\* A request of an administrator is one that the charter allows, where its target is not
\* that administrator.
LEMMA ByAnotherAdmin ==
  ASSUME CInv, NEW h \in Handlers, req[h].op \in AdminOps, req[h].target \in live,
         \/ req[h].op \in {"ban", "demote", "erase"}
         \/ req[h].op = "approve" /\ req[h].target \notin Approved
         \/ req[h].op = "unban" /\ req[h].target \in Banned
  PROVE  Charter!ByAnother(req[h].target)
<1>1. PICK a \in Admins \cap sessions :
        req[h].op \in {"ban", "demote", "erase"} => a # req[h].target
  BY DEF CInv, Mandate, ByAdmin
<1>2. a # req[h].target
  BY <1>1, PresentAllowed
<1>3. QED
  BY <1>1, <1>2 DEF Charter!ByAnother

\* A write is a decision that the charter allows, or changes nothing that it sees.
LEMMA WriteServes ==
  ASSUME CInv, NEW h \in Handlers, req[h] # Idle, WriteStep(h)
  PROVE  Charter!Next \/ UNCHANGED CharterVars
<1> DEFINE u == req[h].target
           op == req[h].op
<1>1. /\ Sets(h, op) /\ req[h].at = "write" /\ u \in live
      /\ live' = live /\ unused' = unused
      /\ sessions' = IF req[h].bump THEN sessions \ {u} ELSE sessions
  BY WriteSets
<1>2. u \in Users
  BY <1>1, PresentAllowed
<1>3. ASSUME UNCHANGED <<Approved, Banned, Admins, Scheduled>>
      PROVE  Charter!Next \/ UNCHANGED CharterVars
  <2>1. CASE sessions' = sessions
    BY <1>1, <1>3, <2>1 DEF CharterVars
  <2>2. CASE sessions' # sessions
    <3>1. u \in sessions /\ sessions' = sessions \ {u}
      BY <1>1, <2>2
    <3>2. Charter!ChangePassword(u)
      BY <1>1, <1>3, <3>1 DEF Charter!ChangePassword
    <3>3. QED
      BY <1>2, <3>2 DEF Charter!Next
  <2>3. QED
    BY <2>1, <2>2
<1>4. CASE op = "approve"
  <2>1. CASE u \in Approved
    BY <1>1, <1>3, <1>4, <2>1 DEF Sets
  <2>2. CASE u \notin Approved
    <3>1. sessions' = sessions
      BY <1>1, <2>2, PresentAllowed
    <3>2. Charter!ByAnother(u)
      BY <1>1, <1>4, <2>2, ByAnotherAdmin DEF AdminOps, Loops
    <3>3. Charter!Approve(u)
      BY <1>1, <1>4, <2>2, <3>1, <3>2 DEF Sets, Charter!Approve
    <3>4. QED
      BY <1>2, <3>3 DEF Charter!Next
  <2>3. QED
    BY <2>1, <2>2
<1>5. CASE op = "ban"
  <2>1. CASE u \in Banned
    BY <1>1, <1>3, <1>5, <2>1 DEF Sets
  <2>2. CASE u \notin Banned
    <3>1. u \notin Admins /\ req[h].bump
      BY <1>1, <1>5, <2>2 DEF CInv, SerialAccountInv, BansEndSessions, BanDecided, At, Admins, Banned
    <3>2. Charter!ByAnother(u)
      BY <1>1, <1>5, ByAnotherAdmin DEF AdminOps, Loops
    <3>3. Charter!Ban(u)
      BY <1>1, <1>5, <2>2, <3>1, <3>2 DEF Sets, Charter!Ban
    <3>4. QED
      BY <1>2, <3>3 DEF Charter!Next
  <2>3. QED
    BY <2>1, <2>2
<1>6. CASE op = "unban"
  <2>1. CASE u \notin Banned
    BY <1>1, <1>3, <1>6, <2>1 DEF Sets
  <2>2. CASE u \in Banned
    <3>1. sessions' = sessions
      BY <1>1, <2>2, PresentAllowed
    <3>2. Charter!ByAnother(u)
      BY <1>1, <1>6, <2>2, ByAnotherAdmin DEF AdminOps, Loops
    <3>3. Charter!Unban(u)
      BY <1>1, <1>6, <2>2, <3>1, <3>2 DEF Sets, Charter!Unban
    <3>4. QED
      BY <1>2, <3>3 DEF Charter!Next
  <2>3. QED
    BY <2>1, <2>2
<1>7. CASE op = "demote"
  <2>1. CASE u \notin Admins
    BY <1>1, <1>3, <1>7, <2>1 DEF Sets
  <2>2. CASE u \in Admins
    <3>1. req[h].bump
      BY <1>1, <1>7 DEF CInv, Mandate, StillSo
    <3>2. Charter!ByAnother(u)
      BY <1>1, <1>7, ByAnotherAdmin DEF AdminOps, Loops
    <3>3. Charter!Demote(u)
      BY <1>1, <1>7, <2>2, <3>1, <3>2 DEF Sets, Charter!Demote
    <3>4. QED
      BY <1>2, <3>3 DEF Charter!Next
  <2>3. QED
    BY <2>1, <2>2
<1>8. CASE op = "schedule"
  <2>1. CASE u \in Scheduled
    BY <1>1, <1>3, <1>8, <2>1 DEF Sets
  <2>2. CASE u \notin Scheduled
    <3>1. /\ req[h].bump /\ u \in sessions \cup {NoUser}
          /\ u \in Admins => Admins \ (Scheduled \cup {u}) # {}
      BY <1>1, <1>8 DEF CInv, Mandate, StillSo, ByOwner, At
    <3>2. u \in sessions
      BY <1>2, <3>1, AccountNullAssumption
    <3>3. Charter!AskToLeave(u)
      BY <1>1, <1>8, <2>2, <3>1, <3>2 DEF Sets, Charter!AskToLeave
    <3>4. QED
      BY <1>2, <3>3 DEF Charter!Next
  <2>3. QED
    BY <2>1, <2>2
<1>9. CASE op = "cancel"
  <2>1. CASE u \notin Scheduled
    BY <1>1, <1>3, <1>9, <2>1 DEF Sets
  <2>2. CASE u \in Scheduled
    <3>1. ~req[h].bump /\ u \in sessions \cup {NoUser}
      BY <1>1, <1>9 DEF CInv, Mandate, StillSo, ByOwner, At
    <3>2. u \in sessions
      BY <1>2, <3>1, AccountNullAssumption
    <3>3. Charter!Stay(u)
      BY <1>1, <1>9, <2>2, <3>1, <3>2 DEF Sets, Charter!Stay
    <3>4. QED
      BY <1>2, <3>3 DEF Charter!Next
  <2>3. QED
    BY <2>1, <2>2
<1>10. CASE op \in {"password", "email"}
  BY <1>1, <1>3, <1>10 DEF Sets
<1>11. QED
  BY <1>1, <1>4, <1>5, <1>6, <1>7, <1>8, <1>9, <1>10 DEF Sets

\* An account is erased by another administrator, or was due.
LEMMA EraseServes ==
  ASSUME CInv, NEW h \in Handlers, EraseStep(h)
  PROVE  Charter!Next
<1>1. ASSUME NEW u \in live, Erase(u), Charter!ByAnother(u) \/ u \in Scheduled
      PROVE  Charter!Next
  <2>1. /\ live' = live \ {u} /\ \A v \in live' : user'[v] = user[v]
        /\ unused' = unused /\ sessions' = sessions \ {u}
    BY <1>1 DEF Erase, Revoke, live
  <2>2. /\ Approved' = Approved \ {u} /\ Banned' = Banned \ {u}
        /\ Admins' = Admins \ {u} /\ Scheduled' = Scheduled \ {u}
    BY <2>1 DEF Approved, Banned, Admins, Scheduled
  <2>3. Charter!End(u)
    BY <1>1, <2>1, <2>2 DEF Charter!End
  <2>4. QED
    BY <2>3, PresentAllowed DEF Charter!Next
<1>2. CASE WriteErase(h)
  <2>1. Erase(req[h].target) /\ req[h].op = "erase" /\ req[h].target \in live
    BY <1>2 DEF WriteErase, At, Erase
  <2>2. Charter!ByAnother(req[h].target)
    BY <2>1, ByAnotherAdmin DEF AdminOps
  <2>3. QED
    BY <1>1, <2>1, <2>2
<1>3. CASE \E u \in live : PurgeOne(h, u)
  <2>1. PICK u \in live : PurgeOne(h, u)
    BY <1>3
  <2>2. Erase(u) /\ u \in Due
    BY <2>1 DEF PurgeOne, At, Turn, CInv, SerialAccountInv, PurgesAreDue
  <2>3. QED
    BY <1>1, <2>2 DEF Due, Scheduled
<1>4. QED
  BY <1>2, <1>3 DEF EraseStep

\* Registrations, dates and logins.
LEMMA ElsewhereServes ==
  ASSUME CInv, NEW u \in Users,
         \/ Register(u) \/ DatePasses(u) \/ BeginLogin(u) \/ SignToken(u) \/ EndLogin(u)
  PROVE  Charter!Next \/ UNCHANGED CharterVars
<1>1. CASE Register(u)
  <2>1. /\ NewUser \in Row /\ NewUser.deletion = "null" /\ NewUser.role # "ADMIN"
        /\ ~NewUser.isApproved /\ ~NewUser.isBanned
    BY DEF NewUser, Row
  <2>2. /\ live' = live \cup {u} /\ u \in Users \ live /\ user'[u] = NewUser
        /\ \A v \in live : user'[v] = user[v]
        /\ unused' = unused \ {u} /\ Scheduled' = Scheduled
    BY <1>1, <2>1, InsertTyped DEF Register, CInv, SerialAccountInv, IInv
  <2>3. Approved' = Approved /\ Banned' = Banned /\ Admins' = Admins
    BY <2>1, <2>2 DEF Approved, Banned, Admins
  <2>4. Charter!Register(u)
    BY <1>1, <2>2, <2>3 DEF Register, tokens, Charter!Register
  <2>5. QED
    BY <2>4 DEF Charter!Next
<1>2. CASE DatePasses(u)
  <2>1. DateOnly
    BY <1>2, DatesChangeNothing DEF CInv, SerialAccountInv, IInv
  <2>2. QED
    BY <1>2, <2>1 DEF DateOnly, DatePasses, tokens, CharterVars
<1>3. CASE BeginLogin(u) \/ EndLogin(u)
  BY <1>3, CharterBlind DEF BeginLogin, EndLogin
<1>4. CASE SignToken(u)
  <2>1. user' = user /\ unused' = unused /\ sessions' = sessions \cup {u} /\ u \in loggingIn
    BY <1>4 DEF SignToken
  <2>2. u \in Approved \ Banned
    BY <2>1 DEF CInv, SerialAccountInv, AllAllowed, IInv, AccountTypeOK, Approved, Banned
  <2>3. /\ live' = live /\ Approved' = Approved /\ Banned' = Banned
        /\ Admins' = Admins /\ Scheduled' = Scheduled
    BY <2>1 DEF live, Approved, Banned, Admins, Scheduled
  <2>4. Charter!LogIn(u)
    BY <2>1, <2>2, <2>3 DEF Charter!LogIn
  <2>5. QED
    BY <2>4 DEF Charter!Next
<1>5. QED
  BY <1>1, <1>2, <1>3, <1>4

\* The server starts: it appoints the administrator of BOOTSTRAP_ADMIN_EMAIL, or nobody.
LEMMA RestartServes ==
  ASSUME CInv, Restart
  PROVE  Charter!Next \/ UNCHANGED CharterVars
<1>1. CASE bootstrap' = Unset /\ UNCHANGED <<user, unused, sessions>>
  BY <1>1, CharterBlind
<1>2. ASSUME NEW u \in live,
             user' = [user EXCEPT ![u] = Repaired(@)],
             sessions' = IF Sound(user[u]) THEN sessions ELSE sessions \ {u},
             UNCHANGED unused
      PROVE  Charter!Next
  <2> DEFINE row == Repaired(user[u])
  <2>1. user[u] \in Row /\ user \in [live -> Row]
    BY DEF CInv, SerialAccountInv, IInv, AccountTypeOK
  <2>2. /\ row \in Row /\ row.deletion = user[u].deletion
        /\ row.role = "ADMIN" /\ row.isApproved /\ ~row.isBanned
    BY <2>1, RepairedTyped
  <2>3. user' = [user EXCEPT ![u] = row]
    BY <1>2
  <2> HIDE DEF row
  <2>4. /\ live' = live /\ user'[u] = row /\ \A v \in live \ {u} : user'[v] = user[v]
    BY <2>1, <2>3 DEF live
  <2>5. /\ Approved' = Approved \cup {u} /\ Banned' = Banned \ {u}
        /\ Admins' = Admins \cup {u}
    BY <2>2, <2>4 DEF Approved, Banned, Admins
  <2>6. Scheduled' = Scheduled
    BY <2>2, <2>4 DEF Scheduled
  <2>7. Sound(user[u]) <=> u \in (Admins \cap Approved) \ Banned
    BY DEF Sound, Admins, Approved, Banned
  <2>8. u \notin unused /\ u \in Users
    BY DEF CInv, SerialAccountInv, IInv, AccountTypeOK
  <2>9. Charter!Appoint(u)
    <3>1. unused' = unused \ {u} /\ live' = live \cup {u}
      BY <1>2, <2>4, <2>8
    <3>2. sessions' = IF u \in (Admins \cap Approved) \ Banned THEN sessions ELSE sessions \ {u}
      BY <1>2, <2>7
    <3>3. QED
      BY <2>5, <2>6, <3>1, <3>2 DEF Charter!Appoint
  <2>10. QED
    BY <2>8, <2>9 DEF Charter!Next
<1>3. ASSUME NEW u \in unused, Insert(u, Repaired(NewUser)), UNCHANGED sessions
      PROVE  Charter!Next
  <2> DEFINE row == Repaired(NewUser)
  <2>1. NewUser \in Row /\ NewUser.deletion = "null"
    BY DEF NewUser, Row
  <2>2. /\ row \in Row /\ row.deletion = "null"
        /\ row.role = "ADMIN" /\ row.isApproved /\ ~row.isBanned
    BY <2>1, RepairedTyped
  <2>3. Insert(u, row)
    BY <1>3
  <2> HIDE DEF row
  <2>4. /\ live' = live \cup {u} /\ u \in Users \ live /\ user'[u] = row
        /\ \A v \in live : user'[v] = user[v]
        /\ unused' = unused \ {u} /\ Scheduled' = Scheduled
    BY <2>2, <2>3, InsertTyped DEF CInv, SerialAccountInv, IInv
  <2>5. /\ Approved' = Approved \cup {u} /\ Banned' = Banned \ {u}
        /\ Admins' = Admins \cup {u}
    BY <2>2, <2>4 DEF Approved, Banned, Admins
  <2>6. sessions' = sessions /\ u \notin sessions
    BY <1>3, <2>4 DEF CInv, SerialAccountInv, IInv, AccountTypeOK
  <2>7. Charter!Appoint(u)
    BY <2>4, <2>5, <2>6 DEF Charter!Appoint
  <2>8. QED
    BY <2>4, <2>7 DEF Charter!Next
<1>4. QED
  BY <1>1, <1>2, <1>3 DEF Restart

\* Every step keeps the mandates, and is a step of the charter or invisible to it.
LEMMA CharterStep ==
  ASSUME CInv, [SerialAccountNext]_accountVars
  PROVE  CInv' /\ (Charter!Next \/ UNCHANGED CharterVars)
<1>1. SerialAccountInv'
  BY SerialNextKeeps DEF CInv
<1>2. CASE Quiet /\ \E h \in Handlers : Begin(h)
  <2>1. PICK h \in Handlers : Begin(h)
    BY <1>2
  <2>2. Reads /\ \A k \in Handlers \ {h} : req'[k] = req[k]
    BY <2>1, BeginTyped DEF CInv, SerialAccountInv, IInv
  <2>3. CInv'
    BY <1>1, <1>2, <2>1, <2>2, BeginMandate, MandatesKept
  <2>4. QED
    BY <2>2, <2>3, CharterBlind DEF Reads, tokens
<1>3. CASE \E h \in Handlers : Proceed(h) \/ Fail(h)
  <2>1. PICK h \in Handlers : Proceed(h) \/ Fail(h)
    BY <1>3
  <2>2. req[h] # Idle
    BY <2>1, ProceedBusy
  <2>3. CASE ReadStep(h)
    <3>1. Reads /\ \A k \in Handlers \ {h} : req'[k] = req[k]
      BY <2>3, ReadTyped DEF CInv, SerialAccountInv, IInv
    <3>2. CInv'
      BY <1>1, <2>2, <2>3, <3>1, ReadMandate, MandatesKept
    <3>3. QED
      BY <3>1, <3>2, CharterBlind DEF Reads, tokens
  <2>4. CASE WriteStep(h)
    <3>1. \A k \in Handlers \ {h} : req'[k] = req[k]
      BY <2>4, WriteTyped, RowWritten DEF CInv, SerialAccountInv, IInv
    <3>2. CInv'
      BY <1>1, <2>2, <2>4, <3>1, WriteMandate, MandatesKept
    <3>3. QED
      BY <2>2, <2>4, <3>2, WriteServes
  <2>5. CASE EraseStep(h)
    <3>1. \A k \in Handlers \ {h} : req'[k] = req[k]
      BY <2>5, EraseTyped DEF CInv, SerialAccountInv, IInv
    <3>2. CInv'
      BY <1>1, <2>2, <2>5, <3>1, EraseMandate, MandatesKept
    <3>3. QED
      BY <2>5, <3>2, EraseServes
  <2>6. QED
    BY <2>1, <2>3, <2>4, <2>5, StepKinds
<1>4. CASE Elsewhere
  <2>1. CInv'
    BY <1>4, ElsewhereMandate
  <2>2. Charter!Next \/ UNCHANGED CharterVars
    BY <1>4, ElsewhereServes, RestartServes DEF Elsewhere
  <2>3. QED
    BY <2>1, <2>2
<1>5. CASE UNCHANGED accountVars
  <2>1. user' = user /\ unused' = unused /\ sessions' = sessions /\ req' = req
    BY <1>5 DEF accountVars, tokens
  <2>2. live' = live /\ Admins' = Admins /\ Scheduled' = Scheduled
    BY <2>1 DEF live, Admins, Scheduled
  <2>3. \A h \in Handlers : Mandate(h)'
    BY <2>1, <2>2 DEF CInv, Mandate, ByAdmin, ByOwner, StillSo, At
  <2>4. QED
    BY <1>1, <2>1, <2>3, CharterBlind DEF CInv
<1>6. QED
  BY <1>2, <1>3, <1>4, <1>5 DEF SerialAccountNext

\* One request at a time, every change of an account is one that its charter allows: another
\* administrator who still is one decides it, or its owner, or the start of the server; and
\* no administrator leaves unless another one stays.
THEOREM ServesAccountCharter == SerialAccountSpec => ImplementsAccountCharter
<1>1. AccountInit => CInv /\ Charter!Init
  <2>1. ASSUME AccountInit
        PROVE  CInv /\ Charter!Init
    <3>1. \A h \in Handlers : req[h] = Idle
      BY <2>1 DEF AccountInit
    <3>2. CInv
      BY <2>1, <3>1, SerialInit, IdleMandate DEF CInv
    <3>3. live = {}
      BY <2>1 DEF AccountInit, live
    <3>4. Charter!Init
      BY <2>1, <3>3 DEF AccountInit, Charter!Init, Approved, Banned, Admins, Scheduled
    <3>5. QED
      BY <3>2, <3>4
  <2>2. QED
    BY <2>1
<1>2. CInv /\ [SerialAccountNext]_accountVars => CInv' /\ [Charter!Next]_(Charter!vars)
  BY CharterStep DEF CharterVars, Charter!vars
<1>3. QED
  BY <1>1, <1>2, PTL DEF SerialAccountSpec, ImplementsAccountCharter, Charter!Spec
================================================================================
