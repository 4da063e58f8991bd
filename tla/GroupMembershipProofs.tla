------------------------- MODULE GroupMembershipProofs -------------------------
(***************************************************************************)
(* Proofs about GroupMembership, for any sets of users, invitations and    *)
(* requests in flight.  The first part holds however requests interleave   *)
(* (GroupSpec); the second when one request runs at a time (SerialGroupSpec).        *)
(***************************************************************************)
EXTENDS GroupMembership, TLAPS

LEMMA InitGroupTypeOK == GroupInit => GroupTypeOK
  BY DEF GroupInit, GroupTypeOK, UserOrNull, Idle, Request, FreeInvite, Invite

\* A request in flight, and an invitation that exists, have all their fields.
LEMMA GroupBusyTyped ==
  ASSUME GroupTypeOK, NEW h \in Handlers, req[h].op # "idle"
  PROVE  req[h] \in Request
  BY DEF GroupTypeOK, Idle

LEMMA GroupRowTyped ==
  ASSUME GroupTypeOK, NEW i \in Invites, invite[i].status \in Row
  PROVE  /\ invite[i] \in [status : Row, to : Users, by : Users]
         /\ \A s \in Row : [invite EXCEPT ![i].status = s] \in [Invites -> Invite]
<1>1. invite[i] \in [status : Row, to : Users, by : Users]
  BY DEF GroupTypeOK, Invite, FreeInvite, DeletedInvite, Row
<1>2. ASSUME NEW s \in Row
      PROVE  [invite[i] EXCEPT !.status = s] \in Invite
  BY <1>1 DEF Invite
<1>3. ASSUME NEW s \in Row
      PROVE  [invite EXCEPT ![i].status = s] \in [Invites -> Invite]
  BY <1>2 DEF GroupTypeOK
<1>4. QED
  BY <1>1, <1>3

\* The invitations that createMany inserts, in one statement.
LEMMA InsertInvitesTyped ==
  ASSUME GroupTypeOK, NEW by, NEW ids \in SUBSET Users, InsertInvites(by, ids)
  PROVE  invite' \in [Invites -> Invite]
<1>1. by \in Users
  BY DEF InsertInvites, GroupTypeOK
<1>2. PICK f \in [ids -> {i \in Invites : invite[i].status = "FREE"}] :
        invite' = [i \in Invites |->
                     IF \E u \in ids : f[u] = i
                       THEN [status |-> "PENDING", by |-> by,
                             to |-> CHOOSE u \in ids : f[u] = i]
                       ELSE invite[i]]
  BY DEF InsertInvites
<1>3. ASSUME NEW i \in Invites, \E u \in ids : f[u] = i
      PROVE  (CHOOSE u \in ids : f[u] = i) \in Users
  BY <1>3
<1>4. QED
  BY <1>1, <1>2, <1>3 DEF GroupTypeOK, Invite, Row

\* The members picked to follow an owner or an administrator are among those asked about.
LEMMA NextGroupOwnerIn ==
  \A S : /\ NextGroupOwner(S) \subseteq S
         /\ S \cap Admins # {} => NextGroupOwner(S) \subseteq Admins
  BY DEF NextGroupOwner

LEMMA GroupStartTyped ==
  ASSUME GroupTypeOK, NEW h \in Handlers, NEW r \in Request \cup {Idle}, Start(h, r)
  PROVE  req' \in [Handlers -> Request \cup {Idle}]
  BY DEF GroupTypeOK, Start

\* A request's record is well typed from its first await.
LEMMA RequestTyped ==
  ASSUME GroupTypeOK, NEW h \in Handlers, Begin(h)
  PROVE  req' \in [Handlers -> Request \cup {Idle}]
<1> USE DEF Request, UserOrNull, GroupTypeOK, Reads
<1>1. ASSUME NEW u \in Users, CreateGroup(h, u) PROVE req' \in [Handlers -> Request \cup {Idle}]
  <2>1. PICK ids \in SUBSET (live \ {u}) :
          Start(h, IF ids = {} THEN Idle
                   ELSE [Idle EXCEPT !.op = "invite", !.by = u, !.ids = ids])
    BY <1>1 DEF CreateGroup
  <2>2. [Idle EXCEPT !.op = "invite", !.by = u, !.ids = ids] \in Request
    BY DEF Idle
  <2>3. QED
    BY <2>1, <2>2, GroupStartTyped
<1>2. ASSUME NEW u \in Users, BeginInvite(h, u) PROVE req' \in [Handlers -> Request \cup {Idle}]
  <2>1. PICK ids \in SUBSET (Users \ {u}) :
          Start(h, [Idle EXCEPT !.op = "list", !.by = u, !.ids = ids])
    BY <1>2 DEF BeginInvite
  <2>2. [Idle EXCEPT !.op = "list", !.by = u, !.ids = ids] \in Request
    BY DEF Idle
  <2>3. QED
    BY <2>1, <2>2, GroupStartTyped
<1>3. ASSUME NEW u \in Users, BeginLeave(h, u) PROVE req' \in [Handlers -> Request \cup {Idle}]
  <2>1. [Idle EXCEPT !.op = "dissolve", !.by = u] \in Request
    BY DEF Idle
  <2>3. CASE Start(h, [Idle EXCEPT !.op = "dissolve", !.by = u])
    BY <2>1, <2>3, GroupStartTyped
  <2>4. CASE \E n \in NextGroupOwner(Members \ {u}) :
               Start(h, [Idle EXCEPT !.op = "leave", !.by = u,
                          !.promote = IF role[u] = "ADMIN" /\ Admins \subseteq {u}
                                        THEN n ELSE NoUser,
                          !.owner   = IF createdBy = u THEN n ELSE NoUser])
    <3>1. PICK n \in Users, p, o \in UserOrNull :
            Start(h, [Idle EXCEPT !.op = "leave", !.by = u, !.promote = p, !.owner = o])
      BY <2>4, NextGroupOwnerIn DEF Members
    <3>2. [Idle EXCEPT !.op = "leave", !.by = u, !.promote = p, !.owner = o] \in Request
      BY DEF Idle
    <3>3. QED
      BY <3>1, <3>2, GroupStartTyped
  <2>5. QED
    BY <1>3, <2>3, <2>4 DEF BeginLeave
<1>4. ASSUME NEW u \in Users, NEW t \in Users, BeginRemove(h, u, t)
      PROVE req' \in [Handlers -> Request \cup {Idle}]
  <2>1. PICK n \in UserOrNull :
          Start(h, [Idle EXCEPT !.op = "remove", !.by = u, !.target = t, !.owner = n])
    BY <1>4, NextGroupOwnerIn DEF BeginRemove, Members
  <2>2. [Idle EXCEPT !.op = "remove", !.by = u, !.target = t, !.owner = n] \in Request
    BY DEF Idle
  <2>3. QED
    BY <2>1, <2>2, GroupStartTyped
<1>5. ASSUME NEW u \in Users, NEW t \in Users, BeginPromote(h, u, t)
      PROVE req' \in [Handlers -> Request \cup {Idle}]
  <2>1. [Idle EXCEPT !.op = "promote", !.by = u, !.target = t] \in Request
    BY DEF Idle
  <2>2. QED
    BY <1>5, <2>1, GroupStartTyped DEF BeginPromote
<1>6. ASSUME NEW i \in Invites, NEW op \in {"accept", "reject"}, BeginAnswer(h, i, op)
      PROVE req' \in [Handlers -> Request \cup {Idle}]
  <2>1. invite[i].to \in Users
    BY <1>6, GroupRowTyped DEF BeginAnswer, Row
  <2>2. [Idle EXCEPT !.op = op, !.by = invite[i].to, !.inv = i] \in Request
    BY <2>1 DEF Idle
  <2>3. QED
    BY <1>6, <2>2, GroupStartTyped DEF BeginAnswer
<1>7. QED
  BY <1>1, <1>2, <1>3, <1>4, <1>5, <1>6 DEF Begin

\* A request writes nothing at its first await, unless it creates the group.
LEMMA BeginReads ==
  ASSUME NEW h \in Handlers, Begin(h)
  PROVE  (\E u \in Users : CreateGroup(h, u)) \/ UNCHANGED <<live, rows>>
<1>1. ASSUME NEW u \in Users, BeginLeave(h, u) PROVE UNCHANGED <<live, rows>>
  BY <1>1 DEF BeginLeave, Reads
<1>2. QED
  BY <1>1 DEF Begin, BeginInvite, BeginRemove, BeginPromote, BeginAnswer, Reads

\* The first await of a request starts that request and no other.
LEMMA BeginStarts ==
  ASSUME GroupTypeOK, NEW h \in Handlers, Begin(h)
  PROVE  req[h] = Idle /\ \A k \in Handlers \ {h} : req'[k] = req[k]
<1> DEFINE Started == req[h] = Idle /\ \A k \in Handlers \ {h} : req'[k] = req[k]
<1>0. ASSUME NEW r, Start(h, r) PROVE Started
  BY <1>0 DEF Start, GroupTypeOK
<1> HIDE DEF Started
<1>1. ASSUME NEW u \in Users, CreateGroup(h, u) PROVE Started
  BY <1>0, <1>1 DEF CreateGroup
<1>2. ASSUME NEW u \in Users, BeginLeave(h, u) PROVE Started
  BY <1>0, <1>2 DEF BeginLeave, Reads
<1>3. ASSUME NEW u \in Users, BeginInvite(h, u) PROVE Started
  BY <1>0, <1>3 DEF BeginInvite, Reads
<1>4. ASSUME NEW u \in Users, NEW t \in Users, BeginRemove(h, u, t) PROVE Started
  BY <1>0, <1>4 DEF BeginRemove, Reads
<1>5. ASSUME NEW u \in Users, NEW t \in Users, BeginPromote(h, u, t) PROVE Started
  BY <1>0, <1>5 DEF BeginPromote, Reads
<1>6. ASSUME NEW i \in Invites, NEW op \in {"accept", "reject"}, BeginAnswer(h, i, op)
      PROVE Started
  BY <1>0, <1>6 DEF BeginAnswer, Reads
<1>7. Started
  BY <1>1, <1>2, <1>3, <1>4, <1>5, <1>6 DEF Begin
<1>8. QED
  BY <1>7 DEF Started

\* A request that will answer an invitation read it pending, as its invitee.
LEMMA AnswerStarted ==
  ASSUME GroupTypeOK, NEW h \in Handlers, Begin(h), req'[h].op \in {"accept", "reject"}
  PROVE  /\ req'[h].inv \in Invites
         /\ invite[req'[h].inv].status = "PENDING"
         /\ invite[req'[h].inv].to = req'[h].by
<1> USE DEF Reads, Start, Idle, GroupTypeOK
<1>1. ASSUME NEW u \in Users, CreateGroup(h, u) PROVE FALSE
  BY <1>1 DEF CreateGroup
<1>2. ASSUME NEW u \in Users, BeginInvite(h, u) PROVE FALSE
  BY <1>2 DEF BeginInvite
<1>3. ASSUME NEW u \in Users, BeginLeave(h, u) PROVE FALSE
  <2>1. CASE Start(h, [Idle EXCEPT !.op = "dissolve", !.by = u])
    BY <2>1
  <2>2. ASSUME NEW p, NEW n,
               Start(h, [Idle EXCEPT !.op = "leave", !.by = u, !.promote = p, !.owner = n])
        PROVE  FALSE
    BY <2>2
  <2>3. QED
    BY <1>3, <2>1, <2>2, ZenonT(60) DEF BeginLeave
<1>4. ASSUME NEW u \in Users, NEW t \in Users, BeginRemove(h, u, t) PROVE FALSE
  BY <1>4 DEF BeginRemove
<1>5. ASSUME NEW u \in Users, NEW t \in Users, BeginPromote(h, u, t) PROVE FALSE
  BY <1>5 DEF BeginPromote
<1>6. PICK i \in Invites, op \in {"accept", "reject"} : BeginAnswer(h, i, op)
  BY <1>1, <1>2, <1>3, <1>4, <1>5 DEF Begin
<1>7. QED
  BY <1>6 DEF BeginAnswer

\* A later await leaves the other requests alone, and does not turn one into an answer.
LEMMA FinishEnds ==
  ASSUME GroupTypeOK, NEW h \in Handlers, Finish(h)
  PROVE  /\ \A k \in Handlers \ {h} : req'[k] = req[k]
         /\ req'[h].op \in {"idle", "invite"}
<1>1. CASE Done(h)
  BY <1>1 DEF Done, Idle, GroupTypeOK
<1>2. CASE ListInvitees(h)
  BY <1>2, GroupBusyTyped DEF ListInvitees, GroupTypeOK, Request
<1>3. QED
  BY <1>1, <1>2 DEF Finish, WriteInvites, WriteAccept, WriteReject, WriteRemove,
                    WritePromote, WriteDissolve, WriteLeave, Abort

LEMMA NextGroupTypeOK == GroupTypeOK /\ [GroupNext]_groupVars => GroupTypeOK'
<1> SUFFICES ASSUME GroupTypeOK, [GroupNext]_groupVars PROVE GroupTypeOK'
  OBVIOUS
<1> USE DEF GroupTypeOK
<1>1. ASSUME NEW h \in Handlers, Begin(h) PROVE GroupTypeOK'
  <2>1. req' \in [Handlers -> Request \cup {Idle}]
    BY <1>1, RequestTyped
  <2>2. ASSUME NEW u \in Users, CreateGroup(h, u) PROVE GroupTypeOK'
    BY <2>1, <2>2 DEF CreateGroup
  <2>3. CASE UNCHANGED <<live, rows>>
    BY <2>1, <2>3 DEF rows
  <2>4. (\E u \in Users : CreateGroup(h, u)) \/ UNCHANGED <<live, rows>>
    BY <1>1, BeginReads
  <2>5. QED
    BY <2>2, <2>3, <2>4
<1>2. ASSUME NEW h \in Handlers, Finish(h) PROVE GroupTypeOK'
  <2>1. Done(h) => req' \in [Handlers -> Request \cup {Idle}]
    BY DEF Done, Request, Idle, UserOrNull
  <2>2. CASE ListInvitees(h)
    <3>1. PICK ids \in SUBSET Users :
            req' = [req EXCEPT ![h].op = "invite", ![h].ids = ids]
      BY <2>2, GroupBusyTyped DEF ListInvitees, Request
    <3>2. [req[h] EXCEPT !.op = "invite", !.ids = ids] \in Request
      BY <2>2, GroupBusyTyped DEF ListInvitees, Request
    <3>3. req' = [req EXCEPT ![h] = [req[h] EXCEPT !.op = "invite", !.ids = ids]]
      BY <3>1
    <3>4. req' \in [Handlers -> Request \cup {Idle}]
      BY <3>2, <3>3
    <3>5. QED
      BY <2>2, <3>4 DEF ListInvitees, rows
  <2>3. CASE WriteInvites(h)
    <3>1. req[h].ids \in SUBSET Users
      BY <2>3, GroupBusyTyped DEF WriteInvites, Request
    <3>2. invite' \in [Invites -> Invite]
      BY <2>3, <3>1, InsertInvitesTyped DEF WriteInvites
    <3>3. QED
      BY <2>1, <2>3, <3>2 DEF WriteInvites
  <2>4. CASE WriteAccept(h)
    <3>1. req[h].by \in Users /\ req[h].inv \in Invites \cup {NoInvite}
      BY <2>4, GroupBusyTyped DEF WriteAccept, Request
    <3>2. older' \subseteq Users \X Users
      BY <2>4, <3>1 DEF WriteAccept, Members
    <3>3. role' \in [Users -> {"NONE", "MEMBER", "ADMIN"}]
      BY <2>4 DEF WriteAccept
    <3>4. invite' \in [Invites -> Invite]
      BY <2>4, <3>1, GroupRowTyped DEF WriteAccept, Row
    <3>5. QED
      BY <2>1, <2>4, <3>2, <3>3, <3>4 DEF WriteAccept
  <2>5. CASE WriteReject(h)
    <3>1. req[h].inv \in Invites \cup {NoInvite}
      BY <2>5, GroupBusyTyped DEF WriteReject, Request
    <3>2. invite' \in [Invites -> Invite]
      BY <2>5, <3>1, GroupRowTyped DEF WriteReject, Row
    <3>3. QED
      BY <2>1, <2>5, <3>2 DEF WriteReject
  <2>6. CASE WriteRemove(h)
    BY <2>1, <2>6 DEF WriteRemove, TransferGroup, WithoutMember, WithoutJoin
  <2>7. CASE WritePromote(h)
    BY <2>1, <2>7 DEF WritePromote
  <2>8. CASE WriteDissolve(h)
    BY <2>1, <2>8 DEF WriteDissolve, DeleteGroup, DeletedInvite, Invite, UserOrNull
  <2>9. CASE WriteLeave(h)
    BY <2>1, <2>9 DEF WriteLeave, TransferGroup, WithoutMember, WithoutJoin
  <2>10. CASE Abort(h)
    BY <2>1, <2>10 DEF Abort, rows
  <2>11. QED
    BY <1>2, <2>2, <2>3, <2>4, <2>5, <2>6, <2>7, <2>8, <2>9, <2>10 DEF Finish
<1>3. ASSUME NEW u \in Users, DeleteUser(u) PROVE GroupTypeOK'
  <2>1. CASE createdBy = u
    BY <1>3, <2>1 DEF DeleteUser, DeleteGroup, DeletedInvite, Invite, UserOrNull
  <2>2. CASE createdBy # u
    BY <1>3, <2>2 DEF DeleteUser, WithoutMember, WithoutJoin, DeletedInvite, Invite, UserOrNull
  <2>3. QED
    BY <2>1, <2>2
<1>4. CASE UNCHANGED groupVars
  BY <1>4 DEF groupVars
<1>5. QED
  BY <1>1, <1>2, <1>3, <1>4 DEF GroupNext

\* The rows and the requests in flight keep their types, however requests interleave.
THEOREM GroupTypeCorrect == GroupSpec => []GroupTypeOK
  BY InitGroupTypeOK, NextGroupTypeOK, PTL DEF GroupSpec

--------------------------------------------------------------------------------
(***************************************************************************)
(* However requests interleave: no row is left dangling.  The acceptance   *)
(* of an invitation writes for the user whom the invitation names.         *)
(***************************************************************************)
AnswersOwnInvite ==
  \A h \in Handlers : req[h].op \in {"accept", "reject"} =>
    /\ req[h].inv \in Invites
    /\ invite[req[h].inv].status # "FREE"
    /\ invite[req[h].inv].status \in Row => invite[req[h].inv].to = req[h].by

\* What an answer changes of an invitation is its status alone.
SameInvite(i) ==
  /\ invite'[i].to = invite[i].to
  /\ invite'[i].by = invite[i].by
  /\ (invite'[i].status \in Row) <=> (invite[i].status \in Row)
  /\ (invite'[i].status = "FREE") => (invite[i].status = "FREE")

LEMMA GroupStatusOnly ==
  ASSUME GroupTypeOK, NEW i \in Invites, NEW s \in Row, invite[i].status \in Row,
         invite' = [invite EXCEPT ![i].status = s]
  PROVE  \A j \in Invites : SameInvite(j)
<1>1. invite'[i] = [invite[i] EXCEPT !.status = s]
  BY DEF GroupTypeOK
<1>2. invite[i] \in [status : Row, to : Users, by : Users]
  BY GroupRowTyped
<1>3. SameInvite(i)
  BY <1>1, <1>2 DEF SameInvite, Row
<1>4. ASSUME NEW j \in Invites, j # i PROVE SameInvite(j)
  BY <1>4 DEF SameInvite, GroupTypeOK
<1>5. QED
  BY <1>3, <1>4

LEMMA AnswersKept ==
  ASSUME AnswersOwnInvite,
         \A k \in Handlers : req'[k] = req[k] \/ req'[k].op \notin {"accept", "reject"},
         \A i \in Invites : SameInvite(i)
  PROVE  AnswersOwnInvite'
<1>1. SUFFICES ASSUME NEW k \in Handlers, req'[k].op \in {"accept", "reject"}
               PROVE  /\ req'[k].inv \in Invites
                      /\ invite'[req'[k].inv].status # "FREE"
                      /\ invite'[req'[k].inv].status \in Row
                           => invite'[req'[k].inv].to = req'[k].by
  BY DEF AnswersOwnInvite
<1>2. req'[k] = req[k]
  BY <1>1
<1>3. QED
  BY <1>1, <1>2 DEF AnswersOwnInvite, SameInvite

GroupInv == GroupTypeOK /\ NoDanglingRows /\ AnswersOwnInvite

\* Invitations are inserted for live users into rows that were free.
LEMMA InsertInvitesRows ==
  ASSUME GroupTypeOK, NEW by, NEW ids \in SUBSET Users, InsertInvites(by, ids)
  PROVE  /\ group = "PRESENT"
         /\ \A i \in Invites :
              \/ invite'[i] = invite[i]
              \/ /\ invite[i].status = "FREE"
                 /\ invite'[i].status = "PENDING"
                 /\ invite'[i].by \in live
                 /\ invite'[i].to \in ids \cap live
         /\ \A i, j \in Invites :
              invite'[i] # invite[i] /\ invite'[j] # invite[j] /\ i # j
                => invite'[i].to # invite'[j].to
<1>1. PICK f \in [ids -> {i \in Invites : invite[i].status = "FREE"}] :
        /\ \A u, v \in ids : u # v => f[u] # f[v]
        /\ invite' = [i \in Invites |->
                        IF \E u \in ids : f[u] = i
                          THEN [status |-> "PENDING", by |-> by,
                                to |-> CHOOSE u \in ids : f[u] = i]
                          ELSE invite[i]]
  BY DEF InsertInvites
<1>2. ASSUME NEW i \in Invites, invite'[i] # invite[i]
      PROVE  /\ invite'[i].status = "PENDING" /\ invite'[i].by = by
             /\ invite'[i].to \in ids /\ f[invite'[i].to] = i
  <2>1. PICK u \in ids : f[u] = i
    BY <1>1, <1>2
  <2>2. invite'[i] = [status |-> "PENDING", by |-> by, to |-> CHOOSE v \in ids : f[v] = i]
    BY <1>1, <2>1
  <2>3. (CHOOSE v \in ids : f[v] = i) \in ids /\ f[CHOOSE v \in ids : f[v] = i] = i
    BY <2>1
  <2>4. QED
    BY <2>2, <2>3
<1>3. by \in live /\ ids \subseteq live /\ group = "PRESENT"
  BY DEF InsertInvites
<1>4. ASSUME NEW i \in Invites, invite'[i] # invite[i]
      PROVE  invite[i].status = "FREE"
  BY <1>2, <1>4
<1>5. QED
  BY <1>2, <1>3, <1>4

LEMMA InitGroupInv == GroupInit => GroupInv
  BY InitGroupTypeOK
     DEF GroupInit, GroupInv, NoDanglingRows, AnswersOwnInvite, Members, FreeInvite, Row, Idle

LEMMA NextGroupInv == GroupInv /\ [GroupNext]_groupVars => GroupInv'
<1> SUFFICES ASSUME GroupInv, [GroupNext]_groupVars PROVE GroupInv'
  OBVIOUS
<1> USE DEF GroupInv
<1>1. GroupTypeOK'
  BY NextGroupTypeOK
<1>2. ASSUME NEW h \in Handlers, Begin(h) PROVE NoDanglingRows' /\ AnswersOwnInvite'
  <2>1. NoDanglingRows'
    <3>1. ASSUME NEW u \in Users, CreateGroup(h, u) PROVE NoDanglingRows'
      BY <3>1 DEF CreateGroup, NoDanglingRows, GroupTypeOK, Members
    <3>2. CASE UNCHANGED <<live, rows>>
      BY <3>2 DEF rows, NoDanglingRows, Members
    <3>3. QED
      BY <1>2, <3>1, <3>2, BeginReads
  <2>2. AnswersOwnInvite'
    <3>1. invite' = invite
      BY <1>2, BeginReads DEF rows, CreateGroup
    <3>2. \A k \in Handlers \ {h} : req'[k] = req[k]
      BY <1>2, BeginStarts
    <3>3. req'[h].op \in {"accept", "reject"} =>
            /\ req'[h].inv \in Invites
            /\ invite[req'[h].inv].status = "PENDING"
            /\ invite[req'[h].inv].to = req'[h].by
      BY <1>2, AnswerStarted
    <3>4. QED
      BY <3>1, <3>2, <3>3 DEF AnswersOwnInvite
  <2>3. QED
    BY <2>1, <2>2
<1>3. ASSUME NEW h \in Handlers, Finish(h) PROVE NoDanglingRows' /\ AnswersOwnInvite'
  <2>1. \A k \in Handlers : req'[k] = req[k] \/ req'[k].op \notin {"accept", "reject"}
    BY <1>3, FinishEnds
  <2>2. CASE UNCHANGED <<live, rows>>
    BY <2>1, <2>2 DEF rows, NoDanglingRows, AnswersOwnInvite, Members
  <2>3. CASE WriteInvites(h)
    <3>1. req[h].ids \in SUBSET Users
      BY <2>3, GroupBusyTyped DEF WriteInvites, Request
    <3>2. InsertInvites(req[h].by, req[h].ids)
      BY <2>3 DEF WriteInvites
    <3>3. NoDanglingRows'
      BY <2>3, <3>1, <3>2, InsertInvitesRows DEF WriteInvites, NoDanglingRows, Members
    <3>4. \A i \in Invites : invite[i].status # "FREE" => invite'[i] = invite[i]
      BY <3>1, <3>2, InsertInvitesRows
    <3>5. AnswersOwnInvite'
      BY <2>1, <3>4 DEF AnswersOwnInvite
    <3>6. QED
      BY <3>3, <3>5
  <2>4. CASE WriteAccept(h)
    <3>1. /\ req[h].inv \in Invites
          /\ invite[req[h].inv].status \in Row
          /\ invite[req[h].inv].to = req[h].by
      BY <2>4 DEF WriteAccept, AnswersOwnInvite
    <3>2. req[h].by \in live /\ group = "PRESENT"
      BY <3>1 DEF NoDanglingRows
    <3>3. Members' \subseteq Members \cup {req[h].by}
      BY <2>4, <3>2 DEF WriteAccept, Members, GroupTypeOK
    <3>4. /\ invite[req[h].inv] \in [status : Row, to : Users, by : Users]
          /\ invite' = [invite EXCEPT ![req[h].inv].status = "ACCEPTED"]
      BY <2>4, <3>1, GroupRowTyped DEF WriteAccept
    <3>5. \A i \in Invites : SameInvite(i)
      BY <3>1, <3>4, GroupStatusOnly DEF Row
    <3>6. NoDanglingRows'
      BY <2>4, <3>2, <3>3, <3>5 DEF WriteAccept, NoDanglingRows, SameInvite
    <3>7. AnswersOwnInvite'
      BY <2>1, <3>5, AnswersKept
    <3>8. QED
      BY <3>6, <3>7
  <2>5. CASE WriteReject(h)
    <3>1. /\ req[h].inv \in Invites
          /\ invite[req[h].inv].status \in Row
      BY <2>5 DEF WriteReject, AnswersOwnInvite
    <3>2. /\ invite[req[h].inv] \in [status : Row, to : Users, by : Users]
          /\ invite' = [invite EXCEPT ![req[h].inv].status = "REJECTED"]
      BY <2>5, <3>1, GroupRowTyped DEF WriteReject
    <3>3. \A i \in Invites : SameInvite(i)
      BY <3>1, <3>2, GroupStatusOnly DEF Row
    <3>4. NoDanglingRows'
      BY <2>5, <3>3 DEF WriteReject, NoDanglingRows, Members, SameInvite
    <3>5. AnswersOwnInvite'
      BY <2>1, <3>3, AnswersKept
    <3>6. QED
      BY <3>4, <3>5
  <2>6. CASE WriteRemove(h)
    <3>1. Members' \subseteq Members /\ UNCHANGED <<live, group, invite>>
      BY <2>6 DEF WriteRemove, WithoutMember, Members, GroupTypeOK
    <3>2. group = "PRESENT" => createdBy' \in live
      BY <2>6 DEF WriteRemove, TransferGroup, NoDanglingRows
    <3>3. QED
      BY <2>1, <3>1, <3>2 DEF NoDanglingRows, AnswersOwnInvite
  <2>7. CASE WritePromote(h)
    <3>1. Members' \subseteq Members /\ UNCHANGED <<live, group, createdBy, invite>>
      BY <2>7 DEF WritePromote, Members, GroupTypeOK
    <3>2. QED
      BY <2>1, <3>1 DEF NoDanglingRows, AnswersOwnInvite
  <2>8. CASE WriteDissolve(h)
    BY <2>1, <2>8
       DEF WriteDissolve, DeleteGroup, DeletedInvite, NoDanglingRows, AnswersOwnInvite,
           Members, Row
  <2>9. CASE WriteLeave(h)
    <3>1. Members' \subseteq Members /\ UNCHANGED <<live, group, invite>>
      BY <2>9 DEF WriteLeave, WithoutMember, Members, GroupTypeOK
    <3>2. group = "PRESENT" => createdBy' \in live
      BY <2>9 DEF WriteLeave, TransferGroup, NoDanglingRows
    <3>3. QED
      BY <2>1, <3>1, <3>2 DEF NoDanglingRows, AnswersOwnInvite
  <2>10. QED
    BY <1>3, <2>2, <2>3, <2>4, <2>5, <2>6, <2>7, <2>8, <2>9 DEF Finish, ListInvitees, Abort
<1>4. ASSUME NEW u \in Users, DeleteUser(u) PROVE NoDanglingRows' /\ AnswersOwnInvite'
  <2>1. CASE createdBy = u
    BY <1>4, <2>1 DEF DeleteUser, DeleteGroup, DeletedInvite, NoDanglingRows,
                      AnswersOwnInvite, Members, Row
  <2>2. CASE createdBy # u
    <3>1. /\ live' = live \ {u}
          /\ Members' = Members \ {u}
          /\ UNCHANGED <<group, createdBy, req>>
      BY <1>4, <2>2 DEF DeleteUser, WithoutMember, Members, GroupTypeOK
    <3>2. \A i \in Invites :
            \/ invite'[i].status = "DELETED"
            \/ invite'[i] = invite[i] /\ u \notin {invite[i].to, invite[i].by}
      BY <1>4, <2>2 DEF DeleteUser, DeletedInvite
    <3>3. QED
      BY <2>2, <3>1, <3>2 DEF NoDanglingRows, AnswersOwnInvite, Row
  <2>3. QED
    BY <2>1, <2>2
<1>5. CASE UNCHANGED groupVars
  <2>1. NoDanglingRows'
    BY <1>5 DEF groupVars, NoDanglingRows, Members
  <2>2. AnswersOwnInvite'
    BY <1>5, AnswersKept DEF groupVars, SameInvite
  <2>3. QED
    BY <1>1, <2>1, <2>2
<1>6. QED
  BY <1>1, <1>2, <1>3, <1>4, <1>5 DEF GroupNext

LEMMA GroupInvariant == GroupSpec => []GroupInv
  BY InitGroupInv, NextGroupInv, PTL DEF GroupSpec

\* However requests interleave with deletions, no late write leaves a row behind that
\* refers to a deleted group or account.
THEOREM NothingDangles == GroupSpec => []NoDanglingRows
<1>1. GroupInv => NoDanglingRows
  BY DEF GroupInv
<1>2. QED
  BY <1>1, GroupInvariant, PTL

\* However requests interleave, no step turns an administrator into a plain member.
THEOREM AdminsKeepRole == GroupSpec => AdminsStayAdmins
<1> DEFINE Kept == \A u \in Users : role[u] = "ADMIN" => role'[u] # "MEMBER"
<1>1. GroupTypeOK /\ [GroupNext]_groupVars => [Kept]_groupVars
  <2> SUFFICES ASSUME GroupTypeOK, GroupNext PROVE Kept
    OBVIOUS
  <2>1. ASSUME NEW h \in Handlers, Begin(h) PROVE Kept
    <3>1. ASSUME NEW u \in Users, CreateGroup(h, u) PROVE Kept
      BY <3>1 DEF CreateGroup, GroupTypeOK
    <3>2. QED
      BY <2>1, <3>1, BeginReads DEF rows
  <2>2. ASSUME NEW h \in Handlers, Finish(h) PROVE Kept
    BY <2>2 DEF Finish, ListInvitees, WriteInvites, WriteAccept, WriteReject, WriteRemove,
                WritePromote, WriteDissolve, DeleteGroup, WriteLeave, Abort, WithoutMember,
                rows, GroupTypeOK
  <2>3. ASSUME NEW u \in Users, DeleteUser(u) PROVE Kept
    BY <2>3 DEF DeleteUser, DeleteGroup, WithoutMember, GroupTypeOK
  <2>4. QED
    BY <2>1, <2>2, <2>3 DEF GroupNext
<1>2. QED
  BY <1>1, GroupTypeCorrect, PTL DEF GroupSpec, AdminsStayAdmins

\* Of all steps, only an acceptance lets somebody into an existing group.
LEMMA EntryIsAccept ==
  ASSUME GroupInv, GroupNext, group = "PRESENT", NEW u \in Users, role[u] = "NONE", role'[u] # "NONE"
  PROVE  \E h \in Handlers : WriteAccept(h) /\ req[h].by = u
<1>1. ~ \E h \in Handlers : Begin(h)
  BY BeginReads DEF CreateGroup, rows
<1>2. ~ \E v \in Users : DeleteUser(v)
  BY DEF DeleteUser, DeleteGroup, WithoutMember, GroupInv, GroupTypeOK
<1>3. PICK h \in Handlers : Finish(h)
  BY <1>1, <1>2 DEF GroupNext
<1>4. WriteAccept(h)
  BY <1>3 DEF Finish, ListInvitees, WriteInvites, WriteReject, WriteRemove, WritePromote,
              WriteDissolve, DeleteGroup, WriteLeave, Abort, WithoutMember, rows, GroupInv, GroupTypeOK
<1>5. req[h].by = u
  BY <1>4 DEF WriteAccept, GroupInv, GroupTypeOK
<1>6. QED
  BY <1>4, <1>5

\* However requests interleave, whoever enters an existing group does so by an
\* invitation in their name that is then marked as accepted.
THEOREM EntryByInvite == GroupSpec => JoinsByInvite
<1> DEFINE Entry == \A u \in Users :
                       /\ group = "PRESENT"
                       /\ role[u] = "NONE"
                       /\ role'[u] # "NONE"
                       => \E i \in Invites : invite[i].to = u /\ invite'[i].status = "ACCEPTED"
<1>1. GroupInv /\ [GroupNext]_groupVars => [Entry]_groupVars
  <2> SUFFICES ASSUME GroupInv, GroupNext, group = "PRESENT",
                      NEW u \in Users, role[u] = "NONE", role'[u] # "NONE"
               PROVE  \E i \in Invites : invite[i].to = u /\ invite'[i].status = "ACCEPTED"
    OBVIOUS
  <2>1. PICK h \in Handlers : WriteAccept(h) /\ req[h].by = u
    BY EntryIsAccept
  <2>2. /\ req[h].inv \in Invites
        /\ invite[req[h].inv].to = u
    BY <2>1 DEF WriteAccept, GroupInv, AnswersOwnInvite
  <2>3. invite'[req[h].inv].status = "ACCEPTED"
    BY <2>1, <2>2, GroupRowTyped DEF WriteAccept, GroupInv, GroupTypeOK
  <2>4. QED
    BY <2>2, <2>3
<1>2. QED
  BY <1>1, GroupInvariant, PTL DEF GroupSpec, JoinsByInvite

--------------------------------------------------------------------------------
(***************************************************************************)
(* One request at a time.  What a request in flight decided from its read  *)
(* still fits the rows when it writes: in between, accounts may have been  *)
(* deleted, but no other request has written.                              *)
(***************************************************************************)
OneGroupInFlight == \A h, k \in Handlers : req[h] # Idle /\ req[k] # Idle => h = k

\* A departing owner hands over to an administrator whose account, if it is still
\* there, is one; a departing sole administrator hands over to whom it promotes.
Successor(r, leaver) ==
  /\ r.owner = NoUser => createdBy # leaver
  /\ r.owner # NoUser =>
       /\ createdBy = leaver
       /\ r.owner \in Users \ {leaver}
       /\ r.promote = NoUser => (r.owner \in live => role[r.owner] = "ADMIN")
  /\ r.promote # NoUser => Admins = {leaver} /\ (r.owner # NoUser => r.promote = r.owner)

GroupPlanFits(r) ==
  /\ r.op = "dissolve" => Members = {r.by}
  /\ r.op = "leave"    => Successor(r, r.by)
  /\ r.op = "remove"   => Successor(r, r.target) /\ r.promote = NoUser
  /\ r.op = "invite"   => r.ids \cap (Members \cup Invited) = {}
  /\ r.op \in {"accept", "reject"} /\ invite[r.inv].status \in Row
                       => invite[r.inv].status = "PENDING"

GroupPlansFit == group = "PRESENT" => \A h \in Handlers : GroupPlanFits(req[h])

SerialGroupInv == OwnerIsAdmin /\ InvitationsAreDue /\ OneGroupInFlight /\ GroupPlansFit

LEMMA SerialGroupStep == [SerialGroupNext]_groupVars => [GroupNext]_groupVars
  BY DEF SerialGroupNext, GroupNext

LEMMA GroupIdleFits == GroupPlanFits(Idle)
  BY DEF GroupPlanFits, Idle

LEMMA InitSerialGroupInv == GroupInit => SerialGroupInv
  BY DEF GroupInit, SerialGroupInv, OwnerIsAdmin, InvitationsAreDue, OneGroupInFlight, GroupPlansFit, Invited,
         Members, FreeInvite

\* After a write nothing is in flight, so nothing decided earlier is left to fit.
LEMMA WriteLeavesQuiet ==
  ASSUME GroupTypeOK, OneGroupInFlight, NEW h \in Handlers, req[h] # Idle, Done(h)
  PROVE  OneGroupInFlight' /\ GroupPlansFit'
<1>1. \A k \in Handlers : req'[k] = Idle
  BY DEF Done, OneGroupInFlight, GroupTypeOK
<1>2. OneGroupInFlight'
  BY <1>1 DEF OneGroupInFlight, Idle
<1>3. GroupPlansFit'
  BY <1>1 DEF GroupPlansFit, GroupPlanFits, Idle
<1>4. QED
  BY <1>2, <1>3

LEMMA BeginSerialInv ==
  ASSUME GroupInv, SerialGroupInv, Quiet, NEW h \in Handlers, Begin(h)
  PROVE  SerialGroupInv'
<1> USE DEF SerialGroupInv, GroupInv
<1>1. \A k \in Handlers \ {h} : req'[k] = Idle
  BY BeginStarts DEF Quiet
<1>2. OneGroupInFlight'
  BY <1>1 DEF OneGroupInFlight, Idle
<1>3. ASSUME NEW u \in Users, CreateGroup(h, u) PROVE SerialGroupInv'
  <2>1. /\ role' = [role EXCEPT ![u] = "ADMIN"] /\ group' = "PRESENT" /\ createdBy' = u
        /\ invite' = invite
    BY <1>3 DEF CreateGroup
  <2>2. Invited' = {} /\ Members' = {u} /\ Admins' = {u}
    BY <1>3, <2>1 DEF CreateGroup, NoDanglingRows, Invited, Members, Admins, Row, GroupTypeOK
  <2>3. req'[h] = Idle \/ (req'[h].op = "invite" /\ u \notin req'[h].ids)
    <3>1. PICK ids \in SUBSET (live \ {u}) :
            Start(h, IF ids = {} THEN Idle
                     ELSE [Idle EXCEPT !.op = "invite", !.by = u, !.ids = ids])
      BY <1>3 DEF CreateGroup
    <3>2. CASE ids = {}
      BY <3>1, <3>2 DEF Start, GroupTypeOK
    <3>3. CASE ids # {}
      BY <3>1, <3>3 DEF Start, GroupTypeOK, Idle
    <3>4. QED
      BY <3>2, <3>3
  <2>4. GroupPlanFits(req[h])'
    BY <2>2, <2>3 DEF GroupPlanFits, Idle
  <2>5. GroupPlansFit'
    <3>1. ASSUME NEW k \in Handlers \ {h} PROVE GroupPlanFits(req[k])'
      BY <1>1 DEF GroupPlanFits, Idle
    <3>2. QED
      BY <2>4, <3>1 DEF GroupPlansFit
  <2>6. InvitationsAreDue'
    BY <1>3, <2>2 DEF CreateGroup, InvitationsAreDue, Invited
  <2>7. QED
    BY <1>2, <2>1, <2>2, <2>5, <2>6 DEF OwnerIsAdmin
<1>4. ASSUME UNCHANGED <<live, rows>>, group = "PRESENT" => GroupPlanFits(req'[h]) PROVE SerialGroupInv'
  <2>1. OwnerIsAdmin' /\ InvitationsAreDue'
    BY <1>4 DEF rows, OwnerIsAdmin, InvitationsAreDue, Invited, Members, Admins
  <2>2. \A k \in Handlers : group = "PRESENT" => GroupPlanFits(req'[k])
    BY <1>1, <1>4, GroupIdleFits
  <2>3. GroupPlansFit'
    <3>1. ASSUME NEW k \in Handlers, group = "PRESENT" PROVE GroupPlanFits(req[k])'
      BY <2>2, <3>1, <1>4 DEF rows, GroupPlanFits, Successor, Invited, Members, Admins
    <3>2. QED
      BY <3>1, <1>4 DEF GroupPlansFit, rows
  <2>4. QED
    BY <1>2, <2>1, <2>3
<1>5. ASSUME NEW u \in Users, BeginInvite(h, u) PROVE SerialGroupInv'
  <2>1. req'[h].op = "list"
    BY <1>5 DEF BeginInvite, Reads, Start, GroupTypeOK, Idle
  <2>2. GroupPlanFits(req'[h])
    BY <2>1 DEF GroupPlanFits
  <2>3. QED
    BY <1>4, <1>5, <2>2 DEF BeginInvite, Reads
<1>6. ASSUME NEW u \in Users, BeginLeave(h, u) PROVE SerialGroupInv'
  <2>1. UNCHANGED <<live, rows>>
    BY <1>6 DEF BeginLeave, Reads
  <2>2. CASE /\ Members \ {u} = {}
             /\ Start(h, [Idle EXCEPT !.op = "dissolve", !.by = u])
    <3>1. req'[h].op = "dissolve" /\ req'[h].by = u
      BY <2>2 DEF Start, GroupTypeOK, Idle
    <3>2. Members = {u}
      BY <1>6, <2>2 DEF BeginLeave, Members
    <3>3. GroupPlanFits(req'[h])
      BY <3>1, <3>2 DEF GroupPlanFits
    <3>4. QED
      BY <1>4, <2>1, <3>3
  <2>3. ASSUME NEW n \in NextGroupOwner(Members \ {u}), NEW p, NEW o,
               p = (IF role[u] = "ADMIN" /\ Admins \subseteq {u} THEN n ELSE NoUser),
               o = (IF createdBy = u THEN n ELSE NoUser),
               Start(h, [Idle EXCEPT !.op = "leave", !.by = u, !.promote = p, !.owner = o])
        PROVE  SerialGroupInv'
    <3>1. /\ req'[h].op = "leave" /\ req'[h].by = u
          /\ req'[h].promote = p /\ req'[h].owner = o
      BY <2>3 DEF Start, GroupTypeOK, Idle
    <3>2. n \in Users \ {u} /\ n # NoUser
      BY <2>3, NextGroupOwnerIn, GroupNullAssumption DEF Members
    <3>3. p # NoUser => Admins = {u}
      BY <2>3 DEF Admins
    <3>4. ASSUME group = "PRESENT", o # NoUser, p = NoUser PROVE role[n] = "ADMIN"
      <4>1. createdBy = u /\ u \in Admins /\ ~ (Admins \subseteq {u})
        BY <2>3, <3>2, <3>4 DEF OwnerIsAdmin, Admins
      <4>2. (Members \ {u}) \cap Admins # {}
        BY <4>1 DEF Members, Admins
      <4>3. QED
        BY <2>3, <4>2, NextGroupOwnerIn DEF Admins
    <3>5. group = "PRESENT" => GroupPlanFits(req'[h])
      BY <2>3, <3>1, <3>2, <3>3, <3>4 DEF GroupPlanFits, Successor
    <3>6. QED
      BY <1>4, <2>1, <3>5
  <2>4. QED
    BY <1>6, <2>2, <2>3 DEF BeginLeave, Reads
<1>7. ASSUME NEW u \in Users, NEW t \in Users, BeginRemove(h, u, t) PROVE SerialGroupInv'
  <2>1. UNCHANGED <<live, rows>> /\ u \in Admins /\ t # u
    BY <1>7 DEF BeginRemove, Reads, Admins
  <2>2. PICK n \in IF createdBy = t THEN NextGroupOwner(Members \ {t}) ELSE {NoUser} :
          Start(h, [Idle EXCEPT !.op = "remove", !.by = u, !.target = t, !.owner = n])
    BY <1>7 DEF BeginRemove, Reads
  <2>3. /\ req'[h].op = "remove" /\ req'[h].target = t
        /\ req'[h].promote = NoUser /\ req'[h].owner = n
    BY <2>2 DEF Start, GroupTypeOK, Idle
  <2>4. (Members \ {t}) \cap Admins # {}
    BY <2>1 DEF Members, Admins
  <2>5. CASE createdBy = t
    <3>1. n \in Users \ {t} /\ n # NoUser /\ role[n] = "ADMIN"
      BY <2>2, <2>4, <2>5, NextGroupOwnerIn, GroupNullAssumption DEF Members, Admins
    <3>2. GroupPlanFits(req'[h])
      BY <2>3, <2>5, <3>1 DEF GroupPlanFits, Successor
    <3>3. QED
      BY <1>4, <2>1, <3>2
  <2>6. CASE createdBy # t
    <3>1. GroupPlanFits(req'[h])
      BY <2>2, <2>3, <2>6 DEF GroupPlanFits, Successor
    <3>2. QED
      BY <1>4, <2>1, <3>1
  <2>7. QED
    BY <2>5, <2>6
<1>8. ASSUME NEW u \in Users, NEW t \in Users, BeginPromote(h, u, t) PROVE SerialGroupInv'
  <2>1. req'[h].op = "promote"
    BY <1>8 DEF BeginPromote, Reads, Start, GroupTypeOK, Idle
  <2>2. GroupPlanFits(req'[h])
    BY <2>1 DEF GroupPlanFits
  <2>3. QED
    BY <1>4, <1>8, <2>2 DEF BeginPromote, Reads
<1>9. ASSUME NEW i \in Invites, NEW op \in {"accept", "reject"}, BeginAnswer(h, i, op)
      PROVE  SerialGroupInv'
  <2>1. req'[h].op = op /\ req'[h].inv = i
    BY <1>9 DEF BeginAnswer, Reads, Start, GroupTypeOK, Idle
  <2>2. GroupPlanFits(req'[h])
    BY <1>9, <2>1 DEF GroupPlanFits, BeginAnswer
  <2>3. QED
    BY <1>4, <1>9, <2>2 DEF BeginAnswer, Reads
<1>10. QED
  BY <1>3, <1>5, <1>6, <1>7, <1>8, <1>9 DEF Begin

\* The owner after a departure is an administrator who stays.
LEMMA SuccessorTakesOver ==
  ASSUME GroupInv, SerialGroupInv, NEW h \in Handlers, NEW t \in Users, Successor(req[h], t),
         role[t] # "NONE", TransferGroup(req[h].owner),
         NEW p, p = req[h].promote, p # NoUser => role[p] # "NONE",
         role' = WithoutMember(IF p = NoUser THEN role ELSE [role EXCEPT ![p] = "ADMIN"], t),
         group' = group
  PROVE  /\ group = "PRESENT" /\ OwnerIsAdmin'
         /\ Members' = Members \ {t}
         /\ createdBy' \in Members \ {t}
         /\ t # createdBy => createdBy' = createdBy
         /\ Admins' = IF Admins \ {t} = {} THEN {createdBy'} ELSE Admins \ {t}
<1> USE DEF GroupInv, SerialGroupInv
<1>1. group = "PRESENT" /\ createdBy \in Admins
  BY DEF NoDanglingRows, OwnerIsAdmin, Members
<1>2. CASE p = NoUser
  <2>1. role' = [role EXCEPT ![t] = "NONE"]
    BY <1>2 DEF WithoutMember
  <2>2. Members' = Members \ {t} /\ Admins' = Admins \ {t}
    BY <2>1 DEF Members, Admins, GroupTypeOK
  <2>3. createdBy' \in Admins \ {t} /\ (t # createdBy => createdBy' = createdBy)
    <3>1. CASE req[h].owner = NoUser
      BY <1>1, <3>1 DEF Successor, TransferGroup
    <3>2. CASE req[h].owner # NoUser
      BY <1>2, <3>2 DEF Successor, TransferGroup, Admins
    <3>3. QED
      BY <3>1, <3>2
  <2>4. QED
    BY <1>1, <2>2, <2>3 DEF OwnerIsAdmin, Members, Admins
<1>3. CASE p # NoUser
  <2>1. Admins = {t} /\ createdBy = t /\ req[h].owner # NoUser
    BY <1>1, <1>3 DEF Successor
  <2>2. /\ req[h].owner = p /\ createdBy' = p
        /\ p \in Users \ {t} /\ p \in Members
    BY <1>3, <2>1 DEF Successor, TransferGroup, Members
  <2>3. role' = [[role EXCEPT ![p] = "ADMIN"] EXCEPT ![t] = "NONE"]
    BY <1>3 DEF WithoutMember
  <2>4. \A u \in Users : role'[u] = IF u = t THEN "NONE"
                                  ELSE IF u = p THEN "ADMIN" ELSE role[u]
    BY <2>3 DEF GroupTypeOK
  <2>5. Members' = Members \ {t}
    BY <2>2, <2>4 DEF Members
  <2>6. Admins' = {p}
    <3>1. ASSUME NEW u \in Users PROVE role'[u] = "ADMIN" <=> u = p
      <4>1. role[u] = "ADMIN" => u = t
        BY <2>1 DEF Admins
      <4>2. QED
        BY <2>2, <2>4, <4>1
    <3>2. QED
      BY <2>2, <3>1 DEF Admins
  <2>7. Admins \ {t} = {} /\ t = createdBy
    BY <2>1
  <2>8. OwnerIsAdmin' /\ createdBy' \in Members \ {t}
    BY <2>2, <2>6 DEF OwnerIsAdmin
  <2>9. QED
    BY <1>1, <2>2, <2>5, <2>6, <2>7, <2>8
<1>4. QED
  BY <1>2, <1>3

LEMMA RemoveTakesOver ==
  ASSUME GroupInv, SerialGroupInv, NEW h \in Handlers, WriteRemove(h)
  PROVE  /\ group = "PRESENT" /\ OwnerIsAdmin'
         /\ req[h].target \in Members
         /\ Members' = Members \ {req[h].target}
         /\ createdBy' \in Members \ {req[h].target}
         /\ req[h].target # createdBy => createdBy' = createdBy
         /\ Admins' = IF Admins \ {req[h].target} = {} THEN {createdBy'}
                      ELSE Admins \ {req[h].target}
<1> DEFINE t == req[h].target
<1>1. t \in Users /\ role[t] # "NONE" /\ TransferGroup(req[h].owner)
  BY GroupBusyTyped DEF WriteRemove, GroupInv, Request
<1>2. group = "PRESENT" /\ t \in Members
  BY <1>1 DEF GroupInv, NoDanglingRows, Members
<1>3. Successor(req[h], t) /\ req[h].promote = NoUser
  BY <1>2 DEF SerialGroupInv, GroupPlansFit, GroupPlanFits, WriteRemove
<1>4. role' = WithoutMember(role, t) /\ group' = group
  BY DEF WriteRemove
<1>5. QED
  BY <1>1, <1>2, <1>3, <1>4, SuccessorTakesOver

LEMMA LeaveTakesOver ==
  ASSUME GroupInv, SerialGroupInv, NEW h \in Handlers, WriteLeave(h)
  PROVE  /\ group = "PRESENT" /\ OwnerIsAdmin'
         /\ req[h].by \in Members
         /\ Members' = Members \ {req[h].by}
         /\ createdBy' \in Members \ {req[h].by}
         /\ req[h].by # createdBy => createdBy' = createdBy
         /\ Admins' = IF Admins \ {req[h].by} = {} THEN {createdBy'}
                      ELSE Admins \ {req[h].by}
<1> DEFINE u == req[h].by
<1>1. u \in Users /\ role[u] # "NONE" /\ TransferGroup(req[h].owner)
  BY GroupBusyTyped DEF WriteLeave, GroupInv, Request
<1>2. group = "PRESENT" /\ u \in Members
  BY <1>1 DEF GroupInv, NoDanglingRows, Members
<1>3. Successor(req[h], u)
  BY <1>2 DEF SerialGroupInv, GroupPlansFit, GroupPlanFits, WriteLeave
<1>4. PICK p : /\ p = req[h].promote
               /\ p # NoUser => role[p] # "NONE"
               /\ role' = WithoutMember(IF p = NoUser THEN role
                                        ELSE [role EXCEPT ![p] = "ADMIN"], u)
               /\ group' = group
  BY DEF WriteLeave
<1> HIDE DEF u
<1>5. /\ group = "PRESENT" /\ OwnerIsAdmin'
      /\ Members' = Members \ {u}
      /\ createdBy' \in Members \ {u}
      /\ u # createdBy => createdBy' = createdBy
      /\ Admins' = IF Admins \ {u} = {} THEN {createdBy'} ELSE Admins \ {u}
  BY <1>1, <1>3, <1>4, SuccessorTakesOver
<1>6. QED
  BY <1>2, <1>5 DEF u

LEMMA FinishSerialInv ==
  ASSUME GroupInv, SerialGroupInv, NEW h \in Handlers, Finish(h)
  PROVE  SerialGroupInv'
<1> USE DEF GroupInv
<1>0. OwnerIsAdmin /\ InvitationsAreDue /\ OneGroupInFlight /\ GroupPlansFit
  BY DEF SerialGroupInv
<1>1. CASE UNCHANGED <<live, rows>> /\ Done(h) /\ req[h] # Idle
  <2>1. OwnerIsAdmin' /\ InvitationsAreDue'
    BY <1>0, <1>1 DEF rows, OwnerIsAdmin, InvitationsAreDue, Invited, Members, Admins
  <2>2. QED
    BY <1>0, <1>1, <2>1, WriteLeavesQuiet DEF SerialGroupInv
<1>2. CASE ListInvitees(h)
  <2>1. PICK ids : /\ req' = [req EXCEPT ![h].op = "invite", ![h].ids = ids]
                   /\ ids \cap (Members \cup Invited) = {}
    BY <1>2 DEF ListInvitees
  <2>2. UNCHANGED <<live, rows>> /\ req[h] # Idle
    BY <1>2 DEF ListInvitees, Idle
  <2>3. req'[h].op = "invite" /\ req'[h].ids = ids
    BY <1>2, <2>1, GroupBusyTyped DEF ListInvitees, GroupTypeOK, Request
  <2>4. \A k \in Handlers \ {h} : req'[k] = Idle
    BY <1>0, <2>1, <2>2 DEF OneGroupInFlight, GroupTypeOK
  <2>5. OneGroupInFlight'
    BY <2>4 DEF OneGroupInFlight, Idle
  <2>6. OwnerIsAdmin' /\ InvitationsAreDue'
    BY <1>0, <2>2 DEF rows, OwnerIsAdmin, InvitationsAreDue, Invited, Members, Admins
  <2>7. Members' = Members /\ Invited' = Invited
    BY <2>2 DEF rows, Members, Invited
  <2>8. GroupPlanFits(req[h])'
    BY <2>1, <2>3, <2>7 DEF GroupPlanFits
  <2>9. ASSUME NEW k \in Handlers \ {h} PROVE GroupPlanFits(req[k])'
    BY <2>4 DEF GroupPlanFits, Idle
  <2>10. GroupPlansFit'
    BY <2>8, <2>9 DEF GroupPlansFit
  <2>11. QED
    BY <2>5, <2>6, <2>10 DEF SerialGroupInv
<1>3. CASE WriteInvites(h)
  <2>1. OneGroupInFlight' /\ GroupPlansFit'
    BY <1>0, <1>3, WriteLeavesQuiet DEF WriteInvites, Idle
  <2>2. req[h].ids \in SUBSET Users /\ InsertInvites(req[h].by, req[h].ids)
    BY <1>3, GroupBusyTyped DEF WriteInvites, Request
  <2>3. group = "PRESENT"
    BY <2>2, InsertInvitesRows
  <2>4. req[h].ids \cap (Members \cup Invited) = {}
    BY <1>0, <1>3, <2>3 DEF GroupPlansFit, GroupPlanFits, WriteInvites
  <2>5. Members' = Members /\ OwnerIsAdmin'
    BY <1>0, <1>3 DEF WriteInvites, OwnerIsAdmin, Members, Admins
  <2>6. ASSUME NEW i \in Invites, invite'[i].status = "PENDING"
        PROVE  \/ invite'[i] = invite[i] /\ invite[i].to \in Invited
               \/ invite'[i] # invite[i] /\ invite'[i].to \in req[h].ids
    BY <2>2, <2>6, InsertInvitesRows DEF Invited
  <2>7. Invited' \cap Members' = {}
    BY <1>0, <2>4, <2>5, <2>6 DEF InvitationsAreDue, Invited
  <2>8. ASSUME NEW i \in Invites, NEW j \in Invites, i # j,
               invite'[i].status = "PENDING", invite'[j].status = "PENDING"
        PROVE  invite'[i].to # invite'[j].to
    <3>1. CASE invite'[i] = invite[i] /\ invite'[j] = invite[j]
      BY <1>0, <2>8, <3>1 DEF InvitationsAreDue
    <3>2. CASE invite'[i] # invite[i] /\ invite'[j] # invite[j]
      BY <2>2, <2>8, <3>2, InsertInvitesRows
    <3>3. QED
      BY <2>4, <2>6, <2>8, <3>1, <3>2
  <2>9. InvitationsAreDue'
    BY <2>7, <2>8 DEF InvitationsAreDue
  <2>10. QED
    BY <2>1, <2>5, <2>9 DEF SerialGroupInv
<1>4. CASE WriteAccept(h)
  <2>1. OneGroupInFlight' /\ GroupPlansFit'
    BY <1>0, <1>4, WriteLeavesQuiet DEF WriteAccept, Idle
  <2> DEFINE i == req[h].inv
             u == req[h].by
  <2>2. /\ i \in Invites /\ u \in Users /\ invite[i].to = u
        /\ group = "PRESENT" /\ invite[i].status = "PENDING"
    BY <1>0, <1>4, GroupBusyTyped
       DEF WriteAccept, Request, AnswersOwnInvite, NoDanglingRows, GroupPlansFit, GroupPlanFits
  <2>3. u \notin Members /\ role[u] = "NONE"
    BY <1>0, <2>2 DEF InvitationsAreDue, Invited, Members
  <2>4. role' = [role EXCEPT ![u] = "MEMBER"] /\ UNCHANGED <<group, createdBy>>
    BY <1>4, <2>3 DEF WriteAccept
  <2>5. Members' = Members \cup {u} /\ Admins' = Admins
    BY <2>2, <2>3, <2>4 DEF Members, Admins, GroupTypeOK
  <2>6. invite'[i].status = "ACCEPTED" /\ \A j \in Invites \ {i} : invite'[j] = invite[j]
    BY <1>4, <2>2, GroupRowTyped DEF WriteAccept, GroupTypeOK, Row
  <2>7. \A j \in Invites : invite'[j].status = "PENDING" =>
          j # i /\ invite'[j] = invite[j] /\ invite[j].to # u
    BY <1>0, <2>2, <2>6 DEF InvitationsAreDue
  <2>8. InvitationsAreDue'
    BY <1>0, <2>5, <2>7 DEF InvitationsAreDue, Invited
  <2>9. OwnerIsAdmin'
    BY <1>0, <2>4, <2>5 DEF OwnerIsAdmin
  <2>10. QED
    BY <2>1, <2>8, <2>9 DEF SerialGroupInv
<1>5. CASE WriteReject(h)
  <2>1. OneGroupInFlight' /\ GroupPlansFit'
    BY <1>0, <1>5, WriteLeavesQuiet DEF WriteReject, Idle
  <2>2. req[h].inv \in Invites /\ invite[req[h].inv].status \in Row
    BY <1>5 DEF WriteReject, AnswersOwnInvite
  <2>3. /\ invite'[req[h].inv].status = "REJECTED"
        /\ \A j \in Invites \ {req[h].inv} : invite'[j] = invite[j]
    BY <1>5, <2>2, GroupRowTyped DEF WriteReject, GroupTypeOK
  <2>4. OwnerIsAdmin' /\ Members' = Members
    BY <1>0, <1>5 DEF WriteReject, OwnerIsAdmin, Members, Admins
  <2>5. InvitationsAreDue'
    BY <1>0, <2>3, <2>4 DEF InvitationsAreDue, Invited
  <2>6. QED
    BY <2>1, <2>4, <2>5 DEF SerialGroupInv
<1>6. CASE WriteRemove(h)
  <2>1. OneGroupInFlight' /\ GroupPlansFit'
    BY <1>0, <1>6, WriteLeavesQuiet DEF WriteRemove, Idle
  <2>2. OwnerIsAdmin' /\ Members' \subseteq Members
    BY <1>6, RemoveTakesOver
  <2>3. InvitationsAreDue'
    BY <1>0, <1>6, <2>2 DEF WriteRemove, InvitationsAreDue, Invited
  <2>4. QED
    BY <2>1, <2>2, <2>3 DEF SerialGroupInv
<1>7. CASE WritePromote(h)
  <2>1. OneGroupInFlight' /\ GroupPlansFit'
    BY <1>0, <1>7, WriteLeavesQuiet DEF WritePromote, Idle
  <2>2. Members' = Members /\ Admins \subseteq Admins'
    BY <1>7, GroupBusyTyped DEF WritePromote, Request, Members, Admins, GroupTypeOK
  <2>3. InvitationsAreDue' /\ OwnerIsAdmin'
    BY <1>0, <1>7, <2>2 DEF WritePromote, InvitationsAreDue, Invited, OwnerIsAdmin
  <2>4. QED
    BY <2>1, <2>3 DEF SerialGroupInv
<1>8. CASE WriteDissolve(h)
  <2>1. OneGroupInFlight' /\ GroupPlansFit'
    BY <1>0, <1>8, WriteLeavesQuiet DEF WriteDissolve, Idle
  <2>2. InvitationsAreDue' /\ OwnerIsAdmin'
    BY <1>8 DEF WriteDissolve, DeleteGroup, DeletedInvite, InvitationsAreDue, Invited,
                OwnerIsAdmin
  <2>3. QED
    BY <2>1, <2>2 DEF SerialGroupInv
<1>9. CASE WriteLeave(h)
  <2>1. OneGroupInFlight' /\ GroupPlansFit'
    BY <1>0, <1>9, WriteLeavesQuiet DEF WriteLeave, Idle
  <2>2. OwnerIsAdmin' /\ Members' \subseteq Members
    BY <1>9, LeaveTakesOver
  <2>3. InvitationsAreDue'
    BY <1>0, <1>9, <2>2 DEF WriteLeave, InvitationsAreDue, Invited
  <2>4. QED
    BY <2>1, <2>2, <2>3 DEF SerialGroupInv
<1>10. QED
  BY <1>1, <1>2, <1>3, <1>4, <1>5, <1>6, <1>7, <1>8, <1>9 DEF Finish, Abort

\* Deleting an account other than the owner's takes at most one member away, and
\* what a request in flight decided still fits.
LEMMA DeleteUserSerialInv ==
  ASSUME GroupInv, SerialGroupInv, NEW v \in Users, DeleteUser(v)
  PROVE  SerialGroupInv'
<1> USE DEF GroupInv
<1>0. OwnerIsAdmin /\ InvitationsAreDue /\ OneGroupInFlight /\ GroupPlansFit
  BY DEF SerialGroupInv
<1>1. OneGroupInFlight'
  BY <1>0 DEF DeleteUser, OneGroupInFlight, Idle
<1>2. CASE createdBy = v
  BY <1>1, <1>2 DEF DeleteUser, DeleteGroup, DeletedInvite, SerialGroupInv, OwnerIsAdmin,
                    InvitationsAreDue, Invited, Members, GroupPlansFit
<1>3. CASE createdBy # v
  <2>1. /\ role' = [role EXCEPT ![v] = "NONE"] /\ live' = live \ {v}
        /\ UNCHANGED <<group, createdBy, req>>
    BY <1>3 DEF DeleteUser, WithoutMember
  <2>2. Members' = Members \ {v} /\ Admins' = Admins \ {v}
    BY <2>1 DEF Members, Admins, GroupTypeOK
  <2>3. \A i \in Invites : invite'[i] = invite[i] \/ invite'[i].status = "DELETED"
    BY <1>3 DEF DeleteUser, DeletedInvite
  <2>4. Invited' \subseteq Invited
    BY <2>3 DEF Invited
  <2>5. OwnerIsAdmin' /\ InvitationsAreDue'
    BY <1>0, <1>3, <2>1, <2>2, <2>3, <2>4 DEF OwnerIsAdmin, InvitationsAreDue
  <2>6. ASSUME NEW h \in Handlers, group = "PRESENT" PROVE GroupPlanFits(req[h])'
    <3> DEFINE r == req[h]
    <3>1. GroupPlanFits(r) /\ req'[h] = r
      BY <1>0, <2>1, <2>6 DEF GroupPlansFit
    <3>2. r.op = "dissolve" => Members' = {r.by}
      BY <1>0, <1>3, <2>2, <2>6, <3>1 DEF GroupPlanFits, OwnerIsAdmin, Members, Admins
    <3>3. ASSUME NEW t, Successor(r, t) PROVE Successor(r, t)'
      <4>1. r.promote # NoUser => Admins' = {t}
        BY <1>0, <1>3, <2>2, <2>6, <3>3 DEF Successor, OwnerIsAdmin
      <4>2. r.owner # NoUser /\ r.promote = NoUser /\ r.owner \in live'
              => role'[r.owner] = "ADMIN"
        BY <2>1, <3>3 DEF Successor, GroupTypeOK
      <4>3. QED
        BY <2>1, <3>3, <4>1, <4>2 DEF Successor
    <3>4. (r.op = "leave" => Successor(r, r.by)') /\ (r.op = "remove" => Successor(r, r.target)')
      BY <3>1, <3>3 DEF GroupPlanFits
    <3>5. r.op = "invite" => r.ids \cap (Members' \cup Invited') = {}
      BY <2>2, <2>4, <3>1 DEF GroupPlanFits
    <3>6. r.op \in {"accept", "reject"} /\ invite'[r.inv].status \in Row
            => invite'[r.inv].status = "PENDING"
      BY <2>3, <3>1 DEF GroupPlanFits, AnswersOwnInvite, Row
    <3>7. QED
      BY <2>1, <3>1, <3>2, <3>4, <3>5, <3>6 DEF GroupPlanFits
  <2>7. GroupPlansFit'
    BY <2>1, <2>6 DEF GroupPlansFit
  <2>8. QED
    BY <1>1, <2>5, <2>7 DEF SerialGroupInv
<1>4. QED
  BY <1>2, <1>3

LEMMA NextSerialGroupInv == GroupInv /\ SerialGroupInv /\ [SerialGroupNext]_groupVars => SerialGroupInv'
<1>1. ASSUME GroupInv, SerialGroupInv, UNCHANGED groupVars PROVE SerialGroupInv'
  <2>1. OwnerIsAdmin' /\ InvitationsAreDue' /\ OneGroupInFlight'
    BY <1>1 DEF groupVars, SerialGroupInv, OwnerIsAdmin, InvitationsAreDue, OneGroupInFlight, Invited,
                Members, Admins
  <2>2. ASSUME NEW h \in Handlers, group = "PRESENT" PROVE GroupPlanFits(req[h])'
    BY <1>1, <2>2 DEF groupVars, SerialGroupInv, GroupPlansFit, GroupPlanFits, Successor, Members, Admins, Invited
  <2>3. GroupPlansFit'
    BY <1>1, <2>2 DEF groupVars, GroupPlansFit
  <2>4. QED
    BY <2>1, <2>3 DEF SerialGroupInv
<1>2. QED
  BY <1>1, BeginSerialInv, FinishSerialInv, DeleteUserSerialInv DEF SerialGroupNext

LEMMA SerialGroupInvariant == SerialGroupSpec => [](GroupInv /\ SerialGroupInv)
<1>1. GroupInit => GroupInv /\ SerialGroupInv
  BY InitGroupInv, InitSerialGroupInv
<1>2. GroupInv /\ SerialGroupInv /\ [SerialGroupNext]_groupVars => (GroupInv /\ SerialGroupInv)'
  BY NextGroupInv, SerialGroupStep, NextSerialGroupInv
<1>3. QED
  BY <1>1, <1>2, PTL DEF SerialGroupSpec

\* One request at a time, the owner of a group is one of its administrators: whatever
\* other account is deleted, an administrator is left.
THEOREM OwnerAdministers == SerialGroupSpec => []OwnerIsAdmin
<1>1. SerialGroupInv => OwnerIsAdmin
  BY DEF SerialGroupInv
<1>2. QED
  BY <1>1, SerialGroupInvariant, PTL

\* One request at a time, a group that exists has an administrator.
THEOREM SerialKeepsAnAdmin == SerialGroupSpec => []KeepsAnAdmin
<1>1. OwnerIsAdmin => KeepsAnAdmin
  BY DEF OwnerIsAdmin, KeepsAnAdmin
<1>2. QED
  BY <1>1, OwnerAdministers, PTL

\* One request at a time, no user holds two unanswered invitations and no member holds one.
THEOREM InvitationsStayDue == SerialGroupSpec => []InvitationsAreDue
<1>1. SerialGroupInv => InvitationsAreDue
  BY DEF SerialGroupInv
<1>2. QED
  BY <1>1, SerialGroupInvariant, PTL

\* One request at a time, an invitation lets its invitee in once, while it is pending.
THEOREM EntryByPendingInvite == SerialGroupSpec => JoinsByPendingInvite
<1> DEFINE Entry == \A u \in Users :
                       /\ group = "PRESENT"
                       /\ role[u] = "NONE"
                       /\ role'[u] # "NONE"
                       => \E i \in Invites : /\ invite[i].status = "PENDING"
                                             /\ invite[i].to = u
                                             /\ invite'[i].status = "ACCEPTED"
<1>1. GroupInv /\ SerialGroupInv /\ [SerialGroupNext]_groupVars => [Entry]_groupVars
  <2> SUFFICES ASSUME GroupInv, SerialGroupInv, SerialGroupNext, group = "PRESENT",
                      NEW u \in Users, role[u] = "NONE", role'[u] # "NONE"
               PROVE  \E i \in Invites : /\ invite[i].status = "PENDING"
                                         /\ invite[i].to = u
                                         /\ invite'[i].status = "ACCEPTED"
    OBVIOUS
  <2>0. GroupNext
    BY DEF SerialGroupNext, GroupNext
  <2>1. PICK h \in Handlers : WriteAccept(h) /\ req[h].by = u
    BY <2>0, EntryIsAccept
  <2>2. /\ req[h].inv \in Invites
        /\ invite[req[h].inv].to = u
        /\ invite[req[h].inv].status = "PENDING"
    BY <2>1 DEF WriteAccept, GroupInv, AnswersOwnInvite, SerialGroupInv, GroupPlansFit, GroupPlanFits
  <2>3. invite'[req[h].inv].status = "ACCEPTED"
    BY <2>1, <2>2, GroupRowTyped DEF WriteAccept, GroupInv, GroupTypeOK, Row
  <2>4. QED
    BY <2>2, <2>3
<1>2. QED
  BY <1>1, SerialGroupInvariant, PTL DEF SerialGroupSpec, JoinsByPendingInvite

--------------------------------------------------------------------------------
(***************************************************************************)
(* The charter: the steps that do not touch the membership stutter, and    *)
(* each of the others is one action of GroupCharter.                       *)
(***************************************************************************)
CharterVars == <<live, group, createdBy, Admins, Members>>

LEMMA SameRoles ==
  ASSUME UNCHANGED <<live, group, createdBy, role>>
  PROVE  UNCHANGED CharterVars
  BY DEF CharterVars, Admins, Members

LEMMA DeletedRoles ==
  ASSUME GroupTypeOK, DeleteGroup
  PROVE  /\ group' = "DELETED" /\ createdBy' = NoUser
         /\ Members' = {} /\ Admins' = {}
  BY DEF DeleteGroup, Members, Admins

LEMMA CharterCreate ==
  ASSUME GroupInv, SerialGroupInv, NEW h \in Handlers, NEW u \in Users, CreateGroup(h, u)
  PROVE  Charter!Found(u)
<1>1. role' = [role EXCEPT ![u] = "ADMIN"] /\ Members = {}
  BY DEF CreateGroup, GroupInv, NoDanglingRows
<1>2. Members' = {u} /\ Admins' = {u}
  BY <1>1 DEF Members, Admins, GroupInv, GroupTypeOK
<1>3. QED
  BY <1>2 DEF CreateGroup, Charter!Found

LEMMA CharterAccept ==
  ASSUME GroupInv, SerialGroupInv, NEW h \in Handlers, WriteAccept(h)
  PROVE  Charter!Next \/ UNCHANGED CharterVars
<1> DEFINE u == req[h].by
<1>1. /\ req[h].inv \in Invites /\ u \in Users
      /\ invite[req[h].inv].to = u /\ invite[req[h].inv].status \in Row
  BY GroupBusyTyped DEF WriteAccept, GroupInv, AnswersOwnInvite, Request
<1>2. group = "PRESENT" /\ u \in live
  BY <1>1 DEF GroupInv, NoDanglingRows
<1>3. CASE role[u] = "NONE"
  <2>1. role' = [role EXCEPT ![u] = "MEMBER"] /\ UNCHANGED <<live, group, createdBy>>
    BY <1>3 DEF WriteAccept
  <2>2. Members' = Members \cup {u} /\ Admins' = Admins /\ u \notin Members
    BY <1>1, <1>3, <2>1 DEF Members, Admins, GroupInv, GroupTypeOK
  <2>3. Charter!Admit(u)
    BY <1>2, <2>1, <2>2 DEF Charter!Admit
  <2>4. QED
    BY <1>1, <2>3 DEF Charter!Next
<1>4. CASE role[u] # "NONE"
  BY <1>4, SameRoles DEF WriteAccept
<1>5. QED
  BY <1>3, <1>4

LEMMA CharterPromote ==
  ASSUME GroupInv, SerialGroupInv, NEW h \in Handlers, WritePromote(h)
  PROVE  Charter!Next
<1> DEFINE t == req[h].target
<1>1. t \in Users
  BY GroupBusyTyped DEF WritePromote, GroupInv, Request
<1>2. role' = [role EXCEPT ![t] = "ADMIN"] /\ UNCHANGED <<live, group, createdBy>>
  BY DEF WritePromote
<1>3. t \in Members
  BY <1>1 DEF WritePromote, Members
<1>4. Members' = Members /\ Admins' = Admins \cup {t}
  BY <1>1, <1>2, <1>3 DEF Members, Admins, GroupInv, GroupTypeOK
<1>5. Charter!Promote(t)
  BY <1>2, <1>3, <1>4 DEF Charter!Promote
<1>6. QED
  BY <1>1, <1>5 DEF Charter!Next

LEMMA CharterRemove ==
  ASSUME GroupInv, SerialGroupInv, NEW h \in Handlers, WriteRemove(h)
  PROVE  Charter!Next
<1> DEFINE t == req[h].target
<1>1. t \in Users /\ createdBy' \in Users
  BY GroupBusyTyped, RemoveTakesOver DEF WriteRemove, GroupInv, Request, Members
<1>2. OwnerIsAdmin' /\ group' = group /\ live' = live /\ group = "PRESENT"
  BY RemoveTakesOver DEF WriteRemove
<1>3. Charter!Depart(t, createdBy')
  BY <1>2, RemoveTakesOver DEF OwnerIsAdmin, Charter!Depart, Charter!Withdraw
<1>4. QED
  BY <1>1, <1>3 DEF Charter!Next

LEMMA CharterLeave ==
  ASSUME GroupInv, SerialGroupInv, NEW h \in Handlers, WriteLeave(h)
  PROVE  Charter!Next
<1> DEFINE u == req[h].by
<1>1. u \in Users /\ createdBy' \in Users
  BY GroupBusyTyped, LeaveTakesOver DEF WriteLeave, GroupInv, Request, Members
<1>2. OwnerIsAdmin' /\ group' = group /\ live' = live /\ group = "PRESENT"
  BY LeaveTakesOver DEF WriteLeave
<1>3. Charter!Depart(u, createdBy')
  BY <1>2, LeaveTakesOver DEF OwnerIsAdmin, Charter!Depart, Charter!Withdraw
<1>4. QED
  BY <1>1, <1>3 DEF Charter!Next

LEMMA CharterDissolve ==
  ASSUME GroupInv, SerialGroupInv, NEW h \in Handlers, WriteDissolve(h)
  PROVE  Charter!Next
<1>1. group = "PRESENT" /\ Members = {req[h].by}
  BY DEF WriteDissolve, SerialGroupInv, GroupPlansFit, GroupPlanFits
<1>2. Members = {createdBy}
  BY <1>1 DEF SerialGroupInv, OwnerIsAdmin, Members, Admins
<1>3. Charter!Dissolve
  BY <1>1, <1>2, DeletedRoles DEF WriteDissolve, GroupInv, Charter!Dissolve, Charter!Disband
<1>4. QED
  BY <1>3 DEF Charter!Next

LEMMA CharterErase ==
  ASSUME GroupInv, SerialGroupInv, NEW u \in Users, DeleteUser(u)
  PROVE  Charter!Erase(u)
<1>0. NoUser \notin Users
  BY GroupNullAssumption
<1>1. u \in live /\ live' = live \ {u}
  BY DEF DeleteUser
<1>2. CASE createdBy = u
  <2>1. group = "PRESENT"
    BY <1>0, <1>2 DEF GroupInv, GroupTypeOK
  <2>2. QED
    BY <1>1, <1>2, <2>1, DeletedRoles DEF DeleteUser, GroupInv, Charter!Erase, Charter!Disband
<1>3. CASE createdBy # u
  <2>1. role' = [role EXCEPT ![u] = "NONE"] /\ UNCHANGED <<group, createdBy>>
    BY <1>3 DEF DeleteUser, WithoutMember
  <2>2. Members' = Members \ {u} /\ Admins' = Admins \ {u}
    BY <2>1 DEF Members, Admins, GroupInv, GroupTypeOK
  <2>3. CASE u \in Members
    <3>1. createdBy \in Admins /\ createdBy \in Members
      BY <2>3 DEF GroupInv, NoDanglingRows, SerialGroupInv, OwnerIsAdmin, Members, Admins
    <3>2. createdBy \in Admins \ {u}
      BY <1>3, <3>1
    <3>3. Charter!Withdraw(u, createdBy)
      BY <1>3, <2>1, <2>2, <2>3, <3>1, <3>2 DEF Charter!Withdraw
    <3>4. QED
      BY <1>1, <1>3, <2>3, <3>3 DEF Charter!Erase
  <2>4. CASE u \notin Members
    <3>1. u \notin Admins
      BY <2>4 DEF Members, Admins
    <3>2. UNCHANGED <<group, createdBy, Admins, Members>>
      BY <2>1, <2>2, <2>4, <3>1
    <3>3. QED
      BY <1>1, <2>4, <3>2 DEF Charter!Erase
  <2>5. QED
    BY <2>3, <2>4
<1>4. QED
  BY <1>2, <1>3

LEMMA CharterStep ==
  ASSUME GroupInv, SerialGroupInv, [SerialGroupNext]_groupVars
  PROVE  Charter!Next \/ UNCHANGED CharterVars
<1>1. CASE UNCHANGED groupVars
  BY <1>1, SameRoles DEF groupVars
<1>2. ASSUME NEW h \in Handlers, Begin(h)
      PROVE  Charter!Next \/ UNCHANGED CharterVars
  <2>1. CASE \E u \in Users : CreateGroup(h, u)
    BY <2>1, CharterCreate DEF Charter!Next
  <2>2. CASE ~ \E u \in Users : CreateGroup(h, u)
    BY <1>2, <2>2, BeginReads, SameRoles DEF rows
  <2>3. QED
    BY <2>1, <2>2
<1>3. ASSUME NEW h \in Handlers, Finish(h)
      PROVE  Charter!Next \/ UNCHANGED CharterVars
  <2>1. CASE ListInvitees(h) \/ WriteInvites(h) \/ WriteReject(h) \/ Abort(h)
    BY <2>1, SameRoles DEF ListInvitees, WriteInvites, WriteReject, Abort, rows
  <2>2. QED
    BY <1>3, <2>1, CharterAccept, CharterPromote, CharterRemove, CharterLeave, CharterDissolve
       DEF Finish
<1>4. ASSUME NEW u \in Users, DeleteUser(u)
      PROVE  Charter!Next
  BY <1>4, CharterErase DEF Charter!Next
<1>5. QED
  BY <1>1, <1>2, <1>3, <1>4 DEF SerialGroupNext

\* One request at a time, the handlers implement the charter of a group: whoever departs,
\* an owner who administers it is left, and it ends with its last member or its owner.
THEOREM ServesCharter == SerialGroupSpec => ImplementsCharter
<1>1. GroupInit => Charter!Init
  BY DEF GroupInit, Charter!Init, Members, Admins
<1>2. GroupInv /\ SerialGroupInv /\ [SerialGroupNext]_groupVars => [Charter!Next]_(Charter!vars)
  BY CharterStep DEF CharterVars, Charter!vars
<1>3. QED
  BY <1>1, <1>2, SerialGroupInvariant, PTL DEF SerialGroupSpec, ImplementsCharter, Charter!Spec
================================================================================
