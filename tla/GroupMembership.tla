---------------------------- MODULE GroupMembership ----------------------------
(***************************************************************************)
(* Membership of one group chat: who belongs to it, who administers it,    *)
(* who owns it, and the invitations into it.  The module models the group  *)
(* handlers of ChatService (src/src/chat/chat.service.ts) over the         *)
(* PostgreSQL tables Group, GroupMember and GroupJoinRequest.              *)
(*                                                                         *)
(* Every handler awaits the database at least twice: it reads the          *)
(* membership, decides, and only then writes.  A handler in flight is      *)
(* therefore a record in req[h] that holds what the handler decided from   *)
(* what it read; the write is a later step, and steps of other handlers    *)
(* and account deletions come between the two.  One database transaction   *)
(* is one step: the transactions of these handlers only write, so the row  *)
(* locks that they hold until they commit make them serializable.  A       *)
(* write that addresses a row which is gone, or would break a foreign key, *)
(* throws: the handler then ends by Abort, like one whose process crashes  *)
(* or whose connection fails.                                              *)
(*                                                                         *)
(* GroupSpec lets the handlers interleave, as the server does.  SerialGroupSpec      *)
(* starts a request only when no other is in flight (account deletions     *)
(* still come at any time): it says what each handler guarantees alone.    *)
(***************************************************************************)
EXTENDS FiniteSets

CONSTANTS
  Users,      \* the user accounts
  Invites,    \* ids of GroupJoinRequest rows (uuids: never used twice); bounds the invitations
  Handlers,   \* the requests that can be in flight at the same time
  NoUser,     \* null, for a field that holds a user
  NoInvite    \* null, for a field that holds an invitation

ASSUME GroupNullAssumption == NoUser \notin Users /\ NoInvite \notin Invites

VARIABLES
  live,       \* users whose User row exists
  group,      \* the Group row: "ABSENT" until created, "PRESENT", then "DELETED"
  createdBy,  \* Group.createdById, the owner
  role,       \* GroupMember rows: the role of each user, "NONE" when there is no row
  older,      \* <<u, v>>: the joinedAt of member u precedes that of member v
  invite,     \* GroupJoinRequest rows
  req         \* what each request in flight is about to write

rows == <<group, createdBy, role, older, invite>>
groupVars == <<live, group, createdBy, role, older, invite, req>>

UserOrNull == Users \cup {NoUser}

Idle == [op |-> "idle", by |-> NoUser, target |-> NoUser, promote |-> NoUser,
         owner |-> NoUser, inv |-> NoInvite, ids |-> {}]

Request ==
  {r \in [op : {"dissolve", "leave", "remove", "promote", "accept", "reject", "list", "invite"},
          by : Users, target : UserOrNull, promote : UserOrNull, owner : UserOrNull,
          inv : Invites \cup {NoInvite}, ids : SUBSET Users] :
     r.op \in {"remove", "promote"} => r.target \in Users}

FreeInvite    == [status |-> "FREE",    to |-> NoUser, by |-> NoUser]
DeletedInvite == [status |-> "DELETED", to |-> NoUser, by |-> NoUser]

Row    == {"PENDING", "ACCEPTED", "REJECTED"}   \* the statuses of an invitation that exists
Invite == [status : Row, to : Users, by : Users] \cup {FreeInvite, DeletedInvite}

Members == {u \in Users : role[u] # "NONE"}
Admins  == {u \in Users : role[u] = "ADMIN"}

\* Users with an unanswered invitation.
Invited == {invite[i].to : i \in {j \in Invites : invite[j].status = "PENDING"}}

(***************************************************************************)
(* The first of the members S in the order of pickNextGroupOwner: admins   *)
(* before plain members, then by joinedAt.                                 *)
(***************************************************************************)
NextGroupOwner(S) ==
  LET pool == IF S \cap Admins # {} THEN S \cap Admins ELSE S
  IN  {m \in pool : \A x \in pool : <<x, m>> \notin older}

GroupInit ==
  /\ live = Users
  /\ group = "ABSENT"
  /\ createdBy = NoUser
  /\ role = [u \in Users |-> "NONE"]
  /\ older = {}
  /\ invite = [i \in Invites |-> FreeInvite]
  /\ req = [h \in Handlers |-> Idle]

--------------------------------------------------------------------------------
(***************************************************************************)
(* The effects of the statements that the handlers run.                    *)
(***************************************************************************)
WithoutMember(r, u) == [r EXCEPT ![u] = "NONE"]
WithoutJoin(u) == {p \in older : p[1] # u /\ p[2] # u}

\* group.delete: members and invitations go with the row (onDelete: Cascade).
DeleteGroup ==
  /\ group' = "DELETED"
  /\ createdBy' = NoUser
  /\ role' = [u \in Users |-> "NONE"]
  /\ older' = {}
  /\ invite' = [i \in Invites |-> DeletedInvite]

\* Seeded bug: GroupJoinRequest without its foreign keys.
InsertInvitesWithoutKeys(by, ids) ==
  \E f \in [ids -> {i \in Invites : invite[i].status = "FREE"}] :
    /\ \A u, v \in ids : u # v => f[u] # f[v]
    /\ invite' = [i \in Invites |->
                    IF \E u \in ids : f[u] = i
                      THEN [status |-> "PENDING", by |-> by,
                            to |-> CHOOSE u \in ids : f[u] = i]
                      ELSE invite[i]]

\* groupJoinRequest.createMany: one statement, all the rows or none.
InsertInvites(by, ids) ==
  /\ group = "PRESENT"
  /\ ids \cup {by} \subseteq live
  /\ \E f \in [ids -> {i \in Invites : invite[i].status = "FREE"}] :
       /\ \A u, v \in ids : u # v => f[u] # f[v]
       /\ invite' = [i \in Invites |->
                       IF \E u \in ids : f[u] = i
                         THEN [status |-> "PENDING", by |-> by,
                               to |-> CHOOSE u \in ids : f[u] = i]
                         ELSE invite[i]]

Start(h, r) == req[h] = Idle /\ req' = [req EXCEPT ![h] = r]
Done(h)     == req' = [req EXCEPT ![h] = Idle]
Reads(h, r) == Start(h, r) /\ UNCHANGED <<live, rows>>

--------------------------------------------------------------------------------
(***************************************************************************)
(* createGroup writes the group with its creator as admin, and in a second *)
(* statement the invitations: a handler that dies in between leaves a      *)
(* group without them.                                                     *)
(***************************************************************************)
CreateGroup(h, u) ==
  /\ group = "ABSENT"
  /\ u \in live
  /\ group' = "PRESENT"
  /\ createdBy' = u
  /\ role' = [role EXCEPT ![u] = "ADMIN"]
  /\ \E ids \in SUBSET (live \ {u}) :
       Start(h, IF ids = {} THEN Idle
                ELSE [Idle EXCEPT !.op = "invite", !.by = u, !.ids = ids])
  /\ UNCHANGED <<live, older, invite>>

\* inviteGroupMembers, first await: the caller must be an admin.
BeginInvite(h, u) ==
  /\ role[u] = "ADMIN"
  /\ \E ids \in SUBSET (Users \ {u}) \ {{}} :
       Reads(h, [Idle EXCEPT !.op = "list", !.by = u, !.ids = ids])

\* Seeded bug: only members are left out, as if pending invitations were not looked up.
ListInviteesAgain(h) ==
  /\ req[h].op = "list"
  /\ LET valid == req[h].ids \cap (live \ Members)
     IN  /\ valid # {}
         /\ req' = [req EXCEPT ![h].op = "invite", ![h].ids = valid]
  /\ UNCHANGED <<live, rows>>

\* Second await: members, users already invited and unknown users are left out.
ListInvitees(h) ==
  /\ req[h].op = "list"
  /\ LET valid == {u \in req[h].ids : u \in live /\ u \notin Members \cup Invited}
     IN  /\ valid # {}
         /\ req' = [req EXCEPT ![h].op = "invite", ![h].ids = valid]
  /\ UNCHANGED <<live, rows>>

WriteInvites(h) ==
  /\ req[h].op = "invite"
  /\ InsertInvites(req[h].by, req[h].ids)
  /\ Done(h)
  /\ UNCHANGED <<live, group, createdBy, role, older>>

--------------------------------------------------------------------------------
\* Seeded bug: an invitation is answered whatever its status.
BeginAnswerAnyStatus(h, i, op) ==
  /\ op \in {"accept", "reject"}
  /\ invite[i].status \in Row
  /\ Reads(h, [Idle EXCEPT !.op = op, !.by = invite[i].to, !.inv = i])

\* acceptGroupInvite and rejectGroupInvite: only a pending invitation, by its invitee.
BeginAnswer(h, i, op) ==
  /\ op \in {"accept", "reject"}
  /\ invite[i].status = "PENDING"
  /\ Reads(h, [Idle EXCEPT !.op = op, !.by = invite[i].to, !.inv = i])

\* Seeded bug: the upsert of the member also updates the role of one that exists.
WriteAcceptOverRole(h) ==
  LET i == req[h].inv
      u == req[h].by
  IN  /\ req[h].op = "accept"
      /\ invite[i].status \in Row
      /\ invite' = [invite EXCEPT ![i].status = "ACCEPTED"]
      /\ role' = [role EXCEPT ![u] = "MEMBER"]
      /\ older' = WithoutJoin(u) \cup ((Members \ {u}) \X {u})
      /\ Done(h)
      /\ UNCHANGED <<live, group, createdBy>>

\* One transaction: mark the invitation, and add the member unless there is one.
WriteAccept(h) ==
  LET i == req[h].inv
      u == req[h].by
  IN  /\ req[h].op = "accept"
      /\ invite[i].status \in Row
      /\ invite' = [invite EXCEPT ![i].status = "ACCEPTED"]
      /\ IF role[u] = "NONE"
           THEN /\ role' = [role EXCEPT ![u] = "MEMBER"]
                /\ older' = older \cup (Members \X {u})
           ELSE UNCHANGED <<role, older>>
      /\ Done(h)
      /\ UNCHANGED <<live, group, createdBy>>

WriteReject(h) ==
  /\ req[h].op = "reject"
  /\ invite[req[h].inv].status \in Row
  /\ invite' = [invite EXCEPT ![req[h].inv].status = "REJECTED"]
  /\ Done(h)
  /\ UNCHANGED <<live, group, createdBy, role, older>>

--------------------------------------------------------------------------------
(***************************************************************************)
(* removeGroupMember: an admin removes another member, never the only      *)
(* admin; when the owner is removed, the group passes to the next in line. *)
(***************************************************************************)
BeginRemove(h, u, t) ==
  /\ role[u] = "ADMIN"
  /\ t # u
  /\ role[t] # "NONE"
  /\ ~(role[t] = "ADMIN" /\ Admins \subseteq {t})
  /\ \E n \in IF createdBy = t THEN NextGroupOwner(Members \ {t}) ELSE {NoUser} :
       Reads(h, [Idle EXCEPT !.op = "remove", !.by = u, !.target = t, !.owner = n])

\* Seeded bug: the owner is overwritten even when nobody was picked.
TransferGroupAlways(n) == group = "PRESENT" /\ createdBy' = n

\* group.update of createdById: the new owner's account must exist.
TransferGroup(n) ==
  IF n = NoUser
    THEN UNCHANGED createdBy
    ELSE group = "PRESENT" /\ n \in live /\ createdBy' = n

WriteRemove(h) ==
  LET t == req[h].target
  IN  /\ req[h].op = "remove"
      /\ role[t] # "NONE"
      /\ TransferGroup(req[h].owner)
      /\ role' = WithoutMember(role, t)
      /\ older' = WithoutJoin(t)
      /\ Done(h)
      /\ UNCHANGED <<live, group, invite>>

\* promoteGroupMember: an admin makes a plain member an admin.
BeginPromote(h, u, t) ==
  /\ role[u] = "ADMIN"
  /\ role[t] = "MEMBER"
  /\ Reads(h, [Idle EXCEPT !.op = "promote", !.by = u, !.target = t])

\* Seeded bug: an upsert in place of the update of the member's row.
WritePromoteUpsert(h) ==
  /\ req[h].op = "promote"
  /\ group = "PRESENT"
  /\ req[h].target \in live
  /\ role' = [role EXCEPT ![req[h].target] = "ADMIN"]
  /\ Done(h)
  /\ UNCHANGED <<live, group, createdBy, older, invite>>

WritePromote(h) ==
  /\ req[h].op = "promote"
  /\ role[req[h].target] # "NONE"
  /\ role' = [role EXCEPT ![req[h].target] = "ADMIN"]
  /\ Done(h)
  /\ UNCHANGED <<live, group, createdBy, older, invite>>

--------------------------------------------------------------------------------
\* Seeded bug: a group whose last admin leaves is dissolved over its members' heads.
BeginLeaveDissolving(h, u) ==
  /\ role[u] # "NONE"
  /\ LET rest == Members \ {u}
     IN  \/ /\ rest \cap Admins = {}
            /\ Reads(h, [Idle EXCEPT !.op = "dissolve", !.by = u])
         \/ \E n \in NextGroupOwner(rest \cap Admins) :
              Reads(h, [Idle EXCEPT !.op = "leave", !.by = u,
                          !.owner = IF createdBy = u THEN n ELSE NoUser])

(***************************************************************************)
(* leaveGroup: a member leaves; the last one dissolves the group, and the  *)
(* only admin or the owner is replaced by the next in line.                *)
(***************************************************************************)
BeginLeave(h, u) ==
  /\ role[u] # "NONE"
  /\ LET rest == Members \ {u}
     IN  \/ /\ rest = {}
            /\ Reads(h, [Idle EXCEPT !.op = "dissolve", !.by = u])
         \/ \E n \in NextGroupOwner(rest) :
              Reads(h, [Idle EXCEPT !.op = "leave", !.by = u,
                          !.promote = IF role[u] = "ADMIN" /\ Admins \subseteq {u}
                                        THEN n ELSE NoUser,
                          !.owner   = IF createdBy = u THEN n ELSE NoUser])

WriteDissolve(h) ==
  /\ req[h].op = "dissolve"
  /\ group = "PRESENT"
  /\ DeleteGroup
  /\ Done(h)
  /\ UNCHANGED live

WriteLeave(h) ==
  LET u == req[h].by
      p == req[h].promote
  IN  /\ req[h].op = "leave"
      /\ role[u] # "NONE"
      /\ p # NoUser => role[p] # "NONE"
      /\ TransferGroup(req[h].owner)
      /\ role' = WithoutMember(IF p = NoUser THEN role ELSE [role EXCEPT ![p] = "ADMIN"], u)
      /\ older' = WithoutJoin(u)
      /\ Done(h)
      /\ UNCHANGED <<live, group, invite>>

--------------------------------------------------------------------------------
\* A request ends without writing: a refusal, a missing row, a failure, a crash.
Abort(h) ==
  /\ req[h] # Idle
  /\ Done(h)
  /\ UNCHANGED <<live, rows>>

(***************************************************************************)
(* The account of u is erased (user.delete, by an administrator or by the  *)
(* hourly purge): the groups that u owns, u's membership, and u's          *)
(* invitations, sent and received, go with it.                             *)
(***************************************************************************)
DeleteUser(u) ==
  /\ u \in live
  /\ live' = live \ {u}
  /\ IF createdBy = u
       THEN DeleteGroup
       ELSE /\ role' = WithoutMember(role, u)
            /\ older' = WithoutJoin(u)
            /\ invite' = [i \in Invites |->
                            IF u \in {invite[i].to, invite[i].by}
                              THEN DeletedInvite ELSE invite[i]]
            /\ UNCHANGED <<group, createdBy>>
  /\ UNCHANGED req

Begin(h) ==
  \/ \E u \in Users : CreateGroup(h, u) \/ BeginInvite(h, u) \/ BeginLeave(h, u)
  \/ \E u, t \in Users : BeginRemove(h, u, t) \/ BeginPromote(h, u, t)
  \/ \E i \in Invites, op \in {"accept", "reject"} : BeginAnswer(h, i, op)

Finish(h) ==
  \/ ListInvitees(h) \/ WriteInvites(h)
  \/ WriteAccept(h) \/ WriteReject(h)
  \/ WriteRemove(h) \/ WritePromote(h)
  \/ WriteDissolve(h) \/ WriteLeave(h)
  \/ Abort(h)

GroupNext ==
  \/ \E h \in Handlers : Begin(h) \/ Finish(h)
  \/ \E u \in Users : DeleteUser(u)

GroupSpec == GroupInit /\ [][GroupNext]_groupVars

\* The same handlers, one request at a time.
Quiet == \A h \in Handlers : req[h] = Idle

SerialGroupNext ==
  \/ Quiet /\ \E h \in Handlers : Begin(h)
  \/ \E h \in Handlers : Finish(h)
  \/ \E u \in Users : DeleteUser(u)

SerialGroupSpec == GroupInit /\ [][SerialGroupNext]_groupVars

--------------------------------------------------------------------------------
(***************************************************************************)
(* Properties.                                                             *)
(***************************************************************************)

\* Types of the rows and of the requests in flight.
GroupTypeOK ==
  /\ live \subseteq Users
  /\ group \in {"ABSENT", "PRESENT", "DELETED"}
  /\ createdBy \in IF group = "PRESENT" THEN Users ELSE {NoUser}
  /\ role \in [Users -> {"NONE", "MEMBER", "ADMIN"}]
  /\ older \subseteq Users \X Users
  /\ invite \in [Invites -> Invite]
  /\ req \in [Handlers -> Request \cup {Idle}]

\* "A group must keep at least one admin" (removeGroupMember): no sequence of
\* group requests leaves a group that exists without an administrator.
KeepsAnAdmin == group = "PRESENT" => Admins # {}

\* One request at a time, whatever accounts are deleted between a read and its
\* write, the owner of the group is one of its administrators: the reason why
\* deleting any other account cannot leave the group without one.
OwnerIsAdmin == group = "PRESENT" => createdBy \in Admins

\* One request at a time, nobody holds two unanswered invitations, and no member
\* holds one: what the second await of inviteGroupMembers is there for.
InvitationsAreDue ==
  /\ \A i, j \in Invites :
       /\ i # j
       /\ invite[i].status = "PENDING"
       /\ invite[j].status = "PENDING"
       => invite[i].to # invite[j].to
  /\ Invited \cap Members = {}

\* One request at a time, a user joins an existing group only by a step that turns
\* a pending invitation of that user into an accepted one ("Only pending invites
\* can be accepted"), so that an invitation admits at most once.
JoinsByPendingInvite ==
  [][\A u \in Users :
       /\ group = "PRESENT"
       /\ role[u] = "NONE"
       /\ role'[u] # "NONE"
       => \E i \in Invites : /\ invite[i].status = "PENDING"
                             /\ invite[i].to = u
                             /\ invite'[i].status = "ACCEPTED"]_groupVars

\* One request at a time, although each handler decides on what it read before other
\* accounts were deleted, every step is one that the group's charter allows: in
\* particular the group is deleted with members in it only along with its owner's
\* account ("The group was deleted because no members remained").
Charter == INSTANCE GroupCharter
  WITH stage <- group, owner <- createdBy, admins <- Admins, members <- Members

ImplementsCharter == Charter!Spec

\* However requests interleave, an administrator stays one until leaving: a late
\* acceptance of a second invitation does not overwrite the role.
AdminsStayAdmins ==
  [][\A u \in Users : role[u] = "ADMIN" => role'[u] # "MEMBER"]_groupVars

\* However requests interleave, nobody enters an existing group without an
\* invitation addressed to them that is then recorded as accepted: a promotion or
\* an automatic one by a leaving admin never brings back a member who is gone.
JoinsByInvite ==
  [][\A u \in Users :
       /\ group = "PRESENT"
       /\ role[u] = "NONE"
       /\ role'[u] # "NONE"
       => \E i \in Invites : invite[i].to = u /\ invite'[i].status = "ACCEPTED"]_groupVars

\* However requests interleave with the deletion of the group or of an account, a
\* late write leaves no row behind that refers to something deleted.
NoDanglingRows ==
  /\ group # "PRESENT" => Members = {}
  /\ group = "PRESENT" => createdBy \in live
  /\ Members \subseteq live
  /\ \A i \in Invites : invite[i].status \in Row =>
       group = "PRESENT" /\ {invite[i].to, invite[i].by} \subseteq live
================================================================================
