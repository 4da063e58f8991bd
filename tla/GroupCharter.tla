------------------------------ MODULE GroupCharter ------------------------------
(***************************************************************************)
(* What a group chat promises its members, without requests, rows or       *)
(* invitations: people are admitted one at a time, an existing group       *)
(* always has an owner who is one of its administrators, somebody else     *)
(* takes over when the owner departs, and the group ends only when its     *)
(* last member departs or its owner's account is erased.                   *)
(***************************************************************************)
CONSTANTS
  Users,    \* the user accounts
  NoUser    \* the owner of a group that does not exist

VARIABLES
  live,     \* users whose account exists
  stage,    \* "ABSENT", "PRESENT" or "DELETED"
  owner,
  admins,
  members

vars == <<live, stage, owner, admins, members>>

Init ==
  /\ live = Users
  /\ stage = "ABSENT"
  /\ owner = NoUser
  /\ admins = {}
  /\ members = {}

Found(u) ==
  /\ stage = "ABSENT"
  /\ u \in live
  /\ stage' = "PRESENT"
  /\ owner' = u
  /\ admins' = {u}
  /\ members' = {u}
  /\ UNCHANGED live

Admit(u) ==
  /\ stage = "PRESENT"
  /\ u \in live \ members
  /\ members' = members \cup {u}
  /\ UNCHANGED <<live, stage, owner, admins>>

Promote(u) ==
  /\ u \in members
  /\ admins' = admins \cup {u}
  /\ UNCHANGED <<live, stage, owner, members>>

\* u departs, and o is the owner of those who remain: an administrator already,
\* or made one because none is left.
Withdraw(u, o) ==
  /\ u \in members
  /\ o \in members \ {u}
  /\ u # owner => o = owner
  /\ members' = members \ {u}
  /\ admins' = IF admins \ {u} = {} THEN {o} ELSE admins \ {u}
  /\ owner' = o
  /\ o \in admins'
  /\ UNCHANGED stage

Depart(u, o) == Withdraw(u, o) /\ UNCHANGED live

Disband ==
  /\ stage = "PRESENT"
  /\ stage' = "DELETED"
  /\ owner' = NoUser
  /\ admins' = {}
  /\ members' = {}

Dissolve == members = {owner} /\ Disband /\ UNCHANGED live

Erase(u) ==
  /\ u \in live
  /\ live' = live \ {u}
  /\ \/ u = owner /\ Disband
     \/ u \in members /\ u # owner /\ Withdraw(u, owner)
     \/ u \notin members /\ UNCHANGED <<stage, owner, admins, members>>

Next ==
  \/ \E u \in Users : Found(u) \/ Admit(u) \/ Promote(u) \/ Erase(u)
  \/ \E u, o \in Users : Depart(u, o)
  \/ Dissolve

Spec == Init /\ [][Next]_vars
================================================================================
