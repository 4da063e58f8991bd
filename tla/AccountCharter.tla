----------------------------- MODULE AccountCharter -----------------------------
(***************************************************************************)
(* What the server promises about its accounts, without rows, requests,    *)
(* tokens or dates: who takes part, and who may change that.  People come  *)
(* in by registering, and take part once somebody has approved them.  Each *)
(* decision about another account is taken by an administrator who takes   *)
(* part at that moment, and is not about the own account; whoever is       *)
(* banned, loses the role, changes the password or asks to leave stops     *)
(* taking part at once.  An account ends by the decision of such an        *)
(* administrator or by the will of its owner, and an administrator may     *)
(* only ask to leave while another one stays.                              *)
(***************************************************************************)
CONSTANT Users

VARIABLES
  fresh,     \* who has never had an account
  accounts,  \* who has one
  approved,
  banned,
  admins,
  leaving,   \* the accounts whose owners have asked for their end
  present    \* the accounts that somebody is logged in to

vars == <<fresh, accounts, approved, banned, admins, leaving, present>>

Init ==
  /\ fresh = Users
  /\ accounts = {} /\ approved = {} /\ banned = {}
  /\ admins = {} /\ leaving = {} /\ present = {}

\* An administrator other than u is at work.
ByAnother(u) == (admins \cap present) \ {u} # {}

Register(u) ==
  /\ u \in fresh
  /\ fresh' = fresh \ {u}
  /\ accounts' = accounts \cup {u}
  /\ UNCHANGED <<approved, banned, admins, leaving, present>>

LogIn(u) ==
  /\ u \in approved \ banned
  /\ present' = present \cup {u}
  /\ UNCHANGED <<fresh, accounts, approved, banned, admins, leaving>>

ChangePassword(u) ==
  /\ u \in present
  /\ present' = present \ {u}
  /\ UNCHANGED <<fresh, accounts, approved, banned, admins, leaving>>

Approve(u) ==
  /\ ByAnother(u)
  /\ u \in accounts \ approved
  /\ approved' = approved \cup {u}
  /\ UNCHANGED <<fresh, accounts, banned, admins, leaving, present>>

Ban(u) ==
  /\ ByAnother(u)
  /\ u \in accounts \ (admins \cup banned)
  /\ banned' = banned \cup {u}
  /\ present' = present \ {u}
  /\ UNCHANGED <<fresh, accounts, approved, admins, leaving>>

Unban(u) ==
  /\ ByAnother(u)
  /\ u \in banned
  /\ banned' = banned \ {u}
  /\ UNCHANGED <<fresh, accounts, approved, admins, leaving, present>>

Demote(u) ==
  /\ ByAnother(u)
  /\ u \in admins
  /\ admins' = admins \ {u}
  /\ present' = present \ {u}
  /\ UNCHANGED <<fresh, accounts, approved, banned, leaving>>

AskToLeave(u) ==
  /\ u \in present \ leaving
  /\ u \in admins => admins \ (leaving \cup {u}) # {}
  /\ leaving' = leaving \cup {u}
  /\ present' = present \ {u}
  /\ UNCHANGED <<fresh, accounts, approved, banned, admins>>

Stay(u) ==
  /\ u \in present \cap leaving
  /\ leaving' = leaving \ {u}
  /\ UNCHANGED <<fresh, accounts, approved, banned, admins, present>>

End(u) ==
  /\ u \in accounts
  /\ ByAnother(u) \/ u \in leaving
  /\ accounts' = accounts \ {u}
  /\ approved' = approved \ {u}
  /\ banned' = banned \ {u}
  /\ admins' = admins \ {u}
  /\ leaving' = leaving \ {u}
  /\ present' = present \ {u}
  /\ UNCHANGED fresh

\* Whoever runs the server makes u an administrator, with an account or without one yet.
Appoint(u) ==
  /\ u \in fresh \cup accounts
  /\ fresh' = fresh \ {u}
  /\ accounts' = accounts \cup {u}
  /\ approved' = approved \cup {u}
  /\ banned' = banned \ {u}
  /\ admins' = admins \cup {u}
  /\ present' = IF u \in (admins \cap approved) \ banned THEN present ELSE present \ {u}
  /\ UNCHANGED leaving

Next ==
  \E u \in Users :
    \/ Register(u) \/ LogIn(u) \/ ChangePassword(u)
    \/ Approve(u) \/ Ban(u) \/ Unban(u) \/ Demote(u)
    \/ AskToLeave(u) \/ Stay(u) \/ End(u) \/ Appoint(u)

Spec == Init /\ [][Next]_vars
=================================================================================
