---------------------------- MODULE MCAdminAccounts ----------------------------
(***************************************************************************)
(* AdminAccounts on small instances.                                       *)
(***************************************************************************)
EXTENDS AdminAccounts, TLC

Symmetry == Permutations(Users) \cup Permutations(Handlers)
================================================================================
