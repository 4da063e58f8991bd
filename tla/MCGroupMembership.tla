--------------------------- MODULE MCGroupMembership ---------------------------
(***************************************************************************)
(* GroupMembership on small instances: users, invitations and handlers are *)
(* sets of model values, interchangeable in every definition.              *)
(***************************************************************************)
EXTENDS GroupMembership, TLC

Symmetry == Permutations(Users) \cup Permutations(Invites) \cup Permutations(Handlers)
================================================================================
