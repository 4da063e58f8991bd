----------------------------- MODULE MCChatRequests -----------------------------
(***************************************************************************)
(* ChatRequests on small instances: users and handlers are sets of model   *)
(* values, interchangeable in every definition.                            *)
(***************************************************************************)
EXTENDS ChatRequests, TLC

Symmetry == Permutations(ChatUsers) \cup Permutations(ChatHandlers)
================================================================================
