------------------------------ MODULE PrivateChat ------------------------------
(***************************************************************************)
(* What private chat promises a pair of users, without rows or requests:   *)
(* one asks, the other lets the chat open or not, and a block of either    *)
(* takes the pair back to where it started, until somebody asks again.     *)
(***************************************************************************)
CONSTANT ChatUsers

VARIABLES
  chatLive,     \* users whose account exists
  blocks,   \* <<u, v>>: u blocks v
  asked,    \* <<u, v>>: u has asked v, who has not answered
  open      \* {u, v}: u and v may chat

vars == <<chatLive, blocks, asked, open>>

Init ==
  /\ chatLive = ChatUsers
  /\ blocks = {}
  /\ asked = {}
  /\ open = {}

Parted(u, v) == {<<u, v>>, <<v, u>>}

Ask(u, v) ==
  /\ Parted(u, v) \cap (blocks \cup asked) = {}
  /\ {u, v} \notin open
  /\ asked' = asked \cup {<<u, v>>}
  /\ UNCHANGED <<chatLive, blocks, open>>

\* The chat opens, or does not.
Answer(u, v) ==
  /\ <<u, v>> \in asked
  /\ asked' = asked \ {<<u, v>>}
  /\ open' \in {open, open \cup {{u, v}}}
  /\ UNCHANGED <<chatLive, blocks>>

Block(u, v) ==
  /\ {u, v} \subseteq chatLive
  /\ blocks' = blocks \cup {<<u, v>>}
  /\ asked' = asked \ Parted(u, v)
  /\ open' = open \ {{u, v}}
  /\ UNCHANGED chatLive

Unblock(u, v) ==
  /\ blocks' = blocks \ {<<u, v>>}
  /\ UNCHANGED <<chatLive, asked, open>>

Erase(u) ==
  /\ u \in chatLive
  /\ chatLive' = chatLive \ {u}
  /\ blocks' = {p \in blocks : u \notin {p[1], p[2]}}
  /\ asked' = {p \in asked : u \notin {p[1], p[2]}}
  /\ open' = {p \in open : u \notin p}

Next ==
  \/ \E u, v \in ChatUsers :
       /\ u # v
       /\ Ask(u, v) \/ Answer(u, v) \/ Block(u, v) \/ Unblock(u, v)
  \/ \E u \in ChatUsers : Erase(u)

Spec == Init /\ [][Next]_vars
================================================================================
