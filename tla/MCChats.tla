--------------------------------- MODULE MCChats ---------------------------------
(***************************************************************************)
(* What decides who talks to whom, and who can read it, on small           *)
(* instances: the groups, the requests and blocks between two accounts,    *)
(* and the keys that an account's browsers share with the server.  The     *)
(* three share no state: a behaviour picks one of them and takes its       *)
(* steps, so that one run of TLC checks them all.                          *)
(***************************************************************************)
EXTENDS GroupMembership, ChatRequests, Keys, TLC

VARIABLE part \* the module whose steps are taken

chatsVars == <<part, groupVars, chatVars, keysVars>>

ChatsInit(parts) == part \in parts /\ GroupInit /\ ChatInit /\ KeysInit

Steps(groupNext, chatNext) ==
  /\ \/ part = "groups" /\ groupNext /\ UNCHANGED <<chatVars, keysVars>>
     \/ part = "chats" /\ chatNext /\ UNCHANGED <<groupVars, keysVars>>
  /\ UNCHANGED part

\* Every request races with every other one.
InterleavedChatsNext ==
  \/ Steps(GroupNext, ChatNext)
  \/ part = "keys" /\ KeysNext /\ UNCHANGED <<part, groupVars, chatVars>>

InterleavedChats ==
  ChatsInit({"groups", "chats", "keys"}) /\ [][InterleavedChatsNext]_chatsVars

\* The server takes one request of a group, or of two users, at a time.
SerialChatsNext == Steps(SerialGroupNext, SerialChatNext)
SerialChats == ChatsInit({"groups", "chats"}) /\ [][SerialChatsNext]_chatsVars

Symmetry ==
  Permutations(Users) \cup Permutations(Invites) \cup Permutations(Handlers)
    \cup Permutations(ChatUsers) \cup Permutations(ChatHandlers)
    \cup Permutations(Devices) \cup Permutations(KeyTasks)

\* Every variable of the part that is picked keeps its type.
ChatsTypesOK ==
  /\ part = "groups" => GroupTypeOK
  /\ part = "chats" => ChatTypeOK
  /\ part = "keys" => KeysTypeOK
==================================================================================
