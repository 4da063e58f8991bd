--------------------------------- MODULE Presence ---------------------------------
(***************************************************************************)
(* Whether one user is shown online (chat.gateway.ts).                     *)
(*                                                                         *)
(* Each server process keeps the user's sockets in the map onlineUsers and, *)
(* while there are any, a field of its own in a Redis hash.  When the map   *)
(* gains or loses the user, the process tells the browsers connected to it, *)
(* publishes the change, and sends everybody the list of all users online.  *)
(* A process that cannot reach Redis when it starts does without for good.  *)
(*                                                                         *)
(* The commands of a process go to Redis over one connection: Redis runs    *)
(* them in order (`pipe'), the answers come back in order (`answers'), and  *)
(* the handler that awaits an answer goes on with it.  Publications arrive  *)
(* over another connection (`feed').                                        *)
(***************************************************************************)
EXTENDS Naturals, Sequences, SequencesExt

CONSTANTS
  Instances,    \* server processes
  Sockets,      \* sockets that the user ever opens; an id is never used again
  MaxStops      \* bound: how often a process stops and starts again

ASSUME StopAssumption == MaxStops \in Nat

VARIABLES
  alone,        \* alone[p]: p found no Redis when it started
  socket,       \* socket[s]: where s is in its life, and at which process
  online,       \* online[p]: the set that onlineUsers of p holds for the user
  fields,       \* the processes whose field the Redis hash has
  stale,        \* the hash has a field of a process that stopped
  pipe,         \* pipe[p]: commands of p on their way to Redis
  answers,      \* answers[p]: answers of Redis on their way to p
  feed,         \* feed[p]: publications on their way to p
  shown,        \* shown[p]: do the browsers connected to p show the user online?
  erred,        \* some command has failed, or its process stopped before it went on
  stops         \* how often a process has stopped

presenceVars == <<alone, socket, online, fields, stale, pipe, answers, feed,
                  shown, erred, stops>>

\* "early": closed before the server knew whose it was.
SocketStates == [at : {"new", "checking", "open", "closed", "early", "haunting"},
                 process : Instances]

Commands == {"set", "del", "publishOn", "publishOff", "keys"}

PresenceTypeOK ==
  /\ alone \in [Instances -> BOOLEAN]
  /\ socket \in [Sockets -> SocketStates]
  /\ online \in [Instances -> SUBSET Sockets]
  /\ fields \subseteq Instances
  /\ stale \in BOOLEAN
  /\ pipe \in [Instances -> Seq(Commands)]
  /\ answers \in [Instances -> Seq([command : Commands, anybody : BOOLEAN])]
  /\ feed \in [Instances -> Seq(BOOLEAN)]
  /\ shown \in [Instances -> BOOLEAN]
  /\ erred \in BOOLEAN
  /\ stops \in 0 .. MaxStops

PresenceInit ==
  /\ alone \in [Instances -> BOOLEAN]
  /\ socket \in [Sockets -> [at : {"new"}, process : Instances]]
  /\ online = [p \in Instances |-> {}]
  /\ fields = {}
  /\ stale = FALSE
  /\ pipe = [p \in Instances |-> <<>>]
  /\ answers = [p \in Instances |-> <<>>]
  /\ feed = [p \in Instances |-> <<>>]
  /\ shown = [p \in Instances |-> FALSE]
  /\ erred = FALSE
  /\ stops = 0

--------------------------------------------------------------------------------
(* What a handler does to the rest of the world.  A process without Redis  *)
(* skips every command and lists its own users, all without waiting.       *)

Ask(p, command) == pipe' = [pipe EXCEPT ![p] = Append(@, command)]

\* markUserOnline, markUserOffline, and what follows them.
Changed(p, isOnline) ==
  IF alone[p]
  THEN /\ shown' = [shown EXCEPT ![p] = isOnline]
       /\ UNCHANGED pipe
  ELSE /\ Ask(p, IF isOnline THEN "set" ELSE "del")
       /\ UNCHANGED shown

\* broadcastOnlineUsers; `held' is what onlineUsers has by then.
Broadcast(p, held) ==
  IF alone[p]
  THEN /\ shown' = [shown EXCEPT ![p] = held # {}]
       /\ UNCHANGED pipe
  ELSE /\ Ask(p, "keys")
       /\ UNCHANGED shown

--------------------------------------------------------------------------------
(* Sockets.                                                                *)

\* A socket connects, and its token is checked against the database.
Connect(s) ==
  /\ socket[s].at = "new"
  /\ socket' = [socket EXCEPT ![s].at = "checking"]
  /\ UNCHANGED <<alone, online, fields, stale, pipe, answers, feed, shown, erred, stops>>

\* The check is over: the process adds the socket, whether it is still open or not.
HandleConnection(s) ==
  LET p == socket[s].process
      held == online[p] \cup {s}
  IN /\ socket[s].at \in {"checking", "early"}
     /\ socket' = [socket EXCEPT ![s].at = IF @ = "early" THEN "haunting" ELSE "open"]
     /\ online' = [online EXCEPT ![p] = held]
     /\ IF held = {s} THEN Changed(p, TRUE) ELSE Broadcast(p, held)
     /\ UNCHANGED <<alone, fields, stale, answers, feed, erred, stops>>

\* The token is refused, and the socket closed.
RefuseSocket(s) ==
  /\ socket[s].at \in {"checking", "early"}
  /\ socket' = [socket EXCEPT ![s].at = "closed"]
  /\ UNCHANGED <<alone, online, fields, stale, pipe, answers, feed, shown, erred, stops>>

\* A socket closes before the server knows its user: handleDisconnect returns.
LeaveEarly(s) ==
  /\ socket[s].at = "checking"
  /\ socket' = [socket EXCEPT ![s].at = "early"]
  /\ UNCHANGED <<alone, online, fields, stale, pipe, answers, feed, shown, erred, stops>>

HandleDisconnect(s) ==
  LET p == socket[s].process
      held == online[p] \ {s}
  IN /\ socket[s].at = "open"
     /\ socket' = [socket EXCEPT ![s].at = "closed"]
     /\ online' = [online EXCEPT ![p] = held]
     /\ IF held = {} THEN Changed(p, FALSE) ELSE Broadcast(p, held)
     /\ UNCHANGED <<alone, fields, stale, answers, feed, erred, stops>>

--------------------------------------------------------------------------------
(* Redis.                                                                  *)

\* Redis runs the first command of a process.
RunCommand(p) ==
  /\ pipe[p] # <<>>
  /\ LET c == Head(pipe[p])
     IN /\ fields' = CASE c = "set" -> fields \cup {p}
                       [] c = "del" -> fields \ {p}
                       [] OTHER -> fields
        /\ feed' = IF c \in {"publishOn", "publishOff"}
                   THEN [q \in Instances |->
                           IF q = p \/ alone[q] THEN feed[q]
                           ELSE Append(feed[q], c = "publishOn")]
                   ELSE feed
        /\ answers' = [answers EXCEPT ![p] =
                         Append(@, [command |-> c, anybody |-> fields # {} \/ stale])]
  /\ pipe' = [pipe EXCEPT ![p] = Tail(@)]
  /\ UNCHANGED <<alone, socket, online, stale, shown, erred, stops>>

\* An answer arrives, and the handler that waits for it goes on to its next await.
GetAnswer(p) ==
  /\ answers[p] # <<>>
  /\ LET a == Head(answers[p])
     IN CASE a.command \in {"set", "del"} ->
               /\ shown' = [shown EXCEPT ![p] = a.command = "set"]
               /\ Ask(p, IF a.command = "set" THEN "publishOn" ELSE "publishOff")
          [] a.command \in {"publishOn", "publishOff"} ->
               /\ Ask(p, "keys")
               /\ UNCHANGED shown
          [] OTHER ->
               /\ shown' = [shown EXCEPT ![p] = a.anybody]
               /\ UNCHANGED pipe
  /\ answers' = [answers EXCEPT ![p] = Tail(@)]
  /\ UNCHANGED <<alone, socket, online, fields, stale, feed, erred, stops>>

\* A command fails, and its handler ends: nothing is announced.
FailCommand(p) ==
  /\ pipe[p] # <<>>
  /\ pipe' = [pipe EXCEPT ![p] = Tail(@)]
  /\ erred' = TRUE
  /\ UNCHANGED <<alone, socket, online, fields, stale, answers, feed, shown, stops>>

\* Seeded bug: the other process's word is taken for the whole truth.
HandleRedisMessage_NoList(p) ==
  /\ feed[p] # <<>>
  /\ shown' = [shown EXCEPT ![p] = Head(feed[p])]
  /\ feed' = [feed EXCEPT ![p] = Tail(@)]
  /\ UNCHANGED <<alone, socket, online, fields, stale, pipe, answers, erred, stops>>

\* A publication of another process arrives: handleRedisMessage.
HandleRedisMessage(p) ==
  /\ feed[p] # <<>>
  /\ shown' = [shown EXCEPT ![p] = Head(feed[p])]
  /\ feed' = [feed EXCEPT ![p] = Tail(@)]
  /\ Ask(p, "keys")
  /\ UNCHANGED <<alone, socket, online, fields, stale, answers, erred, stops>>

\* A process stops and starts again, with a new id and thus a new field; its
\* browsers connect anew, and are sent the list.
Restart(p) ==
  /\ stops < MaxStops
  /\ stops' = stops + 1
  /\ socket' = [s \in Sockets |->
                  IF socket[s].process = p /\ socket[s].at # "new"
                  THEN [socket[s] EXCEPT !.at = "closed"] ELSE socket[s]]
  /\ online' = [online EXCEPT ![p] = {}]
  /\ fields' = fields \ {p}
  /\ stale' = (stale \/ p \in fields)
  /\ \E b \in BOOLEAN :
       /\ alone' = [alone EXCEPT ![p] = b]
       /\ pipe' = [pipe EXCEPT ![p] = IF b THEN <<>> ELSE <<"keys">>]
  /\ answers' = [answers EXCEPT ![p] = <<>>]
  /\ feed' = [feed EXCEPT ![p] = <<>>]
  /\ shown' = [shown EXCEPT ![p] = FALSE]
  /\ erred' = (erred \/ pipe[p] # <<>> \/ answers[p] # <<>>)

PresenceNext ==
  \/ \E s \in Sockets : \/ Connect(s) \/ HandleConnection(s) \/ RefuseSocket(s)
                        \/ LeaveEarly(s) \/ HandleDisconnect(s)
  \/ \E p \in Instances : \/ RunCommand(p) \/ GetAnswer(p) \/ FailCommand(p)
                          \/ HandleRedisMessage(p) \/ Restart(p)

PresenceSpec == PresenceInit /\ [][PresenceNext]_presenceVars

--------------------------------------------------------------------------------
(* Properties.                                                             *)

\* The processes that p hears of: without Redis, only itself.
Reach(p) == IF alone[p] THEN {p} ELSE {q \in Instances : ~alone[q]}

\* Nothing is on its way, and no handler waits.
Calm ==
  /\ \A p \in Instances : pipe[p] = <<>> /\ answers[p] = <<>> /\ feed[p] = <<>>
  /\ \A s \in Sockets : socket[s].at \notin {"checking", "early"}

\* A socket that was closed before its user was known is kept for ever.
Haunted(p) == \E s \in Sockets : socket[s].at = "haunting" /\ socket[s].process \in Reach(p)

\* Once everything has been handled, the browsers of a process show the user
\* online if and only if a process that it hears of has an open socket of the user
\* - except for a socket that closed while its token was checked, and for the
\* field that a stopped process left in Redis, which both show the user online
\* for ever.  (handleConnection and handleDisconnect await Redis between the
\* change of their own map and the announcement.)
PresenceSettles ==
  Calm /\ ~erred =>
    \A p \in Instances :
      shown[p] <=> \/ \E s \in Sockets : socket[s].at = "open" /\ socket[s].process \in Reach(p)
                   \/ Haunted(p)
                   \/ stale /\ ~alone[p]
================================================================================
