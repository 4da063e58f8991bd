--------------------------------- MODULE MCPages ---------------------------------
(***************************************************************************)
(* What open pages show and hold while others change it, on small          *)
(* instances: who is online, the list of conversations and the open one,   *)
(* the timelines, the call, and the moderation of reports.  They share no  *)
(* state: a behaviour picks one of them and takes its steps, so that one   *)
(* run of TLC checks them all.                                             *)
(***************************************************************************)
EXTENDS Presence, ChatPage, Timeline, Calls, Reports, TLC

CONSTANTS chat1, chat2

\* Two messages of the first chat have the same date.
FirstMessages == (chat1 :> {0, 2, 4}) @@ (chat2 :> {0})
LaterMessages == (chat1 :> {5}) @@ (chat2 :> {})

VARIABLE part \* the module whose steps are taken

pagesVars == <<part, presenceVars, chatPageVars, timelineVars, callsVars, reportsVars>>

\* The parts that are not picked keep one of their initial states.
PagesInit ==
  /\ part \in {"presence", "page", "timeline", "calls", "reports"}
  /\ PresenceInit /\ ChatPageInit /\ TimelineInit /\ CallsInit /\ ReportsInit
  /\ part # "presence" =>
       /\ \A p \in Instances : alone[p]
       /\ \A s \in Sockets : socket[s].process = CHOOSE p \in Instances : TRUE
  /\ part # "reports" =>
       /\ circle = Reviewers /\ letter.to = NoPerson
       /\ letter.from = CHOOSE p \in Reviewers : TRUE

PagesNext ==
  /\ UNCHANGED part
  /\ \/ /\ part = "presence" /\ PresenceNext
        /\ UNCHANGED <<chatPageVars, timelineVars, callsVars, reportsVars>>
     \/ /\ part = "page" /\ ChatPageNext
        /\ UNCHANGED <<presenceVars, timelineVars, callsVars, reportsVars>>
     \/ /\ part = "timeline" /\ TimelineNext
        /\ UNCHANGED <<presenceVars, chatPageVars, callsVars, reportsVars>>
     \/ /\ part = "calls" /\ CallsNext
        /\ UNCHANGED <<presenceVars, chatPageVars, timelineVars, reportsVars>>
     \/ /\ part = "reports" /\ ReportsNext
        /\ UNCHANGED <<presenceVars, chatPageVars, timelineVars, callsVars>>

Pages == PagesInit /\ [][PagesNext]_pagesVars

Symmetry ==
  Permutations(Instances) \cup Permutations(Sockets) \cup Permutations(Persons \ Reviewers)

\* Every variable of the part that is picked keeps its type.
PagesTypesOK ==
  /\ part = "presence" => PresenceTypeOK
  /\ part = "page" => ChatPageTypeOK
  /\ part = "timeline" => TimelineTypeOK
  /\ part = "calls" => CallsTypeOK
  /\ part = "reports" => ReportsTypeOK
==================================================================================
