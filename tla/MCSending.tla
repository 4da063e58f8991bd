-------------------------------- MODULE MCSending --------------------------------
(***************************************************************************)
(* How the browser gets what is written and chosen to the server, on small *)
(* instances: texts over the socket, and files over HTTP.  The two share   *)
(* no state: a behaviour picks one of them and takes its steps, so that    *)
(* one run of TLC checks both.                                             *)
(***************************************************************************)
EXTENDS MessageSending, AttachmentQueue

VARIABLE part \* the module whose steps are taken

bothVars == <<part, sendingVars, queueVars>>

\* The part that is not picked keeps one of its initial states.
BothInit ==
  /\ part \in {"texts", "files"}
  /\ SendingInit /\ QueueInit
  /\ part # "files" => transport = "server-relay"

BothNext ==
  /\ \/ part = "texts" /\ SendingNext /\ UNCHANGED queueVars
     \/ part = "files" /\ QueueNext /\ UNCHANGED sendingVars
  /\ UNCHANGED part

\* SendingFairness and QueueFairness, in the part that is picked: the other one takes
\* no steps.
Sending ==
  /\ BothInit /\ [][BothNext]_bothVars
  /\ WF_sendingVars(part = "texts" /\ EmitNext)
  /\ \A c \in Callers : WF_sendingVars(part = "texts" /\ (TimeOut(c) \/ HandleMessage(c)))
  /\ \A f \in Flushes : WF_sendingVars(part = "texts" /\ FlushEmit(f))
  /\ WF_queueVars(part = "files" /\ (Serve \/ GetReply \/ GetError))
  /\ \A f \in Files : WF_queueVars(part = "files" /\ RetryTimer(f))

\* Every variable of the part that is picked keeps its type.
BothTypesOK ==
  /\ part = "texts" => SendingTypeOK
  /\ part = "files" => AttachmentQueueTypeOK
==================================================================================
