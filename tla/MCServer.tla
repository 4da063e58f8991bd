-------------------------------- MODULE MCServer --------------------------------
(***************************************************************************)
(* What the server keeps on disk and takes away again, on small instances: *)
(* the files of messages, and the pictures of chat themes.  The two share  *)
(* no state: a behaviour picks one of them and takes its steps, so that    *)
(* one run of TLC checks both.                                             *)
(***************************************************************************)
EXTENDS AttachmentLife, ChatThemes

VARIABLE part \* the module whose steps are taken

serverVars == <<part, lifeVars, themesVars>>

\* The part that is not picked keeps one of its initial states.
ServerInit ==
  /\ part \in {"files", "themes"}
  /\ LifeInit /\ ThemesInit
  /\ part # "files" => ~remote

ServerNext ==
  /\ \/ part = "files" /\ LifeNext /\ UNCHANGED themesVars
     \/ part = "themes" /\ ThemesNext /\ UNCHANGED lifeVars
  /\ UNCHANGED part

\* CleanupFairness and CleaningFairness, in the part that is picked: the other one
\* takes no steps.
Server ==
  /\ ServerInit /\ [][ServerNext]_serverVars
  /\ WF_lifeVars(part = "files" /\ ReadBatch)
  /\ WF_lifeVars(part = "files" /\ DeleteExpiredFile)
  /\ WF_lifeVars(part = "files" /\ DeleteExpiredRows)
  /\ WF_themesVars(part = "themes" /\ CleanStep)
  /\ \A c \in Changes, o \in Owners :
       WF_themesVars(part = "themes" /\ (ReadPreference(c, o) \/ WritePreference(c, o)))

\* Every variable of the part that is picked keeps its type.
ServerTypesOK ==
  /\ part = "files" => LifeTypeOK
  /\ part = "themes" => ThemesTypeOK
=================================================================================
