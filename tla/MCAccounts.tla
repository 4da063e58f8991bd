------------------------------- MODULE MCAccounts -------------------------------
(***************************************************************************)
(* The requests that keep what they write in several places, on small      *)
(* instances: resumable uploads, and the accounts with their tokens.  The  *)
(* two share no state: a behaviour picks one of them and takes its steps,  *)
(* so that one run of TLC checks both.                                     *)
(***************************************************************************)
EXTENDS MCUploadSession, AdminAccounts

VARIABLE part \* the module whose steps are taken

accountsVars == <<part, uploadVars, accountVars>>

AccountsInit == part \in {"uploads", "accounts"} /\ UploadInit /\ AccountInit

Steps(uploadNext, accountNext) ==
  /\ \/ part = "uploads" /\ uploadNext /\ UNCHANGED accountVars
     \/ part = "accounts" /\ accountNext /\ UNCHANGED uploadVars
  /\ UNCHANGED part

\* Every request races with every other one.
InterleavedAccountsNext == Steps(UploadNext, AccountNext)
InterleavedAccounts == AccountsInit /\ [][InterleavedAccountsNext]_accountsVars

\* The server takes one request at a time.
SerialAccountsNext == Steps(SerialUploadNext, SerialAccountNext)

\* ResumingSpec and PurgingSpec: what is fair in the part that is picked.
SerialAccounts ==
  /\ AccountsInit /\ [][SerialAccountsNext]_accountsVars
  /\ \A h \in UploadHandlers : WF_uploadVars(part = "uploads" /\ ProceedUpload(h))
  /\ SF_uploadVars(part = "uploads" /\ \E h \in UploadHandlers : Resume(h))
  /\ \A h \in Handlers : WF_accountVars(part = "accounts" /\ (Proceed(h) \/ Fail(h)))
  /\ SF_accountVars(part = "accounts" /\ \E h \in Handlers : Quiet /\ BeginPurge(h))

\* An upload that its client keeps resuming reaches an end, unless requests keep failing:
\* ResumingEnds, asked of the behaviours in which uploads take steps.
PendingUploadsEnd == part = "uploads" => ResumingEnds

AccountsSymmetry == Symmetry \cup Permutations(Users) \cup Permutations(Handlers)
=================================================================================
