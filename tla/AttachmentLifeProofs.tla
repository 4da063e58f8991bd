-------------------------- MODULE AttachmentLifeProofs --------------------------
(***************************************************************************)
(* Proofs about stored files: those of attachments (AttachmentLife), for   *)
(* any set of messages, any number of actions on them at a time, any       *)
(* length of a batch and any number of failures and stops; and the theme   *)
(* pictures of two contacts (ChatThemes), for any pictures and changes.    *)
(***************************************************************************)
EXTENDS MCServer, FiniteSetTheorems, TLAPS

\* A message that has not been created yet has no row, and its file is there from the
\* moment it is stored; a message reported as failed although it has a row is known.
RowsFollowUploads ==
  \A m \in Messages :
    /\ upload[m] \in {"new", "stored"} => row[m] = "none"
    /\ upload[m] = "stored" => m \in file
    /\ upload[m] = "failed" /\ row[m] # "none" => m \in misjudged

BornHaveRows == \A i \in DOMAIN born : row[born[i]] # "none"

\* Whatever an action was decided on, a message whose file it is about to delete does not
\* name the file any more; nor does one that an action took for bare.
ActionsFollowRows ==
  \A r \in Requests :
    /\ act[r].at # "idle" => row[act[r].on] # "none"
    /\ act[r].at = "unlink" => row[act[r].on] # "kept"
    /\ act[r].at = "bare" /\ act[r].copy = "bare" => row[act[r].on] # "kept"

\* The cleanup works on expired messages; one that named no file when it was read never
\* will; one that may be deleted has lost its file, or nobody will delete it any more.
CleanupFollowsRows ==
  /\ \A e \in cycle.todo :
       /\ e.place <= expired
       /\ ~e.names => row[born[e.place]] # "kept"
  /\ \A m \in cycle.deletable :
       /\ row[m] # "none"
       /\ row[m] = "kept" => m \notin file \/ m \in spilt

\* The erasure of the account knows every file that a message names, but for messages
\* sent after it read them.
ErasureFollowsRows ==
  /\ \A m \in erase.files : row[m] # "none"
  /\ erase.at = "read" => \A m \in Messages : row[m] = "kept" => m \in erase.files \cup spilt

\* NoLostFiles, and more precisely when an upload still answers for its file, or the
\* erasure for those that it has read.
FilesAreKnown ==
  \A m \in file :
    \/ row[m] = "kept" \/ m \in spilt
    \/ upload[m] \in {"stored", "failed"} /\ row[m] = "none"
    \/ erase.at = "files" /\ m \in erase.files
    \/ \E r \in Requests : act[r].at = "unlink" /\ act[r].on = m

Followed ==
  /\ RowsFollowUploads /\ BornHaveRows /\ ActionsFollowRows /\ CleanupFollowsRows
  /\ ErasureFollowsRows /\ FilesAreKnown /\ NamedFilesExist

IInv == LifeTypeOK /\ Followed

-----------------------------------------------------------------------------
(* What the parts of a step leave.                                         *)

LEMMA NoActTyped ==
  /\ NoAct \in [at : {"idle", "bare", "unlink"}, on : Messages, copy : {"kept", "bare"}]
  /\ NoAct.at = "idle"
  BY LifeAssumption DEF NoAct

\* An action has all its fields.
LEMMA ActTyped ==
  ASSUME LifeTypeOK, NEW r \in Requests
  PROVE  /\ act[r] \in [at : {"idle", "bare", "unlink"}, on : Messages, copy : {"kept", "bare"}]
         /\ act[r].at \in {"idle", "bare", "unlink"} /\ act[r].on \in Messages
         /\ act[r].copy \in {"kept", "bare"}
<1>1. act[r] \in [at : {"idle", "bare", "unlink"}, on : Messages, copy : {"kept", "bare"}]
  BY DEF LifeTypeOK
<1>2. QED
  BY <1>1

\* An action that is over leaves the others as they are.
LEMMA ActEnds ==
  ASSUME LifeTypeOK, NEW r \in Requests, act' = [act EXCEPT ![r] = NoAct]
  PROVE  /\ act' \in [Requests -> [at : {"idle", "bare", "unlink"}, on : Messages,
                                   copy : {"kept", "bare"}]]
         /\ act'[r].at = "idle"
         /\ \A q \in Requests \ {r} : act'[q] = act[q]
  BY NoActTyped DEF LifeTypeOK

\* Whether a deletion succeeds, files and known losses stay messages, and the count of
\* mishaps keeps its bound.
LEMMA DeletionLeaves ==
  ASSUME LifeTypeOK, NEW m \in Messages, DeleteAndForget(m)
  PROVE  /\ file' \subseteq file /\ file \ {m} \subseteq file'
         /\ spilt \subseteq spilt' /\ spilt' \subseteq Messages
         /\ m \in file' => m \in spilt'
         /\ mishaps' \in 0 .. MaxMishaps
  BY LifeAssumption DEF DeleteAndForget, DeleteAttachment, Mishap, NoMishap, LifeTypeOK


\* The next file of the batch: the message expired, and was in its place when it was read.
LEMMA NextExpiredFile ==
  ASSUME LifeTypeOK, DeleteExpiredFile
  PROVE  \E next \in cycle.todo :
           LET m == born[next.place]
           IN /\ next.place \in 1 .. Len(born) /\ m \in Messages
              /\ file' \subseteq file /\ file \ {m} \subseteq file'
              /\ ~next.names => file' = file
              /\ spilt \subseteq spilt' /\ spilt' \subseteq Messages
              /\ mishaps' \in 0 .. MaxMishaps
              /\ cycle' \in [on : BOOLEAN, todo : SUBSET [place : 1 .. Len(born), names : BOOLEAN],
                              failed : SUBSET Messages, deletable : SUBSET Messages]
              /\ cycle'.todo = cycle.todo \ {next}
              /\ cycle'.deletable \subseteq cycle.deletable \cup {m}
              /\ m \in cycle'.deletable \ cycle.deletable /\ next.names =>
                   m \notin file' \/ m \in spilt'
<1>1. PICK next \in cycle.todo, kept \in BOOLEAN :
        LET m == born[next.place]
        IN /\ IF next.names THEN DeleteAttachment(m, kept)
              ELSE kept = FALSE /\ NoMishap /\ UNCHANGED file
           /\ spilt' = IF kept /\ ~remote THEN spilt \cup (file \cap {m}) ELSE spilt
           /\ cycle' = [cycle EXCEPT
                         !.todo = @ \ {next},
                         !.failed = IF kept /\ remote THEN @ \cup {m} ELSE @,
                         !.deletable = IF kept /\ remote THEN @ ELSE @ \cup {m}]
  BY DEF DeleteExpiredFile
<1>2. next.place \in 1 .. Len(born) /\ next.names \in BOOLEAN
  BY DEF LifeTypeOK
<1> DEFINE m == born[next.place]
<1>3. m \in Messages
  BY <1>2 DEF LifeTypeOK
<1>4. /\ cycle' \in [on : BOOLEAN, todo : SUBSET [place : 1 .. Len(born), names : BOOLEAN],
                     failed : SUBSET Messages, deletable : SUBSET Messages]
      /\ cycle'.todo = cycle.todo \ {next}
      /\ cycle'.deletable = IF kept /\ remote THEN cycle.deletable ELSE cycle.deletable \cup {m}
  <2> DEFINE failed == IF kept /\ remote THEN cycle.failed \cup {m} ELSE cycle.failed
             deletable == IF kept /\ remote THEN cycle.deletable ELSE cycle.deletable \cup {m}
  <2>1. failed \subseteq Messages /\ deletable \subseteq Messages
    BY <1>3 DEF LifeTypeOK
  <2>2. cycle' = [cycle EXCEPT !.todo = @ \ {next}, !.failed = failed, !.deletable = deletable]
    BY <1>1
  <2> HIDE DEF failed, deletable
  <2>3. cycle' = [on |-> cycle.on, todo |-> cycle.todo \ {next}, failed |-> failed,
                  deletable |-> deletable]
    BY <2>2 DEF LifeTypeOK
  <2>4. cycle' \in [on : BOOLEAN, todo : SUBSET [place : 1 .. Len(born), names : BOOLEAN],
                    failed : SUBSET Messages, deletable : SUBSET Messages]
    BY <2>1, <2>3 DEF LifeTypeOK
  <2>5. QED
    BY <2>3, <2>4 DEF deletable
<1>5. /\ file' \subseteq file /\ file \ {m} \subseteq file'
      /\ ~next.names => file' = file
      /\ mishaps' \in 0 .. MaxMishaps
      /\ next.names /\ ~kept => m \notin file'
  BY <1>1, <1>2, LifeAssumption DEF DeleteAttachment, Mishap, NoMishap, LifeTypeOK
<1>6. /\ spilt \subseteq spilt' /\ spilt' \subseteq Messages
      /\ kept /\ ~remote /\ m \in file => m \in spilt'
  BY <1>1, <1>3 DEF LifeTypeOK
<1>7. m \in cycle'.deletable \ cycle.deletable /\ next.names =>
        m \notin file' \/ m \in spilt'
  BY <1>4, <1>5, <1>6
<1> HIDE DEF m
<1>8. QED
  BY <1>2, <1>3, <1>4, <1>5, <1>6, <1>7 DEF m

LEMMA InitInv == LifeInit => IInv
  BY NoActTyped, LifeAssumption
  DEF LifeInit, Rows, Resting, IsInjective, IInv, LifeTypeOK, Followed, RowsFollowUploads,
      BornHaveRows, ActionsFollowRows, CleanupFollowsRows, ErasureFollowsRows, FilesAreKnown,
      NamedFilesExist, Expired

LEMMA StoreKeeps == ASSUME IInv, NEW m \in Messages, StoreAttachment(m) PROVE IInv'
<1> USE DEF StoreAttachment, store
<1>1. LifeTypeOK'
  BY DEF IInv, LifeTypeOK
<1>2. Followed'
  BY DEF IInv, LifeTypeOK, Followed, RowsFollowUploads, BornHaveRows, ActionsFollowRows, CleanupFollowsRows,
         ErasureFollowsRows, FilesAreKnown, NamedFilesExist, Expired
<1>3. QED
  BY <1>1, <1>2 DEF IInv

\* The message comes last, and was not there before.
LEMMA CreateAppends ==
  ASSUME IInv, NEW m \in Messages, CreateMessage(m)
  PROVE  /\ row[m] = "none" /\ m \in file /\ erase.at \in {"never", "read"}
         /\ born' \in Seq(Messages) /\ IsInjective(born')
         /\ Len(born) \in Nat /\ Len(born') = Len(born) + 1
         /\ DOMAIN born = 1 .. Len(born) /\ DOMAIN born' = 1 .. Len(born')
         /\ \A i \in 1 .. Len(born) : born'[i] = born[i]
         /\ born'[Len(born) + 1] = m
<1>1. /\ upload[m] = "stored" /\ born' = Append(born, m) /\ erase.at \in {"never", "read"}
      /\ born \in Seq(Messages)
  BY DEF CreateMessage, IInv, LifeTypeOK
<1>2. row[m] = "none" /\ m \in file
  BY <1>1 DEF IInv, Followed, RowsFollowUploads
<1>3. \A i \in DOMAIN born : born[i] # m
  BY <1>2 DEF IInv, Followed, BornHaveRows
<1>4. /\ born' \in Seq(Messages)
      /\ Len(born) \in Nat /\ Len(born') = Len(born) + 1
      /\ DOMAIN born = 1 .. Len(born) /\ DOMAIN born' = 1 .. Len(born')
      /\ \A i \in 1 .. Len(born) : born'[i] = born[i]
      /\ born'[Len(born) + 1] = m
  BY <1>1
<1>5. IsInjective(born')
  BY <1>3, <1>4 DEF IsInjective, IInv, LifeTypeOK
<1>6. QED
  BY <1>1, <1>2, <1>4, <1>5

LEMMA CreateKeeps == ASSUME IInv, NEW m \in Messages, CreateMessage(m) PROVE IInv'
<1> DEFINE Acts == [Requests -> [at : {"idle", "bare", "unlink"}, on : Messages,
                                 copy : {"kept", "bare"}]]
<1>1. /\ row[m] = "none" /\ m \in file /\ erase.at \in {"never", "read"}
      /\ born' \in Seq(Messages) /\ IsInjective(born')
      /\ Len(born) \in Nat /\ Len(born') = Len(born) + 1
      /\ DOMAIN born = 1 .. Len(born) /\ DOMAIN born' = 1 .. Len(born')
      /\ \A i \in 1 .. Len(born) : born'[i] = born[i]
      /\ born'[Len(born) + 1] = m
  BY CreateAppends
<1>2. /\ row' = [row EXCEPT ![m] = "kept"]
      /\ upload' \in {[upload EXCEPT ![m] = "over"], [upload EXCEPT ![m] = "failed"]}
      /\ upload'[m] = "failed" => m \in misjudged'
      /\ misjudged \subseteq misjudged' /\ misjudged' \subseteq Messages
      /\ spilt' = IF erase.at = "read" THEN spilt \cup {m} ELSE spilt
      /\ mishaps' \in 0 .. MaxMishaps
      /\ UNCHANGED <<remote, stuck, file, expired, act, cycle, erase>>
  BY LifeAssumption DEF CreateMessage, Mishap, store, IInv, LifeTypeOK
<1>3. LifeTypeOK'
  <2>1. row' \in [Messages -> Rows] /\ upload' \in [Messages -> {"new", "stored", "failed", "over"}]
    BY <1>2 DEF IInv, LifeTypeOK, Rows
  <2>2. cycle' \in [on : BOOLEAN, todo : SUBSET [place : 1 .. Len(born'), names : BOOLEAN],
                    failed : SUBSET Messages, deletable : SUBSET Messages]
    <3>1. [place : 1 .. Len(born), names : BOOLEAN] \subseteq [place : 1 .. Len(born'), names : BOOLEAN]
      BY <1>1
    <3>2. QED
      BY <1>2, <3>1 DEF IInv, LifeTypeOK
  <2>3. expired' \in 0 .. Len(born')
    BY <1>1, <1>2 DEF IInv, LifeTypeOK
  <2>4. spilt' \subseteq Messages
    BY <1>2 DEF IInv, LifeTypeOK
  <2>5. QED
    BY <1>1, <1>2, <2>1, <2>2, <2>3, <2>4 DEF IInv, LifeTypeOK
<1>4. RowsFollowUploads' /\ BornHaveRows' /\ ActionsFollowRows'
  <2>1. RowsFollowUploads'
    BY <1>1, <1>2 DEF IInv, LifeTypeOK, Followed, RowsFollowUploads
  <2>2. BornHaveRows'
    BY <1>1, <1>2 DEF IInv, LifeTypeOK, Followed, BornHaveRows
  <2>3. \A r \in Requests : act[r].at # "idle" => act[r].on # m
    BY <1>1 DEF IInv, Followed, ActionsFollowRows
  <2>4. \A r \in Requests : act[r].at # "idle" => row'[act[r].on] = row[act[r].on]
    BY <1>2, <2>3, ActTyped DEF IInv, LifeTypeOK
  <2>5. ActionsFollowRows'
    BY <1>2, <2>4 DEF IInv, Followed, ActionsFollowRows
  <2>6. QED
    BY <2>1, <2>2, <2>5
<1>5. CleanupFollowsRows' /\ ErasureFollowsRows'
  BY <1>1, <1>2 DEF IInv, LifeTypeOK, Followed, CleanupFollowsRows, ErasureFollowsRows, BornHaveRows
<1>6. FilesAreKnown' /\ NamedFilesExist'
  <2>1. /\ row'[m] = "kept" /\ m \in file'
        /\ \A n \in Messages \ {m} : row'[n] = row[n] /\ upload'[n] = upload[n]
        /\ spilt \subseteq spilt'
    BY <1>1, <1>2 DEF IInv, LifeTypeOK
  <2>2. \A n \in Messages : Expired(n) => Expired(n)'
    BY <1>1, <1>2 DEF Expired, IInv, LifeTypeOK
  <2>3. FilesAreKnown'
    BY <1>2, <2>1 DEF IInv, LifeTypeOK, Followed, FilesAreKnown
  <2>4. NamedFilesExist'
    BY <1>2, <2>1, <2>2 DEF IInv, Followed, NamedFilesExist
  <2>5. QED
    BY <2>3, <2>4
<1>7. QED
  BY <1>3, <1>4, <1>5, <1>6 DEF IInv, Followed

LEMMA FailsKeeps == ASSUME IInv, NEW m \in Messages, CreateFails(m) PROVE IInv'
  BY LifeAssumption DEF CreateFails, store, Mishap, NoMishap, IInv, LifeTypeOK, Followed,
     RowsFollowUploads, BornHaveRows, ActionsFollowRows, CleanupFollowsRows,
     ErasureFollowsRows, FilesAreKnown, NamedFilesExist, Expired

LEMMA DropKeeps == ASSUME IInv, NEW m \in Messages, DropAttachment(m) PROVE IInv'
  BY DeletionLeaves, SMTT(20) DEF DropAttachment, store, IInv, LifeTypeOK, Followed,
     RowsFollowUploads, BornHaveRows, ActionsFollowRows, CleanupFollowsRows,
     ErasureFollowsRows, FilesAreKnown, NamedFilesExist, Expired

LEMMA EraseFileKeeps == ASSUME IInv, NEW m \in Messages, EraseFile(m) PROVE IInv'
  BY DeletionLeaves, SMTT(20) DEF EraseFile, store, IInv, LifeTypeOK, Followed,
     RowsFollowUploads, BornHaveRows, ActionsFollowRows, CleanupFollowsRows,
     ErasureFollowsRows, FilesAreKnown, NamedFilesExist, Expired

\* The row that an action leaves, and what it does next.
LEMMA BareLeaves ==
  ASSUME LifeTypeOK, NEW r \in Requests, BareMessage(r)
  PROVE  /\ act[r].on \in Messages /\ act[r].at = "bare" /\ act[r].copy \in {"kept", "bare"}
         /\ row' \in [Messages -> Rows]
         /\ \A n \in Messages \ {act[r].on} : row'[n] = row[n]
         /\ row'[act[r].on] = IF row[act[r].on] = "kept" THEN "bare" ELSE row[act[r].on]
         /\ act' \in [Requests -> [at : {"idle", "bare", "unlink"}, on : Messages,
                                   copy : {"kept", "bare"}]]
         /\ \A q \in Requests \ {r} : act'[q] = act[q]
         /\ IF row[act[r].on] \in {"kept", "bare"} /\ act[r].copy = "kept"
            THEN act'[r].at = "unlink" /\ act'[r].on = act[r].on
            ELSE act'[r].at = "idle"
<1> DEFINE m == act[r].on
<1>1. m \in Messages /\ act[r].at = "bare" /\ act[r].copy \in {"kept", "bare"}
  BY ActTyped DEF BareMessage
<1>2. CASE row[m] \notin {"kept", "bare"}
  <2>1. row' = row /\ act' = [act EXCEPT ![r] = NoAct]
    BY <1>2 DEF BareMessage
  <2>2. QED
    BY <1>1, <1>2, <2>1, ActEnds DEF LifeTypeOK
<1>3. CASE row[m] \in {"kept", "bare"} /\ act[r].copy = "kept"
  <2>1. /\ row' = [row EXCEPT ![m] = "bare"]
        /\ act' = [act EXCEPT ![r] = [act[r] EXCEPT !.at = "unlink"]]
    BY <1>3 DEF BareMessage
  <2>2. [act[r] EXCEPT !.at = "unlink"] = [at |-> "unlink", on |-> m, copy |-> act[r].copy]
    BY ActTyped
  <2>3. /\ act'[r] = [at |-> "unlink", on |-> m, copy |-> act[r].copy]
        /\ act' \in [Requests -> [at : {"idle", "bare", "unlink"}, on : Messages,
                                  copy : {"kept", "bare"}]]
        /\ \A q \in Requests \ {r} : act'[q] = act[q]
    BY <1>1, <2>1, <2>2 DEF LifeTypeOK
  <2>4. QED
    BY <1>1, <1>3, <2>1, <2>3 DEF LifeTypeOK, Rows
<1>4. CASE row[m] \in {"kept", "bare"} /\ act[r].copy = "bare"
  <2>1. row' = [row EXCEPT ![m] = "bare"] /\ act' = [act EXCEPT ![r] = NoAct]
    BY <1>4 DEF BareMessage
  <2>2. /\ row' \in [Messages -> Rows]
        /\ \A n \in Messages \ {m} : row'[n] = row[n]
        /\ row'[m] = "bare"
    BY <1>1, <2>1 DEF LifeTypeOK, Rows
  <2>3. QED
    BY <1>1, <1>4, <2>1, <2>2, ActEnds
<1>5. QED
  BY <1>1, <1>2, <1>3, <1>4

LEMMA BareKeeps == ASSUME IInv, NEW r \in Requests, BareMessage(r) PROVE IInv'
<1>1. UNCHANGED <<remote, stuck, file, upload, born, expired, cycle, erase, mishaps, misjudged,
                  spilt>>
  BY DEF BareMessage, store
<1>2. LifeTypeOK'
  BY <1>1, BareLeaves DEF IInv, LifeTypeOK
<1>3. RowsFollowUploads' /\ BornHaveRows'
  BY <1>1, BareLeaves DEF IInv, LifeTypeOK, Followed, RowsFollowUploads, BornHaveRows
<1>4. ActionsFollowRows'
  BY <1>1, BareLeaves, ActTyped DEF IInv, Followed, ActionsFollowRows
<1>5. CleanupFollowsRows' /\ ErasureFollowsRows'
  BY <1>1, BareLeaves DEF IInv, LifeTypeOK, Followed, CleanupFollowsRows, ErasureFollowsRows
<1>6. FilesAreKnown' /\ NamedFilesExist'
  BY <1>1, BareLeaves DEF IInv, LifeTypeOK, Followed, FilesAreKnown, NamedFilesExist, Expired,
     ActionsFollowRows
<1>7. QED
  BY <1>2, <1>3, <1>4, <1>5, <1>6 DEF IInv, Followed

LEMMA RefuseKeeps == ASSUME IInv, NEW r \in Requests, RefuseAction(r) PROVE IInv'
<1>1. /\ act[r].at = "bare" /\ act' = [act EXCEPT ![r] = NoAct]
      /\ UNCHANGED <<remote, stuck, file, upload, row, born, expired, cycle, erase, mishaps,
                     misjudged, spilt>>
  BY DEF RefuseAction, store
<1>2. /\ act' \in [Requests -> [at : {"idle", "bare", "unlink"}, on : Messages,
                                copy : {"kept", "bare"}]]
      /\ act'[r].at = "idle"
      /\ \A q \in Requests \ {r} : act'[q] = act[q]
  BY <1>1, ActEnds DEF IInv
<1>3. LifeTypeOK'
  BY <1>1, <1>2 DEF IInv, LifeTypeOK
<1>4. Followed'
  BY <1>1, <1>2 DEF IInv, Followed, RowsFollowUploads, BornHaveRows, ActionsFollowRows,
     CleanupFollowsRows, ErasureFollowsRows, FilesAreKnown, NamedFilesExist, Expired
<1>5. QED
  BY <1>3, <1>4 DEF IInv

LEMMA UnlinkKeeps == ASSUME IInv, NEW r \in Requests, Unlink(r) PROVE IInv'
<1> DEFINE m == act[r].on
<1>1. m \in Messages /\ act[r].at = "unlink" /\ row[m] \in {"bare", "gone"}
  <2>1. LifeTypeOK /\ act[r].at = "unlink"
    BY DEF Unlink, IInv
  <2>2. m \in Messages
    BY <2>1, ActTyped
  <2>3. row[m] \in Rows
    BY <2>1, <2>2 DEF LifeTypeOK
  <2>4. row[m] # "none" /\ row[m] # "kept"
    BY <2>1 DEF IInv, Followed, ActionsFollowRows
  <2>5. QED
    BY <2>1, <2>2, <2>3, <2>4 DEF Rows
<1>2. /\ file' \subseteq file /\ file \ {m} \subseteq file'
      /\ spilt \subseteq spilt' /\ spilt' \subseteq Messages
      /\ m \in file' => m \in spilt'
      /\ mishaps' \in 0 .. MaxMishaps
  BY <1>1, DeletionLeaves DEF Unlink, IInv
<1>3. /\ act' = [act EXCEPT ![r] = NoAct]
      /\ UNCHANGED <<remote, stuck, upload, row, born, expired, cycle, erase, misjudged>>
  BY DEF Unlink, store
<1>4. /\ act' \in [Requests -> [at : {"idle", "bare", "unlink"}, on : Messages,
                                copy : {"kept", "bare"}]]
      /\ act'[r].at = "idle"
      /\ \A q \in Requests \ {r} : act'[q] = act[q]
  BY <1>3, ActEnds DEF IInv
<1>5. LifeTypeOK'
  BY <1>2, <1>3, <1>4 DEF IInv, LifeTypeOK
<1>6. RowsFollowUploads' /\ BornHaveRows' /\ ActionsFollowRows' /\ CleanupFollowsRows'
  BY <1>1, <1>2, <1>3, <1>4 DEF IInv, Followed, RowsFollowUploads, BornHaveRows,
     ActionsFollowRows, CleanupFollowsRows
<1> HIDE DEF m
<1>7. ErasureFollowsRows' /\ NamedFilesExist'
  BY <1>1, <1>2, <1>3 DEF IInv, Followed, ErasureFollowsRows, NamedFilesExist, Expired
<1>8. FilesAreKnown'
  BY <1>1, <1>2, <1>3, <1>4 DEF IInv, Followed, FilesAreKnown, m
<1>9. QED
  BY <1>5, <1>6, <1>7, <1>8 DEF IInv, Followed

LEMMA ReadActionKeeps ==
  ASSUME IInv, NEW r \in Requests, NEW m \in Messages, ReadForAction(r, m)
  PROVE  IInv'
  BY DEF ReadForAction, store, Copies, Rows, IInv, LifeTypeOK, Followed,
     RowsFollowUploads, BornHaveRows, ActionsFollowRows, CleanupFollowsRows,
     ErasureFollowsRows, FilesAreKnown, NamedFilesExist, Expired

LEMMA ReadBatchKeeps == ASSUME IInv, ReadBatch PROVE IInv'
<1> DEFINE Read(i) == [place |-> i, names |-> row[born[i]] = "kept"]
           todo == {Read(i) : i \in Batch}
<1>1. Batch \subseteq 1 .. expired /\ 1 .. expired \subseteq 1 .. Len(born)
  BY DEF Batch, IInv, LifeTypeOK
<1>2. ASSUME NEW i \in Batch
      PROVE  /\ Read(i) \in [place : 1 .. Len(born), names : BOOLEAN]
             /\ Read(i).place <= expired
             /\ ~Read(i).names => row[born[Read(i).place]] # "kept"
  <2>1. i \in 1 .. Len(born) /\ i <= expired
    BY <1>1 DEF IInv, LifeTypeOK
  <2>2. (row[born[i]] = "kept") \in BOOLEAN
    OBVIOUS
  <2>3. QED
    BY <2>1, <2>2
<1> HIDE DEF Read
<1>3. /\ todo \subseteq [place : 1 .. Len(born), names : BOOLEAN]
      /\ \A e \in todo : e.place <= expired /\ (~e.names => row[born[e.place]] # "kept")
  BY <1>2
<1>4. /\ cycle' = [on |-> TRUE, failed |-> {}, deletable |-> {}, todo |-> todo]
      /\ UNCHANGED <<remote, stuck, file, upload, row, born, expired, act, erase, mishaps,
                     misjudged, spilt>>
  BY DEF ReadBatch, store, Read
<1> HIDE DEF todo
<1>5. LifeTypeOK'
  BY <1>3, <1>4 DEF IInv, LifeTypeOK
<1>6. CleanupFollowsRows'
  BY <1>3, <1>4 DEF CleanupFollowsRows
<1>7. Followed'
  BY <1>4, <1>6 DEF IInv, Followed, RowsFollowUploads, BornHaveRows, ActionsFollowRows,
     ErasureFollowsRows, FilesAreKnown, NamedFilesExist, Expired
<1>8. QED
  BY <1>5, <1>7 DEF IInv

LEMMA DeleteFileKeeps == ASSUME IInv, DeleteExpiredFile PROVE IInv'
<1>1. PICK next \in cycle.todo :
        LET m == born[next.place]
        IN /\ next.place \in 1 .. Len(born) /\ m \in Messages
           /\ file' \subseteq file /\ file \ {m} \subseteq file'
           /\ ~next.names => file' = file
           /\ spilt \subseteq spilt' /\ spilt' \subseteq Messages
           /\ mishaps' \in 0 .. MaxMishaps
           /\ cycle' \in [on : BOOLEAN, todo : SUBSET [place : 1 .. Len(born), names : BOOLEAN],
                          failed : SUBSET Messages, deletable : SUBSET Messages]
           /\ cycle'.todo = cycle.todo \ {next}
           /\ cycle'.deletable \subseteq cycle.deletable \cup {m}
           /\ m \in cycle'.deletable \ cycle.deletable /\ next.names =>
                m \notin file' \/ m \in spilt'
  BY NextExpiredFile DEF IInv
<1> DEFINE m == born[next.place]
<1>2. UNCHANGED <<remote, stuck, upload, row, born, expired, act, erase, misjudged>>
  BY DEF DeleteExpiredFile, store
<1>3. /\ Expired(m) /\ row[m] # "none"
      /\ ~next.names => row[m] # "kept"
  BY <1>1 DEF IInv, LifeTypeOK, Followed, CleanupFollowsRows, BornHaveRows, Expired
<1>4. LifeTypeOK'
  BY <1>1, <1>2 DEF IInv, LifeTypeOK
<1>5. RowsFollowUploads' /\ BornHaveRows' /\ ActionsFollowRows' /\ ErasureFollowsRows'
  BY <1>1, <1>2, <1>3 DEF IInv, Followed, RowsFollowUploads, BornHaveRows, ActionsFollowRows,
     ErasureFollowsRows
<1>6. CleanupFollowsRows'
  BY <1>1, <1>2, <1>3 DEF IInv, Followed, CleanupFollowsRows
<1>7. FilesAreKnown' /\ NamedFilesExist'
  BY <1>1, <1>2, <1>3 DEF IInv, Followed, FilesAreKnown, NamedFilesExist, Expired
<1>8. QED
  BY <1>4, <1>5, <1>6, <1>7 DEF IInv, Followed

LEMMA DeleteRowsKeeps == ASSUME IInv, DeleteExpiredRows PROVE IInv'
  BY ActTyped DEF DeleteExpiredRows, store, Resting, Rows, IInv, LifeTypeOK, Followed,
     RowsFollowUploads, BornHaveRows, ActionsFollowRows, CleanupFollowsRows,
     ErasureFollowsRows, FilesAreKnown, NamedFilesExist, Expired

LEMMA ReadErasureKeeps == ASSUME IInv, ReadForErasure PROVE IInv'
  BY DEF ReadForErasure, store, IInv, LifeTypeOK, Followed,
     RowsFollowUploads, BornHaveRows, ActionsFollowRows, CleanupFollowsRows,
     ErasureFollowsRows, FilesAreKnown, NamedFilesExist, Expired

LEMMA EraseRowsKeeps == ASSUME IInv, EraseRows PROVE IInv'
<1>1. /\ erase.at = "read" /\ erase' = [at |-> "files", files |-> erase.files]
      /\ row' \in [Messages -> Rows]
      /\ \A m \in Messages : row'[m] = IF row[m] = "none" THEN "none" ELSE "gone"
      /\ UNCHANGED <<remote, stuck, file, upload, born, expired, act, cycle, mishaps,
                     misjudged, spilt>>
  BY DEF EraseRows, store, Rows, IInv, LifeTypeOK
<1>2. LifeTypeOK'
  BY <1>1 DEF IInv, LifeTypeOK
<1>3. RowsFollowUploads' /\ BornHaveRows'
  BY <1>1 DEF IInv, LifeTypeOK, Followed, RowsFollowUploads, BornHaveRows
<1>4. ActionsFollowRows'
  BY <1>1, ActTyped DEF IInv, Followed, ActionsFollowRows
<1>5. CleanupFollowsRows'
  BY <1>1 DEF IInv, LifeTypeOK, Followed, CleanupFollowsRows
<1>6. ErasureFollowsRows' /\ FilesAreKnown' /\ NamedFilesExist'
  BY <1>1 DEF IInv, LifeTypeOK, Followed, ErasureFollowsRows, FilesAreKnown, NamedFilesExist
<1>7. QED
  BY <1>2, <1>3, <1>4, <1>5, <1>6 DEF IInv, Followed

LEMMA ExpireKeeps == ASSUME IInv, Expire PROVE IInv'
  BY DEF Expire, store, IInv, LifeTypeOK, Followed,
     RowsFollowUploads, BornHaveRows, ActionsFollowRows, CleanupFollowsRows,
     ErasureFollowsRows, FilesAreKnown, NamedFilesExist, Expired

LEMMA StopKeeps == ASSUME IInv, Stop PROVE IInv'
  BY NoActTyped, LifeAssumption DEF Stop, store, Resting, Mishap, IInv, LifeTypeOK, Followed,
     RowsFollowUploads, BornHaveRows, ActionsFollowRows, CleanupFollowsRows,
     ErasureFollowsRows, FilesAreKnown, NamedFilesExist, Expired

LEMMA StutterKeeps == ASSUME IInv, UNCHANGED lifeVars PROVE IInv'
  BY DEF lifeVars, store, Rows, IInv, LifeTypeOK, Followed,
     RowsFollowUploads, BornHaveRows, ActionsFollowRows, CleanupFollowsRows,
     ErasureFollowsRows, FilesAreKnown, NamedFilesExist, Expired

LEMMA StepKeeps == IInv /\ [LifeNext]_lifeVars => IInv'
  BY StoreKeeps, CreateKeeps, FailsKeeps, DropKeeps, EraseFileKeeps, BareKeeps, RefuseKeeps,
     UnlinkKeeps, ReadActionKeeps, ReadBatchKeeps, DeleteFileKeeps, DeleteRowsKeeps,
     ReadErasureKeeps, EraseRowsKeeps, ExpireKeeps, StopKeeps, StutterKeeps
  DEF LifeNext

-----------------------------------------------------------------------------
(* Theorems.                                                               *)

LEMMA Invariant == LifeSpec => []IInv
<1>1. QED
  BY InitInv, StepKeeps, PTL DEF LifeSpec

\* The variables keep their types, and no message outlives its sender's account.
THEOREM LifeTypeCorrect == LifeSpec => []LifeTypeOK
<1>1. IInv => LifeTypeOK
  BY DEF IInv
<1>2. QED
  BY <1>1, Invariant, PTL

\* However old the copy on which a deletion for everyone was decided, and wherever the
\* cleanup and the erasure of the account are, a message that names its attachment has it
\* (deleteMessageForEveryone, cleanupExpiredMessages, deleteUserPermanentlyInternal).
THEOREM NamedFilesStay == LifeSpec => []NamedFilesExist
<1>1. IInv => NamedFilesExist
  BY DEF IInv, Followed
<1>2. QED
  BY <1>1, Invariant, PTL

\* Whatever fails or stops, a file that no message names will be deleted by somebody who
\* knows of it, or it was lost in one of the ways that `spilt' records.
THEOREM NoFileIsLost == LifeSpec => []NoLostFiles
<1>1. IInv => NoLostFiles
  BY DEF IInv, Followed, FilesAreKnown, NoLostFiles
<1>2. QED
  BY <1>1, Invariant, PTL

-----------------------------------------------------------------------------
(* ChatThemes: the inductive invariant.                                    *)

PrefRow == [theme : Values, nick : BOOLEAN, old : BOOLEAN, row : Nat]
SaveRow == [at : {"idle", "read", "write"}, field : {"theme", "nick"},
            value : Values \cup {"named"}, copy : Values, nick : BOOLEAN]
RowIds == Owners \X (0 .. 2 * MaxChanges)
CleanRow == [at : {"idle", "clear", "files", "list", "sweep"}, delete : SUBSET RowIds,
             clear : SUBSET RowIds, doomed : SUBSET Pictures, named : SUBSET Pictures]

\* A change of the theme brings a theme.
SaveFits(s) == s \in SaveRow /\ (s.field = "theme" => s.value \in Values)

ThemesTyped ==
  /\ pref \in [Owners -> PrefRow]
  /\ save \in [Changes -> [Owners -> SaveRow]]
  /\ \A c \in Changes, o \in Owners : SaveFits(save[c][o])
  /\ files \subseteq Pictures /\ oldFiles \subseteq files
  /\ clean \in CleanRow
  /\ changes \in 0 .. MaxChanges /\ breaks \in 0 .. MaxBreaks

\* The changes that have not yet written the preference of o.
Writers(o) == {c \in Changes : save[c][o].at # "idle"}

\* A new row is the work of one change.
RowsCounted(o) ==
  IsFiniteSet(Writers(o)) /\ pref[o].row + Cardinality(Writers(o)) <= changes

ThemesInv == ThemesTyped /\ \A o \in Owners : RowsCounted(o)

LEMMA PrefRowTyped ==
  ASSUME NEW r \in PrefRow
  PROVE  /\ r.theme \in Values /\ r.nick \in BOOLEAN /\ r.old \in BOOLEAN /\ r.row \in Nat
         /\ [r EXCEPT !.theme = "none", !.old = FALSE] \in PrefRow
         /\ [r EXCEPT !.theme = "none", !.old = FALSE].row = r.row
         /\ [r EXCEPT !.old = TRUE] \in PrefRow /\ [r EXCEPT !.old = TRUE].row = r.row
  BY DEF PrefRow, Values

LEMMA AbsentTyped ==
  ASSUME NEW n \in Nat
  PROVE  Absent(n) \in PrefRow /\ Absent(n).row = n
  BY DEF Absent, PrefRow, Values

LEMMA NoSaveTyped == SaveFits(NoSave) /\ NoSave.at = "idle"
  BY DEF NoSave, SaveFits, SaveRow, Values

LEMMA NoCleaningTyped == NoCleaning \in CleanRow
  BY DEF NoCleaning, CleanRow

\* The rows have the numbers that their type allows.
LEMMA RowNumbers ==
  ASSUME ThemesInv, NEW o \in Owners
  PROVE  pref[o].row \in 0 .. 2 * MaxChanges
<1>1. /\ pref[o].row \in Nat /\ changes \in Nat /\ changes <= MaxChanges /\ MaxChanges \in Nat
  <2>1. pref[o] \in PrefRow /\ changes \in 0 .. MaxChanges
    BY DEF ThemesInv, ThemesTyped
  <2>2. MaxChanges \in Nat
    BY ThemesAssumption
  <2>3. pref[o].row \in Nat
    BY <2>1, PrefRowTyped
  <2>4. QED
    BY <2>1, <2>2, <2>3
<1>2. Cardinality(Writers(o)) \in Nat /\ pref[o].row + Cardinality(Writers(o)) <= changes
  BY FS_CardinalityType DEF ThemesInv, RowsCounted
<1>3. QED
  BY <1>1, <1>2

\* Steps that leave the changes in flight alone, and every row its number.
LEMMA RowsStay ==
  ASSUME ThemesInv, UNCHANGED <<save, changes>>,
         \A o \in Owners : pref'[o].row = pref[o].row,
         pref' \in [Owners -> PrefRow], files' \subseteq Pictures, oldFiles' \subseteq files',
         clean' \in CleanRow, breaks' \in 0 .. MaxBreaks
  PROVE  ThemesInv'
<1>1. \A o \in Owners : Writers(o)' = Writers(o)
  BY DEF Writers
<1>2. \A o \in Owners : RowsCounted(o)'
  BY <1>1 DEF ThemesInv, RowsCounted
<1>3. QED
  BY <1>2 DEF ThemesInv, ThemesTyped

\* The step of a change.
LEMMA AskKeeps ==
  ASSUME ThemesInv, NEW c \in Changes, NEW whose \in SUBSET Owners,
         NEW field \in {"theme", "nick"}, NEW value \in Values \cup {"named"},
         field = "theme" => value \in Values,
         AskTheme(c, whose, field, value), UNCHANGED <<pref, clean, breaks>>,
         files' \subseteq Pictures, oldFiles' \subseteq files'
  PROVE  ThemesInv'
<1> DEFINE new == [NoSave EXCEPT !.at = "read", !.field = field, !.value = value]
<1>1. SaveFits(new) /\ new.at = "read"
  BY NoSaveTyped DEF SaveFits, SaveRow
<1>2. /\ changes < MaxChanges /\ changes' = changes + 1
      /\ \A o \in Owners : save[c][o].at = "idle"
      /\ save' = [save EXCEPT ![c] = [o \in Owners |-> IF o \in whose THEN new ELSE NoSave]]
  BY DEF AskTheme, Busy
<1> HIDE DEF new
<1>3. changes \in Nat /\ MaxChanges \in Nat /\ changes' \in 0 .. MaxChanges
  BY <1>2, ThemesAssumption DEF ThemesInv, ThemesTyped
<1>4. /\ \A o \in Owners : save'[c][o] = IF o \in whose THEN new ELSE NoSave
      /\ \A d \in Changes \ {c} : save'[d] = save[d]
  BY <1>2 DEF ThemesInv, ThemesTyped
<1>5. /\ save' \in [Changes -> [Owners -> SaveRow]]
      /\ \A d \in Changes, o \in Owners : SaveFits(save'[d][o])
  <2>1. \A d \in Changes, o \in Owners : SaveFits(save'[d][o])
    BY <1>1, <1>4, NoSaveTyped DEF ThemesInv, ThemesTyped
  <2>2. [o \in Owners |-> IF o \in whose THEN new ELSE NoSave] \in [Owners -> SaveRow]
    BY <1>1, NoSaveTyped DEF SaveFits
  <2>3. QED
    BY <1>2, <2>1, <2>2 DEF ThemesInv, ThemesTyped
<1>6. ASSUME NEW o \in Owners PROVE RowsCounted(o)'
  <2>1. IsFiniteSet(Writers(o)) /\ Cardinality(Writers(o)) \in Nat
        /\ pref[o].row + Cardinality(Writers(o)) <= changes /\ pref[o].row \in Nat
    BY FS_CardinalityType, PrefRowTyped DEF ThemesInv, RowsCounted, ThemesTyped
  <2>2. c \notin Writers(o)
    BY <1>2 DEF Writers
  <2>3. Writers(o)' = IF o \in whose THEN Writers(o) \cup {c} ELSE Writers(o)
    BY <1>1, <1>2, <1>4, NoSaveTyped DEF Writers
  <2>4. /\ IsFiniteSet(Writers(o) \cup {c})
        /\ Cardinality(Writers(o) \cup {c}) = Cardinality(Writers(o)) + 1
    BY <2>1, <2>2, FS_AddElement
  <2>5. IsFiniteSet(Writers(o)') /\ pref[o].row + Cardinality(Writers(o)') <= changes'
    BY <1>2, <1>3, <2>1, <2>3, <2>4
  <2>6. QED
    BY <2>5 DEF RowsCounted
<1>7. QED
  BY <1>3, <1>5, <1>6 DEF ThemesInv, ThemesTyped

LEMMA ReadPreferenceKeeps ==
  ASSUME ThemesInv, NEW c \in Changes, NEW o \in Owners, ReadPreference(c, o)
  PROVE  ThemesInv'
<1> DEFINE s == save[c][o]
           new == [s EXCEPT !.at = "write", !.copy = pref[o].theme, !.nick = pref[o].nick]
<1>1. SaveFits(s) /\ s.at = "read" /\ pref[o] \in PrefRow
  BY DEF ThemesInv, ThemesTyped, ReadPreference
<1>2. SaveFits(new) /\ new.at = "write"
  BY <1>1, PrefRowTyped DEF SaveFits, SaveRow
<1>3. save' = [save EXCEPT ![c][o] = new]
  BY DEF ReadPreference
<1> HIDE DEF new
<1>4. /\ save' \in [Changes -> [Owners -> SaveRow]] /\ save'[c][o] = new
      /\ \A d \in Changes, q \in Owners : <<d, q>> # <<c, o>> => save'[d][q] = save[d][q]
  BY <1>2, <1>3 DEF ThemesInv, ThemesTyped, SaveFits
<1>5. \A d \in Changes, q \in Owners : SaveFits(save'[d][q])
  BY <1>2, <1>4 DEF ThemesInv, ThemesTyped
<1>6. \A q \in Owners : Writers(q)' = Writers(q)
  BY <1>1, <1>2, <1>4 DEF Writers
<1>7. \A q \in Owners : RowsCounted(q)'
  BY <1>6 DEF ThemesInv, RowsCounted, ReadPreference
<1>8. QED
  BY <1>4, <1>5, <1>7 DEF ThemesInv, ThemesTyped, ReadPreference

LEMMA WritePreferenceKeeps ==
  ASSUME ThemesInv, NEW c \in Changes, NEW o \in Owners, WritePreference(c, o)
  PROVE  ThemesInv'
<1> DEFINE s == save[c][o]
<1>1. SaveFits(s) /\ s.at = "write" /\ pref[o] \in PrefRow
  BY DEF ThemesInv, ThemesTyped, WritePreference
<1>2. save' = [save EXCEPT ![c][o] = NoSave] /\ UNCHANGED <<files, oldFiles, clean, changes, breaks>>
  BY DEF WritePreference
<1>3. PICK new \in PrefRow : /\ pref' = [pref EXCEPT ![o] = new]
                             /\ new.row \in {pref[o].row, pref[o].row + 1}
  <2> DEFINE theme == IF s.field = "theme" THEN s.value ELSE s.copy
             nick == IF s.field = "nick" THEN s.value = "named" ELSE s.nick
             existing == s.nick \/ s.copy # "none"
             present == pref[o].nick \/ pref[o].theme # "none"
             number == IF present THEN pref[o].row ELSE pref[o].row + 1
             full == [theme |-> theme, nick |-> nick, old |-> FALSE, row |-> number]
             next == IF theme = "none" /\ ~nick
                     THEN IF existing THEN Absent(pref[o].row) ELSE pref[o] ELSE full
  <2>1. pref' = [pref EXCEPT ![o] = next]
    BY DEF WritePreference
  <2>2. theme \in Values /\ nick \in BOOLEAN
    BY <1>1 DEF SaveFits, SaveRow
  <2>3. number \in {pref[o].row, pref[o].row + 1} /\ number \in Nat
    <3>1. pref[o].row \in Nat
      BY <1>1, PrefRowTyped
    <3>2. QED
      BY <3>1
  <2> HIDE DEF theme, nick, existing, present, number
  <2>4. full \in PrefRow /\ full.row = number
    BY <2>2, <2>3 DEF PrefRow
  <2> HIDE DEF full
  <2>5. Absent(pref[o].row) \in PrefRow /\ Absent(pref[o].row).row = pref[o].row
    BY <1>1, PrefRowTyped, AbsentTyped
  <2>6. next \in PrefRow /\ next.row \in {pref[o].row, pref[o].row + 1}
    BY <1>1, <2>3, <2>4, <2>5
  <2>7. QED
    BY <2>1, <2>6
<1>4. /\ pref' \in [Owners -> PrefRow] /\ pref'[o] = new
      /\ \A q \in Owners \ {o} : pref'[q] = pref[q]
  BY <1>3 DEF ThemesInv, ThemesTyped
<1>5. /\ save' \in [Changes -> [Owners -> SaveRow]] /\ save'[c][o] = NoSave
      /\ \A d \in Changes, q \in Owners : <<d, q>> # <<c, o>> => save'[d][q] = save[d][q]
  BY <1>2, NoSaveTyped DEF ThemesInv, ThemesTyped, SaveFits
<1>6. \A d \in Changes, q \in Owners : SaveFits(save'[d][q])
  BY <1>5, NoSaveTyped DEF ThemesInv, ThemesTyped
<1>7. ASSUME NEW q \in Owners PROVE RowsCounted(q)'
  <2>1. CASE q # o
    <3>1. Writers(q)' = Writers(q)
      BY <1>5, <2>1 DEF Writers
    <3>2. QED
      BY <1>2, <1>4, <2>1, <3>1 DEF ThemesInv, RowsCounted
  <2>2. CASE q = o
    <3>1. IsFiniteSet(Writers(o)) /\ Cardinality(Writers(o)) \in Nat /\ changes \in Nat
          /\ pref[o].row + Cardinality(Writers(o)) <= changes /\ pref[o].row \in Nat
      <4>1. IsFiniteSet(Writers(o)) /\ pref[o].row + Cardinality(Writers(o)) <= changes
            /\ changes \in 0 .. MaxChanges
        BY DEF ThemesInv, RowsCounted, ThemesTyped
      <4>2. MaxChanges \in Nat /\ pref[o].row \in Nat
        BY <1>1, PrefRowTyped, ThemesAssumption
      <4>3. QED
        BY <4>1, <4>2, FS_CardinalityType
    <3>2. c \in Writers(o) /\ Writers(o)' = Writers(o) \ {c}
      BY <1>1, <1>5, NoSaveTyped DEF Writers
    <3>3. /\ IsFiniteSet(Writers(o) \ {c})
          /\ Cardinality(Writers(o) \ {c}) = Cardinality(Writers(o)) - 1
      BY <3>1, <3>2, FS_RemoveElement
    <3>4. IsFiniteSet(Writers(o)') /\ pref'[o].row + Cardinality(Writers(o)') <= changes'
      BY <1>2, <1>3, <1>4, <3>1, <3>2, <3>3
    <3>5. QED
      BY <2>2, <3>4 DEF RowsCounted
  <2>3. QED
    BY <2>1, <2>2
<1>8. QED
  BY <1>2, <1>4, <1>5, <1>6, <1>7 DEF ThemesInv, ThemesTyped

\* The steps of the cleanup, and time.
LEMMA CleaningKeeps ==
  ASSUME ThemesInv, CleanStep \/ CleanupFails \/ DaysPass
  PROVE  ThemesInv'
<1>1. /\ pref \in [Owners -> PrefRow] /\ files \subseteq Pictures /\ oldFiles \subseteq files
      /\ clean \in CleanRow /\ breaks \in 0 .. MaxBreaks
  BY DEF ThemesInv, ThemesTyped
<1>2. /\ clean.delete \subseteq RowIds /\ clean.clear \subseteq RowIds
      /\ clean.doomed \subseteq Pictures /\ clean.named \subseteq Pictures
  BY <1>1 DEF CleanRow
<1>3. CASE ReadOldPreferences
  <2> DEFINE delete == Ids({o \in Due : ~pref[o].nick})
             clear == Ids({o \in Due : pref[o].nick})
             doomed == {pref[o].theme : o \in Due}
  <2>1. delete \subseteq RowIds /\ clear \subseteq RowIds
    BY RowNumbers DEF Ids, Due, RowIds
  <2>2. doomed \subseteq Pictures
    BY DEF Due, IsPicture
  <2>3. clean' = [NoCleaning EXCEPT !.at = "clear", !.delete = delete, !.clear = clear,
                                    !.doomed = doomed]
    BY <1>3 DEF ReadOldPreferences
  <2> HIDE DEF delete, clear, doomed
  <2>4. clean' \in CleanRow
    BY <2>1, <2>2, <2>3, NoCleaningTyped DEF CleanRow
  <2>5. QED
    BY <1>1, <1>3, <2>4, RowsStay DEF ReadOldPreferences
<1>4. CASE DeletePreferences
  <2>1. clean' \in CleanRow
    BY <1>1, <1>4 DEF DeletePreferences, CleanRow
  <2>2. pref' = [o \in Owners |-> IF <<o, pref[o].row>> \in clean.delete
                                  THEN Absent(pref[o].row) ELSE pref[o]]
    BY <1>4 DEF DeletePreferences
  <2>3. pref' \in [Owners -> PrefRow] /\ \A o \in Owners : pref'[o].row = pref[o].row
    BY <1>1, <2>2, PrefRowTyped, AbsentTyped
  <2>4. QED
    BY <1>1, <1>4, <2>1, <2>3, RowsStay DEF DeletePreferences
<1>5. CASE ClearPreferences
  <2>1. clean' \in CleanRow
    BY <1>1, <1>5 DEF ClearPreferences, CleanRow
  <2>2. pref' = [o \in Owners |-> IF <<o, pref[o].row>> \in clean.clear
                                  THEN [pref[o] EXCEPT !.theme = "none", !.old = FALSE]
                                  ELSE pref[o]]
    BY <1>5 DEF ClearPreferences
  <2>3. pref' \in [Owners -> PrefRow] /\ \A o \in Owners : pref'[o].row = pref[o].row
    BY <1>1, <2>2, PrefRowTyped
  <2>4. QED
    BY <1>1, <1>5, <2>1, <2>3, RowsStay DEF ClearPreferences
<1>6. CASE DeleteThemePath
  <2>1. clean' \in CleanRow
    BY <1>1, <1>6 DEF DeleteThemePath, CleanRow
  <2>2. files' \subseteq Pictures /\ oldFiles' \subseteq files'
    BY <1>1, <1>6 DEF DeleteThemePath
  <2>3. QED
    BY <1>1, <1>6, <2>1, <2>2, RowsStay DEF DeleteThemePath
<1>7. CASE ReadReferences
  <2>1. clean' \in CleanRow
    BY <1>1, <1>7 DEF ReadReferences, CleanRow
  <2>2. QED
    BY <1>1, <1>7, <2>1, RowsStay DEF ReadReferences
<1>8. CASE Sweep
  <2>1. clean' \in CleanRow /\ files' \subseteq Pictures /\ oldFiles' \subseteq files'
    BY <1>1, <1>8, NoCleaningTyped DEF Sweep
  <2>2. QED
    BY <1>1, <1>8, <2>1, RowsStay DEF Sweep
<1>9. CASE CleanupFails
  <2>1. breaks' \in 0 .. MaxBreaks
    BY <1>1, <1>9, ThemesAssumption DEF CleanupFails
  <2>2. QED
    BY <1>1, <1>9, <2>1, NoCleaningTyped, RowsStay DEF CleanupFails
<1>10. CASE DaysPass
  <2>1. pref' = [o \in Owners |-> IF pref[o].theme = "none" /\ ~pref[o].nick THEN pref[o]
                                  ELSE [pref[o] EXCEPT !.old = TRUE]]
    BY <1>10 DEF DaysPass
  <2>2. pref' \in [Owners -> PrefRow] /\ \A o \in Owners : pref'[o].row = pref[o].row
    BY <1>1, <2>1, PrefRowTyped
  <2>3. QED
    BY <1>1, <1>10, <2>2, RowsStay DEF DaysPass
<1>11. QED
  BY <1>3, <1>4, <1>5, <1>6, <1>7, <1>8, <1>9, <1>10 DEF CleanStep

LEMMA ThemesStart == ASSUME ThemesInit PROVE ThemesInv
<1>1. ThemesTyped
  <2>1. pref \in [Owners -> PrefRow]
    BY AbsentTyped DEF ThemesInit
  <2>2. /\ save \in [Changes -> [Owners -> SaveRow]]
        /\ \A c \in Changes, o \in Owners : SaveFits(save[c][o])
    BY NoSaveTyped DEF ThemesInit, SaveFits
  <2>3. changes \in 0 .. MaxChanges /\ breaks \in 0 .. MaxBreaks
    BY ThemesAssumption DEF ThemesInit
  <2>4. QED
    BY <2>1, <2>2, <2>3, NoCleaningTyped DEF ThemesInit, ThemesTyped
<1>2. ASSUME NEW o \in Owners PROVE RowsCounted(o)
  <2>1. Writers(o) = {}
    BY NoSaveTyped DEF ThemesInit, Writers
  <2>2. pref[o].row = 0
    BY AbsentTyped DEF ThemesInit
  <2>3. QED
    BY <2>1, <2>2, FS_EmptySet DEF RowsCounted, ThemesInit
<1>3. QED
  BY <1>1, <1>2 DEF ThemesInv

LEMMA ThemesStep == ASSUME ThemesInv, [ThemesNext]_themesVars PROVE ThemesInv'
<1>1. CASE UNCHANGED themesVars
  BY <1>1, RowsStay DEF themesVars, ThemesInv, ThemesTyped
<1>2. ASSUME NEW c \in Changes, UploadTheme(c) PROVE ThemesInv'
  <2>1. PICK p \in Pictures : /\ files' = files \cup {p}
                              /\ AskTheme(c, Owners, "theme", p) \/ UNCHANGED <<save, changes>>
                              /\ UNCHANGED <<pref, oldFiles, clean, breaks>>
    BY <1>2 DEF UploadTheme
  <2>2. files' \subseteq Pictures /\ oldFiles' \subseteq files'
    BY <2>1 DEF ThemesInv, ThemesTyped
  <2>3. CASE AskTheme(c, Owners, "theme", p)
    BY <2>1, <2>2, <2>3, AskKeeps DEF Values
  <2>4. CASE UNCHANGED <<save, changes>>
    BY <2>1, <2>2, <2>4, RowsStay DEF ThemesInv, ThemesTyped
  <2>5. QED
    BY <2>1, <2>3, <2>4
<1>3. ASSUME NEW c \in Changes, NEW value \in {"none", "preset"}, ChooseTheme(c, value)
      PROVE  ThemesInv'
  BY <1>3, AskKeeps DEF ChooseTheme, Values, ThemesInv, ThemesTyped
<1>4. ASSUME NEW c \in Changes, NEW o \in Owners, NEW value \in {"none", "named"},
             UpdateNickname(c, o, value)
      PROVE  ThemesInv'
  <2>1. {o} \in SUBSET Owners /\ value \in Values \cup {"named"}
    BY DEF Values
  <2>2. QED
    BY <1>4, <2>1, AskKeeps DEF UpdateNickname, ThemesInv, ThemesTyped
<1>5. CASE CleanStep \/ CleanupFails \/ DaysPass
  BY <1>5, CleaningKeeps
<1>6. QED
  BY <1>1, <1>2, <1>3, <1>4, <1>5, ReadPreferenceKeeps, WritePreferenceKeeps DEF ThemesNext

\* The theme, its pictures, the changes and the cleanup keep their types, and a preference
\* gets no more rows than there were changes.
THEOREM ThemesTypeCorrect == ThemesSpec => []ThemesTypeOK
<1>1. ThemesInit => ThemesInv
  BY ThemesStart
<1>2. ThemesInv /\ [ThemesNext]_themesVars => ThemesInv'
  BY ThemesStep
<1>3. ASSUME ThemesInv PROVE ThemesTypeOK
  <2>1. pref \in [Owners -> [theme : Values, nick : BOOLEAN, old : BOOLEAN, row : 0 .. 2 * MaxChanges]]
    <3>1. ASSUME NEW o \in Owners
          PROVE  pref[o] \in [theme : Values, nick : BOOLEAN, old : BOOLEAN, row : 0 .. 2 * MaxChanges]
      <4>1. pref[o] \in PrefRow /\ pref[o].row \in 0 .. 2 * MaxChanges
        BY <1>3, RowNumbers DEF ThemesInv, ThemesTyped
      <4>2. QED
        BY <4>1 DEF PrefRow
    <3>2. QED
      BY <1>3, <3>1 DEF ThemesInv, ThemesTyped
  <2>2. QED
    BY <1>3, <2>1 DEF ThemesInv, ThemesTyped, ThemesTypeOK, SaveRow, CleanRow, RowIds
<1>4. QED
  BY <1>1, <1>2, <1>3, PTL DEF ThemesSpec
---------------------------------------------------------------------------------
(* The two parts together                                                      *)

\* A behaviour of both parts is, for each of them, one of its own behaviours: the part that
\* is not picked stutters.
LEMMA EachPartServes == Server => LifeSpec /\ ThemesSpec
<1>1. ServerInit => LifeInit /\ ThemesInit
  BY DEF ServerInit
<1>2. [ServerNext]_serverVars => [LifeNext]_lifeVars /\ [ThemesNext]_themesVars
  BY DEF ServerNext, serverVars
<1>3. Server => ServerInit /\ [][ServerNext]_serverVars
  BY PTL DEF Server
<1>4. QED
  BY <1>1, <1>2, <1>3, PTL DEF LifeSpec, ThemesSpec

\* The files of messages and the pictures of themes, composed: every state of the part that
\* is picked is well typed, and in fact so is every state of the other one.
THEOREM ServerTypeCorrect == Server => []ServerTypesOK
<1>1. LifeTypeOK /\ ThemesTypeOK => ServerTypesOK
  BY DEF ServerTypesOK
<1>2. QED
  BY <1>1, EachPartServes, LifeTypeCorrect, ThemesTypeCorrect, PTL
=============================================================================
