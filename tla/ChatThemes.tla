-------------------------------- MODULE ChatThemes --------------------------------
(***************************************************************************)
(* The theme of a chat, which two contacts share, and its uploaded picture  *)
(* (user.service.ts, user.controller.ts, chat-retention.service.ts).        *)
(*                                                                         *)
(* Each contact has a preference of his own, with the theme and a nickname   *)
(* for the other; a theme is saved in both, a nickname in one.  A save reads *)
(* the preference and later writes all of it.  The hourly cleanup clears the *)
(* pictures of old preferences, deletes their files, and then sweeps old     *)
(* files that no preference names.                                          *)
(***************************************************************************)
EXTENDS Naturals, FiniteSets

CONSTANTS
  Pictures,     \* theme pictures that are ever uploaded, each to a file of its own
  Changes,      \* changes of a theme or a nickname that are handled at the same time
  MaxChanges,   \* bound: how many changes are ever asked for
  MaxBreaks     \* bound: cleanups that fail half way

ASSUME ThemesAssumption == MaxChanges \in Nat /\ MaxBreaks \in Nat

Owners == {"anna", "bert"}
Values == Pictures \cup {"none", "preset"}

VARIABLES
  pref,         \* pref[o]: the preference of o about the other
  save,         \* save[c][o]: what the change c still has to do with pref[o]
  files,        \* the pictures on disk
  oldFiles,     \* those of them last written before the cutoff
  clean,        \* the cleanup: where it is, and what it has read
  changes,      \* how many changes have been asked for
  breaks        \* how many cleanups have failed

themesVars == <<pref, save, files, oldFiles, clean, changes, breaks>>

NoCleaning == [at |-> "idle", delete |-> {}, clear |-> {}, doomed |-> {}, named |-> {}]
NoSave == [at |-> "idle", field |-> "theme", value |-> "none", copy |-> "none", nick |-> FALSE]

\* A preference without nickname and theme has no row.  The number tells a row from
\* one that is made later in its place.
Absent(n) == [theme |-> "none", nick |-> FALSE, old |-> FALSE, row |-> n]

ThemesTypeOK ==
  /\ pref \in [Owners -> [theme : Values, nick : BOOLEAN, old : BOOLEAN,
                          row : 0 .. 2 * MaxChanges]]
  /\ save \in [Changes -> [Owners -> [at : {"idle", "read", "write"}, field : {"theme", "nick"},
                                      value : Values \cup {"named"}, copy : Values,
                                      nick : BOOLEAN]]]
  /\ files \subseteq Pictures /\ oldFiles \subseteq files
  /\ clean \in [at : {"idle", "clear", "files", "list", "sweep"},
                delete : SUBSET (Owners \X (0 .. 2 * MaxChanges)),
                clear : SUBSET (Owners \X (0 .. 2 * MaxChanges)),
                doomed : SUBSET Pictures, named : SUBSET Pictures]
  /\ changes \in 0 .. MaxChanges /\ breaks \in 0 .. MaxBreaks

ThemesInit ==
  /\ pref = [o \in Owners |-> Absent(0)]
  /\ save = [c \in Changes |-> [o \in Owners |-> NoSave]]
  /\ files = {} /\ oldFiles = {}
  /\ clean = NoCleaning
  /\ changes = 0 /\ breaks = 0

--------------------------------------------------------------------------------
(* Changes.                                                                *)

Busy(c) == \E o \in Owners : save[c][o].at # "idle"

AskTheme(c, whose, field, value) ==
  /\ ~Busy(c)
  /\ changes < MaxChanges /\ changes' = changes + 1
  /\ save' = [save EXCEPT ![c] =
                [o \in Owners |-> IF o \in whose
                                  THEN [NoSave EXCEPT !.at = "read", !.field = field, !.value = value]
                                  ELSE NoSave]]

\* updateContactTheme: the picture is on disk before the handler runs, under a name that
\* nobody else has.
UploadTheme(c) ==
  \E p \in Pictures \ files :
    /\ \A o \in Owners : pref[o].theme # p /\ \A d \in Changes : save[d][o].copy # p
    /\ files' = files \cup {p}
    /\ \/ AskTheme(c, Owners, "theme", p)
       \/ UNCHANGED <<save, changes>>      \* the contact may not be written to
    /\ UNCHANGED <<pref, oldFiles, clean, breaks>>

ChooseTheme(c, value) ==
  /\ value \in {"none", "preset"}
  /\ AskTheme(c, Owners, "theme", value)
  /\ UNCHANGED <<pref, files, oldFiles, clean, breaks>>

UpdateNickname(c, o, value) ==
  /\ value \in {"none", "named"}
  /\ AskTheme(c, {o}, "nick", value)
  /\ UNCHANGED <<pref, files, oldFiles, clean, breaks>>

\* saveContactPreference reads the preference ...
ReadPreference(c, o) ==
  /\ save[c][o].at = "read"
  /\ save' = [save EXCEPT ![c][o] = [@ EXCEPT !.at = "write", !.copy = pref[o].theme,
                                              !.nick = pref[o].nick]]
  /\ UNCHANGED <<pref, files, oldFiles, clean, changes, breaks>>

\* ... and writes all of it: the given field, the other as it was read.  When nothing
\* is left to write, the row is deleted if there was one to read.
WritePreference(c, o) ==
  LET s == save[c][o]
      theme == IF s.field = "theme" THEN s.value ELSE s.copy
      nick == IF s.field = "nick" THEN s.value = "named" ELSE s.nick
      existing == s.nick \/ s.copy # "none"
      present == pref[o].nick \/ pref[o].theme # "none"
  IN /\ s.at = "write"
     /\ save' = [save EXCEPT ![c][o] = NoSave]
     /\ pref' = [pref EXCEPT ![o] =
                   IF theme = "none" /\ ~nick THEN IF existing THEN Absent(@.row) ELSE @
                   ELSE [theme |-> theme, nick |-> nick, old |-> FALSE,
                         row |-> IF present THEN @.row ELSE @.row + 1]]
     /\ UNCHANGED <<files, oldFiles, clean, changes, breaks>>

--------------------------------------------------------------------------------
(* cleanupExpiredThemeUploads.  (A batch holds all preferences.)           *)

Ids(owners) == {<<o, pref[o].row>> : o \in owners}

IsPicture(value) == value \in Pictures

Due == {o \in Owners : pref[o].old /\ IsPicture(pref[o].theme)}

\* Seeded bug: without an old preference the cleanup is over at once.
ReadOldPreferences_Eager ==
  /\ clean.at = "idle" /\ Due # {}
  /\ clean' = [NoCleaning EXCEPT !.at = "clear",
                              !.delete = Ids({o \in Due : ~pref[o].nick}),
                              !.clear = Ids({o \in Due : pref[o].nick}),
                              !.doomed = {pref[o].theme : o \in Due}]
  /\ UNCHANGED <<pref, save, files, oldFiles, changes, breaks>>

ReadOldPreferences ==
  /\ clean.at = "idle"
  /\ clean' = [NoCleaning EXCEPT !.at = "clear",
                              !.delete = Ids({o \in Due : ~pref[o].nick}),
                              !.clear = Ids({o \in Due : pref[o].nick}),
                              !.doomed = {pref[o].theme : o \in Due}]
  /\ UNCHANGED <<pref, save, files, oldFiles, changes, breaks>>

\* deleteMany, then updateMany, by the ids that were read.
DeletePreferences ==
  /\ clean.at = "clear" /\ clean.delete # {}
  /\ clean' = [clean EXCEPT !.delete = {}]
  /\ pref' = [o \in Owners |-> IF <<o, pref[o].row>> \in clean.delete
                               THEN Absent(pref[o].row) ELSE pref[o]]
  /\ UNCHANGED <<save, files, oldFiles, changes, breaks>>

ClearPreferences ==
  /\ clean.at = "clear" /\ clean.delete = {}
  /\ clean' = [clean EXCEPT !.at = "files", !.clear = {}]
  /\ pref' = [o \in Owners |-> IF <<o, pref[o].row>> \in clean.clear
                               THEN [pref[o] EXCEPT !.theme = "none", !.old = FALSE]
                               ELSE pref[o]]
  /\ UNCHANGED <<save, files, oldFiles, changes, breaks>>

\* deleteThemePaths: whoever else names the picture.
DeleteThemePath ==
  /\ clean.at = "files"
  /\ \/ /\ clean.doomed = {}
        /\ clean' = [clean EXCEPT !.at = "list"]
        /\ UNCHANGED <<files, oldFiles>>
     \/ \E p \in clean.doomed :
          /\ clean' = [clean EXCEPT !.doomed = @ \ {p}]
          /\ files' = files \ {p} /\ oldFiles' = oldFiles \ {p}
  /\ UNCHANGED <<pref, save, changes, breaks>>

\* cleanupOrphanedThemeUploads: the pictures that preferences name by now ...
ReadReferences ==
  /\ clean.at = "list"
  /\ clean' = [clean EXCEPT !.at = "sweep",
                            !.named = {pref[o].theme : o \in Owners} \cap Pictures]
  /\ UNCHANGED <<pref, save, files, oldFiles, changes, breaks>>

\* ... and the old files that are not among them.
Sweep ==
  /\ clean.at = "sweep"
  /\ \/ \E p \in oldFiles \ clean.named :
          /\ files' = files \ {p} /\ oldFiles' = oldFiles \ {p}
          /\ UNCHANGED clean
     \/ /\ oldFiles \subseteq clean.named
        /\ clean' = NoCleaning
        /\ UNCHANGED <<files, oldFiles>>
  /\ UNCHANGED <<pref, save, changes, breaks>>

\* The cleanup throws, or the server stops.
CleanupFails ==
  /\ clean.at # "idle"
  /\ breaks < MaxBreaks /\ breaks' = breaks + 1
  /\ clean' = NoCleaning
  /\ UNCHANGED <<pref, save, files, oldFiles, changes>>

\* Days pass, and what is there by now has become old.  No request takes so long.
DaysPass ==
  /\ clean.at = "idle" /\ \A c \in Changes : ~Busy(c)
  /\ oldFiles' = files
  /\ pref' = [o \in Owners |-> IF pref[o].theme = "none" /\ ~pref[o].nick THEN pref[o]
                               ELSE [pref[o] EXCEPT !.old = TRUE]]
  /\ UNCHANGED <<save, files, clean, changes, breaks>>

CleanStep ==
  \/ ReadOldPreferences \/ DeletePreferences \/ ClearPreferences \/ DeleteThemePath
  \/ ReadReferences \/ Sweep

ThemesNext ==
  \/ \E c \in Changes : \/ UploadTheme(c)
                        \/ \E value \in {"none", "preset"} : ChooseTheme(c, value)
                        \/ \E o \in Owners : \/ ReadPreference(c, o) \/ WritePreference(c, o)
                                             \/ \E value \in {"none", "named"} : UpdateNickname(c, o, value)
  \/ CleanStep \/ CleanupFails \/ DaysPass

ThemesSpec == ThemesInit /\ [][ThemesNext]_themesVars

\* The cleanup comes back every hour and goes on, and so does every change.
CleaningFairness ==
  /\ WF_themesVars(CleanStep)
  /\ \A c \in Changes, o \in Owners : WF_themesVars(ReadPreference(c, o) \/ WritePreference(c, o))

--------------------------------------------------------------------------------
(* Properties.                                                             *)

\* A picture that nobody uses any more - replaced, cleared, or uploaded by a request that
\* was refused - goes in the end, once it is old, unless a preference names it again.
OldPicturesGo ==
  \A p \in Pictures :
    p \in oldFiles /\ (\A o \in Owners : pref[o].theme # p)
      ~> p \notin oldFiles \/ \E o \in Owners : pref[o].theme = p

\* A preference with an old picture does not stay as it is: cleared, or changed.
OldPreferencesAreCleared ==
  \A o \in Owners :
    pref[o].old /\ pref[o].theme \in Pictures
      ~> ~(pref[o].old /\ pref[o].theme \in Pictures)

\* What is old goes, file and preference, however often a cleanup fails half way.
OldThemesGo == OldPicturesGo /\ OldPreferencesAreCleared
================================================================================
