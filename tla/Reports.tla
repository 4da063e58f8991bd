-------------------------------- MODULE Reports --------------------------------
(***************************************************************************)
(* Reports about users, groups and messages, and the administrators who    *)
(* review them (src/user/user.service.ts, public/admin.js).                *)
(*                                                                         *)
(* createReport and reviewReportByAdmin read one row after another and     *)
(* write at the end; accounts, the group and the message may go in         *)
(* between, and the database then clears or deletes the reports that name  *)
(* them.  An administrator presses what the page offers, which follows the *)
(* reports as they were when the page last loaded them.                    *)
(***************************************************************************)
EXTENDS Naturals, FiniteSets

CONSTANTS
    Persons,    \* the accounts
    Reviewers,  \* those who are administrators to begin with
    NoPerson,   \* null, for a field that holds an account
    MaxReports, \* bound: UserReport rows ever created
    MaxUpheavals \* bound: accounts, groups and messages deleted, members leaving, bans lifted

ASSUME ReportsAssumption ==
    /\ Reviewers \subseteq Persons /\ NoPerson \notin Persons
    /\ {MaxReports, MaxUpheavals} \subseteq Nat

ReportIds == 1 .. MaxReports
Verdicts == {"OPEN", "IN_REVIEW", "RESOLVED", "DISMISSED"}

VARIABLES
    standing, \* role of each account; "gone": its row is deleted
    barred,   \* accounts with isBanned
    circle,   \* members of the one group
    things,   \* which of the group and the message exist
    letter,   \* the message: its sender, and its receiver unless it is the group's
    reports,  \* UserReport rows
    filing,   \* the createReport request in flight: one at a time, as they do
              \* not touch each other
    review,   \* the reviewReportByAdmin request of each administrator
    punished, \* history: accounts that have been banned
    readers,  \* history: who has been a member of the group
    upheavals

reportsVars == <<standing, barred, circle, things, letter, reports, filing, review,
                 punished, readers, upheavals>>

NoReport == [state |-> "free", by |-> NoPerson, target |-> NoPerson, names |-> {},
             status |-> "OPEN", handler |-> NoPerson, dated |-> FALSE, ban |-> FALSE]
NoFiling == [by |-> NoPerson, at |-> "idle", target |-> NoPerson, names |-> {}]
NoReview == [at |-> "idle", id |-> 0, verdict |-> "OPEN", ban |-> FALSE, target |-> NoPerson]

Someone == Persons \cup {NoPerson}
Names == SUBSET {"group", "message"}

ReportsTypeOK ==
    /\ standing \in [Persons -> {"USER", "ADMIN", "gone"}]
    /\ barred \subseteq Persons /\ circle \subseteq Persons /\ things \in Names
    /\ letter \in [from : Persons, to : Someone]
    /\ reports \in [ReportIds -> [state : {"free", "kept", "deleted"}, by : Someone, target : Someone,
            names : Names, status : Verdicts, handler : Someone, dated : BOOLEAN, ban : BOOLEAN]]
    /\ filing \in [by : Someone, at : {"idle", "message", "party", "target", "group", "insert"},
                   target : Someone, names : Names]
    /\ review \in [Reviewers -> [at : {"idle", "read", "ban", "bar", "update"}, id : 0 .. MaxReports,
            verdict : Verdicts, ban : BOOLEAN, target : Someone]]
    /\ punished \subseteq Persons /\ readers \subseteq Persons
    /\ upheavals \in 0 .. MaxUpheavals

Live == {p \in Persons : standing[p] # "gone"}
Kept == {i \in ReportIds : reports[i].state = "kept"}

ReportsInit ==
    /\ standing = [p \in Persons |-> IF p \in Reviewers THEN "ADMIN" ELSE "USER"]
    /\ barred = {}
    /\ circle \in SUBSET Persons
    /\ things = {"group", "message"}
    /\ letter \in {l \in [from : Persons, to : Someone] : l.from # l.to}
    /\ letter.to = NoPerson => letter.from \in circle
    /\ reports = [i \in ReportIds |-> NoReport]
    /\ filing = NoFiling
    /\ review = [a \in Reviewers |-> NoReview]
    /\ punished = {} /\ readers = circle /\ upheavals = 0

-----------------------------------------------------------------------------
(* createReport, one step per query                                        *)

\* What the request asks for next, once it has looked at the message.
AfterMessage(state) ==
    IF state.target # NoPerson THEN [state EXCEPT !.at = "target"]
    ELSE IF "group" \in state.names THEN [state EXCEPT !.at = "group"]
    ELSE NoFiling

\* JwtGuard: the account exists and is not banned.
Admitted(p) == p \in Live \ barred

SubmitReport(p) ==
    /\ Admitted(p) /\ filing = NoFiling
    /\ \E i \in ReportIds : reports[i].state = "free"
    /\ \E target \in Someone \ {p}, names \in Names :
          LET state == [NoFiling EXCEPT !.by = p, !.target = target, !.names = names]
          IN  /\ target # NoPerson \/ names # {}
              /\ ~(target # NoPerson /\ "group" \in names)
              /\ filing' = IF "message" \in names THEN [state EXCEPT !.at = "message"]
                           ELSE AfterMessage(state)
    /\ UNCHANGED <<standing, barred, circle, things, letter, reports, review, punished,
                   readers, upheavals>>

Participants == {letter.from, letter.to}

\* A message of the group asks for membership; a direct one names the other side,
\* unless the request already names somebody.
ReadMessage ==
    LET state == filing
        other == IF letter.from = state.by THEN letter.to ELSE letter.from
    IN  IF "message" \notin things THEN NoFiling
        ELSE IF letter.to = NoPerson THEN [state EXCEPT !.at = "party"]
        ELSE IF state.by \notin Participants THEN NoFiling
        ELSE AfterMessage([state EXCEPT !.target = IF @ = NoPerson THEN other ELSE @])

\* The query that the request is at, and what it goes on with; NoFiling ends it.
Checked ==
    LET state == filing
    IN  CASE state.at = "message" -> ReadMessage
          [] state.at = "party" -> IF state.by \in circle
                  THEN AfterMessage([state EXCEPT !.names = @ \cup {"group"}]) ELSE NoFiling
          [] state.at = "target" -> IF state.target \notin Live THEN NoFiling
                  ELSE [state EXCEPT !.at = IF "group" \in state.names THEN "group" ELSE "insert"]
          [] state.at = "group" -> IF state.by \in circle THEN [state EXCEPT !.at = "insert"] ELSE NoFiling

CheckReport ==
    /\ filing.at \notin {"idle", "insert"}
    /\ filing' = Checked
    /\ UNCHANGED <<standing, barred, circle, things, letter, reports, review, punished,
                   readers, upheavals>>

\* The database refuses a row that names something deleted.
InsertReport ==
    LET state == filing
        free == {i \in ReportIds : reports[i].state = "free"}
        row == [NoReport EXCEPT !.state = "kept", !.by = state.by, !.target = state.target,
                                !.names = state.names]
    IN  /\ state.at = "insert"
        /\ filing' = NoFiling
        /\ IF {state.by, state.target} \subseteq Live \cup {NoPerson} /\ state.names \subseteq things
               THEN \E i \in free : /\ \A j \in free : i <= j
                                    /\ reports' = [reports EXCEPT ![i] = row]
               ELSE UNCHANGED reports
        /\ UNCHANGED <<standing, barred, circle, things, letter, review, punished, readers,
                       upheavals>>

-----------------------------------------------------------------------------
(* The moderation queue                                                    *)

Presides(a) == Admitted(a) /\ standing[a] = "ADMIN"

\* The buttons.  The page shows the reports as they were when it was last loaded: any
\* report that has existed can be pressed, whatever has become of it.
PressVerdict(a) ==
    /\ Presides(a) /\ review[a].at = "idle"
    /\ \E i \in ReportIds, verdict \in Verdicts \ {"OPEN"}, ban \in BOOLEAN :
          /\ reports[i].state # "free"
          /\ ban => verdict = "RESOLVED"
          /\ review' = [review EXCEPT ![a] = [NoReview EXCEPT
                            !.at = "read", !.id = i, !.verdict = verdict, !.ban = ban]]
    /\ UNCHANGED <<standing, barred, circle, things, letter, reports, filing, punished,
                   readers, upheavals>>

\* The report is read; a ban is not possible any more when its account is gone.
ReadReport(a) ==
    LET state == review[a]
        row == reports[state.id]
    IN  /\ state.at = "read"
        /\ review' = [review EXCEPT ![a] =
               IF row.state # "kept" \/ (state.ban /\ row.target = NoPerson) THEN NoReview
               ELSE IF state.ban THEN [state EXCEPT !.at = "ban", !.target = row.target]
               ELSE [state EXCEPT !.at = "update"]]
        /\ UNCHANGED <<standing, barred, circle, things, letter, reports, filing, punished,
                       readers, upheavals>>

\* Seeded bug: the account is banned after the verdict is written, if it can be.
NextStep_VerdictFirst(state) == [state EXCEPT !.at = "update"]

NextStep(state) == [state EXCEPT !.at = "bar"]

\* banUserByAdmin reads the account: nobody bans themselves or an administrator.
ReadTarget(a) ==
    LET state == review[a]
    IN  /\ state.at = "ban"
        /\ review' = [review EXCEPT ![a] =
               IF state.target # a /\ standing[state.target] = "USER" THEN NextStep(state)
               ELSE NoReview]
        /\ UNCHANGED <<standing, barred, circle, things, letter, reports, filing, punished,
                       readers, upheavals>>

BanTarget(a) ==
    LET state == review[a]
        t == state.target
    IN  /\ state.at = "bar"
        /\ IF t \in Live
               THEN /\ barred' = barred \cup {t}
                    /\ punished' = punished \cup {t}
                    /\ review' = [review EXCEPT ![a] = [@ EXCEPT !.at = "update"]]
               ELSE review' = [review EXCEPT ![a] = NoReview] /\ UNCHANGED <<barred, punished>>
        /\ UNCHANGED <<standing, circle, things, letter, reports, filing, readers, upheavals>>

\* The verdict, who gave it and when are one update; it fails when the report went
\* with its reporter, or the administrator's own account is gone, ban or no ban.
WriteVerdict(a) ==
    LET state == review[a]
        i == state.id
    IN  /\ state.at = "update"
        /\ review' = [review EXCEPT ![a] = NoReview]
        /\ reports' = IF i \in Kept /\ a \in Live
                          THEN [reports EXCEPT ![i] = [@ EXCEPT !.status = state.verdict,
                                     !.handler = a, !.dated = TRUE, !.ban = state.ban]]
                          ELSE reports
        /\ UNCHANGED <<standing, barred, circle, things, letter, filing, punished, readers,
                       upheavals>>

-----------------------------------------------------------------------------
(* Everything else                                                         *)

Upheaval == upheavals < MaxUpheavals /\ upheavals' = upheavals + 1

\* onDelete: Cascade for the reporter, SetNull for the others.
Clears(row, p, gone) ==
    IF row.by = p THEN [NoReport EXCEPT !.state = "deleted"]
    ELSE [row EXCEPT !.target = IF @ = p THEN NoPerson ELSE @,
                     !.handler = IF @ = p THEN NoPerson ELSE @, !.names = @ \ gone]

\* An account is deleted, and its messages with it.
EraseAccount(p) ==
    LET gone == IF p \in Participants THEN {"message"} ELSE {}
    IN  /\ p \in Live /\ Upheaval
        /\ standing' = [standing EXCEPT ![p] = "gone"]
        /\ barred' = barred \ {p} /\ circle' = circle \ {p}
        /\ things' = things \ gone
        /\ reports' = [i \in ReportIds |-> IF i \in Kept THEN Clears(reports[i], p, gone)
                                           ELSE reports[i]]
        /\ UNCHANGED <<letter, filing, review, punished, readers>>

\* The group is deleted, or the message: retention deletes its row.
DeleteThing(x) ==
    /\ x \in things /\ Upheaval
    /\ LET gone == IF x = "group" /\ letter.to = NoPerson THEN {"group", "message"} ELSE {x}
       IN  /\ things' = things \ gone
           /\ reports' = [i \in ReportIds |-> [reports[i] EXCEPT !.names = @ \ gone]]
    /\ circle' = IF x = "group" THEN {} ELSE circle
    /\ UNCHANGED <<standing, barred, letter, filing, review, punished, readers>>

LeaveGroup(p) ==
    /\ p \in circle /\ Upheaval /\ circle' = circle \ {p}
    /\ UNCHANGED <<standing, barred, things, letter, reports, filing, review, punished,
                   readers>>

Unban(p) ==
    /\ p \in barred /\ Upheaval /\ barred' = barred \ {p}
    /\ UNCHANGED <<standing, circle, things, letter, reports, filing, review, punished, readers>>

ReportsNext ==
    \/ \E p \in Persons :
          \/ SubmitReport(p) \/ EraseAccount(p) \/ LeaveGroup(p) \/ Unban(p)
    \/ CheckReport \/ InsertReport
    \/ \E a \in Reviewers :
          \/ PressVerdict(a)
          \/ ReadReport(a) \/ ReadTarget(a) \/ BanTarget(a) \/ WriteVerdict(a)
    \/ \E x \in {"group", "message"} : DeleteThing(x)

ReportsSpec == ReportsInit /\ [][ReportsNext]_reportsVars

-----------------------------------------------------------------------------
(* Properties                                                              *)

\* A message is reported by somebody who could read it: a side of the conversation,
\* or somebody who has been in the group.
Witnessed(r) ==
    "message" \in r.names =>
        \/ r.by \in Participants
        \/ letter.to = NoPerson /\ r.by \in readers

\* A report that was closed by a ban names an account that has been banned, or that
\* is gone; and it is dated as soon as it is not open.
Justified(r) ==
    /\ r.ban => r.target \in punished \cup {NoPerson}
    /\ r.dated <=> r.status # "OPEN"

\* However createReport and reviewReportByAdmin race with deletions and bans, what a
\* report says is true: nobody reports a message they could not read or themselves, a
\* refused ban closes nothing (the account is banned first), and no report names what
\* is deleted.
ReportsAreTrue ==
    \A i \in Kept :
        LET r == reports[i]
        IN  /\ Witnessed(r) /\ Justified(r)
            /\ {r.by, r.target, r.handler} \subseteq Live \cup {NoPerson}
            /\ r.names \subseteq things
            /\ r.by # r.target
=============================================================================
