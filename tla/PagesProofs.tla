------------------------------- MODULE PagesProofs -------------------------------
(***************************************************************************)
(* Proofs about what open pages show and hold: the moderation of reports,  *)
(* for any accounts and reviewers, the devices of a call, for any number   *)
(* of calls, camera switches and failures, who is shown online, for any    *)
(* processes and sockets, and the cached messages of each chat, for any    *)
(* chats, pages and requests; and all of them with the list of chats.      *)
(***************************************************************************)
EXTENDS MCPages, ChatRequestsProofs, FiniteSetTheorems, WellFoundedInduction, TLAPS

-----------------------------------------------------------------------------
(* Reports: the inductive invariant.                                       *)

\* The message is not from its reader to himself.
LettersCross == letter.from # letter.to

MembersAreReaders == circle \subseteq readers

\* A report in the making names somebody else, and once its message has been looked at,
\* one that the reporter could read.
HonestFiling(f) ==
  f.at # "idle" =>
    /\ f.by \in Persons /\ f.by # f.target
    /\ f.at = "party" => letter.to = NoPerson
    /\ f.at \in {"target", "group", "insert"} => Witnessed(f)

FilingIsHonest == HonestFiling(filing)

\* A review in flight is about a report that has existed, and bans the account that the
\* report named when it was read: by now the report names the same one, or none.
HonestReview(v) ==
  v.at # "idle" =>
    /\ v.id \in ReportIds /\ reports[v.id].state # "free" /\ v.verdict # "OPEN"
    /\ v.at \in {"ban", "bar"} => v.ban /\ v.target \in Persons
    /\ v.at \in {"ban", "bar", "update"} /\ v.ban /\ v.id \in Kept
         => reports[v.id].target \in {v.target, NoPerson}
    /\ v.at = "update" /\ v.ban => v.target \in punished

ReviewIsHonest(a) == HonestReview(review[a])

TrueRow(r) ==
  /\ Witnessed(r) /\ Justified(r)
  /\ r.by \in Live /\ {r.target, r.handler} \subseteq Live \cup {NoPerson}
  /\ r.names \subseteq things
  /\ r.by # r.target

RowIsTrue(i) == TrueRow(reports[i])

ReportsInv ==
  /\ ReportsTypeOK /\ LettersCross /\ MembersAreReaders /\ FilingIsHonest
  /\ \A a \in Reviewers : ReviewIsHonest(a)
  /\ \A i \in Kept : RowIsTrue(i)

ReportRow == [state : {"free", "kept", "deleted"}, by : Someone, target : Someone,
              names : Names, status : Verdicts, handler : Someone, dated : BOOLEAN,
              ban : BOOLEAN]
FilingRow == [by : Someone, at : {"idle", "message", "party", "target", "group", "insert"},
              target : Someone, names : Names]
ReviewRow == [at : {"idle", "read", "ban", "bar", "update"}, id : 0 .. MaxReports,
              verdict : Verdicts, ban : BOOLEAN, target : Someone]

LEMMA ReportTyped ==
  ASSUME ReportsTypeOK, NEW i \in ReportIds
  PROVE  /\ reports[i] \in ReportRow
         /\ reports[i].state \in {"free", "kept", "deleted"}
         /\ reports[i].by \in Someone /\ reports[i].target \in Someone
         /\ reports[i].names \in Names /\ reports[i].status \in Verdicts
         /\ reports[i].handler \in Someone
         /\ reports[i].dated \in BOOLEAN /\ reports[i].ban \in BOOLEAN
<1>1. reports[i] \in ReportRow
  BY DEF ReportsTypeOK, ReportRow
<1>2. QED
  BY <1>1 DEF ReportRow

LEMMA FilingTyped ==
  ASSUME ReportsTypeOK
  PROVE  /\ filing \in FilingRow
         /\ filing.at \in {"idle", "message", "party", "target", "group", "insert"}
         /\ filing.by \in Someone /\ filing.target \in Someone /\ filing.names \in Names
<1>1. filing \in FilingRow
  BY DEF ReportsTypeOK, FilingRow
<1>2. QED
  BY <1>1 DEF FilingRow

LEMMA ReviewTyped ==
  ASSUME ReportsTypeOK, NEW a \in Reviewers
  PROVE  /\ review[a] \in ReviewRow
         /\ review[a].at \in {"idle", "read", "ban", "bar", "update"}
         /\ review[a].id \in 0 .. MaxReports /\ review[a].verdict \in Verdicts
         /\ review[a].ban \in BOOLEAN /\ review[a].target \in Someone
<1>1. review[a] \in ReviewRow
  BY DEF ReportsTypeOK, ReviewRow
<1>2. QED
  BY <1>1 DEF ReviewRow

LEMMA NoRowsTyped ==
  /\ NoReport \in ReportRow /\ NoReport.state = "free" /\ NoReport.status = "OPEN" /\ ~NoReport.dated /\ ~NoReport.ban
  /\ NoReport.names = {} /\ NoReport.target = NoPerson /\ NoReport.handler = NoPerson
  /\ NoFiling \in FilingRow /\ NoFiling.at = "idle" /\ NoFiling.names = {} /\ NoFiling.target = NoPerson
  /\ NoReview \in ReviewRow /\ NoReview.at = "idle" /\ NoReview.ban = FALSE /\ NoReview.target = NoPerson
  BY ReportsAssumption DEF NoReport, NoFiling, NoReview, ReportRow, FilingRow, ReviewRow, Someone,
     Names, Verdicts

LEMMA ReportsInitInv == ReportsInit => ReportsInv
<1> SUFFICES ASSUME ReportsInit PROVE ReportsInv
  OBVIOUS
<1>1. ReportsTypeOK
  BY NoRowsTyped, ReportsAssumption DEF ReportsInit, ReportsTypeOK, ReportRow, FilingRow, ReviewRow, Names
<1>2. Kept = {}
  BY NoRowsTyped DEF ReportsInit, Kept
<1>3. QED
  BY <1>1, <1>2, NoRowsTyped DEF ReportsInit, ReportsInv, LettersCross, MembersAreReaders, FilingIsHonest,
     ReviewIsHonest, HonestFiling, HonestReview

LEMMA LeaveKeeps == ASSUME ReportsInv, NEW p \in Persons, LeaveGroup(p) PROVE ReportsInv'
  BY ReportsAssumption DEF LeaveGroup, Upheaval, ReportsInv, ReportsTypeOK, LettersCross,
     MembersAreReaders, FilingIsHonest, HonestFiling, ReviewIsHonest, HonestReview, RowIsTrue,
     TrueRow, Kept, Live, Witnessed, Justified, Participants

LEMMA UnbanKeeps == ASSUME ReportsInv, NEW p \in Persons, Unban(p) PROVE ReportsInv'
  BY ReportsAssumption DEF Unban, Upheaval, ReportsInv, ReportsTypeOK, LettersCross,
     MembersAreReaders, FilingIsHonest, HonestFiling, ReviewIsHonest, HonestReview, RowIsTrue,
     TrueRow, Kept, Live, Witnessed, Justified, Participants

-----------------------------------------------------------------------------
(* Reports: createReport.                                                  *)

\* A step that changes nothing but the request of createReport has only that to answer for.
LEMMA FilingFrame ==
  ASSUME ReportsInv, filing' \in FilingRow, HonestFiling(filing'),
         UNCHANGED <<standing, barred, circle, things, letter, reports, review, punished,
                     readers, upheavals>>
  PROVE  ReportsInv'
<1>1. ReportsTypeOK'
  BY DEF ReportsInv, ReportsTypeOK, FilingRow
<1>2. LettersCross' /\ MembersAreReaders'
  BY DEF ReportsInv, LettersCross, MembersAreReaders
<1>3. FilingIsHonest'
  BY DEF FilingIsHonest, HonestFiling, Witnessed, Participants
<1>4. ASSUME NEW a \in Reviewers PROVE ReviewIsHonest(a)'
  BY DEF ReportsInv, ReviewIsHonest, HonestReview, Kept
<1>5. ASSUME NEW i \in Kept' PROVE RowIsTrue(i)'
  BY DEF ReportsInv, RowIsTrue, TrueRow, Kept, Live, Witnessed, Justified, Participants
<1>6. QED
  BY <1>1, <1>2, <1>3, <1>4, <1>5 DEF ReportsInv

\* The request, moved on to another query.
MovedTo(f, x) == [f EXCEPT !.at = x]

LEMMA FilingMoves ==
  ASSUME NEW f \in FilingRow,
         NEW x \in {"idle", "message", "party", "target", "group", "insert"}
  PROVE  /\ MovedTo(f, x) \in FilingRow
         /\ MovedTo(f, x).at = x /\ MovedTo(f, x).by = f.by
         /\ MovedTo(f, x).target = f.target /\ MovedTo(f, x).names = f.names
  BY DEF FilingRow, MovedTo

\* A request that moves on stays honest, when its message is known to have been readable.
LEMMA MovedStaysHonest ==
  ASSUME NEW f \in FilingRow, f.by \in Persons, f.by # f.target,
         NEW x \in {"message", "party", "target", "group", "insert"},
         x = "party" => letter.to = NoPerson,
         x \in {"target", "group", "insert"} => Witnessed(f)
  PROVE  MovedTo(f, x) \in FilingRow /\ HonestFiling(MovedTo(f, x))
<1>1. /\ MovedTo(f, x) \in FilingRow
      /\ MovedTo(f, x).at = x /\ MovedTo(f, x).by = f.by
      /\ MovedTo(f, x).target = f.target /\ MovedTo(f, x).names = f.names
  BY FilingMoves
<1>2. Witnessed(MovedTo(f, x)) <=> Witnessed(f)
  BY <1>1 DEF Witnessed
<1>3. QED
  BY <1>1, <1>2 DEF HonestFiling

\* Where the request goes once its message has been looked at.
LEMMA AfterMessageIsHonest ==
  ASSUME NEW f \in FilingRow, f.by \in Persons, f.by # f.target, Witnessed(f)
  PROVE  AfterMessage(f) \in FilingRow /\ HonestFiling(AfterMessage(f))
<1>1. CASE f.target # NoPerson
  <2>1. AfterMessage(f) = MovedTo(f, "target")
    BY <1>1 DEF AfterMessage, MovedTo, FilingRow
  <2>2. QED
    BY <2>1, MovedStaysHonest
<1>2. CASE f.target = NoPerson /\ "group" \in f.names
  <2>1. AfterMessage(f) = MovedTo(f, "group")
    BY <1>2 DEF AfterMessage, MovedTo, FilingRow
  <2>2. QED
    BY <2>1, MovedStaysHonest
<1>3. CASE f.target = NoPerson /\ "group" \notin f.names
  BY <1>3, NoRowsTyped DEF AfterMessage, HonestFiling
<1>4. QED
  BY <1>1, <1>2, <1>3

LEMMA SubmitKeeps == ASSUME ReportsInv, NEW p \in Persons, SubmitReport(p) PROVE ReportsInv'
<1>1. PICK target \in Someone \ {p}, names \in Names :
        LET state == [NoFiling EXCEPT !.by = p, !.target = target, !.names = names]
        IN  filing' = IF "message" \in names THEN [state EXCEPT !.at = "message"]
                      ELSE AfterMessage(state)
  BY DEF SubmitReport
<1> DEFINE one == [NoFiling EXCEPT !.by = p]
           two == [one EXCEPT !.target = target]
           state == [two EXCEPT !.names = names]
<1>2. one \in FilingRow /\ one.by = p
  BY NoRowsTyped DEF FilingRow, Someone
<1> HIDE DEF one
<1>7. two \in FilingRow /\ two.by = p /\ two.target = target
  BY <1>2 DEF FilingRow
<1> HIDE DEF two
<1>3. state \in FilingRow /\ state.by = p /\ state.target = target /\ state.names = names
  BY <1>7 DEF FilingRow
<1>4. filing' = IF "message" \in names THEN MovedTo(state, "message")
                ELSE AfterMessage(state)
  BY <1>1 DEF MovedTo, one, two
<1> HIDE DEF state
<1>5. filing' \in FilingRow /\ HonestFiling(filing')
  <2>1. CASE "message" \in names
    BY <2>1, <1>3, <1>4, MovedStaysHonest
  <2>2. CASE "message" \notin names
    <3>1. Witnessed(state)
      BY <2>2, <1>3 DEF Witnessed
    <3>2. QED
      BY <2>2, <1>3, <1>4, <3>1, AfterMessageIsHonest
  <2>3. QED
    BY <2>1, <2>2
<1>6. QED
  BY <1>5, FilingFrame DEF SubmitReport

LEMMA CheckKeeps == ASSUME ReportsInv, CheckReport PROVE ReportsInv'
<1>1. filing \in FilingRow /\ HonestFiling(filing) /\ filing.at # "idle" /\ filing.at # "insert"
  BY FilingTyped DEF ReportsInv, FilingIsHonest, CheckReport
<1>2. filing.by \in Persons /\ filing.by # filing.target
  BY <1>1 DEF HonestFiling
<1>3. NoFiling \in FilingRow /\ HonestFiling(NoFiling)
  BY NoRowsTyped DEF HonestFiling
<1>4. filing' = Checked
  BY DEF CheckReport
<1> SUFFICES filing' \in FilingRow /\ HonestFiling(filing')
  BY FilingFrame DEF CheckReport
<1>5. CASE filing.at = "message"
  <2>1. filing' = ReadMessage
    BY <1>4, <1>5 DEF Checked
  <2>2. CASE "message" \notin things
    BY <2>1, <2>2, <1>1, <1>3 DEF ReadMessage, FilingRow
  <2>3. CASE "message" \in things /\ letter.to = NoPerson
    <3>1. filing' = MovedTo(filing, "party")
      BY <1>1, <2>1, <2>3 DEF ReadMessage, MovedTo, FilingRow
    <3>2. QED
      BY <3>1, <2>3, <1>1, <1>2, MovedStaysHonest
  <2>4. CASE "message" \in things /\ letter.to # NoPerson /\ filing.by \notin Participants
    BY <1>1, <2>1, <2>4, <1>3 DEF ReadMessage, FilingRow
  <2>5. CASE "message" \in things /\ letter.to # NoPerson /\ filing.by \in Participants
    <3> DEFINE other == IF letter.from = filing.by THEN letter.to ELSE letter.from
               named == IF filing.target = NoPerson THEN other ELSE filing.target
               state == [filing EXCEPT !.target = named]
    <3>1. filing' = AfterMessage([filing EXCEPT !.target = IF @ = NoPerson THEN other ELSE @])
      BY <2>1, <2>5 DEF ReadMessage
    <3>2. filing' = AfterMessage(state)
      BY <3>1
    <3>3. named \in Someone /\ named # filing.by
      BY <1>2, <2>5, FilingTyped DEF ReportsInv, ReportsTypeOK, Someone, Participants, LettersCross
    <3> HIDE DEF named
    <3>4. state \in FilingRow /\ state.by = filing.by /\ state.target = named
      BY <1>1, <3>3 DEF FilingRow
    <3>5. Witnessed(state)
      BY <3>4, <2>5 DEF Witnessed
    <3> HIDE DEF state
    <3>6. QED
      BY <3>2, <3>3, <3>4, <3>5, <1>2, AfterMessageIsHonest
  <2>6. QED
    BY <2>2, <2>3, <2>4, <2>5
<1>6. CASE filing.at = "party"
  <2> DEFINE state == [filing EXCEPT !.names = filing.names \cup {"group"}]
  <2>1. filing' = IF filing.by \in circle THEN AfterMessage(state) ELSE NoFiling
    BY <1>4, <1>6 DEF Checked
  <2>2. state \in FilingRow /\ state.by = filing.by /\ state.target = filing.target
    BY <1>1 DEF FilingRow, Names
  <2> HIDE DEF state
  <2>3. filing.by \in circle => Witnessed(state)
    BY <2>2, <1>1, <1>6 DEF Witnessed, HonestFiling, ReportsInv, MembersAreReaders
  <2>4. QED
    BY <2>1, <2>2, <2>3, <1>2, <1>3, AfterMessageIsHonest
<1>7. CASE filing.at = "target"
  <2>1. \/ filing' = NoFiling
        \/ \E x \in {"group", "insert"} : filing' = MovedTo(filing, x)
    BY <1>4, <1>7 DEF Checked, MovedTo
  <2>2. QED
    <3>1. Witnessed(filing)
      BY <1>1, <1>7 DEF HonestFiling
    <3>2. QED
      BY <2>1, <3>1, <1>1, <1>2, <1>3, MovedStaysHonest
<1>8. CASE filing.at = "group"
  <2>1. filing' = NoFiling \/ filing' = MovedTo(filing, "insert")
    BY <1>4, <1>8 DEF Checked, MovedTo
  <2>2. QED
    <3>1. Witnessed(filing)
      BY <1>1, <1>8 DEF HonestFiling
    <3>2. QED
      BY <2>1, <3>1, <1>1, <1>2, <1>3, MovedStaysHonest
<1>9. QED
  BY <1>1, <1>5, <1>6, <1>7, <1>8 DEF FilingRow

-----------------------------------------------------------------------------
(* Reports: steps that write rows.                                         *)

\* A step that writes rows, clears reviews or ends the request: it suffices that what is
\* kept is true, and that no row that a review is about comes back or names somebody else.
LEMMA RowsFrame ==
  ASSUME ReportsInv,
         standing' \in [Persons -> {"USER", "ADMIN", "gone"}], barred' \subseteq Persons,
         circle' \subseteq circle, things' \in Names, upheavals' \in 0 .. MaxUpheavals,
         filing' \in {filing, NoFiling},
         review' \in [Reviewers -> ReviewRow],
         \A a \in Reviewers : review'[a] \in {review[a], NoReview},
         reports' \in [ReportIds -> ReportRow],
         \A i \in ReportIds : reports[i].state # "free" =>
            /\ reports'[i].state # "free"
            /\ reports'[i].state = "kept" =>
                  reports[i].state = "kept" /\ reports'[i].target \in {reports[i].target, NoPerson},
         \A i \in ReportIds : reports'[i].state = "kept" => RowIsTrue(i)',
         UNCHANGED <<letter, punished, readers>>
  PROVE  ReportsInv'
<1>1. ReportsTypeOK'
  <2>1. filing' \in FilingRow
    BY FilingTyped, NoRowsTyped DEF ReportsInv
  <2>2. QED
    BY <2>1 DEF ReportsInv, ReportsTypeOK, FilingRow, ReviewRow, ReportRow
<1>2. LettersCross' /\ MembersAreReaders'
  BY DEF ReportsInv, LettersCross, MembersAreReaders
<1>3. FilingIsHonest'
  BY NoRowsTyped DEF ReportsInv, FilingIsHonest, HonestFiling, Witnessed, Participants
<1>4. ASSUME NEW a \in Reviewers PROVE ReviewIsHonest(a)'
  <2>1. CASE review'[a] = NoReview
    BY <2>1, NoRowsTyped DEF ReviewIsHonest, HonestReview
  <2>2. CASE review'[a] = review[a]
    <3>1. HonestReview(review[a])
      BY DEF ReportsInv, ReviewIsHonest
    <3>2. QED
      BY <2>2, <3>1 DEF ReviewIsHonest, HonestReview, Kept
  <2>3. QED
    BY <2>1, <2>2
<1>5. ASSUME NEW i \in Kept' PROVE RowIsTrue(i)'
  BY <1>5 DEF Kept
<1>6. QED
  BY <1>1, <1>2, <1>3, <1>4, <1>5 DEF ReportsInv

\* What is kept, is true.
LEMMA KeptIsTrue ==
  ASSUME ReportsInv, NEW i \in ReportIds, reports[i].state = "kept"
  PROVE  TrueRow(reports[i])
  BY DEF ReportsInv, RowIsTrue, Kept

\* The row that createReport makes.
NewRow(f) == [NoReport EXCEPT !.state = "kept", !.by = f.by, !.target = f.target,
                              !.names = f.names]

LEMMA NewRowTyped ==
  ASSUME NEW f \in FilingRow
  PROVE  /\ NewRow(f) \in ReportRow /\ NewRow(f).state = "kept" /\ NewRow(f).by = f.by
         /\ NewRow(f).target = f.target /\ NewRow(f).names = f.names
         /\ NewRow(f).status = "OPEN" /\ NewRow(f).handler = NoPerson
         /\ ~NewRow(f).dated /\ ~NewRow(f).ban
<1> DEFINE one == [NoReport EXCEPT !.state = "kept"]
           two == [one EXCEPT !.by = f.by]
           three == [two EXCEPT !.target = f.target]
           four == [three EXCEPT !.names = f.names]
           Blank(r) == r.status = "OPEN" /\ r.handler = NoPerson /\ ~r.dated /\ ~r.ban
<1>1. f.by \in Someone /\ f.target \in Someone /\ f.names \in Names
  BY DEF FilingRow
<1>2. one \in ReportRow /\ one.state = "kept" /\ Blank(one)
  BY NoRowsTyped DEF ReportRow
<1> HIDE DEF one
<1>3. two \in ReportRow /\ two.state = "kept" /\ two.by = f.by /\ Blank(two)
  BY <1>1, <1>2 DEF ReportRow
<1> HIDE DEF two
<1>4. three \in ReportRow /\ three.state = "kept" /\ three.by = f.by /\ three.target = f.target /\ Blank(three)
  BY <1>1, <1>3 DEF ReportRow
<1> HIDE DEF three
<1>5. /\ four \in ReportRow /\ four.state = "kept" /\ four.by = f.by /\ four.target = f.target
      /\ four.names = f.names /\ Blank(four)
  BY <1>1, <1>4 DEF ReportRow
<1>6. NewRow(f) = four
  BY DEF NewRow, one, two, three
<1>7. QED
  BY <1>5, <1>6

LEMMA InsertKeeps == ASSUME ReportsInv, InsertReport PROVE ReportsInv'
<1> DEFINE row == NewRow(filing)
<1>1. /\ filing.at = "insert" /\ filing' = NoFiling
      /\ UNCHANGED <<standing, barred, circle, things, letter, review, punished, readers, upheavals>>
  BY DEF InsertReport
<1>2. CASE UNCHANGED reports
  <2>1. NoFiling \in FilingRow /\ HonestFiling(NoFiling)
    BY NoRowsTyped DEF HonestFiling
  <2>2. QED
    BY <1>1, <1>2, <2>1, FilingFrame
<1>3. ASSUME {filing.by, filing.target} \subseteq Live \cup {NoPerson}, filing.names \subseteq things,
             NEW i \in ReportIds, reports[i].state = "free", reports' = [reports EXCEPT ![i] = row]
      PROVE  ReportsInv'
  <2>1. /\ filing \in FilingRow /\ filing.by \in Persons /\ filing.by # filing.target
        /\ Witnessed(filing)
    BY <1>1, FilingTyped DEF ReportsInv, FilingIsHonest, HonestFiling
  <2>2. /\ row \in ReportRow /\ row.state = "kept" /\ row.by = filing.by
        /\ row.target = filing.target /\ row.names = filing.names
        /\ row.status = "OPEN" /\ row.handler = NoPerson /\ ~row.dated /\ ~row.ban
    BY <2>1, NewRowTyped
  <2> HIDE DEF row
  <2>3. reports \in [ReportIds -> ReportRow] /\ review \in [Reviewers -> ReviewRow]
    BY DEF ReportsInv, ReportsTypeOK, ReportRow, ReviewRow
  <2>4. /\ reports' \in [ReportIds -> ReportRow] /\ reports'[i] = row
        /\ \A j \in ReportIds \ {i} : reports'[j] = reports[j]
    BY <1>3, <2>2, <2>3
  <2>5. Witnessed(row)
    BY <2>1, <2>2 DEF Witnessed
  <2>6. Justified(row)
    BY <2>2 DEF Justified
  <2>7. row.by \in Live
    BY <1>3, <2>1, <2>2, ReportsAssumption DEF Live
  <2>8. TrueRow(row)
    BY <1>3, <2>1, <2>2, <2>5, <2>6, <2>7 DEF TrueRow
  <2>9. \A j \in ReportIds : reports'[j].state = "kept" => TrueRow(reports'[j])
    BY <2>4, <2>8, KeptIsTrue
  <2>10. \A j \in ReportIds : reports'[j].state = "kept" => RowIsTrue(j)'
    BY <1>1, <2>9 DEF RowIsTrue, TrueRow, Witnessed, Justified, Live, Participants
  <2>11. \A j \in ReportIds : reports[j].state # "free" => reports'[j] = reports[j]
    BY <1>3, <2>4
  <2>12. /\ standing' \in [Persons -> {"USER", "ADMIN", "gone"}] /\ barred' \subseteq Persons
         /\ circle' \subseteq circle /\ things' \in Names /\ upheavals' \in 0 .. MaxUpheavals
    BY <1>1 DEF ReportsInv, ReportsTypeOK
  <2>13. QED
    BY <1>1, <2>3, <2>4, <2>10, <2>11, <2>12, RowsFrame
<1>4. QED
  BY <1>2, <1>3 DEF InsertReport, NewRow

\* A report without what is deleted.
Without(r, gone) == [r EXCEPT !.names = @ \ gone]

LEMMA WithoutTyped ==
  ASSUME NEW r \in ReportRow, NEW gone
  PROVE  /\ Without(r, gone) \in ReportRow /\ Without(r, gone).names = r.names \ gone
         /\ Without(r, gone).state = r.state /\ Without(r, gone).by = r.by
         /\ Without(r, gone).target = r.target /\ Without(r, gone).status = r.status
         /\ Without(r, gone).handler = r.handler /\ Without(r, gone).dated = r.dated
         /\ Without(r, gone).ban = r.ban
<1>1. r.names \ gone \in Names
  BY DEF ReportRow, Names
<1>2. QED
  BY <1>1 DEF ReportRow, Without

LEMMA DeleteKeeps ==
  ASSUME ReportsInv, NEW x \in {"group", "message"}, DeleteThing(x)
  PROVE  ReportsInv'
<1> DEFINE gone == IF x = "group" /\ letter.to = NoPerson THEN {"group", "message"} ELSE {x}
<1>1. /\ things' = things \ gone
      /\ reports' = [i \in ReportIds |-> Without(reports[i], gone)]
      /\ circle' = IF x = "group" THEN {} ELSE circle
      /\ upheavals < MaxUpheavals /\ upheavals' = upheavals + 1
      /\ UNCHANGED <<standing, barred, letter, filing, review, punished, readers>>
  BY DEF DeleteThing, Upheaval, Without
<1> HIDE DEF gone
<1>2. \A i \in ReportIds :
         /\ reports[i] \in ReportRow /\ reports'[i] = Without(reports[i], gone)
         /\ reports'[i] \in ReportRow /\ reports'[i].names = reports[i].names \ gone
         /\ reports'[i].state = reports[i].state /\ reports'[i].by = reports[i].by
         /\ reports'[i].target = reports[i].target /\ reports'[i].status = reports[i].status
         /\ reports'[i].handler = reports[i].handler /\ reports'[i].dated = reports[i].dated
         /\ reports'[i].ban = reports[i].ban
  BY <1>1, ReportTyped, WithoutTyped DEF ReportsInv
<1>3. reports' \in [ReportIds -> ReportRow]
  BY <1>1, <1>2
<1>4. ASSUME NEW i \in ReportIds, reports'[i].state = "kept" PROVE RowIsTrue(i)'
  <2>1. TrueRow(reports[i])
    BY <1>2, <1>4, KeptIsTrue
  <2>2. QED
    BY <1>1, <1>2, <2>1 DEF RowIsTrue, TrueRow, Witnessed, Justified, Live, Participants
<1>5. /\ standing' \in [Persons -> {"USER", "ADMIN", "gone"}] /\ barred' \subseteq Persons
      /\ circle' \subseteq circle /\ things' \in Names /\ upheavals' \in 0 .. MaxUpheavals
      /\ review' \in [Reviewers -> ReviewRow]
  <2>1. standing' \in [Persons -> {"USER", "ADMIN", "gone"}] /\ barred' \subseteq Persons
    BY <1>1 DEF ReportsInv, ReportsTypeOK
  <2>2. circle' \subseteq circle /\ things' \in Names
    BY <1>1 DEF ReportsInv, ReportsTypeOK, Names
  <2>3. upheavals' \in 0 .. MaxUpheavals
    BY <1>1, ReportsAssumption DEF ReportsInv, ReportsTypeOK
  <2>4. review' \in [Reviewers -> ReviewRow]
    BY <1>1 DEF ReportsInv, ReportsTypeOK, ReviewRow
  <2>5. QED
    BY <2>1, <2>2, <2>3, <2>4
<1>6. QED
  BY <1>1, <1>2, <1>3, <1>4, <1>5, RowsFrame

\* What SetNull leaves of a report when the account p goes.
Cleared(r, p, gone) ==
  [r EXCEPT !.target = IF @ = p THEN NoPerson ELSE @,
            !.handler = IF @ = p THEN NoPerson ELSE @, !.names = @ \ gone]

LEMMA ClearedTyped ==
  ASSUME NEW r \in ReportRow, NEW p \in Persons, NEW gone
  PROVE  LET c == Cleared(r, p, gone)
         IN  /\ c \in ReportRow /\ c.state = r.state /\ c.by = r.by /\ c.status = r.status
             /\ c.dated = r.dated /\ c.ban = r.ban /\ c.names = r.names \ gone
             /\ c.target = (IF r.target = p THEN NoPerson ELSE r.target)
             /\ c.handler = (IF r.handler = p THEN NoPerson ELSE r.handler)
<1> DEFINE t == IF r.target = p THEN NoPerson ELSE r.target
           h == IF r.handler = p THEN NoPerson ELSE r.handler
           one == [r EXCEPT !.target = t]
           two == [one EXCEPT !.handler = h]
           three == [two EXCEPT !.names = r.names \ gone]
           Same(c) == /\ c \in ReportRow /\ c.state = r.state /\ c.by = r.by
                      /\ c.status = r.status /\ c.dated = r.dated /\ c.ban = r.ban
<1>1. t \in Someone /\ h \in Someone /\ r.names \ gone \in Names
  BY DEF ReportRow, Someone, Names
<1> HIDE DEF t, h
<1>2. Same(one) /\ one.target = t /\ one.handler = r.handler /\ one.names = r.names
  BY <1>1 DEF ReportRow
<1> HIDE DEF one
<1>3. Same(two) /\ two.target = t /\ two.handler = h /\ two.names = r.names
  BY <1>1, <1>2 DEF ReportRow
<1> HIDE DEF two
<1>4. Same(three) /\ three.target = t /\ three.handler = h /\ three.names = r.names \ gone
  BY <1>1, <1>3 DEF ReportRow
<1>5. Cleared(r, p, gone) = three
  <2>1. one.handler = r.handler /\ two.names = r.names
    BY <1>2, <1>3
  <2>2. QED
    BY <2>1 DEF Cleared, one, two, three, t, h
<1>6. QED
  BY <1>4, <1>5 DEF t, h

LEMMA EraseKeeps ==
  ASSUME ReportsInv, NEW p \in Persons, EraseAccount(p)
  PROVE  ReportsInv'
<1> DEFINE gone == IF p \in Participants THEN {"message"} ELSE {}
           Next(i) == IF reports[i].state # "kept" THEN reports[i]
                      ELSE IF reports[i].by = p THEN [NoReport EXCEPT !.state = "deleted"]
                      ELSE Cleared(reports[i], p, gone)
<1>1. /\ standing' = [standing EXCEPT ![p] = "gone"]
      /\ barred' = barred \ {p} /\ circle' = circle \ {p} /\ things' = things \ gone
      /\ upheavals < MaxUpheavals /\ upheavals' = upheavals + 1
      /\ UNCHANGED <<letter, filing, review, punished, readers>>
  BY DEF EraseAccount, Upheaval
<1>2. reports' = [i \in ReportIds |-> Next(i)]
  BY DEF EraseAccount, Clears, Cleared, Kept
<1> HIDE DEF gone
<1>3. [NoReport EXCEPT !.state = "deleted"] \in ReportRow /\ [NoReport EXCEPT !.state = "deleted"].state = "deleted"
  BY NoRowsTyped DEF ReportRow
<1>4. ASSUME NEW i \in ReportIds
      PROVE  /\ reports[i] \in ReportRow /\ reports'[i] \in ReportRow
             /\ reports[i].state # "free" => reports'[i].state # "free"
             /\ reports'[i].state = "kept" =>
                  /\ reports[i].state = "kept" /\ reports[i].by # p
                  /\ reports'[i] = Cleared(reports[i], p, gone)
  <2>1. reports[i] \in ReportRow /\ reports'[i] = Next(i)
    BY <1>2, ReportTyped DEF ReportsInv
  <2>2. CASE reports[i].state # "kept"
    BY <2>1, <2>2
  <2>3. CASE reports[i].state = "kept" /\ reports[i].by = p
    BY <2>1, <2>3, <1>3
  <2>4. CASE reports[i].state = "kept" /\ reports[i].by # p
    <3>1. reports'[i] = Cleared(reports[i], p, gone)
      BY <2>1, <2>4
    <3>2. QED
      BY <2>1, <2>4, <3>1, ClearedTyped
  <2>5. QED
    BY <2>2, <2>3, <2>4
<1>5. reports' \in [ReportIds -> ReportRow]
  <2>1. \A i \in ReportIds : Next(i) \in ReportRow
    BY <1>2, <1>4
  <2> HIDE DEF Next
  <2>2. QED
    BY <1>2, <2>1
<1> HIDE DEF Next
<1>6. ASSUME NEW i \in ReportIds, reports'[i].state = "kept"
      PROVE  LET r == reports[i]
                 c == reports'[i]
             IN  /\ c.by = r.by /\ c.status = r.status
                 /\ c.dated = r.dated /\ c.ban = r.ban /\ c.names = r.names \ gone
                 /\ c.target = (IF r.target = p THEN NoPerson ELSE r.target)
                 /\ c.handler = (IF r.handler = p THEN NoPerson ELSE r.handler)
  BY <1>4, <1>6, ClearedTyped
<1>7. ASSUME NEW i \in ReportIds, reports'[i].state = "kept" PROVE RowIsTrue(i)'
  <2>1. TrueRow(reports[i]) /\ reports[i].by # p
    BY <1>4, <1>7, KeptIsTrue
  <2>2. Live' = Live \ {p}
    BY <1>1 DEF Live, ReportsInv, ReportsTypeOK
  <2>3. Witnessed(reports[i])'
    BY <1>1, <1>6, <1>7, <2>1 DEF TrueRow, Witnessed, Participants
  <2>4. Justified(reports[i])'
    BY <1>1, <1>6, <1>7, <2>1 DEF TrueRow, Justified
  <2>5. /\ reports'[i].by \in Live'
        /\ {reports'[i].target, reports'[i].handler} \subseteq Live' \cup {NoPerson}
    BY <1>6, <1>7, <2>1, <2>2 DEF TrueRow
  <2>6. reports'[i].names \subseteq things'
    BY <1>1, <1>6, <1>7, <2>1 DEF TrueRow
  <2>7. reports'[i].by # reports'[i].target
    BY <1>6, <1>7, <2>1, ReportsAssumption DEF TrueRow, Live
  <2>8. QED
    BY <2>3, <2>4, <2>5, <2>6, <2>7 DEF RowIsTrue, TrueRow
<1>8. \A i \in ReportIds : reports[i].state # "free" =>
            /\ reports'[i].state # "free"
            /\ reports'[i].state = "kept" =>
                  reports[i].state = "kept" /\ reports'[i].target \in {reports[i].target, NoPerson}
  BY <1>4, <1>6
<1>9. /\ standing' \in [Persons -> {"USER", "ADMIN", "gone"}] /\ barred' \subseteq Persons
      /\ circle' \subseteq circle /\ things' \in Names /\ upheavals' \in 0 .. MaxUpheavals
      /\ review' \in [Reviewers -> ReviewRow]
  <2>1. standing' \in [Persons -> {"USER", "ADMIN", "gone"}] /\ barred' \subseteq Persons
    BY <1>1 DEF ReportsInv, ReportsTypeOK
  <2>2. circle' \subseteq circle /\ things' \in Names
    BY <1>1 DEF ReportsInv, ReportsTypeOK, Names
  <2>3. upheavals' \in 0 .. MaxUpheavals
    BY <1>1, ReportsAssumption DEF ReportsInv, ReportsTypeOK
  <2>4. review' \in [Reviewers -> ReviewRow]
    BY <1>1 DEF ReportsInv, ReportsTypeOK, ReviewRow
  <2>5. QED
    BY <2>1, <2>2, <2>3, <2>4
<1>10. QED
  BY <1>1, <1>5, <1>7, <1>8, <1>9, RowsFrame

\* The row with its verdict.
Closed(r, v, a) ==
  [r EXCEPT !.status = v.verdict, !.handler = a, !.dated = TRUE, !.ban = v.ban]

LEMMA ClosedTyped ==
  ASSUME NEW r \in ReportRow, NEW v \in ReviewRow, NEW a \in Persons
  PROVE  LET c == Closed(r, v, a)
         IN  /\ c \in ReportRow /\ c.state = r.state /\ c.by = r.by /\ c.target = r.target
             /\ c.names = r.names /\ c.status = v.verdict /\ c.handler = a
             /\ c.dated = TRUE /\ c.ban = v.ban
<1> DEFINE one == [r EXCEPT !.status = v.verdict]
           two == [one EXCEPT !.handler = a]
           three == [two EXCEPT !.dated = TRUE]
           four == [three EXCEPT !.ban = v.ban]
           Same(c) == /\ c \in ReportRow /\ c.state = r.state /\ c.by = r.by
                      /\ c.target = r.target /\ c.names = r.names /\ c.status = v.verdict
<1>1. v.verdict \in Verdicts /\ v.ban \in BOOLEAN /\ a \in Someone
  BY DEF ReviewRow, Someone
<1>2. Same(one)
  BY <1>1 DEF ReportRow
<1> HIDE DEF one
<1>3. Same(two) /\ two.handler = a
  BY <1>1, <1>2 DEF ReportRow
<1> HIDE DEF two
<1>4. Same(three) /\ three.handler = a /\ three.dated = TRUE
  BY <1>1, <1>3 DEF ReportRow
<1> HIDE DEF three
<1>5. Same(four) /\ four.handler = a /\ four.dated = TRUE /\ four.ban = v.ban
  BY <1>1, <1>4 DEF ReportRow
<1>6. Closed(r, v, a) = four
  BY DEF Closed, one, two, three
<1>7. QED
  BY <1>5, <1>6

LEMMA VerdictKeeps ==
  ASSUME ReportsInv, NEW a \in Reviewers, WriteVerdict(a)
  PROVE  ReportsInv'
<1> DEFINE v == review[a]
           i == v.id
<1>1. /\ v.at = "update" /\ review' = [review EXCEPT ![a] = NoReview]
      /\ UNCHANGED <<standing, barred, circle, things, letter, filing, punished, readers, upheavals>>
  BY DEF WriteVerdict
<1>2. \/ UNCHANGED reports
      \/ /\ i \in Kept /\ a \in Live
         /\ reports' = [reports EXCEPT ![i] = Closed(reports[i], v, a)]
  BY DEF WriteVerdict, Closed
<1>3. v \in ReviewRow /\ HonestReview(v) /\ a \in Persons
  BY ReviewTyped, ReportsAssumption DEF ReportsInv, ReviewIsHonest
<1> HIDE DEF v
<1>4. reports \in [ReportIds -> ReportRow] /\ review \in [Reviewers -> ReviewRow]
  BY DEF ReportsInv, ReportsTypeOK, ReportRow, ReviewRow
<1>5. review' \in [Reviewers -> ReviewRow] /\ \A b \in Reviewers : review'[b] \in {review[b], NoReview}
  BY <1>1, <1>4, NoRowsTyped
<1>6. /\ standing' \in [Persons -> {"USER", "ADMIN", "gone"}] /\ barred' \subseteq Persons
      /\ circle' \subseteq circle /\ things' \in Names /\ upheavals' \in 0 .. MaxUpheavals
  BY <1>1 DEF ReportsInv, ReportsTypeOK
<1>7. CASE UNCHANGED reports
  <2>1. \A j \in ReportIds : reports'[j].state = "kept" => RowIsTrue(j)'
    BY <1>1, <1>7, KeptIsTrue DEF RowIsTrue, TrueRow, Witnessed, Justified, Live, Participants
  <2>2. QED
    BY <1>1, <1>4, <1>5, <1>6, <1>7, <2>1, RowsFrame
<1>8. CASE i \in Kept /\ a \in Live /\ reports' = [reports EXCEPT ![i] = Closed(reports[i], v, a)]
  <2> DEFINE row == Closed(reports[i], v, a)
  <2>1. i \in ReportIds /\ reports[i].state = "kept" /\ reports[i] \in ReportRow /\ TrueRow(reports[i])
    BY <1>8, <1>4, KeptIsTrue DEF Kept
  <2>2. /\ row \in ReportRow /\ row.state = "kept" /\ row.by = reports[i].by
        /\ row.target = reports[i].target /\ row.names = reports[i].names
        /\ row.status = v.verdict /\ row.handler = a /\ row.dated = TRUE /\ row.ban = v.ban
    <3>1. /\ row \in ReportRow /\ row.state = reports[i].state /\ row.by = reports[i].by
          /\ row.target = reports[i].target /\ row.names = reports[i].names
          /\ row.status = v.verdict /\ row.handler = a /\ row.dated = TRUE /\ row.ban = v.ban
      BY <1>3, <2>1, ClosedTyped, ZenonT(40)
    <3>2. QED
      BY <2>1, <3>1
  <2>3. reports' = [reports EXCEPT ![i] = row]
    BY <1>8
  <2> HIDE DEF row, i
  <2>4. /\ reports' \in [ReportIds -> ReportRow] /\ reports'[i] = row
        /\ \A j \in ReportIds \ {i} : reports'[j] = reports[j]
    BY <1>4, <2>1, <2>2, <2>3
  <2>5. Justified(row)
    <3>1. v.verdict # "OPEN"
      BY <1>1, <1>3 DEF HonestReview
    <3>2. v.ban => v.target \in punished /\ reports[i].target \in {v.target, NoPerson}
      BY <1>1, <1>3, <1>8 DEF HonestReview, i
    <3>3. QED
      BY <2>2, <3>1, <3>2 DEF Justified
  <2>6. Witnessed(row)
    BY <2>1, <2>2 DEF TrueRow, Witnessed
  <2>7. TrueRow(row)
    BY <1>8, <2>1, <2>2, <2>5, <2>6 DEF TrueRow
  <2>8. \A j \in ReportIds : reports'[j].state = "kept" => TrueRow(reports'[j])
    BY <2>4, <2>7, KeptIsTrue
  <2>9. \A j \in ReportIds : reports'[j].state = "kept" => RowIsTrue(j)'
    BY <1>1, <2>8 DEF RowIsTrue, TrueRow, Witnessed, Justified, Live, Participants
  <2>10. \A j \in ReportIds : reports[j].state # "free" =>
            /\ reports'[j].state # "free"
            /\ reports'[j].state = "kept" =>
                  reports[j].state = "kept" /\ reports'[j].target \in {reports[j].target, NoPerson}
    BY <2>1, <2>2, <2>4
  <2>11. QED
    BY <1>1, <1>5, <1>6, <2>4, <2>9, <2>10, RowsFrame
<1>9. QED
  BY <1>2, <1>7, <1>8

-----------------------------------------------------------------------------
(* Reports: reviewReportByAdmin.                                           *)

\* A step of a review, which may ban an account, has only its new state to answer for.
LEMMA ReviewFrame ==
  ASSUME ReportsInv, NEW a \in Reviewers, NEW v \in ReviewRow, HonestReview(v)',
         review' = [review EXCEPT ![a] = v],
         barred' \subseteq Persons, punished \subseteq punished', punished' \subseteq Persons,
         UNCHANGED <<standing, circle, things, letter, reports, filing, readers, upheavals>>
  PROVE  ReportsInv'
<1>1. /\ review' \in [Reviewers -> ReviewRow] /\ review'[a] = v
      /\ \A b \in Reviewers \ {a} : review'[b] = review[b]
  BY DEF ReportsInv, ReportsTypeOK, ReviewRow
<1>2. ReportsTypeOK'
  BY <1>1 DEF ReportsInv, ReportsTypeOK, ReviewRow
<1>3. LettersCross' /\ MembersAreReaders' /\ FilingIsHonest'
  BY DEF ReportsInv, LettersCross, MembersAreReaders, FilingIsHonest, HonestFiling, Witnessed,
     Participants
<1>4. ASSUME NEW b \in Reviewers PROVE ReviewIsHonest(b)'
  <2>1. CASE b = a
    BY <1>1, <2>1 DEF ReviewIsHonest, HonestReview
  <2>2. CASE b # a
    <3>1. HonestReview(review[b])
      BY DEF ReportsInv, ReviewIsHonest
    <3>2. QED
      BY <1>1, <2>2, <3>1 DEF ReviewIsHonest, HonestReview, Kept
  <2>3. QED
    BY <2>1, <2>2
<1>5. ASSUME NEW i \in Kept' PROVE RowIsTrue(i)'
  <2>1. RowIsTrue(i)
    BY DEF ReportsInv, Kept
  <2>2. QED
    BY <2>1 DEF RowIsTrue, TrueRow, Live, Witnessed, Justified, Participants
<1>6. QED
  BY <1>2, <1>3, <1>4, <1>5 DEF ReportsInv

LEMMA NoReviewIsHonest == NoReview \in ReviewRow /\ HonestReview(NoReview) /\ HonestReview(NoReview)'
  BY NoRowsTyped DEF HonestReview

\* The review, moved on to another query.
StepsTo(v, x) == [v EXCEPT !.at = x]

LEMMA ReviewMoves ==
  ASSUME NEW v \in ReviewRow, NEW x \in {"idle", "read", "ban", "bar", "update"}
  PROVE  /\ StepsTo(v, x) \in ReviewRow /\ StepsTo(v, x).at = x /\ StepsTo(v, x).id = v.id
         /\ StepsTo(v, x).verdict = v.verdict /\ StepsTo(v, x).ban = v.ban
         /\ StepsTo(v, x).target = v.target
  BY DEF ReviewRow, StepsTo

LEMMA PressKeeps ==
  ASSUME ReportsInv, NEW a \in Reviewers, PressVerdict(a)
  PROVE  ReportsInv'
<1>1. PICK i \in ReportIds, verdict \in Verdicts \ {"OPEN"}, ban \in BOOLEAN :
        /\ reports[i].state # "free"
        /\ review' = [review EXCEPT ![a] = [NoReview EXCEPT
                          !.at = "read", !.id = i, !.verdict = verdict, !.ban = ban]]
  BY DEF PressVerdict
<1> DEFINE one == [NoReview EXCEPT !.at = "read"]
           two == [one EXCEPT !.id = i]
           three == [two EXCEPT !.verdict = verdict]
           four == [three EXCEPT !.ban = ban]
<1>2. one \in ReviewRow /\ one.at = "read"
  BY NoRowsTyped DEF ReviewRow
<1>3. i \in 0 .. MaxReports
  BY ReportsAssumption DEF ReportIds
<1> HIDE DEF one
<1>4. two \in ReviewRow /\ two.at = "read" /\ two.id = i
  BY <1>2, <1>3 DEF ReviewRow
<1> HIDE DEF two
<1>5. three \in ReviewRow /\ three.at = "read" /\ three.id = i /\ three.verdict = verdict
  BY <1>4 DEF ReviewRow
<1> HIDE DEF three
<1>6. four \in ReviewRow /\ four.at = "read" /\ four.id = i /\ four.verdict = verdict
  BY <1>5 DEF ReviewRow
<1>7. review' = [review EXCEPT ![a] = four]
  BY <1>1 DEF one, two, three
<1> HIDE DEF four
<1>8. HonestReview(four)'
  BY <1>1, <1>6 DEF HonestReview, PressVerdict
<1>9. QED
  BY <1>6, <1>7, <1>8, ReviewFrame DEF PressVerdict, ReportsInv, ReportsTypeOK

LEMMA ReadReportKeeps ==
  ASSUME ReportsInv, NEW a \in Reviewers, ReadReport(a)
  PROVE  ReportsInv'
<1> DEFINE v == review[a]
           row == reports[v.id]
<1>1. v.at = "read" /\ v \in ReviewRow /\ HonestReview(v)
  BY ReviewTyped DEF ReadReport, ReportsInv, ReviewIsHonest
<1>2. v.id \in ReportIds /\ v.verdict # "OPEN" /\ row.state # "free" /\ row.target \in Someone
  BY <1>1, ReportTyped DEF HonestReview, ReportsInv
<1>3. /\ barred' \subseteq Persons /\ punished \subseteq punished' /\ punished' \subseteq Persons
      /\ UNCHANGED <<standing, circle, things, letter, reports, filing, readers, upheavals, punished>>
  BY DEF ReadReport, ReportsInv, ReportsTypeOK
<1>4. CASE row.state # "kept" \/ (v.ban /\ row.target = NoPerson)
  <2>1. review' = [review EXCEPT ![a] = NoReview]
    BY <1>4 DEF ReadReport
  <2>2. QED
    BY <1>3, <2>1, NoReviewIsHonest, ReviewFrame
<1>5. CASE row.state = "kept" /\ v.ban /\ row.target # NoPerson
  <2> DEFINE one == StepsTo(v, "ban")
             two == [one EXCEPT !.target = row.target]
  <2>1. review' = [review EXCEPT ![a] = two]
    BY <1>5 DEF ReadReport, StepsTo
  <2>2. one \in ReviewRow /\ one.at = "ban" /\ one.id = v.id /\ one.verdict = v.verdict /\ one.ban = v.ban
    BY <1>1, ReviewMoves
  <2> HIDE DEF one
  <2>3. /\ two \in ReviewRow /\ two.at = "ban" /\ two.id = v.id /\ two.verdict = v.verdict
        /\ two.ban = v.ban /\ two.target = row.target
    BY <1>2, <2>2 DEF ReviewRow
  <2> HIDE DEF two
  <2>4. PICK w \in ReviewRow : w = two
    BY <2>3
  <2>5. HonestReview(w)'
    BY <1>2, <1>3, <1>5, <2>3, <2>4 DEF HonestReview, Someone
  <2>6. QED
    BY <1>3, <2>1, <2>4, <2>5, ReviewFrame
<1>6. CASE row.state = "kept" /\ ~v.ban
  <2> DEFINE one == StepsTo(v, "update")
  <2>1. review' = [review EXCEPT ![a] = one]
    BY <1>6 DEF ReadReport, StepsTo
  <2>2. one \in ReviewRow /\ one.at = "update" /\ one.id = v.id /\ one.verdict = v.verdict /\ one.ban = v.ban
    BY <1>1, ReviewMoves
  <2> HIDE DEF one
  <2>3. PICK w \in ReviewRow : w = one
    BY <2>2
  <2>4. HonestReview(w)'
    BY <1>2, <1>3, <1>6, <2>2, <2>3 DEF HonestReview
  <2>5. QED
    BY <1>3, <2>1, <2>3, <2>4, ReviewFrame
<1>7. QED
  BY <1>4, <1>5, <1>6

LEMMA ReadTargetKeeps ==
  ASSUME ReportsInv, NEW a \in Reviewers, ReadTarget(a)
  PROVE  ReportsInv'
<1> DEFINE v == review[a]
           one == StepsTo(v, "bar")
<1>1. v.at = "ban" /\ v \in ReviewRow /\ HonestReview(v)
  BY ReviewTyped DEF ReadTarget, ReportsInv, ReviewIsHonest
<1>2. review' = [review EXCEPT ![a] = one] \/ review' = [review EXCEPT ![a] = NoReview]
  BY DEF ReadTarget, NextStep, StepsTo
<1>3. /\ barred' \subseteq Persons /\ punished \subseteq punished' /\ punished' \subseteq Persons
      /\ UNCHANGED <<standing, circle, things, letter, reports, filing, readers, upheavals, punished>>
  BY DEF ReadTarget, ReportsInv, ReportsTypeOK
<1>4. /\ one \in ReviewRow /\ one.at = "bar" /\ one.id = v.id /\ one.verdict = v.verdict
      /\ one.ban = v.ban /\ one.target = v.target
  BY <1>1, ReviewMoves
<1> HIDE DEF one
<1>5. PICK w \in ReviewRow : w = one
  BY <1>4
<1>6. HonestReview(w)'
  BY <1>1, <1>3, <1>4, <1>5 DEF HonestReview, Kept
<1>7. QED
  BY <1>2, <1>3, <1>5, <1>6, NoReviewIsHonest, ReviewFrame

LEMMA BanKeeps ==
  ASSUME ReportsInv, NEW a \in Reviewers, BanTarget(a)
  PROVE  ReportsInv'
<1> DEFINE v == review[a]
           one == StepsTo(v, "update")
<1>1. v.at = "bar" /\ v \in ReviewRow /\ HonestReview(v)
  BY ReviewTyped DEF BanTarget, ReportsInv, ReviewIsHonest
<1>2. \/ v.target \in punished' /\ review' = [review EXCEPT ![a] = one]
      \/ review' = [review EXCEPT ![a] = NoReview]
  BY DEF BanTarget, StepsTo
<1>3. /\ barred' \subseteq Persons /\ punished \subseteq punished' /\ punished' \subseteq Persons
      /\ UNCHANGED <<standing, circle, things, letter, reports, filing, readers, upheavals>>
  BY DEF BanTarget, ReportsInv, ReportsTypeOK, Live
<1>4. /\ one \in ReviewRow /\ one.at = "update" /\ one.id = v.id /\ one.verdict = v.verdict
      /\ one.ban = v.ban /\ one.target = v.target
  BY <1>1, ReviewMoves
<1> HIDE DEF one
<1>5. PICK w \in ReviewRow : w = one
  BY <1>4
<1>6. v.target \in punished' => HonestReview(w)'
  BY <1>1, <1>3, <1>4, <1>5 DEF HonestReview, Kept
<1>7. QED
  BY <1>2, <1>3, <1>5, <1>6, NoReviewIsHonest, ReviewFrame

-----------------------------------------------------------------------------
(* Reports: the theorems.                                                  *)

LEMMA ReportsStepKeeps == ReportsInv /\ [ReportsNext]_reportsVars => ReportsInv'
<1> SUFFICES ASSUME ReportsInv, [ReportsNext]_reportsVars PROVE ReportsInv'
  OBVIOUS
<1>1. CASE UNCHANGED reportsVars
  <2>1. filing \in FilingRow /\ HonestFiling(filing)'
    BY <1>1, FilingTyped DEF reportsVars, ReportsInv, FilingIsHonest, HonestFiling, Witnessed, Participants
  <2>2. HonestFiling(filing)
    BY DEF ReportsInv, FilingIsHonest
  <2>3. QED
    BY <1>1, <2>1, <2>2, FilingFrame DEF reportsVars
<1>2. CASE ReportsNext
  BY <1>2, SubmitKeeps, CheckKeeps, InsertKeeps, PressKeeps, ReadReportKeeps, ReadTargetKeeps, BanKeeps,
     VerdictKeeps, EraseKeeps, DeleteKeeps, LeaveKeeps, UnbanKeeps DEF ReportsNext
<1>3. QED
  BY <1>1, <1>2

\* The invariant above holds in every state that requests and deletions reach.
THEOREM ReportsInductive == ReportsSpec => []ReportsInv
  BY ReportsInitInv, ReportsStepKeeps, PTL DEF ReportsSpec

\* The reports, the request that makes one and the reviews only ever hold values of their
\* types, whoever is deleted meanwhile (createReport, reviewReportByAdmin).
THEOREM ReportsTypeCorrect == ReportsSpec => []ReportsTypeOK
<1>1. ReportsInv => ReportsTypeOK
  BY DEF ReportsInv
<1>2. QED
  BY <1>1, ReportsInductive, PTL

\* However createReport and reviewReportByAdmin race with deletions and bans, a kept report
\* is about somebody else and about what its reporter could read, names nothing that is
\* gone, and says "banned" only of an account that was banned (or is gone).
THEOREM ReportsStayTrue == ReportsSpec => []ReportsAreTrue
<1>1. ReportsInv => ReportsAreTrue
  BY DEF ReportsInv, ReportsAreTrue, RowIsTrue, TrueRow
<1>2. QED
  BY <1>1, ReportsInductive, PTL

-----------------------------------------------------------------------------
(* Calls: the inductive invariant, of a browser whose calls never ran into *)
(* each other; n is how often cameras have been switched.                  *)

\* Setups that have made their connection.
Late(b) == {s \in b.setups : s.at \notin {"permission", "select"}}

OneSetsUp(b) == \A s, t \in Late(b) : s = t

\* The call is that of the setup or has been hung up; a setup that waits for its devices
\* has none, and one that is answered after the call was hung up has lost them.
SetupsFollow(b) ==
  \A s \in Late(b) :
    /\ b.peer \in {s.peer, NoLink}
    /\ s.peer \in b.working => b.peer = s.peer
    /\ s.at = "media" => b.stream = {}
    /\ s.at = "emit" /\ b.peer = NoLink => b.stream = {}

LinksWork(b) == b.peer # NoLink => b.peer \in b.working

IdleHoldsNothing(b) ==
  b.peer = NoLink => b.flips = {} /\ (Late(b) = {} => b.stream = {})

NothingElseIsLive(b) == b.flips = {} => b.live = b.stream

\* One camera is switched at a time; while the connection is told, both are live.
FlipsFollow(b, n) ==
  \A f \in b.flips :
    /\ b.flips = {f} /\ b.switching
    /\ f.from \in b.stream /\ f.kept = b.stream \ {f.from}
    /\ f.to \notin b.stream /\ f.to[2] <= MaxDials + n
    /\ b.live = b.stream \cup (IF f.at = "replace" THEN {f.to} ELSE {})
    /\ f.at = "replace" => f.peer = b.peer

StreamIsOld(b, n) == \A x \in b.stream : x[2] <= MaxDials + n

PhoneInv(b, n) ==
  /\ OneSetsUp(b) /\ SetupsFollow(b) /\ LinksWork(b) /\ IdleHoldsNothing(b)
  /\ NothingElseIsLive(b) /\ FlipsFollow(b, n) /\ StreamIsOld(b, n)

CallsInv ==
  /\ CallsTypeOK
  /\ \A p \in Parties \ overlaid : PhoneInv(phone[p], flipped)

Setups == [peer : Links, answers : BOOLEAN, at : Stages]
Flips == [peer : Links \cup {NoLink}, from : Inputs, to : Inputs, kept : SUBSET Inputs,
          at : {"media", "replace"}]

\* A browser with these values.
Holds(c, peer, stream, switching, working, live, setups, flips) ==
  /\ c \in Phones
  /\ c.peer = peer /\ c.stream = stream /\ c.switching = switching /\ c.working = working
  /\ c.live = live /\ c.setups = setups /\ c.flips = flips

LEMMA PhoneTyped ==
  ASSUME NEW b \in Phones
  PROVE  /\ b.peer \in Links \cup {NoLink} /\ b.stream \in SUBSET Inputs
         /\ b.switching \in BOOLEAN /\ b.reconnecting \in BOOLEAN /\ b.ringing \in BOOLEAN
         /\ b.working \in SUBSET Links /\ b.live \in SUBSET Inputs
         /\ b.setups \in SUBSET Setups /\ b.flips \in SUBSET Flips
  BY DEF Phones, Setups, Flips

\* What the handlers leave of a browser.
LEMMA HungUpHolds ==
  ASSUME NEW b \in Phones
  PROVE  Holds(HungUp(b), NoLink, {}, FALSE, b.working \ {b.peer}, b.live \ b.stream, b.setups, b.flips)
<1>1. /\ b.working \ {b.peer} \in SUBSET Links /\ b.live \ b.stream \in SUBSET Inputs
      /\ {} \in SUBSET Inputs /\ NoLink \in Links \cup {NoLink} /\ FALSE \in BOOLEAN
  BY PhoneTyped
<1>2. QED
  BY <1>1, Zenon DEF Holds, HungUp, Phones

LEMMA SetupsHold ==
  ASSUME NEW b \in Phones, NEW X \in SUBSET Setups
  PROVE  Holds([b EXCEPT !.setups = X], b.peer, b.stream, b.switching, b.working, b.live, X, b.flips)
  BY Zenon DEF Holds, Phones, Setups

LEMMA RingingHolds ==
  ASSUME NEW b \in Phones, NEW r \in BOOLEAN, NEW X \in SUBSET Setups
  PROVE  /\ Holds([b EXCEPT !.ringing = r, !.setups = X],
                  b.peer, b.stream, b.switching, b.working, b.live, X, b.flips)
         /\ Holds([b EXCEPT !.ringing = r],
                  b.peer, b.stream, b.switching, b.working, b.live, b.setups, b.flips)
         /\ Holds([b EXCEPT !.reconnecting = r],
                  b.peer, b.stream, b.switching, b.working, b.live, b.setups, b.flips)
  BY Zenon DEF Holds, Phones, Setups

LEMMA ConnectionHolds ==
  ASSUME NEW b \in Phones, NEW n \in Links \cup {NoLink}, NEW W \in SUBSET Links
  PROVE  Holds([b EXCEPT !.peer = n, !.working = W],
               n, b.stream, b.switching, W, b.live, b.setups, b.flips)
  BY Zenon DEF Holds, Phones

LEMMA DevicesHold ==
  ASSUME NEW b \in Phones, NEW S \in SUBSET Inputs, NEW L \in SUBSET Inputs
  PROVE  Holds([b EXCEPT !.stream = S, !.live = L],
               b.peer, S, b.switching, b.working, L, b.setups, b.flips)
  BY Zenon DEF Holds, Phones

LEMMA FlipsHold ==
  ASSUME NEW b \in Phones, NEW S \in SUBSET Inputs, NEW L \in SUBSET Inputs,
         NEW r \in BOOLEAN, NEW F \in SUBSET Flips
  PROVE  /\ Holds([b EXCEPT !.switching = r, !.flips = F],
                  b.peer, b.stream, r, b.working, b.live, b.setups, F)
         /\ Holds([b EXCEPT !.live = L, !.flips = F],
                  b.peer, b.stream, b.switching, b.working, L, b.setups, F)
         /\ Holds([b EXCEPT !.live = L, !.stream = S, !.switching = r, !.flips = F],
                  b.peer, S, r, b.working, L, b.setups, F)
  BY Zenon DEF Holds, Phones, Flips

-----------------------------------------------------------------------------
(* Calls: what keeps the invariant of a browser.                           *)

\* Early setups may come and go.
LEMMA SameCall ==
  ASSUME NEW b \in Phones, NEW c, NEW X, NEW n \in Nat, NEW m \in Nat, n <= m,
         Holds(c, b.peer, b.stream, b.switching, b.working, b.live, X, b.flips),
         Late(c) = Late(b), PhoneInv(b, n)
  PROVE  PhoneInv(c, m)
<1>1. /\ c.peer = b.peer /\ c.stream = b.stream /\ c.switching = b.switching
      /\ c.working = b.working /\ c.live = b.live /\ c.flips = b.flips
  BY DEF Holds
<1>2. OneSetsUp(c) /\ SetupsFollow(c) /\ LinksWork(c) /\ IdleHoldsNothing(c) /\ NothingElseIsLive(c)
  BY <1>1 DEF PhoneInv, OneSetsUp, SetupsFollow, LinksWork, IdleHoldsNothing, NothingElseIsLive
<1>3. MaxDials \in Nat
  BY CallsAssumption
<1>4. FlipsFollow(c, m)
  <2> SUFFICES ASSUME NEW f \in c.flips PROVE FlipsFollow(c, m)!(f)
    BY DEF FlipsFollow
  <2>1. f \in b.flips
    BY <1>1
  <2>2. FlipsFollow(b, n)!(f)
    BY <2>1 DEF PhoneInv, FlipsFollow
  <2>3. f.to[2] <= MaxDials + m
    <3>1. f.to \in Inputs
      BY <2>1, PhoneTyped DEF Flips
    <3>2. f.to[2] \in Nat
      BY <3>1, <1>3, CallsAssumption DEF Inputs, Microphone, Camera, Links
    <3>3. QED
      BY <2>2, <3>2, <1>3
  <2>4. QED
    BY <1>1, <2>2, <2>3
<1>5. StreamIsOld(c, m)
  <2> SUFFICES ASSUME NEW x \in c.stream PROVE x[2] <= MaxDials + m
    BY DEF StreamIsOld
  <2>1. x \in b.stream
    BY <1>1
  <2>2. x[2] <= MaxDials + n
    BY <2>1 DEF PhoneInv, StreamIsOld
  <2>3. x[2] \in Nat
    BY <2>1, <1>3, PhoneTyped, CallsAssumption DEF Inputs, Microphone, Camera, Links
  <2>4. QED
    BY <2>2, <2>3, <1>3
<1>6. QED
  BY <1>2, <1>4, <1>5 DEF PhoneInv

\* A step of one browser: the others only see that cameras have been switched.
LEMMA BrowserFrame ==
  ASSUME CallsInv, NEW p \in Parties, NEW b \in Phones, phone' = [phone EXCEPT ![p] = b],
         overlaid \subseteq overlaid', overlaid' \subseteq Parties,
         signals' \subseteq [to : Parties, kind : {"offer", "decline", "end"}],
         dials' \in 0 .. MaxDials, flipped' \in 0 .. MaxFlips, flipped <= flipped',
         hitches' \in 0 .. MaxHitches,
         p \notin overlaid' => PhoneInv(b, flipped')
  PROVE  CallsInv'
<1>1. phone' \in [Parties -> Phones] /\ phone'[p] = b /\ \A q \in Parties \ {p} : phone'[q] = phone[q]
  BY DEF CallsInv, CallsTypeOK
<1>2. CallsTypeOK'
  BY <1>1 DEF CallsTypeOK
<1>3. ASSUME NEW q \in Parties, q \notin overlaid' PROVE PhoneInv(phone'[q], flipped')
  <2>1. CASE q = p
    BY <1>1, <1>3, <2>1
  <2>2. CASE q # p
    <3> DEFINE c == phone[q]
    <3>1. c \in Phones /\ PhoneInv(c, flipped) /\ phone'[q] = c
      BY <1>1, <1>3, <2>2 DEF CallsInv, CallsTypeOK
    <3>2. flipped \in Nat /\ flipped' \in Nat
      BY CallsAssumption DEF CallsInv, CallsTypeOK
    <3> HIDE DEF c
    <3>3. Holds(c, c.peer, c.stream, c.switching, c.working, c.live, c.setups, c.flips)
      BY <3>1 DEF Holds
    <3>4. QED
      BY <3>1, <3>2, <3>3, SameCall
  <2>3. QED
    BY <2>1, <2>2
<1>4. QED
  BY <1>2, <1>3 DEF CallsInv

\* cleanupActiveCall stops what the call used, unless its camera is being switched.
LEMMA HungUpKeeps ==
  ASSUME NEW b \in Phones, NEW n, PhoneInv(b, n), b.flips = {}
  PROVE  PhoneInv(HungUp(b), n) /\ HungUp(b).live = {}
<1> DEFINE c == HungUp(b)
<1>1. /\ c.peer = NoLink /\ c.stream = {} /\ c.switching = FALSE /\ c.working = b.working \ {b.peer}
      /\ c.live = b.live \ b.stream /\ c.setups = b.setups /\ c.flips = b.flips
  BY HungUpHolds DEF Holds
<1> HIDE DEF c
<1>2. Late(c) = Late(b)
  BY <1>1 DEF Late
<1>3. c.live = {}
  BY <1>1 DEF PhoneInv, NothingElseIsLive
<1>4. OneSetsUp(c) /\ SetupsFollow(c)
  BY <1>1, <1>2 DEF PhoneInv, OneSetsUp, SetupsFollow
<1>5. LinksWork(c) /\ IdleHoldsNothing(c) /\ NothingElseIsLive(c) /\ FlipsFollow(c, n) /\ StreamIsOld(c, n)
  BY <1>1, <1>2, <1>3 DEF LinksWork, IdleHoldsNothing, NothingElseIsLive, FlipsFollow, StreamIsOld
<1>6. QED
  BY <1>3, <1>4, <1>5 DEF PhoneInv, c

\* A setup ends: if it was the only one to have made a connection, nothing may be left.
LEMMA EndsKeeps ==
  ASSUME NEW b \in Phones, NEW s \in b.setups, NEW n, PhoneInv(b, n),
         s \in Late(b) /\ b.peer = NoLink => b.stream = {}
  PROVE  Ends(b, s) \in Phones /\ Ends(b, s).peer = b.peer /\ Ends(b, s).flips = b.flips
         /\ PhoneInv(Ends(b, s), n)
<1> DEFINE c == Ends(b, s)
<1>1. b.setups \ {s} \in SUBSET Setups
  BY PhoneTyped
<1>2. /\ c \in Phones /\ c.peer = b.peer /\ c.stream = b.stream /\ c.switching = b.switching
      /\ c.working = b.working /\ c.live = b.live /\ c.setups = b.setups \ {s} /\ c.flips = b.flips
  BY <1>1, SetupsHold DEF Holds, Ends
<1> HIDE DEF c
<1>3. Late(c) = Late(b) \ {s}
  BY <1>2 DEF Late
<1>4. OneSetsUp(c) /\ SetupsFollow(c)
  BY <1>2, <1>3 DEF PhoneInv, OneSetsUp, SetupsFollow
<1>5. IdleHoldsNothing(c)
  BY <1>2, <1>3 DEF PhoneInv, IdleHoldsNothing, OneSetsUp
<1>6. LinksWork(c) /\ NothingElseIsLive(c) /\ FlipsFollow(c, n) /\ StreamIsOld(c, n)
  BY <1>2 DEF PhoneInv, LinksWork, NothingElseIsLive, FlipsFollow, StreamIsOld
<1>7. QED
  BY <1>2, <1>4, <1>5, <1>6 DEF PhoneInv, c

LEMMA GoesTyped ==
  ASSUME NEW b \in Phones, NEW s \in b.setups, NEW x \in Stages
  PROVE  Goes(b, s, x) \in Phones /\ Goes(b, s, x).flips = b.flips
<1> DEFINE w == [s EXCEPT !.at = x]
           X == (b.setups \ {s}) \cup {w}
<1>1. w \in Setups
  BY PhoneTyped DEF Setups, Stages
<1> HIDE DEF w
<1>2. X \in SUBSET Setups
  BY <1>1, PhoneTyped
<1>3. Goes(b, s, x) = [b EXCEPT !.setups = X]
  BY DEF Goes, w
<1> HIDE DEF X
<1>4. QED
  BY <1>2, <1>3, SetupsHold DEF Holds

\* A setup goes on to a stage after its connection is made.
LEMMA GoesHolds ==
  ASSUME NEW b \in Phones, NEW s \in b.setups, \A t \in Late(b) : t = s,
         NEW x \in {"media", "devices", "describe", "emit"}
  PROVE  /\ Goes(b, s, x) \in Phones
         /\ Holds(Goes(b, s, x), b.peer, b.stream, b.switching, b.working, b.live,
                  Goes(b, s, x).setups, b.flips)
         /\ \E w \in Setups : Late(Goes(b, s, x)) = {w} /\ w.peer = s.peer /\ w.at = x
<1> DEFINE w == [s EXCEPT !.at = x]
           X == (b.setups \ {s}) \cup {w}
           c == Goes(b, s, x)
<1>1. s \in Setups /\ b.setups \subseteq Setups
  BY PhoneTyped
<1>2. w \in Setups /\ w.peer = s.peer /\ w.at = x
  BY <1>1 DEF Setups, Stages
<1> HIDE DEF w
<1>3. X \in SUBSET Setups
  BY <1>1, <1>2
<1>4. c = [b EXCEPT !.setups = X]
  BY DEF Goes, w
<1> HIDE DEF X, c
<1>5. Holds(c, b.peer, b.stream, b.switching, b.working, b.live, X, b.flips)
  BY <1>3, <1>4, SetupsHold
<1>6. Late(c) = {w}
  <2>1. c.setups = X
    BY <1>5 DEF Holds
  <2>2. QED
    BY <1>2, <2>1 DEF Late, X
<1>7. QED
  BY <1>2, <1>5, <1>6 DEF Holds, c

\* A setup that goes on with what it has.
LEMMA GoesKeeps ==
  ASSUME NEW b \in Phones, NEW s \in Late(b), NEW n, PhoneInv(b, n),
         NEW x \in {"describe", "emit"}, x = "emit" => b.peer # NoLink
  PROVE  Goes(b, s, x) \in Phones /\ Goes(b, s, x).peer = b.peer /\ Goes(b, s, x).flips = b.flips
         /\ PhoneInv(Goes(b, s, x), n)
<1> DEFINE c == Goes(b, s, x)
<1>1. s \in b.setups /\ \A t \in Late(b) : t = s
  BY DEF Late, PhoneInv, OneSetsUp
<1>2. /\ c \in Phones /\ c.peer = b.peer /\ c.stream = b.stream /\ c.switching = b.switching
      /\ c.working = b.working /\ c.live = b.live /\ c.flips = b.flips
  BY <1>1, GoesHolds DEF Holds
<1>3. PICK w \in Setups : Late(c) = {w} /\ w.peer = s.peer /\ w.at = x
  BY <1>1, GoesHolds
<1> HIDE DEF c
<1>4. OneSetsUp(c) /\ SetupsFollow(c)
  BY <1>1, <1>2, <1>3 DEF PhoneInv, OneSetsUp, SetupsFollow
<1>5. LinksWork(c) /\ IdleHoldsNothing(c) /\ NothingElseIsLive(c) /\ FlipsFollow(c, n) /\ StreamIsOld(c, n)
  BY <1>1, <1>2, <1>3 DEF PhoneInv, LinksWork, IdleHoldsNothing, NothingElseIsLive, FlipsFollow, StreamIsOld
<1>6. QED
  BY <1>2, <1>4, <1>5 DEF PhoneInv, c

-----------------------------------------------------------------------------
(* Calls: the handlers.                                                    *)

OtherBounds ==
  /\ signals' \subseteq [to : Parties, kind : {"offer", "decline", "end"}]
  /\ dials' \in 0 .. MaxDials /\ flipped' \in 0 .. MaxFlips /\ flipped <= flipped'
  /\ hitches' \in 0 .. MaxHitches

LEMMA BecomeKeeps ==
  ASSUME CallsInv, NEW p \in Parties, NEW b \in Phones, Become(p, b), OtherBounds,
         p \notin overlaid /\ (b.peer = NoLink => b.flips = {}) => PhoneInv(b, flipped')
  PROVE  CallsInv'
  BY BrowserFrame DEF Become, OtherBounds, CallsInv, CallsTypeOK

LEMMA CallBounds ==
  ASSUME CallsInv
  PROVE  /\ UNCHANGED signals => signals' \subseteq [to : Parties, kind : {"offer", "decline", "end"}]
         /\ UNCHANGED dials => dials' \in 0 .. MaxDials
         /\ UNCHANGED flipped => flipped' \in 0 .. MaxFlips /\ flipped <= flipped'
         /\ UNCHANGED hitches => hitches' \in 0 .. MaxHitches
         /\ Hitch => hitches' \in 0 .. MaxHitches
  BY CallsAssumption DEF CallsInv, CallsTypeOK, Hitch

LEMMA SignalTyped ==
  ASSUME CallsInv, NEW p \in Parties, NEW kind \in {"offer", "decline", "end"}
  PROVE  /\ Other(p) \in Parties
         /\ Signal(p, kind) => signals' \subseteq [to : Parties, kind : {"offer", "decline", "end"}]
<1>1. \E q \in Parties : q # p
  BY CallsAssumption
<1>2. Other(p) \in Parties
  BY <1>1 DEF Other
<1>3. QED
  BY <1>2 DEF Signal, CallsInv, CallsTypeOK

LEMMA BrowserTyped ==
  ASSUME CallsInv, NEW p \in Parties
  PROVE  phone[p] \in Phones /\ (p \notin overlaid => PhoneInv(phone[p], flipped))
  BY DEF CallsInv, CallsTypeOK

\* Hanging up, whoever asks for it.
LEMMA HangKeeps ==
  ASSUME CallsInv, NEW p \in Parties, Become(p, HungUp(phone[p])), OtherBounds, UNCHANGED flipped
  PROVE  CallsInv'
<1>1. PICK b \in Phones : b = phone[p]
  BY BrowserTyped
<1>2. HungUp(b) \in Phones /\ HungUp(b).peer = NoLink /\ HungUp(b).flips = b.flips
  BY HungUpHolds DEF Holds
<1>3. p \notin overlaid /\ b.flips = {} => PhoneInv(HungUp(b), flipped)
  BY <1>1, BrowserTyped, HungUpKeeps
<1>4. QED
  BY <1>1, <1>2, <1>3, BecomeKeeps

LEMMA GiveUpKeeps ==
  ASSUME CallsInv, NEW p \in Parties, NEW s \in phone[p].setups, GiveUpCall(p, s), OtherBounds,
         UNCHANGED flipped
  PROVE  CallsInv'
<1>1. PICK b \in Phones : b = phone[p]
  BY BrowserTyped
<1> DEFINE c == HungUp(b)
<1>2. c \in Phones /\ c.peer = NoLink /\ c.stream = {} /\ c.setups = b.setups /\ c.flips = b.flips
  BY HungUpHolds DEF Holds
<1>3. p \notin overlaid /\ b.flips = {} => PhoneInv(c, flipped)
  BY <1>1, BrowserTyped, HungUpKeeps
<1>4. Become(p, Ends(c, s)) /\ s \in c.setups
  BY <1>1, <1>2 DEF GiveUpCall
<1> HIDE DEF c
<1>5. p \notin overlaid /\ b.flips = {} => PhoneInv(Ends(c, s), flipped)
  BY <1>2, <1>3, <1>4, EndsKeeps
<1>6. Ends(c, s) \in Phones /\ Ends(c, s).peer = c.peer /\ Ends(c, s).flips = c.flips
  <2>1. c.setups \ {s} \in SUBSET Setups
    BY <1>2, PhoneTyped
  <2>2. QED
    BY <1>2, <2>1, SetupsHold DEF Ends, Holds
<1>7. QED
  BY <1>2, <1>4, <1>5, <1>6, BecomeKeeps

\* A new setup is early, whoever dials.
LEMMA DialKeeps ==
  ASSUME CallsInv, NEW p \in Parties, NEW accepts \in BOOLEAN, Dial(p, accepts)
  PROVE  CallsInv'
<1>1. PICK b \in Phones : b = phone[p]
  BY BrowserTyped
<1> DEFINE s == [peer |-> dials + 1, answers |-> accepts,
                 at |-> IF accepts THEN "select" ELSE "permission"]
           X == b.setups \cup {s}
           r == b.ringing /\ ~accepts
           c == [b EXCEPT !.ringing = r, !.setups = X]
<1>2. Become(p, c) /\ OtherBounds /\ UNCHANGED flipped
  <2>1. dials' \in 0 .. MaxDials
    BY CallsAssumption DEF Dial, CallsInv, CallsTypeOK
  <2>2. QED
    BY <1>1, <2>1, CallBounds DEF Dial, OtherBounds
<1>3. s \in Setups /\ s.at \in {"permission", "select"}
  BY CallsAssumption DEF Dial, CallsInv, CallsTypeOK, Setups, Stages, Links
<1>4. r \in BOOLEAN /\ X \in SUBSET Setups
  BY <1>3, PhoneTyped
<1> HIDE DEF r
<1>5. Holds(c, b.peer, b.stream, b.switching, b.working, b.live, X, b.flips)
  BY <1>4, RingingHolds
<1> HIDE DEF c
<1>6. Late(c) = Late(b)
  BY <1>3, <1>5 DEF Holds, Late
<1>7. p \notin overlaid => PhoneInv(c, flipped')
  <2>1. flipped \in Nat /\ flipped' = flipped
    BY <1>2, CallsAssumption DEF CallsInv, CallsTypeOK
  <2> HIDE DEF X
  <2>2. p \notin overlaid => PhoneInv(b, flipped)
    BY <1>1, BrowserTyped
  <2>3. flipped <= flipped
    BY <2>1
  <2>4. p \notin overlaid => PhoneInv(c, flipped)
    BY <1>5, <1>6, <2>1, <2>2, <2>3, SameCall
  <2>5. QED
    BY <2>1, <2>4
<1>8. c \in Phones
  BY <1>5 DEF Holds
<1>9. QED
  BY <1>2, <1>7, <1>8, BecomeKeeps

LEMMA ConnectKeeps == ASSUME CallsInv, NEW p \in Parties, ConnectCall(p) PROVE CallsInv'
<1>1. PICK s \in phone[p].setups :
        LET b == IF s.answers THEN phone[p] ELSE HungUp(phone[p])
            others == {o \in b.setups \ {s} : o.at \notin {"permission", "select"}}
            ready == [Goes(b, s, "media") EXCEPT !.peer = s.peer, !.working = @ \cup {s.peer}]
        IN /\ s.at \in {"permission", "select"}
           /\ phone' = [phone EXCEPT ![p] = ready]
           /\ overlaid' = IF b.peer # NoLink \/ others # {} \/ b.flips # {}
                          THEN overlaid \cup {p} ELSE overlaid
           /\ UNCHANGED <<signals, dials, flipped, hitches>>
  BY DEF ConnectCall
<1>2. PICK b \in Phones : b = IF s.answers THEN phone[p] ELSE HungUp(phone[p])
  BY BrowserTyped, HungUpHolds DEF Holds
<1> DEFINE others == {o \in b.setups \ {s} : o.at \notin {"permission", "select"}}
           c == Goes(b, s, "media")
           ready == [c EXCEPT !.peer = s.peer, !.working = c.working \cup {s.peer}]
<1>3. /\ s.at \in {"permission", "select"} /\ phone' = [phone EXCEPT ![p] = ready]
      /\ overlaid' = IF b.peer # NoLink \/ others # {} \/ b.flips # {} THEN overlaid \cup {p} ELSE overlaid
      /\ UNCHANGED <<signals, dials, flipped, hitches>>
  BY <1>1, <1>2
<1>4. s \in b.setups /\ s \in Setups /\ s.peer \in Links
  <2>1. phone[p] \in Phones
    BY BrowserTyped
  <2>2. b.setups = phone[p].setups
    BY <1>2, <2>1, HungUpHolds DEF Holds
  <2>3. s \in Setups
    BY <2>1, PhoneTyped
  <2>4. QED
    BY <2>2, <2>3 DEF Setups
<1>5. c \in Phones /\ c.flips = b.flips
  BY <1>4, GoesTyped DEF Stages
<1>6. Holds(ready, s.peer, c.stream, c.switching, c.working \cup {s.peer}, c.live, c.setups, c.flips)
  <2>1. s.peer \in Links \cup {NoLink} /\ c.working \cup {s.peer} \in SUBSET Links
    BY <1>4, <1>5, PhoneTyped
  <2> HIDE DEF c
  <2>2. QED
    BY <1>5, <2>1, ConnectionHolds
<1>7. ASSUME p \notin overlaid'
      PROVE  PhoneInv(ready, flipped')
  <2>1. p \notin overlaid /\ b.peer = NoLink /\ others = {} /\ b.flips = {}
    BY <1>3, <1>7
  <2>2. PhoneInv(b, flipped)
    <3>1. CASE s.answers
      BY <1>2, <2>1, <3>1, BrowserTyped
    <3>2. CASE ~s.answers
      <4>1. phone[p].flips = {}
        BY <1>2, <2>1, <3>2, BrowserTyped, HungUpHolds DEF Holds
      <4>2. QED
        BY <1>2, <2>1, <3>2, <4>1, BrowserTyped, HungUpKeeps
    <3>3. QED
      BY <3>1, <3>2
  <2>3. Late(b) = {}
    BY <1>3, <2>1 DEF Late
  <2>4. b.stream = {} /\ b.live = {}
    BY <2>1, <2>2, <2>3 DEF PhoneInv, IdleHoldsNothing, NothingElseIsLive
  <2>5. c.stream = {} /\ c.live = {} /\ c.flips = {}
    BY <1>4, <2>1, <2>3, <2>4, GoesHolds DEF Holds
  <2>6. PICK w \in Setups : Late(c) = {w} /\ w.peer = s.peer /\ w.at = "media"
    BY <1>4, <2>3, GoesHolds
  <2> HIDE DEF c
  <2>7. /\ ready.peer = s.peer /\ ready.stream = {} /\ ready.live = {} /\ ready.flips = {}
        /\ s.peer \in ready.working /\ ready.setups = c.setups
    BY <1>6, <2>5 DEF Holds
  <2> HIDE DEF ready
  <2>8. Late(ready) = {w}
    BY <2>6, <2>7 DEF Late
  <2>9. QED
    BY <2>6, <2>7, <2>8 DEF PhoneInv, OneSetsUp, SetupsFollow, LinksWork, IdleHoldsNothing,
       NothingElseIsLive, FlipsFollow, StreamIsOld
<1>8. OtherBounds
  BY <1>3, CallBounds DEF OtherBounds
<1>9. ready \in Phones /\ overlaid \subseteq overlaid' /\ overlaid' \subseteq Parties
  BY <1>3, <1>6 DEF Holds, CallsInv, CallsTypeOK
<1> HIDE DEF ready
<1>10. QED
  BY <1>3, <1>7, <1>8, <1>9, BrowserFrame DEF OtherBounds

\* A setup that ends on its own, with nothing to undo.
LEMMA LeavesKeeps ==
  ASSUME CallsInv, NEW p \in Parties, NEW s \in phone[p].setups, Become(p, Ends(phone[p], s)),
         s.at \in {"permission", "emit"}, OtherBounds, UNCHANGED flipped
  PROVE  CallsInv'
<1>1. PICK b \in Phones : b = phone[p]
  BY BrowserTyped
<1>2. Ends(b, s) \in Phones
  <2>1. b.setups \ {s} \in SUBSET Setups
    BY PhoneTyped
  <2>2. QED
    BY <2>1, SetupsHold DEF Ends, Holds
<1>3. ASSUME p \notin overlaid PROVE PhoneInv(Ends(b, s), flipped)
  <2>1. PhoneInv(b, flipped) /\ s \in b.setups
    BY <1>1, <1>3, BrowserTyped
  <2>2. s \in Late(b) /\ b.peer = NoLink => b.stream = {}
    BY <2>1 DEF Late, PhoneInv, SetupsFollow
  <2>3. QED
    BY <2>1, <2>2, EndsKeeps
<1>4. QED
  BY <1>1, <1>2, <1>3, BecomeKeeps

LEMMA RefusedKeeps == ASSUME CallsInv, NEW p \in Parties, Refused(p) PROVE CallsInv'
  BY CallBounds, LeavesKeeps DEF Refused, OtherBounds

LEMMA AcknowledgedKeeps == ASSUME CallsInv, NEW p \in Parties, Acknowledged(p) PROVE CallsInv'
  BY CallBounds, LeavesKeeps DEF Acknowledged, OtherBounds

LEMMA SetupFailsKeeps == ASSUME CallsInv, NEW p \in Parties, SetupFails(p) PROVE CallsInv'
  BY CallBounds, GiveUpKeeps DEF SetupFails, OtherBounds

LEMMA DevicesKeep == ASSUME CallsInv, NEW p \in Parties, GetDevices(p) PROVE CallsInv'
<1>1. PICK b \in Phones : b = phone[p]
  BY BrowserTyped
<1>2. PICK s \in b.setups :
        LET got == {Microphone(s.peer), Camera(s.peer)}
        IN /\ s.at = "media"
           /\ Become(p, [Goes(b, s, "devices") EXCEPT !.stream = got, !.live = @ \cup got])
           /\ UNCHANGED <<signals, dials, flipped, hitches>>
  BY <1>1 DEF GetDevices
<1> DEFINE got == {Microphone(s.peer), Camera(s.peer)}
           c == Goes(b, s, "devices")
           d == [c EXCEPT !.stream = got, !.live = c.live \cup got]
<1>3. s \in Setups /\ s.peer \in Links
  BY PhoneTyped DEF Setups
<1>4. got \in SUBSET Inputs
  BY <1>3, CallsAssumption DEF Inputs, Links
<1>5. c \in Phones
  BY GoesTyped DEF Stages
<1>6. Holds(d, c.peer, got, c.switching, c.working, c.live \cup got, c.setups, c.flips)
  <2>1. c.live \cup got \in SUBSET Inputs
    BY <1>4, <1>5, PhoneTyped
  <2> HIDE DEF got, c
  <2>2. QED
    BY <1>4, <1>5, <2>1, DevicesHold
<1>7. ASSUME p \notin overlaid PROVE PhoneInv(d, flipped)
  <2>1. PhoneInv(b, flipped)
    BY <1>1, <1>7, BrowserTyped
  <2>2. s \in Late(b) /\ \A t \in Late(b) : t = s
    BY <1>2, <2>1 DEF Late, PhoneInv, OneSetsUp
  <2>3. b.stream = {} /\ b.peer \in {s.peer, NoLink} /\ (s.peer \in b.working => b.peer = s.peer)
    BY <1>2, <2>1, <2>2 DEF PhoneInv, SetupsFollow
  <2>4. b.flips = {} /\ b.live = {}
    BY <2>1, <2>3 DEF PhoneInv, FlipsFollow, NothingElseIsLive
  <2>5. /\ c.peer = b.peer /\ c.working = b.working /\ c.live = {} /\ c.flips = {}
    BY <2>2, <2>4, GoesHolds DEF Holds
  <2>6. PICK w \in Setups : Late(c) = {w} /\ w.peer = s.peer /\ w.at = "devices"
    BY <2>2, GoesHolds
  <2> HIDE DEF c
  <2>7. /\ d.peer = b.peer /\ d.stream = got /\ d.live = got /\ d.flips = {}
        /\ d.working = b.working /\ d.setups = c.setups
    BY <1>6, <2>5 DEF Holds
  <2> HIDE DEF d
  <2>8. Late(d) = {w}
    BY <2>6, <2>7 DEF Late
  <2>9. StreamIsOld(d, flipped)
    <3>1. s.peer \in Nat /\ s.peer <= MaxDials /\ flipped \in Nat /\ MaxDials \in Nat
      BY <1>3, CallsAssumption DEF Links, CallsInv, CallsTypeOK
    <3>2. \A x \in got : x[2] = s.peer
      BY DEF Microphone, Camera
    <3> HIDE DEF got
    <3>3. QED
      BY <2>7, <3>1, <3>2 DEF StreamIsOld
  <2> HIDE DEF got
  <2>10. OneSetsUp(d) /\ SetupsFollow(d)
    BY <2>3, <2>6, <2>7, <2>8 DEF OneSetsUp, SetupsFollow
  <2>11. LinksWork(d)
    BY <2>1, <2>7 DEF PhoneInv, LinksWork
  <2>12. IdleHoldsNothing(d) /\ NothingElseIsLive(d) /\ FlipsFollow(d, flipped)
    BY <2>7, <2>8 DEF IdleHoldsNothing, NothingElseIsLive, FlipsFollow
  <2>13. QED
    BY <2>9, <2>10, <2>11, <2>12 DEF PhoneInv
<1>8. Become(p, d) /\ OtherBounds /\ UNCHANGED flipped
  BY <1>2, CallBounds DEF OtherBounds
<1>9. d \in Phones
  BY <1>6 DEF Holds
<1> HIDE DEF d
<1>10. QED
  BY <1>7, <1>8, <1>9, BecomeKeeps

LEMMA DescribeKeeps == ASSUME CallsInv, NEW p \in Parties, Describe(p) PROVE CallsInv'
<1>1. PICK b \in Phones : b = phone[p]
  BY BrowserTyped
<1>2. PICK s \in b.setups :
        /\ s.at \in {"devices", "describe"}
        /\ IF s.peer \notin b.working THEN GiveUpCall(p, s) /\ UNCHANGED signals
           ELSE IF s.at = "devices"
           THEN Become(p, Goes(b, s, "describe")) /\ UNCHANGED signals
           ELSE /\ Become(p, Goes(b, s, "emit"))
                /\ IF s.answers THEN UNCHANGED signals ELSE Signal(p, "offer")
        /\ UNCHANGED <<dials, flipped, hitches>>
  BY <1>1 DEF Describe
<1>3. OtherBounds /\ UNCHANGED flipped
  <2>1. UNCHANGED signals \/ Signal(p, "offer")
    BY <1>2
  <2>2. QED
    BY <1>2, <2>1, CallBounds, SignalTyped DEF OtherBounds
<1>4. CASE s.peer \notin b.working
  BY <1>1, <1>2, <1>3, <1>4, GiveUpKeeps
<1>5. CASE s.peer \in b.working
  <2>1. PICK x \in {"describe", "emit"} : Become(p, Goes(b, s, x))
    BY <1>2, <1>5
  <2>2. Goes(b, s, x) \in Phones
    BY GoesTyped DEF Stages
  <2>3. ASSUME p \notin overlaid PROVE PhoneInv(Goes(b, s, x), flipped)
    <3>1. PhoneInv(b, flipped)
      BY <1>1, <2>3, BrowserTyped
    <3>2. s \in Late(b)
      BY <1>2 DEF Late
    <3>3. b.peer = s.peer
      BY <1>5, <3>1, <3>2 DEF PhoneInv, SetupsFollow
    <3>4. s.peer # NoLink
      BY CallsAssumption, PhoneTyped DEF Setups, Links, NoLink
    <3>5. QED
      BY <3>1, <3>2, <3>3, <3>4, GoesKeeps
  <2>4. QED
    BY <1>3, <2>1, <2>2, <2>3, BecomeKeeps
<1>6. QED
  BY <1>4, <1>5

LEMMA HangUpKeeps == ASSUME CallsInv, NEW p \in Parties, PressHangUp(p) PROVE CallsInv'
  BY CallBounds, SignalTyped, HangKeeps DEF PressHangUp, OtherBounds

\* What changes neither the call nor its setups.
LEMMA RingsKeep ==
  ASSUME CallsInv, NEW p \in Parties, NEW c,
         Holds(c, phone[p].peer, phone[p].stream, phone[p].switching, phone[p].working,
               phone[p].live, phone[p].setups, phone[p].flips),
         Become(p, c), OtherBounds, UNCHANGED flipped
  PROVE  CallsInv'
<1>1. PICK b \in Phones : b = phone[p]
  BY BrowserTyped
<1>2. Holds(c, b.peer, b.stream, b.switching, b.working, b.live, b.setups, b.flips)
  BY <1>1
<1>3. c \in Phones /\ Late(c) = Late(b)
  BY <1>2 DEF Holds, Late
<1>4. flipped \in Nat /\ flipped <= flipped
  BY CallsAssumption DEF CallsInv, CallsTypeOK
<1>5. p \notin overlaid => PhoneInv(b, flipped)
  BY <1>1, BrowserTyped
<1>6. p \notin overlaid => PhoneInv(c, flipped)
  BY <1>2, <1>3, <1>4, <1>5, SameCall
<1>7. QED
  BY <1>3, <1>6, BecomeKeeps

LEMMA DeclineKeeps == ASSUME CallsInv, NEW p \in Parties, PressDecline(p) PROVE CallsInv'
<1>1. Become(p, [phone[p] EXCEPT !.ringing = FALSE]) /\ OtherBounds /\ UNCHANGED flipped
  BY CallBounds, SignalTyped DEF PressDecline, OtherBounds
<1>2. PICK c : c = [phone[p] EXCEPT !.ringing = FALSE]
  OBVIOUS
<1>3. Holds(c, phone[p].peer, phone[p].stream, phone[p].switching, phone[p].working,
            phone[p].live, phone[p].setups, phone[p].flips)
  BY <1>2, BrowserTyped, RingingHolds, PhoneTyped
<1>4. QED
  BY <1>1, <1>2, <1>3, RingsKeep

LEMMA SignalKeeps == ASSUME CallsInv, NEW p \in Parties, GetSignal(p) PROVE CallsInv'
<1>1. PICK b \in Phones : b = phone[p]
  BY BrowserTyped
<1>2. PICK s \in signals :
        /\ s.to = p
        /\ \/ /\ signals' = (signals \ {s}) \cup {[to |-> Other(p), kind |-> "decline"]}
              /\ UNCHANGED <<phone, overlaid>>
           \/ signals' = signals \ {s} /\ Become(p, [b EXCEPT !.ringing = TRUE])
           \/ signals' = signals \ {s} /\ Become(p, IF b.peer = NoLink THEN b ELSE HungUp(b))
        /\ UNCHANGED <<dials, flipped, hitches>>
  BY <1>1 DEF GetSignal
<1>3. OtherBounds /\ UNCHANGED flipped
  <2>1. signals' \subseteq [to : Parties, kind : {"offer", "decline", "end"}]
    BY <1>2, SignalTyped DEF CallsInv, CallsTypeOK
  <2>2. QED
    BY <1>2, <2>1, CallBounds DEF OtherBounds
<1>4. Holds(b, b.peer, b.stream, b.switching, b.working, b.live, b.setups, b.flips)
  BY DEF Holds
<1>5. CASE UNCHANGED <<phone, overlaid>>
  BY <1>2, <1>3, <1>5 DEF OtherBounds, CallsInv, CallsTypeOK
<1>6. CASE Become(p, [b EXCEPT !.ringing = TRUE])
  <2>1. PICK c : c = [b EXCEPT !.ringing = TRUE]
    OBVIOUS
  <2>2. Holds(c, b.peer, b.stream, b.switching, b.working, b.live, b.setups, b.flips)
    BY <2>1, RingingHolds, PhoneTyped
  <2>3. QED
    BY <1>1, <1>3, <1>6, <2>1, <2>2, RingsKeep
<1>7. CASE Become(p, b)
  BY <1>1, <1>3, <1>4, <1>7, RingsKeep
<1>8. CASE Become(p, HungUp(b))
  BY <1>1, <1>3, <1>8, HangKeeps
<1>9. QED
  BY <1>2, <1>5, <1>6, <1>7, <1>8

LEMMA ReconnectingKeeps ==
  ASSUME CallsInv, NEW p \in Parties, NEW r \in BOOLEAN,
         Become(p, [phone[p] EXCEPT !.reconnecting = r]), OtherBounds, UNCHANGED flipped
  PROVE  CallsInv'
<1>1. PICK c : c = [phone[p] EXCEPT !.reconnecting = r]
  OBVIOUS
<1>2. Holds(c, phone[p].peer, phone[p].stream, phone[p].switching, phone[p].working,
            phone[p].live, phone[p].setups, phone[p].flips)
  BY <1>1, BrowserTyped, RingingHolds, PhoneTyped
<1>3. QED
  BY <1>1, <1>2, RingsKeep

LEMMA DisconnectedKeeps == ASSUME CallsInv, NEW p \in Parties, Disconnected(p) PROVE CallsInv'
<1>1. OtherBounds /\ UNCHANGED flipped
  BY CallBounds DEF Disconnected, OtherBounds
<1>2. QED
  BY <1>1, HangKeeps, ReconnectingKeeps DEF Disconnected

LEMMA ReconnectEndsKeeps == ASSUME CallsInv, NEW p \in Parties, ReconnectEnds(p) PROVE CallsInv'
<1>1. OtherBounds /\ UNCHANGED flipped
  BY CallBounds DEF ReconnectEnds, OtherBounds
<1>2. QED
  BY <1>1, HangKeeps, ReconnectingKeeps DEF ReconnectEnds

LEMMA PressFlipKeeps == ASSUME CallsInv, NEW p \in Parties, PressFlip(p) PROVE CallsInv'
<1>1. PICK b \in Phones : b = phone[p]
  BY BrowserTyped
<1>2. PICK n \in Nat : n = flipped
  BY CallsAssumption DEF CallsInv, CallsTypeOK
<1>3. PICK camera \in b.stream :
        /\ n + 1 <= MaxFlips /\ ~b.switching /\ flipped' = n + 1
        /\ Become(p, [b EXCEPT !.switching = TRUE,
                               !.flips = @ \cup {[peer |-> NoLink, from |-> camera, at |-> "media",
                                                  to |-> Camera(MaxDials + (n + 1)),
                                                  kept |-> b.stream \ {camera}]}])
        /\ UNCHANGED <<signals, dials, hitches>>
  BY <1>1, <1>2 DEF PressFlip
<1> DEFINE f == [peer |-> NoLink, from |-> camera, at |-> "media",
                 to |-> Camera(MaxDials + (n + 1)), kept |-> b.stream \ {camera}]
           F == b.flips \cup {f}
           c == [b EXCEPT !.switching = TRUE, !.flips = F]
<1>4. camera \in Inputs /\ b.stream \subseteq Inputs /\ b.flips \subseteq Flips
  BY PhoneTyped
<1>5. Camera(MaxDials + (n + 1)) \in Inputs
  BY <1>3, CallsAssumption DEF Inputs
<1>6. /\ f \in Flips /\ f.from = camera /\ f.kept = b.stream \ {camera} /\ f.at = "media"
      /\ f.to = Camera(MaxDials + (n + 1))
  BY <1>4, <1>5 DEF Flips
<1> HIDE DEF f
<1>7. F \in SUBSET Flips /\ b.live \in SUBSET Inputs
  BY <1>4, <1>6, PhoneTyped
<1> HIDE DEF F
<1>8. Holds(c, b.peer, b.stream, TRUE, b.working, b.live, b.setups, F)
  BY <1>4, <1>7, FlipsHold
<1>9. Become(p, c) /\ OtherBounds
  <2>1. flipped' \in 0 .. MaxFlips /\ flipped <= flipped'
    BY <1>2, <1>3, CallsAssumption
  <2>2. QED
    BY <1>3, <2>1, CallBounds DEF OtherBounds, F, f
<1> HIDE DEF c
<1>10. ASSUME p \notin overlaid, c.peer = NoLink => c.flips = {}
       PROVE  PhoneInv(c, n + 1)
  <2>1. PhoneInv(b, n)
    BY <1>1, <1>2, <1>10, BrowserTyped
  <2>2. /\ c.peer = b.peer /\ c.stream = b.stream /\ c.switching = TRUE /\ c.working = b.working
        /\ c.live = b.live /\ c.setups = b.setups /\ c.flips = F
    BY <1>8 DEF Holds
  <2>3. c.peer # NoLink
    BY <1>10, <2>2 DEF F
  <2>4. b.flips = {} /\ F = {f}
    BY <1>3, <2>1 DEF PhoneInv, FlipsFollow, F
  <2>5. Late(c) = Late(b)
    BY <2>2 DEF Late
  <2>6. OneSetsUp(c) /\ SetupsFollow(c)
    BY <2>1, <2>2, <2>5 DEF PhoneInv, OneSetsUp, SetupsFollow
  <2>7. LinksWork(c) /\ IdleHoldsNothing(c) /\ NothingElseIsLive(c)
    BY <2>1, <2>2, <2>3, <2>4 DEF PhoneInv, LinksWork, IdleHoldsNothing, NothingElseIsLive
  <2>8. MaxDials \in Nat
    BY CallsAssumption
  <2>9. \A x \in b.stream : x[2] \in Nat /\ x[2] <= MaxDials + n
    BY <1>4, <2>1, <2>8, CallsAssumption DEF PhoneInv, StreamIsOld, Inputs, Microphone, Camera, Links
  <2>10. f.to[2] = MaxDials + (n + 1)
    BY <1>6 DEF Camera
  <2>11. f.to \notin b.stream
    BY <2>8, <2>9, <2>10
  <2>12. StreamIsOld(c, n + 1)
    BY <2>2, <2>8, <2>9 DEF StreamIsOld
  <2>13. f.to[2] <= MaxDials + (n + 1)
    BY <2>8, <2>10
  <2>14. b.live = b.stream
    BY <2>1, <2>4 DEF PhoneInv, NothingElseIsLive
  <2>15. FlipsFollow(c, n + 1)
    BY <1>6, <2>2, <2>4, <2>11, <2>13, <2>14 DEF FlipsFollow
  <2>16. QED
    BY <2>6, <2>7, <2>12, <2>15 DEF PhoneInv
<1>11. c \in Phones
  BY <1>8 DEF Holds
<1>12. QED
  BY <1>3, <1>9, <1>10, <1>11, BecomeKeeps

\* The switch is over: the stream holds the new camera and the old one is stopped.
LEMMA DoneKeeps ==
  ASSUME NEW b \in Phones, NEW f \in b.flips, NEW n \in Nat, PhoneInv(b, n), b.peer # NoLink,
         NEW c, Holds(c, b.peer, f.kept \cup {f.to}, FALSE, b.working,
                      (b.live \cup {f.to}) \ {f.from}, b.setups, b.flips \ {f})
  PROVE  PhoneInv(c, n)
<1>1. /\ c.peer = b.peer /\ c.stream = f.kept \cup {f.to} /\ c.working = b.working
      /\ c.live = (b.live \cup {f.to}) \ {f.from} /\ c.setups = b.setups /\ c.flips = b.flips \ {f}
  BY DEF Holds
<1>2. /\ b.flips = {f} /\ f.from \in b.stream /\ f.kept = b.stream \ {f.from}
      /\ f.to \notin b.stream /\ f.to[2] <= MaxDials + n
      /\ b.live \in {b.stream, b.stream \cup {f.to}}
  <2>1. FlipsFollow(b, n)!(f)
    BY DEF PhoneInv, FlipsFollow
  <2>2. b.live = b.stream \/ b.live = b.stream \cup {f.to}
    BY <2>1
  <2>3. QED
    BY <2>1, <2>2
<1>3. c.flips = {} /\ c.live = c.stream
  BY <1>1, <1>2
<1>4. Late(c) = Late(b)
  BY <1>1 DEF Late
<1>5. OneSetsUp(c)
  BY <1>4 DEF PhoneInv, OneSetsUp
<1>6. SetupsFollow(c)
  BY <1>1, <1>2, <1>4 DEF PhoneInv, SetupsFollow
<1>7. LinksWork(c) /\ IdleHoldsNothing(c) /\ NothingElseIsLive(c) /\ FlipsFollow(c, n)
  BY <1>1, <1>3 DEF PhoneInv, LinksWork, IdleHoldsNothing, NothingElseIsLive, FlipsFollow
<1>8. StreamIsOld(c, n)
  BY <1>1, <1>2 DEF PhoneInv, StreamIsOld
<1>9. QED
  BY <1>5, <1>6, <1>7, <1>8 DEF PhoneInv

LEMMA FlipKeeps == ASSUME CallsInv, NEW p \in Parties, FlipCamera(p) PROVE CallsInv'
<1>1. PICK b \in Phones : b = phone[p]
  BY BrowserTyped
<1> DEFINE Told(f) == [f EXCEPT !.at = "replace", !.peer = b.peer]
           Got(f) == [b EXCEPT !.live = b.live \cup {f.to}, !.flips = (b.flips \ {f}) \cup {Told(f)}]
           Done(f) == [b EXCEPT !.live = (b.live \cup {f.to}) \ {f.from}, !.stream = f.kept \cup {f.to},
                                !.switching = FALSE, !.flips = b.flips \ {f}]
<1>2. PICK f \in b.flips :
        /\ \/ f.at = "media" /\ b.peer # NoLink /\ Become(p, Got(f))
           \/ f.at = "media" /\ b.peer = NoLink /\ Become(p, Done(f))
           \/ f.at = "replace" /\ f.peer \in b.working /\ Become(p, Done(f))
        /\ UNCHANGED <<signals, dials, flipped, hitches>>
  BY <1>1 DEF FlipCamera
<1>3. /\ f \in Flips /\ f.to \in Inputs /\ f.from \in Inputs /\ f.kept \subseteq Inputs
      /\ b.live \subseteq Inputs /\ b.stream \subseteq Inputs /\ b.flips \subseteq Flips
      /\ b.peer \in Links \cup {NoLink} /\ b.switching \in BOOLEAN
  <2>1. f \in Flips
    BY PhoneTyped
  <2>2. f.to \in Inputs /\ f.from \in Inputs /\ f.kept \subseteq Inputs
    BY <2>1 DEF Flips
  <2>3. QED
    BY <2>1, <2>2, PhoneTyped
<1>4. OtherBounds /\ UNCHANGED flipped
  BY <1>2, CallBounds DEF OtherBounds
<1>5. flipped \in Nat /\ (p \notin overlaid => PhoneInv(b, flipped))
  BY <1>1, BrowserTyped, CallsAssumption DEF CallsInv, CallsTypeOK
<1>6. CASE Become(p, Done(f)) /\ (f.at = "media" => b.peer = NoLink) /\ (f.at = "replace" => f.peer \in b.working)
  <2> DEFINE L == (b.live \cup {f.to}) \ {f.from}
             S == f.kept \cup {f.to}
             F == b.flips \ {f}
  <2>1. L \in SUBSET Inputs /\ S \in SUBSET Inputs /\ F \in SUBSET Flips
    BY <1>3
  <2> DEFINE c == [b EXCEPT !.live = L, !.stream = S, !.switching = FALSE, !.flips = F]
  <2> HIDE DEF L, S, F
  <2>2. Holds(c, b.peer, S, FALSE, b.working, L, b.setups, F)
    BY <2>1, FlipsHold
  <2> HIDE DEF c
  <2>3. ASSUME p \notin overlaid PROVE PhoneInv(c, flipped)
    <3>1. PhoneInv(b, flipped)
      BY <1>5, <2>3
    <3>2. b.peer # NoLink
      BY <3>1 DEF PhoneInv, IdleHoldsNothing
    <3>3. QED
      BY <1>5, <2>2, <3>1, <3>2, DoneKeeps DEF L, S, F
  <2>4. c \in Phones /\ Become(p, c)
    BY <1>6, <2>2 DEF Holds, c, L, S, F
  <2>5. QED
    BY <1>4, <2>3, <2>4, BecomeKeeps
<1>7. CASE f.at = "media" /\ b.peer # NoLink /\ Become(p, Got(f))
  <2> DEFINE g == Told(f)
             F == (b.flips \ {f}) \cup {g}
             L == b.live \cup {f.to}
             c == [b EXCEPT !.live = L, !.flips = F]
  <2>1. /\ g \in Flips /\ g.at = "replace" /\ g.peer = b.peer /\ g.from = f.from /\ g.to = f.to
        /\ g.kept = f.kept
    BY <1>3, Zenon DEF Flips
  <2> HIDE DEF g
  <2>2. F \in SUBSET Flips /\ L \in SUBSET Inputs
    BY <1>3, <2>1
  <2> HIDE DEF F, L
  <2>3. Holds(c, b.peer, b.stream, b.switching, b.working, L, b.setups, F)
    BY <1>3, <2>2, FlipsHold
  <2> HIDE DEF c
  <2>4. ASSUME p \notin overlaid PROVE PhoneInv(c, flipped)
    <3>1. PhoneInv(b, flipped)
      BY <1>5, <2>4
    <3>2. /\ b.flips = {f} /\ b.switching /\ f.from \in b.stream /\ f.kept = b.stream \ {f.from}
          /\ f.to \notin b.stream /\ f.to[2] <= MaxDials + flipped /\ b.live = b.stream
      BY <1>7, <3>1 DEF PhoneInv, FlipsFollow
    <3>3. /\ c.peer = b.peer /\ c.stream = b.stream /\ c.switching = b.switching
          /\ c.working = b.working /\ c.live = b.stream \cup {f.to} /\ c.setups = b.setups
          /\ c.flips = {g}
      BY <2>3, <3>2 DEF Holds, F, L
    <3>4. Late(c) = Late(b)
      BY <3>3 DEF Late
    <3>5. OneSetsUp(c) /\ SetupsFollow(c)
      BY <3>1, <3>3, <3>4 DEF PhoneInv, OneSetsUp, SetupsFollow
    <3>6. LinksWork(c) /\ IdleHoldsNothing(c) /\ NothingElseIsLive(c) /\ StreamIsOld(c, flipped)
      BY <1>7, <3>1, <3>3 DEF PhoneInv, LinksWork, IdleHoldsNothing, NothingElseIsLive, StreamIsOld
    <3>7. FlipsFollow(c, flipped)
      BY <2>1, <3>2, <3>3 DEF FlipsFollow
    <3>8. QED
      BY <3>5, <3>6, <3>7 DEF PhoneInv
  <2>5. c \in Phones /\ Become(p, c)
    BY <1>7, <2>3 DEF Holds, c, L, F, g
  <2>6. QED
    BY <1>4, <2>4, <2>5, BecomeKeeps
<1>8. QED
  BY <1>2, <1>6, <1>7

LEMMA FlipFailsKeeps == ASSUME CallsInv, NEW p \in Parties, FlipFails(p) PROVE CallsInv'
<1>1. PICK b \in Phones : b = phone[p]
  BY BrowserTyped
<1>2. PICK f \in b.flips :
        /\ f.at = "media" \/ (f.at = "replace" /\ f.peer \notin b.working)
        /\ UNCHANGED hitches \/ Hitch
        /\ Become(p, [b EXCEPT !.switching = FALSE, !.flips = b.flips \ {f}])
        /\ UNCHANGED <<signals, dials, flipped>>
  BY <1>1 DEF FlipFails
<1>3. OtherBounds /\ UNCHANGED flipped
  BY <1>2, CallBounds DEF OtherBounds
<1> DEFINE F == b.flips \ {f}
           c == [b EXCEPT !.switching = FALSE, !.flips = F]
<1>4. F \in SUBSET Flips /\ b.stream \in SUBSET Inputs /\ b.live \in SUBSET Inputs
  BY PhoneTyped
<1> HIDE DEF F
<1>5. Holds(c, b.peer, b.stream, FALSE, b.working, b.live, b.setups, F)
  BY <1>4, FlipsHold
<1>6. Become(p, c)
  BY <1>2 DEF F
<1> HIDE DEF c
<1>7. ASSUME p \notin overlaid PROVE PhoneInv(c, flipped)
  <2>1. PhoneInv(b, flipped)
    BY <1>1, <1>7, BrowserTyped
  <2>2. b.flips = {f} /\ b.peer # NoLink
    BY <2>1 DEF PhoneInv, FlipsFollow, IdleHoldsNothing
  <2>3. f.at = "media"
    BY <1>2, <2>1, <2>2 DEF PhoneInv, FlipsFollow, LinksWork
  <2>4. b.live = b.stream
    BY <2>1, <2>3 DEF PhoneInv, FlipsFollow
  <2>5. /\ c.peer = b.peer /\ c.stream = b.stream /\ c.working = b.working /\ c.live = b.live
        /\ c.setups = b.setups /\ c.flips = {}
    BY <1>5, <2>2 DEF Holds, F
  <2>6. Late(c) = Late(b)
    BY <2>5 DEF Late
  <2>7. OneSetsUp(c) /\ SetupsFollow(c)
    BY <2>1, <2>5, <2>6 DEF PhoneInv, OneSetsUp, SetupsFollow
  <2>8. LinksWork(c) /\ IdleHoldsNothing(c) /\ NothingElseIsLive(c) /\ StreamIsOld(c, flipped)
    BY <2>1, <2>2, <2>4, <2>5 DEF PhoneInv, LinksWork, IdleHoldsNothing, NothingElseIsLive, StreamIsOld
  <2>9. FlipsFollow(c, flipped)
    BY <2>5 DEF FlipsFollow
  <2>10. QED
    BY <2>7, <2>8, <2>9 DEF PhoneInv
<1>8. c \in Phones
  BY <1>5 DEF Holds
<1>9. QED
  BY <1>3, <1>6, <1>7, <1>8, BecomeKeeps

-----------------------------------------------------------------------------
(* Calls: the theorems.                                                    *)

LEMMA CallsInitInv == CallsInit => CallsInv
<1> SUFFICES ASSUME CallsInit PROVE CallsInv
  OBVIOUS
<1> DEFINE b == [peer |-> NoLink, stream |-> {}, switching |-> FALSE, reconnecting |-> FALSE,
                 ringing |-> FALSE, working |-> {}, live |-> {}, setups |-> {}, flips |-> {}]
<1>1. b \in Phones /\ b.peer = NoLink /\ b.stream = {} /\ b.live = {} /\ b.setups = {} /\ b.flips = {}
  BY DEF Phones
<1>2. phone = [p \in Parties |-> b]
  BY DEF CallsInit
<1> HIDE DEF b
<1>3. CallsTypeOK
  <2>1. phone \in [Parties -> Phones]
    BY <1>1, <1>2
  <2>2. QED
    BY <2>1, CallsAssumption DEF CallsInit, CallsTypeOK
<1>4. PhoneInv(b, flipped)
  BY <1>1 DEF PhoneInv, OneSetsUp, SetupsFollow, LinksWork, IdleHoldsNothing, NothingElseIsLive,
     FlipsFollow, StreamIsOld, Late
<1>5. QED
  BY <1>2, <1>3, <1>4 DEF CallsInv

LEMMA CallsStepKeeps == CallsInv /\ [CallsNext]_callsVars => CallsInv'
<1> SUFFICES ASSUME CallsInv, [CallsNext]_callsVars PROVE CallsInv'
  OBVIOUS
<1>1. CASE UNCHANGED callsVars
  BY <1>1 DEF callsVars, CallsInv, CallsTypeOK
<1>2. CASE CallsNext
  <2>1. PICK p \in Parties :
          \/ PressCall(p) \/ PressAccept(p) \/ ConnectCall(p) \/ Refused(p) \/ GetDevices(p)
          \/ Describe(p) \/ Acknowledged(p) \/ SetupFails(p)
          \/ PressHangUp(p) \/ PressDecline(p) \/ GetSignal(p)
          \/ Disconnected(p) \/ ReconnectEnds(p)
          \/ PressFlip(p) \/ FlipCamera(p) \/ FlipFails(p)
    BY <1>2 DEF CallsNext
  <2>2. CASE PressCall(p) \/ PressAccept(p)
    BY <2>2, DialKeeps DEF PressCall, PressAccept
  <2>3. QED
    BY <2>1, <2>2, ConnectKeeps, RefusedKeeps, DevicesKeep, DescribeKeeps, AcknowledgedKeeps,
       SetupFailsKeeps, HangUpKeeps, DeclineKeeps, SignalKeeps, DisconnectedKeeps,
       ReconnectEndsKeeps, PressFlipKeeps, FlipKeeps, FlipFailsKeeps
<1>3. QED
  BY <1>1, <1>2

\* The invariant above holds in every state that the browsers reach.
THEOREM CallsInductive == CallsSpec => []CallsInv
  BY CallsInitInv, CallsStepKeeps, PTL DEF CallsSpec

\* A browser only ever has connections it has made and devices it has asked for, and
\* every signal has an addressee (startCall, flipActiveCamera, the gateway's relay).
THEOREM CallsTypeCorrect == CallsSpec => []CallsTypeOK
<1>1. CallsInv => CallsTypeOK
  BY DEF CallsInv
<1>2. QED
  BY <1>1, CallsInductive, PTL

\* Whenever a call is hung up, declined, lost or given up, and whatever its functions were
\* awaiting: once they have ended, no microphone or camera is left on but those that
\* hanging up will stop, and none without a call.  As in the property, a user whose calls
\* or camera switches ran into each other is left out.
THEOREM CallsReleaseDevices == CallsSpec => []DevicesAreReleased
<1>1. CallsInv => DevicesAreReleased
  BY DEF CallsInv, PhoneInv, DevicesAreReleased, IdleHoldsNothing, NothingElseIsLive, Late
<1>2. QED
  BY <1>1, CallsInductive, PTL

-----------------------------------------------------------------------------
(* Presence: the inductive invariant.                                      *)

FieldCommands == {"set", "del"}
Announcements == Commands \ {"keys"}

Has(s, C) == \E i \in DOMAIN s : s[i] \in C
Brings(s, C) == \E i \in DOMAIN s : s[i].command \in C

\* Does Redis's answer to "keys" say that the user is online?
Listed == fields # {} \/ stale

\* Process q has yet to tell Redis, or the other processes, of a change.
Announcing(q) == Has(pipe[q], Announcements) \/ Brings(answers[q], FieldCommands)

\* The browsers of p are told the truth, or will be asked about it again.
WillBeTold(p) ==
  \/ \E q \in Instances : Announcing(q)
  \/ pipe[p] # <<>> \/ feed[p] # <<>> \/ Brings(answers[p], Announcements)
  \/ answers[p] # <<>> /\ answers[p][Len(answers[p])].anybody = Listed
  \/ answers[p] = <<>> /\ shown[p] = Listed

\* The last command about the field agrees with the process's map, or the field does.
LastSays(s, on) ==
  \E i \in DOMAIN s :
    /\ s[i] \in FieldCommands /\ (s[i] = "set") = on
    /\ \A j \in DOMAIN s : j > i => s[j] \notin FieldCommands

Follows(s, field, on) == (~Has(s, FieldCommands) /\ field = on) \/ LastSays(s, on)

FieldFollows(p) == Follows(pipe[p], p \in fields, online[p] # {})

MapIsSockets(p) ==
  online[p] = {s \in Sockets : socket[s].process = p /\ socket[s].at \in {"open", "haunting"}}

AloneIsCalm(p) ==
  alone[p] => /\ pipe[p] = <<>> /\ answers[p] = <<>> /\ feed[p] = <<>> /\ p \notin fields
              /\ shown[p] = (online[p] # {})

SharedIsTrue(p) == ~alone[p] /\ ~erred => WillBeTold(p) /\ FieldFollows(p)

PresenceInv ==
  /\ PresenceTypeOK
  /\ \A p \in Instances : MapIsSockets(p) /\ AloneIsCalm(p) /\ SharedIsTrue(p)

-----------------------------------------------------------------------------
(* Presence: commands and answers in a row.                                *)

LEMMA AppendHas ==
  ASSUME NEW s \in Seq(Commands), NEW c \in Commands, NEW C
  PROVE  /\ Append(s, c) \in Seq(Commands) /\ Append(s, c) # <<>>
         /\ Has(Append(s, c), C) <=> Has(s, C) \/ c \in C
<1>1. Append(s, c) \in Seq(Commands) /\ DOMAIN Append(s, c) = 1 .. Len(s) + 1 /\ Len(s) \in Nat
  OBVIOUS
<1>2. Append(s, c)[Len(s) + 1] = c /\ \A i \in 1 .. Len(s) : Append(s, c)[i] = s[i]
  OBVIOUS
<1>3. Has(Append(s, c), C) => Has(s, C) \/ c \in C
  <2>1. SUFFICES ASSUME NEW i \in 1 .. Len(s) + 1, Append(s, c)[i] \in C
                 PROVE  Has(s, C) \/ c \in C
    BY <1>1 DEF Has
  <2>2. i = Len(s) + 1 \/ i \in 1 .. Len(s)
    BY <1>1
  <2>3. QED
    BY <1>2, <2>1, <2>2 DEF Has
<1>4. ASSUME NEW i \in 1 .. Len(s), s[i] \in C PROVE Has(Append(s, c), C)
  <2>1. i \in 1 .. Len(s) + 1
    BY <1>1
  <2>2. QED
    BY <1>1, <1>2, <1>4, <2>1 DEF Has
<1>5. c \in C => Has(Append(s, c), C)
  <2>1. Len(s) + 1 \in 1 .. Len(s) + 1
    BY <1>1
  <2>2. QED
    BY <1>1, <1>2, <2>1 DEF Has
<1>6. Append(s, c) # <<>>
  <2>1. 1 \in DOMAIN Append(s, c)
    BY <1>1
  <2>2. QED
    BY <2>1
<1>7. QED
  BY <1>1, <1>3, <1>4, <1>5, <1>6 DEF Has

LEMMA TailHas ==
  ASSUME NEW s \in Seq(Commands), s # <<>>, NEW C
  PROVE  /\ Head(s) \in Commands /\ Tail(s) \in Seq(Commands)
         /\ Has(s, C) <=> Head(s) \in C \/ Has(Tail(s), C)
<1>1. Head(s) \in Commands /\ Tail(s) \in Seq(Commands) /\ Len(s) \in Nat \ {0} /\ Head(s) = s[1]
  OBVIOUS
<1>2. DOMAIN Tail(s) = 1 .. Len(s) - 1 /\ \A i \in 1 .. Len(s) - 1 : Tail(s)[i] = s[i + 1]
  OBVIOUS
<1>3. ASSUME Has(s, C), Head(s) \notin C PROVE Has(Tail(s), C)
  <2>1. PICK i \in 1 .. Len(s) : s[i] \in C
    BY <1>3 DEF Has
  <2>2. i - 1 \in 1 .. Len(s) - 1 /\ Tail(s)[i - 1] \in C
    BY <1>1, <1>2, <1>3, <2>1
  <2>3. QED
    BY <1>2, <2>2 DEF Has
<1>4. ASSUME Has(Tail(s), C) PROVE Has(s, C)
  <2>1. PICK i \in 1 .. Len(s) - 1 : s[i + 1] \in C
    BY <1>2, <1>4 DEF Has
  <2>2. i + 1 \in DOMAIN s
    BY <1>1, <2>1
  <2>3. QED
    BY <2>1, <2>2 DEF Has
<1>5. Head(s) \in C => Has(s, C)
  BY <1>1 DEF Has
<1>6. QED
  BY <1>1, <1>3, <1>4, <1>5

Acks == [command : Commands, anybody : BOOLEAN]

LEMMA AppendBrings ==
  ASSUME NEW s \in Seq(Acks), NEW a \in Acks, NEW C
  PROVE  /\ Append(s, a) \in Seq(Acks) /\ Append(s, a) # <<>>
         /\ Append(s, a)[Len(Append(s, a))] = a
         /\ Brings(Append(s, a), C) <=> Brings(s, C) \/ a.command \in C
<1>1. Append(s, a) \in Seq(Acks) /\ DOMAIN Append(s, a) = 1 .. Len(s) + 1 /\ Len(s) \in Nat
  OBVIOUS
<1>2. Append(s, a)[Len(s) + 1] = a /\ \A i \in 1 .. Len(s) : Append(s, a)[i] = s[i]
  OBVIOUS
<1>3. Brings(Append(s, a), C) => Brings(s, C) \/ a.command \in C
  <2>1. SUFFICES ASSUME NEW i \in 1 .. Len(s) + 1, Append(s, a)[i].command \in C
                 PROVE  Brings(s, C) \/ a.command \in C
    BY <1>1 DEF Brings
  <2>2. CASE i = Len(s) + 1
    BY <1>2, <2>1, <2>2
  <2>3. CASE i # Len(s) + 1
    <3>1. i \in 1 .. Len(s)
      BY <1>1, <2>3
    <3>2. QED
      BY <1>2, <2>1, <3>1 DEF Brings
  <2>4. QED
    BY <2>2, <2>3
<1>4. Brings(s, C) => Brings(Append(s, a), C)
  <2>1. SUFFICES ASSUME NEW i \in 1 .. Len(s), s[i].command \in C
                 PROVE  Brings(Append(s, a), C)
    BY DEF Brings
  <2>2. i \in 1 .. Len(s) + 1
    BY <1>1
  <2>3. QED
    BY <1>1, <1>2, <2>1, <2>2 DEF Brings
<1>5. a.command \in C => Brings(Append(s, a), C)
  <2>1. Len(s) + 1 \in 1 .. Len(s) + 1
    BY <1>1
  <2>2. QED
    BY <1>1, <1>2, <2>1 DEF Brings
<1>6. Append(s, a) # <<>> /\ Len(Append(s, a)) = Len(s) + 1
  <2>1. 1 \in DOMAIN Append(s, a)
    BY <1>1
  <2>2. QED
    BY <1>1, <2>1
<1>7. QED
  BY <1>1, <1>2, <1>3, <1>4, <1>5, <1>6

LEMMA LastAnswer ==
  ASSUME NEW s \in Seq(Acks), NEW a \in Acks
  PROVE  Append(s, a) # <<>> /\ Append(s, a)[Len(Append(s, a))] = a
  BY AppendBrings

LEMMA TailBrings ==
  ASSUME NEW s \in Seq(Acks), s # <<>>, NEW C
  PROVE  /\ Head(s) \in Acks /\ Tail(s) \in Seq(Acks)
         /\ Brings(s, C) <=> Head(s).command \in C \/ Brings(Tail(s), C)
         /\ Tail(s) = <<>> => s[Len(s)] = Head(s)
         /\ Tail(s) # <<>> => s[Len(s)] = Tail(s)[Len(Tail(s))]
<1>1. Head(s) \in Acks /\ Tail(s) \in Seq(Acks) /\ Len(s) \in Nat \ {0} /\ Head(s) = s[1]
  OBVIOUS
<1>2. DOMAIN Tail(s) = 1 .. Len(s) - 1 /\ \A i \in 1 .. Len(s) - 1 : Tail(s)[i] = s[i + 1]
  OBVIOUS
<1>3. ASSUME Brings(s, C), Head(s).command \notin C PROVE Brings(Tail(s), C)
  <2>1. PICK i \in 1 .. Len(s) : s[i].command \in C
    BY <1>3 DEF Brings
  <2>2. i # 1
    BY <1>1, <1>3, <2>1
  <2>3. i - 1 \in 1 .. Len(s) - 1 /\ (i - 1) + 1 = i
    BY <1>1, <2>1, <2>2
  <2>4. Tail(s)[i - 1] = s[i]
    BY <1>2, <2>3
  <2>5. QED
    BY <1>2, <2>1, <2>3, <2>4 DEF Brings
<1>4. ASSUME Brings(Tail(s), C) PROVE Brings(s, C)
  <2>1. PICK i \in 1 .. Len(s) - 1 : s[i + 1].command \in C
    BY <1>2, <1>4 DEF Brings
  <2>2. i + 1 \in DOMAIN s
    BY <1>1, <2>1
  <2>3. QED
    BY <2>1, <2>2 DEF Brings
<1>5. Head(s).command \in C => Brings(s, C)
  BY <1>1 DEF Brings
<1>6. Len(Tail(s)) = Len(s) - 1 /\ (Tail(s) = <<>> => Len(s) = 1) /\ (Len(s) = 1 => Tail(s) = <<>>)
  <2>1. Len(Tail(s)) = Len(s) - 1
    BY <1>1
  <2>2. \A q \in Seq(Acks) : Len(q) = 0 <=> q = <<>>
    OBVIOUS
  <2>3. Len(Tail(s)) = 0 <=> Tail(s) = <<>>
    BY <1>1, <2>2
  <2>4. QED
    BY <1>1, <2>1, <2>3
<1>7. Tail(s) = <<>> => s[Len(s)] = Head(s)
  BY <1>1, <1>6
<1>8. Tail(s) # <<>> => s[Len(s)] = Tail(s)[Len(Tail(s))]
  BY <1>1, <1>2, <1>6
<1>9. QED
  BY <1>1, <1>3, <1>4, <1>5, <1>7, <1>8

\* What a command at the end does to the agreement.
LEMMA AppendFollows ==
  ASSUME NEW s \in Seq(Commands), NEW c \in Commands, NEW field \in BOOLEAN, NEW on \in BOOLEAN
  PROVE  /\ c \in FieldCommands => Follows(Append(s, c), field, c = "set")
         /\ c \notin FieldCommands /\ Follows(s, field, on) => Follows(Append(s, c), field, on)
<1>1. DOMAIN Append(s, c) = 1 .. Len(s) + 1 /\ Len(s) \in Nat /\ DOMAIN s = 1 .. Len(s)
  OBVIOUS
<1>2. Append(s, c)[Len(s) + 1] = c /\ \A i \in 1 .. Len(s) : Append(s, c)[i] = s[i]
  OBVIOUS
<1>3. ASSUME c \in FieldCommands PROVE LastSays(Append(s, c), c = "set")
  <2>1. Len(s) + 1 \in 1 .. Len(s) + 1 /\ \A j \in 1 .. Len(s) + 1 : ~(j > Len(s) + 1)
    BY <1>1
  <2>2. QED
    BY <1>1, <1>2, <1>3, <2>1 DEF LastSays
<1>4. ASSUME c \notin FieldCommands, LastSays(s, on) PROVE LastSays(Append(s, c), on)
  <2>1. PICK i \in 1 .. Len(s) : /\ s[i] \in FieldCommands /\ (s[i] = "set") = on
                                 /\ \A j \in 1 .. Len(s) : j > i => s[j] \notin FieldCommands
    BY <1>1, <1>4 DEF LastSays
  <2>2. i \in 1 .. Len(s) + 1 /\ Append(s, c)[i] = s[i]
    BY <1>1, <1>2
  <2>3. \A j \in 1 .. Len(s) + 1 : j > i => Append(s, c)[j] \notin FieldCommands
    <3>1. TAKE j \in 1 .. Len(s) + 1
    <3>2. j = Len(s) + 1 \/ j \in 1 .. Len(s)
      BY <1>1
    <3>3. QED
      BY <1>2, <1>4, <2>1, <3>2
  <2>4. QED
    BY <1>1, <2>1, <2>2, <2>3 DEF LastSays
<1>5. c \notin FieldCommands => (Has(Append(s, c), FieldCommands) <=> Has(s, FieldCommands))
  BY AppendHas
<1>6. QED
  BY <1>3, <1>4, <1>5 DEF Follows

\* What Redis does with the first command.
AfterCommand(c, field) == IF c \in FieldCommands THEN c = "set" ELSE field

LEMMA TailFollows ==
  ASSUME NEW s \in Seq(Commands), s # <<>>, NEW field \in BOOLEAN, NEW on \in BOOLEAN,
         Follows(s, field, on)
  PROVE  Follows(Tail(s), AfterCommand(Head(s), field), on)
<1>1. Len(s) \in Nat \ {0} /\ Head(s) = s[1] /\ DOMAIN s = 1 .. Len(s) /\ Head(s) \in Commands
  OBVIOUS
<1>2. DOMAIN Tail(s) = 1 .. Len(s) - 1 /\ \A i \in 1 .. Len(s) - 1 : Tail(s)[i] = s[i + 1]
  OBVIOUS
<1>3. CASE ~Has(s, FieldCommands) /\ field = on
  <2>1. ~Has(Tail(s), FieldCommands) /\ Head(s) \notin FieldCommands
    BY <1>3, TailHas
  <2>2. QED
    BY <1>3, <2>1 DEF Follows, AfterCommand
<1>4. CASE LastSays(s, on)
  <2>1. PICK i \in 1 .. Len(s) : /\ s[i] \in FieldCommands /\ (s[i] = "set") = on
                                 /\ \A j \in 1 .. Len(s) : j > i => s[j] \notin FieldCommands
    BY <1>1, <1>4 DEF LastSays
  <2>2. CASE i = 1
    <3>1. \A j \in 1 .. Len(s) - 1 : Tail(s)[j] \notin FieldCommands
      <4>1. TAKE j \in 1 .. Len(s) - 1
      <4>2. j + 1 \in 1 .. Len(s) /\ j + 1 > i
        BY <1>1, <2>2
      <4>3. QED
        BY <1>2, <2>1, <4>2
    <3>2. ~Has(Tail(s), FieldCommands)
      BY <1>2, <3>1 DEF Has
    <3>3. AfterCommand(Head(s), field) = on
      BY <1>1, <2>1, <2>2 DEF AfterCommand
    <3>4. QED
      BY <3>2, <3>3 DEF Follows
  <2>3. CASE i # 1
    <3>1. i - 1 \in 1 .. Len(s) - 1 /\ Tail(s)[i - 1] = s[i]
      BY <1>1, <1>2, <2>3
    <3>2. \A j \in 1 .. Len(s) - 1 : j > i - 1 => Tail(s)[j] \notin FieldCommands
      <4>1. SUFFICES ASSUME NEW j \in 1 .. Len(s) - 1, j > i - 1
                     PROVE  Tail(s)[j] \notin FieldCommands
        OBVIOUS
      <4>2. j + 1 \in 1 .. Len(s) /\ j + 1 > i
        BY <1>1, <4>1
      <4>3. QED
        BY <1>2, <2>1, <4>2
    <3>3. LastSays(Tail(s), on)
      BY <1>2, <2>1, <3>1, <3>2 DEF LastSays
    <3>4. QED
      BY <3>3 DEF Follows
  <2>4. QED
    BY <2>2, <2>3
<1>5. QED
  BY <1>3, <1>4 DEF Follows

-----------------------------------------------------------------------------
(* Presence: what a step of one process leaves to the others.              *)

LEMMA PresenceFrame ==
  ASSUME PresenceInv, NEW p \in Instances,
         \A q \in Instances \ {p} :
           /\ alone'[q] = alone[q] /\ online'[q] = online[q] /\ pipe'[q] = pipe[q]
           /\ answers'[q] = answers[q] /\ shown'[q] = shown[q]
           /\ q \in fields' <=> q \in fields
           /\ feed'[q] = feed[q] \/ (~alone[q] /\ feed'[q] # <<>>),
         erred => erred',
         ~erred' => \/ Announcing(p)'
                    \/ ~Announcing(p) /\ Listed' = Listed
                    \/ \A q \in Instances \ {p} : alone[q] \/ feed'[q] # <<>>
  PROVE  \A q \in Instances \ {p} : AloneIsCalm(q)' /\ SharedIsTrue(q)'
<1>1. SUFFICES ASSUME NEW q \in Instances \ {p} PROVE AloneIsCalm(q)' /\ SharedIsTrue(q)'
  OBVIOUS
<1>2. AloneIsCalm(q) /\ SharedIsTrue(q)
  BY <1>1 DEF PresenceInv
<1>3. AloneIsCalm(q)'
  BY <1>1, <1>2 DEF AloneIsCalm
<1>4. ASSUME ~alone'[q], ~erred' PROVE WillBeTold(q)' /\ FieldFollows(q)'
  <2>1. WillBeTold(q) /\ FieldFollows(q)
    BY <1>1, <1>2, <1>4 DEF SharedIsTrue
  <2>2. FieldFollows(q)'
    BY <1>1, <2>1 DEF FieldFollows
  <2>3. \A r \in Instances \ {p} : Announcing(r)' <=> Announcing(r)
    BY DEF Announcing
  <2>4. CASE Announcing(p)' \/ feed'[q] # <<>>
    BY <2>2, <2>4 DEF WillBeTold, Announcing
  <2>5. CASE ~Announcing(p) /\ Listed' = Listed /\ feed'[q] = <<>>
    <3>1. feed[q] = <<>>
      BY <1>1, <2>5
    <3>2. CASE \E r \in Instances : Announcing(r)
      <4>1. PICK r \in Instances \ {p} : Announcing(r)
        BY <2>5, <3>2
      <4>2. QED
        BY <2>2, <2>3, <4>1 DEF WillBeTold, Announcing
    <3>3. CASE ~\E r \in Instances : Announcing(r)
      BY <1>1, <2>1, <2>2, <2>5, <3>1, <3>3 DEF WillBeTold
    <3>4. QED
      BY <3>2, <3>3
  <2>6. QED
    BY <1>1, <1>4, <2>2, <2>4, <2>5
<1>5. QED
  BY <1>3, <1>4 DEF SharedIsTrue

\* A command more on the way.
LEMMA AskKeeps ==
  ASSUME PresenceInv, NEW p \in Instances, NEW c \in Commands, ~alone[p], Ask(p, c),
         UNCHANGED <<alone, fields, stale, answers, feed, shown, erred>>,
         \A q \in Instances \ {p} : online'[q] = online[q],
         c \in FieldCommands => (c = "set") = (online'[p] # {}),
         c \notin FieldCommands => (online'[p] # {}) = (online[p] # {})
  PROVE  /\ pipe' \in [Instances -> Seq(Commands)]
         /\ \A q \in Instances : AloneIsCalm(q)' /\ SharedIsTrue(q)'
<1>1. pipe[p] \in Seq(Commands) /\ pipe'[p] = Append(pipe[p], c)
      /\ \A q \in Instances \ {p} : pipe'[q] = pipe[q]
  BY DEF PresenceInv, PresenceTypeOK, Ask
<1>2. pipe' \in [Instances -> Seq(Commands)]
  BY <1>1, AppendHas DEF PresenceInv, PresenceTypeOK, Ask
<1>3. Announcing(p)' <=> Announcing(p) \/ c \in Announcements
  <2>1. Has(pipe'[p], Announcements) <=> Has(pipe[p], Announcements) \/ c \in Announcements
    BY <1>1, AppendHas
  <2>2. QED
    BY <2>1 DEF Announcing
<1>4. \A q \in Instances \ {p} : AloneIsCalm(q)' /\ SharedIsTrue(q)'
  <2>1. \A q \in Instances \ {p} :
           /\ alone'[q] = alone[q] /\ online'[q] = online[q] /\ pipe'[q] = pipe[q]
           /\ answers'[q] = answers[q] /\ shown'[q] = shown[q]
           /\ q \in fields' <=> q \in fields
           /\ feed'[q] = feed[q] \/ (~alone[q] /\ feed'[q] # <<>>)
    BY <1>1
  <2>2. Announcing(p)' \/ (~Announcing(p) /\ Listed' = Listed)
    BY <1>3 DEF Listed
  <2>3. QED
    BY <2>1, <2>2, PresenceFrame
<1>5. WillBeTold(p)'
  BY <1>1, AppendHas DEF WillBeTold
<1>6. ASSUME ~erred' PROVE FieldFollows(p)'
  <2>1. Follows(pipe[p], p \in fields, online[p] # {})
    BY <1>6 DEF PresenceInv, SharedIsTrue, FieldFollows
  <2>2. (p \in fields) \in BOOLEAN /\ (online[p] # {}) \in BOOLEAN
    OBVIOUS
  <2>3. Follows(Append(pipe[p], c), p \in fields, online'[p] # {})
    <3>1. CASE c \in FieldCommands
      BY <1>1, <2>2, <3>1, AppendFollows
    <3>2. CASE c \notin FieldCommands
      BY <1>1, <2>1, <2>2, <3>2, AppendFollows
    <3>3. QED
      BY <3>1, <3>2
  <2>4. QED
    BY <1>1, <2>3 DEF FieldFollows
<1>7. AloneIsCalm(p)' /\ SharedIsTrue(p)'
  BY <1>5, <1>6 DEF AloneIsCalm, SharedIsTrue
<1>8. QED
  BY <1>2, <1>4, <1>7

\* A process without Redis shows its own map.
LEMMA AloneKeeps ==
  ASSUME PresenceInv, NEW p \in Instances, alone[p],
         UNCHANGED <<alone, fields, stale, pipe, answers, feed, erred>>,
         shown' = [shown EXCEPT ![p] = online'[p] # {}],
         \A q \in Instances \ {p} : online'[q] = online[q]
  PROVE  /\ shown' \in [Instances -> BOOLEAN]
         /\ \A q \in Instances : AloneIsCalm(q)' /\ SharedIsTrue(q)'
<1>1. shown' \in [Instances -> BOOLEAN] /\ shown'[p] = (online'[p] # {})
      /\ \A q \in Instances \ {p} : shown'[q] = shown[q]
  BY DEF PresenceInv, PresenceTypeOK
<1>2. AloneIsCalm(p)' /\ SharedIsTrue(p)'
  BY <1>1 DEF PresenceInv, AloneIsCalm, SharedIsTrue
<1>3. Announcing(p)' <=> Announcing(p)
  BY DEF Announcing
<1>4. Announcing(p)' \/ (~Announcing(p) /\ Listed' = Listed)
  BY <1>3 DEF Listed
<1>5. \A q \in Instances \ {p} : AloneIsCalm(q)' /\ SharedIsTrue(q)'
  BY <1>1, <1>4, PresenceFrame
<1>6. QED
  BY <1>1, <1>2, <1>5

LEMMA SocketMoves ==
  ASSUME PresenceInv, NEW s \in Sockets,
         NEW x \in {"checking", "open", "closed", "early", "haunting"},
         socket' = [socket EXCEPT ![s].at = x]
  PROVE  /\ socket' \in [Sockets -> SocketStates]
         /\ socket'[s].process = socket[s].process /\ socket'[s].at = x
         /\ \A t \in Sockets \ {s} : socket'[t] = socket[t]
<1>1. socket \in [Sockets -> SocketStates] /\ socket[s] \in SocketStates
  BY DEF PresenceInv, PresenceTypeOK
<1>2. PICK r \in SocketStates : r = [socket[s] EXCEPT !.at = x]
  BY <1>1 DEF SocketStates
<1>3. r.process = socket[s].process /\ r.at = x
  BY <1>1, <1>2 DEF SocketStates
<1>4. socket' = [socket EXCEPT ![s] = r]
  BY <1>2
<1>5. QED
  BY <1>1, <1>3, <1>4

\* A socket that is not in its process's map, and stays out of it.
LEMMA SocketOutKeeps ==
  ASSUME PresenceInv, NEW s \in Sockets, NEW x \in {"checking", "closed", "early"},
         socket[s].at \notin {"open", "haunting"},
         socket' = [socket EXCEPT ![s].at = x],
         UNCHANGED <<alone, online, fields, stale, pipe, answers, feed, shown, erred, stops>>
  PROVE  PresenceInv'
<1>1. /\ socket' \in [Sockets -> SocketStates]
      /\ socket'[s].at = x
      /\ \A t \in Sockets \ {s} : socket'[t] = socket[t]
  BY SocketMoves
<1>2. PresenceTypeOK'
  BY <1>1 DEF PresenceInv, PresenceTypeOK
<1>3. ASSUME NEW q \in Instances PROVE MapIsSockets(q)' /\ AloneIsCalm(q)' /\ SharedIsTrue(q)'
  <2>1. MapIsSockets(q) /\ AloneIsCalm(q) /\ SharedIsTrue(q)
    BY DEF PresenceInv
  <2>2. MapIsSockets(q)'
    BY <1>1, <2>1 DEF MapIsSockets
  <2>3. AloneIsCalm(q)'
    BY <2>1 DEF AloneIsCalm
  <2>4. SharedIsTrue(q)'
    BY <2>1 DEF SharedIsTrue, WillBeTold, FieldFollows, Announcing, Listed
  <2>5. QED
    BY <2>2, <2>3, <2>4
<1>4. QED
  BY <1>2, <1>3 DEF PresenceInv

LEMMA ConnectionKeeps ==
  ASSUME PresenceInv, NEW s \in Sockets, HandleConnection(s) PROVE PresenceInv'
<1> DEFINE p == socket[s].process
           held == online[p] \cup {s}
<1>1. /\ p \in Instances /\ MapIsSockets(p) /\ s \notin online[p] /\ online[p] \subseteq Sockets
      /\ socket \in [Sockets -> SocketStates] /\ online \in [Instances -> SUBSET Sockets]
  BY ZenonT(40) DEF PresenceInv, PresenceTypeOK, SocketStates, MapIsSockets, HandleConnection
<1>2. PICK x \in {"open", "haunting"} : socket' = [socket EXCEPT ![s].at = x]
  <2>1. socket' = [socket EXCEPT ![s].at = IF socket[s].at = "early" THEN "haunting" ELSE "open"]
    BY DEF HandleConnection
  <2>2. CASE socket[s].at = "early"
    BY <2>1, <2>2
  <2>3. CASE socket[s].at # "early"
    BY <2>1, <2>3
  <2>4. QED
    BY <2>2, <2>3
<1>3. /\ socket' \in [Sockets -> SocketStates]
      /\ socket'[s].process = p /\ socket'[s].at = x
      /\ \A t \in Sockets \ {s} : socket'[t] = socket[t]
  BY <1>2, SocketMoves
<1>4. /\ online' \in [Instances -> SUBSET Sockets] /\ online'[p] = held
      /\ \A q \in Instances \ {p} : online'[q] = online[q]
  BY <1>1 DEF HandleConnection
<1>5. \A q \in Instances : MapIsSockets(q)'
  <2>1. TAKE q \in Instances
  <2>2. MapIsSockets(q)
    BY DEF PresenceInv
  <2>3. QED
    BY <1>1, <1>2, <1>3, <1>4, <2>2 DEF MapIsSockets
<1>6. held = {s} <=> online[p] = {}
  BY <1>1
<1>7. /\ pipe' \in [Instances -> Seq(Commands)] /\ shown' \in [Instances -> BOOLEAN]
      /\ \A q \in Instances : AloneIsCalm(q)' /\ SharedIsTrue(q)'
  <2>1. UNCHANGED <<alone, fields, stale, answers, feed, erred>>
    BY DEF HandleConnection
  <2>2. CASE alone[p]
    <3>1. shown' = [shown EXCEPT ![p] = online'[p] # {}] /\ UNCHANGED pipe
      BY <1>4, <1>6, <2>2 DEF HandleConnection, Changed, Broadcast
    <3>2. QED
      BY <1>1, <1>4, <2>1, <2>2, <3>1, AloneKeeps DEF PresenceInv, PresenceTypeOK
  <2>3. CASE ~alone[p] /\ held = {s}
    <3>1. Ask(p, "set") /\ UNCHANGED shown
      BY <2>3 DEF HandleConnection, Changed
    <3>2. "set" \in Commands /\ "set" \in FieldCommands
      BY DEF Commands, FieldCommands
    <3>3. QED
      BY <1>1, <1>4, <2>1, <2>3, <3>1, <3>2, AskKeeps DEF PresenceInv, PresenceTypeOK
  <2>4. CASE ~alone[p] /\ held # {s}
    <3>1. Ask(p, "keys") /\ UNCHANGED shown
      BY <2>4 DEF HandleConnection, Broadcast
    <3>2. "keys" \in Commands /\ "keys" \notin FieldCommands
      BY DEF Commands, FieldCommands
    <3>3. QED
      BY <1>1, <1>4, <1>6, <2>1, <2>4, <3>1, <3>2, AskKeeps DEF PresenceInv, PresenceTypeOK
  <2>5. QED
    BY <2>2, <2>3, <2>4
<1>8. PresenceTypeOK'
  BY <1>3, <1>4, <1>7 DEF PresenceInv, PresenceTypeOK, HandleConnection
<1>9. QED
  BY <1>5, <1>7, <1>8 DEF PresenceInv

LEMMA DisconnectKeeps ==
  ASSUME PresenceInv, NEW s \in Sockets, HandleDisconnect(s) PROVE PresenceInv'
<1> DEFINE p == socket[s].process
           held == online[p] \ {s}
<1>1. /\ p \in Instances /\ MapIsSockets(p) /\ s \in online[p] /\ online[p] \subseteq Sockets
      /\ socket \in [Sockets -> SocketStates] /\ online \in [Instances -> SUBSET Sockets]
  BY DEF PresenceInv, PresenceTypeOK, SocketStates, MapIsSockets, HandleDisconnect
<1>2. socket' = [socket EXCEPT ![s].at = "closed"]
  BY DEF HandleDisconnect
<1>3. /\ socket' \in [Sockets -> SocketStates]
      /\ socket'[s].process = p /\ socket'[s].at = "closed"
      /\ \A t \in Sockets \ {s} : socket'[t] = socket[t]
  BY <1>2, SocketMoves
<1>4. /\ online' \in [Instances -> SUBSET Sockets] /\ online'[p] = held
      /\ \A q \in Instances \ {p} : online'[q] = online[q]
  BY <1>1 DEF HandleDisconnect
<1>5. \A q \in Instances : MapIsSockets(q)'
  <2>1. TAKE q \in Instances
  <2>2. MapIsSockets(q)
    BY DEF PresenceInv
  <2>3. QED
    BY <1>1, <1>3, <1>4, <2>2 DEF MapIsSockets
<1>6. /\ pipe' \in [Instances -> Seq(Commands)] /\ shown' \in [Instances -> BOOLEAN]
      /\ \A q \in Instances : AloneIsCalm(q)' /\ SharedIsTrue(q)'
  <2>1. UNCHANGED <<alone, fields, stale, answers, feed, erred>>
    BY DEF HandleDisconnect
  <2>2. CASE alone[p]
    <3>1. shown' = [shown EXCEPT ![p] = online'[p] # {}] /\ UNCHANGED pipe
      BY <1>4, <2>2 DEF HandleDisconnect, Changed, Broadcast
    <3>2. QED
      BY <1>1, <1>4, <2>1, <2>2, <3>1, AloneKeeps DEF PresenceInv, PresenceTypeOK
  <2>3. CASE ~alone[p] /\ held = {}
    <3>1. Ask(p, "del") /\ UNCHANGED shown
      BY <2>3 DEF HandleDisconnect, Changed
    <3>2. "del" \in Commands /\ "del" \in FieldCommands
      BY DEF Commands, FieldCommands
    <3>3. QED
      BY <1>1, <1>4, <2>1, <2>3, <3>1, <3>2, AskKeeps DEF PresenceInv, PresenceTypeOK
  <2>4. CASE ~alone[p] /\ held # {}
    <3>1. Ask(p, "keys") /\ UNCHANGED shown
      BY <2>4 DEF HandleDisconnect, Broadcast
    <3>2. "keys" \in Commands /\ "keys" \notin FieldCommands
      BY DEF Commands, FieldCommands
    <3>3. (online'[p] # {}) = (online[p] # {})
      BY <1>1, <1>4, <2>4
    <3>4. QED
      BY <1>1, <1>4, <2>1, <2>4, <3>1, <3>2, <3>3, AskKeeps DEF PresenceInv, PresenceTypeOK
  <2>5. QED
    BY <2>2, <2>3, <2>4
<1>7. PresenceTypeOK'
  BY <1>3, <1>4, <1>6 DEF PresenceInv, PresenceTypeOK, HandleDisconnect
<1>8. QED
  BY <1>5, <1>6, <1>7 DEF PresenceInv

-----------------------------------------------------------------------------
(* Presence: Redis, and restarts.                                          *)

\* A process with something on its way has Redis.
LEMMA BusyIsShared ==
  ASSUME PresenceInv, NEW p \in Instances,
         pipe[p] # <<>> \/ answers[p] # <<>> \/ feed[p] # <<>>
  PROVE  /\ ~alone[p] /\ (~erred => WillBeTold(p) /\ FieldFollows(p))
         /\ pipe[p] \in Seq(Commands) /\ answers[p] \in Seq(Acks) /\ feed[p] \in Seq(BOOLEAN)
  BY DEF PresenceInv, PresenceTypeOK, AloneIsCalm, SharedIsTrue, Acks

LEMMA SameSockets ==
  ASSUME PresenceInv, UNCHANGED <<socket, online>>
  PROVE  \A q \in Instances : MapIsSockets(q)'
  BY DEF PresenceInv, MapIsSockets

LEMMA RunKeeps == ASSUME PresenceInv, NEW p \in Instances, RunCommand(p) PROVE PresenceInv'
<1> DEFINE c == Head(pipe[p])
           a == [command |-> c, anybody |-> fields # {} \/ stale]
<1>1. /\ ~alone[p] /\ (~erred => WillBeTold(p) /\ FieldFollows(p))
      /\ pipe[p] \in Seq(Commands) /\ answers[p] \in Seq(Acks) /\ pipe[p] # <<>>
  BY BusyIsShared DEF RunCommand
<1>2. c \in Commands /\ a \in Acks /\ a.command = c /\ a.anybody = Listed
  BY <1>1, TailHas DEF Acks, Listed, PresenceInv, PresenceTypeOK
<1>3. /\ fields' \subseteq Instances /\ \A q \in Instances \ {p} : q \in fields' <=> q \in fields
      /\ (p \in fields') = AfterCommand(c, p \in fields)
      /\ c \notin FieldCommands => fields' = fields
  <2>1. fields \subseteq Instances
    BY DEF PresenceInv, PresenceTypeOK
  <2>2. CASE c = "set"
    <3>1. fields' = fields \cup {p}
      BY <2>2 DEF RunCommand
    <3>2. QED
      BY <2>1, <2>2, <3>1 DEF AfterCommand, FieldCommands
  <2>3. CASE c = "del"
    <3>1. fields' = fields \ {p}
      BY <2>3 DEF RunCommand
    <3>2. QED
      BY <2>1, <2>3, <3>1 DEF AfterCommand, FieldCommands
  <2>4. CASE c \notin FieldCommands
    <3>1. fields' = fields
      BY <2>4 DEF RunCommand, FieldCommands
    <3>2. QED
      BY <2>1, <2>4, <3>1 DEF AfterCommand
  <2>5. QED
    BY <2>2, <2>3, <2>4 DEF FieldCommands
<1>4. /\ feed' \in [Instances -> Seq(BOOLEAN)]
      /\ \A q \in Instances : feed'[q] = feed[q] \/ (~alone[q] /\ feed'[q] # <<>>)
      /\ c \in {"publishOn", "publishOff"} =>
           \A q \in Instances \ {p} : alone[q] \/ feed'[q] # <<>>
  <2>1. feed \in [Instances -> Seq(BOOLEAN)]
    BY DEF PresenceInv, PresenceTypeOK
  <2>2. \A q \in Instances : /\ Append(feed[q], c = "publishOn") \in Seq(BOOLEAN)
                             /\ Append(feed[q], c = "publishOn") # <<>>
    <3>1. TAKE q \in Instances
    <3>2. feed[q] \in Seq(BOOLEAN) /\ (c = "publishOn") \in BOOLEAN
      BY <2>1
    <3>3. \A s \in Seq(BOOLEAN), b \in BOOLEAN : Append(s, b) \in Seq(BOOLEAN) /\ Append(s, b) # <<>>
      <4>1. TAKE s \in Seq(BOOLEAN), b \in BOOLEAN
      <4>2. Append(s, b) \in Seq(BOOLEAN) /\ Len(Append(s, b)) = Len(s) + 1 /\ Len(s) \in Nat
        OBVIOUS
      <4>3. Len(<<>>) = 0
        OBVIOUS
      <4>4. QED
        BY <4>2, <4>3
    <3>4. QED
      BY <3>2, <3>3
  <2>3. CASE c \in {"publishOn", "publishOff"}
    <3>1. feed' = [q \in Instances |-> IF q = p \/ alone[q] THEN feed[q]
                                       ELSE Append(feed[q], c = "publishOn")]
      BY <2>3 DEF RunCommand
    <3>2. QED
      BY <2>1, <2>2, <3>1
  <2>4. CASE c \notin {"publishOn", "publishOff"}
    <3>1. feed' = feed
      BY <2>4 DEF RunCommand
    <3>2. QED
      BY <2>1, <2>4, <3>1
  <2>5. QED
    BY <2>3, <2>4
<1>5. /\ answers' = [answers EXCEPT ![p] = Append(@, a)]
      /\ pipe' = [pipe EXCEPT ![p] = Tail(@)]
      /\ UNCHANGED <<alone, socket, online, stale, shown, erred, stops>>
  BY DEF RunCommand
<1> HIDE DEF c, a
<1>6. /\ answers' \in [Instances -> Seq(Acks)] /\ answers'[p] = Append(answers[p], a)
      /\ pipe' \in [Instances -> Seq(Commands)] /\ pipe'[p] = Tail(pipe[p])
      /\ \A q \in Instances \ {p} : answers'[q] = answers[q] /\ pipe'[q] = pipe[q]
  <2>1. /\ answers \in [Instances -> Seq(Acks)] /\ pipe \in [Instances -> Seq(Commands)]
        /\ answers[p] \in Seq(Acks)
    BY DEF PresenceInv, PresenceTypeOK, Acks
  <2>2. Append(answers[p], a) \in Seq(Acks) /\ Tail(pipe[p]) \in Seq(Commands)
    BY <1>1, <1>2, <2>1, TailHas, AppendBrings
  <2>3. QED
    BY <1>5, <2>1, <2>2
<1>7. PresenceTypeOK'
  BY <1>3, <1>4, <1>5, <1>6 DEF PresenceInv, PresenceTypeOK, Acks
<1>8. \A C : /\ Brings(answers'[p], C) <=> Brings(answers[p], C) \/ c \in C
             /\ Has(pipe[p], C) <=> c \in C \/ Has(pipe'[p], C)
  BY <1>1, <1>2, <1>6, TailHas, AppendBrings DEF c
<1>9. c \notin FieldCommands /\ c \notin {"publishOn", "publishOff"} =>
        /\ c \notin Announcements /\ Listed' = Listed
  BY <1>2, <1>3, <1>5 DEF Announcements, Commands, FieldCommands, Listed
<1>10. \/ Announcing(p)'
       \/ ~Announcing(p) /\ Listed' = Listed
       \/ \A q \in Instances \ {p} : alone[q] \/ feed'[q] # <<>>
  <2>1. CASE c \in FieldCommands
    BY <1>8, <2>1 DEF Announcing
  <2>2. CASE c \in {"publishOn", "publishOff"}
    BY <1>4, <2>2
  <2>3. CASE c \notin FieldCommands /\ c \notin {"publishOn", "publishOff"}
    <3>1. Announcing(p)' <=> Announcing(p)
      BY <1>8, <1>9, <2>3 DEF Announcing
    <3>2. QED
      BY <1>9, <2>3, <3>1
  <2>4. QED
    BY <2>1, <2>2, <2>3
<1>11. \A q \in Instances \ {p} : AloneIsCalm(q)' /\ SharedIsTrue(q)'
  <2>1. \A q \in Instances \ {p} :
           /\ alone'[q] = alone[q] /\ online'[q] = online[q] /\ pipe'[q] = pipe[q]
           /\ answers'[q] = answers[q] /\ shown'[q] = shown[q]
           /\ q \in fields' <=> q \in fields
           /\ feed'[q] = feed[q] \/ (~alone[q] /\ feed'[q] # <<>>)
    BY <1>3, <1>4, <1>5, <1>6
  <2>2. QED
    BY <1>5, <1>10, <2>1, PresenceFrame
<1>12. WillBeTold(p)'
  <2>1. CASE c \in Announcements
    BY <1>8, <2>1 DEF WillBeTold
  <2>2. CASE c \notin Announcements
    <3>1. Listed' = Listed
      BY <1>2, <1>9, <2>2 DEF Announcements, FieldCommands, Commands
    <3>2. answers'[p] # <<>> /\ answers'[p][Len(answers'[p])] = a
      BY <1>1, <1>2, <1>6, LastAnswer
    <3>3. QED
      BY <1>2, <3>1, <3>2 DEF WillBeTold
  <2>3. QED
    BY <2>1, <2>2
<1>13. ASSUME ~erred' PROVE FieldFollows(p)'
  <2>1. Follows(pipe[p], p \in fields, online[p] # {})
    BY <1>1, <1>5, <1>13 DEF FieldFollows
  <2>2. (p \in fields) \in BOOLEAN /\ (online[p] # {}) \in BOOLEAN
    OBVIOUS
  <2>3. Follows(Tail(pipe[p]), AfterCommand(c, p \in fields), online[p] # {})
    BY <1>1, <2>1, <2>2, TailFollows DEF c
  <2>4. QED
    BY <1>3, <1>5, <1>6, <2>3 DEF FieldFollows
<1>14. AloneIsCalm(p)' /\ SharedIsTrue(p)'
  BY <1>1, <1>5, <1>12, <1>13 DEF AloneIsCalm, SharedIsTrue
<1>15. QED
  BY <1>5, <1>7, <1>11, <1>14, SameSockets DEF PresenceInv

LEMMA AnswerKeeps == ASSUME PresenceInv, NEW p \in Instances, GetAnswer(p) PROVE PresenceInv'
<1> DEFINE a == Head(answers[p])
<1>1. /\ ~alone[p] /\ (~erred => WillBeTold(p) /\ FieldFollows(p))
      /\ pipe[p] \in Seq(Commands) /\ answers[p] \in Seq(Acks) /\ answers[p] # <<>>
  BY BusyIsShared DEF GetAnswer
<1>2. a \in Acks /\ a.command \in Commands /\ a.anybody \in BOOLEAN
  BY <1>1, TailBrings DEF Acks
<1>3. /\ answers' = [answers EXCEPT ![p] = Tail(@)]
      /\ UNCHANGED <<alone, socket, online, fields, stale, feed, erred, stops>>
  BY DEF GetAnswer
<1>4. \/ a.command \in FieldCommands /\ shown' = [shown EXCEPT ![p] = a.command = "set"]
         /\ \E c \in {"publishOn", "publishOff"} : Ask(p, c)
      \/ a.command \in {"publishOn", "publishOff"} /\ Ask(p, "keys") /\ UNCHANGED shown
      \/ a.command = "keys" /\ shown' = [shown EXCEPT ![p] = a.anybody] /\ UNCHANGED pipe
  <2>1. CASE a.command = "set"
    BY <2>1 DEF GetAnswer, FieldCommands
  <2>2. CASE a.command = "del"
    BY <2>2 DEF GetAnswer, FieldCommands
  <2>3. CASE a.command \in {"publishOn", "publishOff"}
    BY <2>3 DEF GetAnswer
  <2>4. CASE a.command = "keys"
    BY <2>4 DEF GetAnswer
  <2>5. QED
    BY <1>2, <2>1, <2>2, <2>3, <2>4 DEF Commands
<1> HIDE DEF a
<1>5. /\ answers' \in [Instances -> Seq(Acks)] /\ answers'[p] = Tail(answers[p])
      /\ \A q \in Instances \ {p} : answers'[q] = answers[q]
  BY <1>1, <1>3, TailBrings DEF PresenceInv, PresenceTypeOK, Acks
<1>6. /\ shown' \in [Instances -> BOOLEAN] /\ \A q \in Instances \ {p} : shown'[q] = shown[q]
      /\ a.command = "keys" => shown'[p] = a.anybody
  BY <1>2, <1>4 DEF PresenceInv, PresenceTypeOK, FieldCommands
<1>7. \/ /\ a.command \in FieldCommands
         /\ \E c \in {"publishOn", "publishOff"} : pipe' = [pipe EXCEPT ![p] = Append(@, c)]
      \/ /\ a.command \in {"publishOn", "publishOff"}
         /\ pipe' = [pipe EXCEPT ![p] = Append(@, "keys")]
      \/ a.command = "keys" /\ pipe' = pipe
  BY <1>4 DEF Ask
<1>8. \/ /\ a.command \in FieldCommands
         /\ \E c \in {"publishOn", "publishOff"} : pipe'[p] = Append(pipe[p], c)
      \/ a.command \in {"publishOn", "publishOff"} /\ pipe'[p] = Append(pipe[p], "keys")
      \/ a.command = "keys" /\ pipe'[p] = pipe[p]
  BY <1>7 DEF PresenceInv, PresenceTypeOK
<1>9. pipe'[p] \in Seq(Commands)
  BY <1>1, <1>8, AppendHas DEF Commands
<1>10. /\ pipe' \in [Instances -> Seq(Commands)]
       /\ \A q \in Instances \ {p} : pipe'[q] = pipe[q]
  BY <1>7, <1>8, <1>9 DEF PresenceInv, PresenceTypeOK
<1>11. PresenceTypeOK'
  BY <1>3, <1>5, <1>6, <1>10 DEF PresenceInv, PresenceTypeOK, Acks
<1>12. \A C : Brings(answers[p], C) <=> a.command \in C \/ Brings(answers'[p], C)
  BY <1>1, <1>5, TailBrings DEF a
<1>13. "publishOn" \in Announcements /\ "publishOff" \in Announcements /\ "keys" \notin Announcements
       /\ {"publishOn", "publishOff", "keys"} \cap FieldCommands = {}
       /\ {"publishOn", "publishOff", "keys"} \subseteq Commands
  BY DEF Announcements, Commands, FieldCommands
<1>14. Announcing(p)' \/ (~Announcing(p) /\ Listed' = Listed)
  <2>1. Listed' = Listed
    BY <1>3 DEF Listed
  <2>2. CASE a.command \in FieldCommands
    <3>1. PICK c \in {"publishOn", "publishOff"} : pipe'[p] = Append(pipe[p], c)
      BY <1>8, <1>13, <2>2
    <3>2. Has(pipe'[p], Announcements)
      BY <1>1, <1>13, <3>1, AppendHas
    <3>3. QED
      BY <3>2 DEF Announcing
  <2>3. CASE a.command \notin FieldCommands
    <3>1. Has(pipe[p], Announcements) => Has(pipe'[p], Announcements)
      BY <1>1, <1>8, <1>13, <2>3, AppendHas
    <3>2. Brings(answers[p], FieldCommands) => Brings(answers'[p], FieldCommands)
      BY <1>12, <2>3
    <3>3. QED
      BY <2>1, <3>1, <3>2 DEF Announcing
  <2>4. QED
    BY <2>2, <2>3
<1>15. \A q \in Instances \ {p} : AloneIsCalm(q)' /\ SharedIsTrue(q)'
  <2>1. \A q \in Instances \ {p} :
           /\ alone'[q] = alone[q] /\ online'[q] = online[q] /\ pipe'[q] = pipe[q]
           /\ answers'[q] = answers[q] /\ shown'[q] = shown[q]
           /\ q \in fields' <=> q \in fields
           /\ feed'[q] = feed[q] \/ (~alone[q] /\ feed'[q] # <<>>)
    BY <1>3, <1>5, <1>6, <1>10
  <2>2. QED
    BY <1>3, <1>14, <2>1, PresenceFrame
<1>16. ASSUME ~erred' PROVE FieldFollows(p)'
  <2>1. Follows(pipe[p], p \in fields, online[p] # {})
    BY <1>1, <1>3, <1>16 DEF FieldFollows
  <2>2. (p \in fields) \in BOOLEAN /\ (online[p] # {}) \in BOOLEAN
    OBVIOUS
  <2>3. ASSUME NEW c \in {"publishOn", "publishOff", "keys"}
        PROVE  Follows(Append(pipe[p], c), p \in fields, online[p] # {})
    <3>1. pipe[p] \in Seq(Commands) /\ c \in Commands /\ c \notin FieldCommands
      BY <1>1, <1>13
    <3>2. QED
      BY <2>1, <2>2, <3>1, AppendFollows
  <2>4. Follows(pipe'[p], p \in fields, online[p] # {})
    BY <1>8, <2>1, <2>3
  <2>5. QED
    BY <1>3, <2>4 DEF FieldFollows
<1>17. ASSUME ~erred' PROVE WillBeTold(p)'
  <2>1. CASE a.command # "keys"
    <3>1. pipe'[p] # <<>>
      BY <1>1, <1>8, <1>13, <2>1, AppendHas
    <3>2. QED
      BY <3>1 DEF WillBeTold
  <2>2. CASE a.command = "keys"
    <3>1. WillBeTold(p) /\ Listed' = Listed /\ pipe'[p] = pipe[p] /\ feed'[p] = feed[p]
      BY <1>1, <1>3, <1>8, <1>13, <1>17, <2>2 DEF Listed
    <3>2. Brings(answers[p], Announcements) <=> Brings(answers'[p], Announcements)
      BY <1>12, <1>13, <2>2
    <3>3. CASE \E q \in Instances : Announcing(q)
      <4>1. PICK q \in Instances : Announcing(q)
        BY <3>3
      <4>2. CASE q = p
        <5>1. Announcing(p)'
          BY <1>14, <4>1, <4>2
        <5>2. QED
          BY <5>1 DEF WillBeTold, Announcing
      <4>3. CASE q # p
        <5>1. pipe'[q] = pipe[q] /\ answers'[q] = answers[q]
          BY <1>5, <1>10, <4>3
        <5>2. QED
          BY <4>1, <5>1 DEF WillBeTold, Announcing
      <4>4. QED
        BY <4>2, <4>3
    <3>4. CASE pipe[p] # <<>> \/ feed[p] # <<>> \/ Brings(answers[p], Announcements)
      BY <3>1, <3>2, <3>4 DEF WillBeTold
    <3>5. CASE answers[p][Len(answers[p])].anybody = Listed
      <4>1. CASE Tail(answers[p]) = <<>>
        <5>1. answers[p][Len(answers[p])] = a
          BY <1>1, <4>1, TailBrings DEF a
        <5>2. shown'[p] = Listed'
          BY <1>6, <2>2, <3>1, <3>5, <5>1
        <5>3. QED
          BY <1>5, <4>1, <5>2 DEF WillBeTold
      <4>2. CASE Tail(answers[p]) # <<>>
        <5>1. answers[p][Len(answers[p])] = answers'[p][Len(answers'[p])]
          BY <1>1, <1>5, <4>2, TailBrings
        <5>2. QED
          BY <1>5, <3>1, <3>5, <4>2, <5>1 DEF WillBeTold
      <4>3. QED
        BY <4>1, <4>2
    <3>6. QED
      BY <1>1, <3>1, <3>3, <3>4, <3>5 DEF WillBeTold
  <2>3. QED
    BY <2>1, <2>2
<1>18. AloneIsCalm(p)' /\ SharedIsTrue(p)'
  BY <1>1, <1>3, <1>16, <1>17 DEF AloneIsCalm, SharedIsTrue
<1>19. QED
  BY <1>3, <1>11, <1>15, <1>18, SameSockets DEF PresenceInv

LEMMA FailKeeps == ASSUME PresenceInv, NEW p \in Instances, FailCommand(p) PROVE PresenceInv'
<1>1. ~alone[p] /\ pipe[p] \in Seq(Commands) /\ pipe[p] # <<>>
  BY BusyIsShared DEF FailCommand
<1>2. /\ erred' /\ pipe' = [pipe EXCEPT ![p] = Tail(@)]
      /\ UNCHANGED <<alone, socket, online, fields, stale, answers, feed, shown, stops>>
  BY DEF FailCommand
<1>3. pipe' \in [Instances -> Seq(Commands)] /\ \A q \in Instances \ {p} : pipe'[q] = pipe[q]
  BY <1>1, <1>2, TailHas DEF PresenceInv, PresenceTypeOK
<1>4. PresenceTypeOK'
  BY <1>2, <1>3 DEF PresenceInv, PresenceTypeOK
<1>5. \A q \in Instances : AloneIsCalm(q)' /\ SharedIsTrue(q)'
  BY <1>1, <1>2, <1>3 DEF PresenceInv, AloneIsCalm, SharedIsTrue
<1>6. QED
  BY <1>2, <1>4, <1>5, SameSockets DEF PresenceInv

LEMMA PublicationKeeps ==
  ASSUME PresenceInv, NEW p \in Instances, HandleRedisMessage(p) PROVE PresenceInv'
<1>1. /\ ~alone[p] /\ (~erred => FieldFollows(p))
      /\ pipe[p] \in Seq(Commands) /\ feed[p] \in Seq(BOOLEAN) /\ feed[p] # <<>>
  BY BusyIsShared DEF HandleRedisMessage
<1>2. /\ shown' = [shown EXCEPT ![p] = Head(feed[p])] /\ feed' = [feed EXCEPT ![p] = Tail(@)]
      /\ pipe' = [pipe EXCEPT ![p] = Append(@, "keys")]
      /\ UNCHANGED <<alone, socket, online, fields, stale, answers, erred, stops>>
  BY DEF HandleRedisMessage, Ask
<1>3. Head(feed[p]) \in BOOLEAN /\ Tail(feed[p]) \in Seq(BOOLEAN)
  <2>1. \A s \in Seq(BOOLEAN) : s # <<>> => Head(s) \in BOOLEAN /\ Tail(s) \in Seq(BOOLEAN)
    OBVIOUS
  <2>2. QED
    BY <1>1, <2>1
<1>4. "keys" \in Commands /\ "keys" \notin FieldCommands /\ "keys" \notin Announcements
  BY DEF Commands, FieldCommands, Announcements
<1>5. /\ pipe' \in [Instances -> Seq(Commands)] /\ pipe'[p] = Append(pipe[p], "keys")
      /\ shown' \in [Instances -> BOOLEAN] /\ feed' \in [Instances -> Seq(BOOLEAN)]
      /\ \A q \in Instances \ {p} : /\ pipe'[q] = pipe[q] /\ shown'[q] = shown[q]
                                    /\ feed'[q] = feed[q]
  BY <1>1, <1>2, <1>3, <1>4, AppendHas DEF PresenceInv, PresenceTypeOK
<1>6. PresenceTypeOK'
  BY <1>2, <1>5 DEF PresenceInv, PresenceTypeOK
<1>7. Announcing(p)' \/ (~Announcing(p) /\ Listed' = Listed)
  <2>1. Has(pipe'[p], Announcements) <=> Has(pipe[p], Announcements)
    BY <1>1, <1>4, <1>5, AppendHas
  <2>2. QED
    BY <1>2, <2>1 DEF Announcing, Listed
<1>8. \A q \in Instances \ {p} : AloneIsCalm(q)' /\ SharedIsTrue(q)'
  <2>1. \A q \in Instances \ {p} :
           /\ alone'[q] = alone[q] /\ online'[q] = online[q] /\ pipe'[q] = pipe[q]
           /\ answers'[q] = answers[q] /\ shown'[q] = shown[q]
           /\ q \in fields' <=> q \in fields
           /\ feed'[q] = feed[q] \/ (~alone[q] /\ feed'[q] # <<>>)
    BY <1>2, <1>5
  <2>2. QED
    BY <1>2, <1>7, <2>1, PresenceFrame
<1>9. pipe'[p] # <<>>
  BY <1>1, <1>4, <1>5, AppendHas
<1>10. ASSUME ~erred' PROVE FieldFollows(p)'
  <2>1. Follows(pipe[p], p \in fields, online[p] # {})
    BY <1>1, <1>2, <1>10 DEF FieldFollows
  <2>2. (p \in fields) \in BOOLEAN /\ (online[p] # {}) \in BOOLEAN
    OBVIOUS
  <2>3. Follows(Append(pipe[p], "keys"), p \in fields, online[p] # {})
    BY <1>1, <1>4, <2>1, <2>2, AppendFollows
  <2>4. QED
    BY <1>2, <1>5, <2>3 DEF FieldFollows
<1>11. AloneIsCalm(p)' /\ SharedIsTrue(p)'
  BY <1>1, <1>2, <1>9, <1>10 DEF AloneIsCalm, SharedIsTrue, WillBeTold
<1>12. QED
  BY <1>2, <1>6, <1>8, <1>11, SameSockets DEF PresenceInv

\* A process that stops before anything of it is on its way has told everybody all;
\* otherwise the property leaves out what follows.
LEMMA RestartKeeps == ASSUME PresenceInv, NEW p \in Instances, Restart(p) PROVE PresenceInv'
<1>1. PICK b \in BOOLEAN : /\ alone' = [alone EXCEPT ![p] = b]
                           /\ pipe' = [pipe EXCEPT ![p] = IF b THEN <<>> ELSE <<"keys">>]
  BY DEF Restart
<1>2. /\ online' = [online EXCEPT ![p] = {}]
      /\ fields' = fields \ {p} /\ stale' = (stale \/ p \in fields)
      /\ answers' = [answers EXCEPT ![p] = <<>>] /\ feed' = [feed EXCEPT ![p] = <<>>]
      /\ shown' = [shown EXCEPT ![p] = FALSE]
      /\ erred' = (erred \/ pipe[p] # <<>> \/ answers[p] # <<>>)
      /\ stops' \in 0 .. MaxStops
  BY StopAssumption DEF Restart, PresenceInv, PresenceTypeOK
<1>3. /\ socket' \in [Sockets -> SocketStates]
      /\ \A s \in Sockets :
           IF socket[s].process = p /\ socket[s].at # "new"
           THEN socket'[s].process = p /\ socket'[s].at = "closed"
           ELSE socket'[s] = socket[s]
  <2>1. socket \in [Sockets -> SocketStates]
    BY DEF PresenceInv, PresenceTypeOK
  <2>2. socket' = [s \in Sockets |-> IF socket[s].process = p /\ socket[s].at # "new"
                                     THEN [socket[s] EXCEPT !.at = "closed"] ELSE socket[s]]
    BY DEF Restart
  <2>3. ASSUME NEW s \in Sockets
        PROVE  /\ [socket[s] EXCEPT !.at = "closed"] \in SocketStates
               /\ [socket[s] EXCEPT !.at = "closed"].process = socket[s].process
               /\ [socket[s] EXCEPT !.at = "closed"].at = "closed"
    <3>1. socket[s] \in SocketStates
      BY <2>1
    <3>2. PICK r \in SocketStates : r = [socket[s] EXCEPT !.at = "closed"]
      BY <3>1 DEF SocketStates
    <3>3. QED
      BY <3>1, <3>2 DEF SocketStates
  <2>4. QED
    BY <2>1, <2>2, <2>3
<1>4. /\ alone'[p] = b /\ pipe'[p] = (IF b THEN <<>> ELSE <<"keys">>) /\ online'[p] = {}
      /\ answers'[p] = <<>> /\ feed'[p] = <<>> /\ shown'[p] = FALSE /\ p \notin fields'
      /\ \A q \in Instances \ {p} :
           /\ alone'[q] = alone[q] /\ online'[q] = online[q] /\ pipe'[q] = pipe[q]
           /\ answers'[q] = answers[q] /\ shown'[q] = shown[q] /\ feed'[q] = feed[q]
           /\ q \in fields' <=> q \in fields
  BY <1>1, <1>2 DEF PresenceInv, PresenceTypeOK
<1>5. PresenceTypeOK'
  <2>1. <<"keys">> \in Seq(Commands) /\ <<>> \in Seq(Commands)
    BY DEF Commands
  <2>2. pipe' \in [Instances -> Seq(Commands)] /\ alone' \in [Instances -> BOOLEAN]
    BY <1>1, <2>1 DEF PresenceInv, PresenceTypeOK
  <2>3. /\ online' \in [Instances -> SUBSET Sockets] /\ fields' \subseteq Instances
        /\ stale' \in BOOLEAN /\ erred' \in BOOLEAN
    BY <1>2 DEF PresenceInv, PresenceTypeOK
  <2>4. /\ answers' \in [Instances -> Seq([command : Commands, anybody : BOOLEAN])]
        /\ feed' \in [Instances -> Seq(BOOLEAN)] /\ shown' \in [Instances -> BOOLEAN]
    <3>1. <<>> \in Seq([command : Commands, anybody : BOOLEAN]) /\ <<>> \in Seq(BOOLEAN)
      OBVIOUS
    <3>2. QED
      BY <1>2, <3>1 DEF PresenceInv, PresenceTypeOK
  <2>5. QED
    BY <1>2, <1>3, <2>2, <2>3, <2>4 DEF PresenceTypeOK
<1>6. \A q \in Instances : MapIsSockets(q)'
  <2>1. TAKE q \in Instances
  <2>2. MapIsSockets(q)
    BY DEF PresenceInv
  <2>3. QED
    BY <1>3, <1>4, <2>2 DEF MapIsSockets
<1>7. \A q \in Instances \ {p} : AloneIsCalm(q)' /\ SharedIsTrue(q)'
  <2>1. ASSUME ~erred' PROVE ~Announcing(p) /\ Listed' = Listed
    <3>1. pipe[p] = <<>> /\ answers[p] = <<>>
      BY <1>2, <2>1
    <3>2. ~Announcing(p)
      BY <3>1 DEF Announcing, Has, Brings
    <3>3. Listed' = Listed
      BY <1>2 DEF Listed, PresenceInv, PresenceTypeOK
    <3>4. QED
      BY <3>2, <3>3
  <2>2. \A q \in Instances \ {p} :
           /\ alone'[q] = alone[q] /\ online'[q] = online[q] /\ pipe'[q] = pipe[q]
           /\ answers'[q] = answers[q] /\ shown'[q] = shown[q]
           /\ q \in fields' <=> q \in fields
           /\ feed'[q] = feed[q] \/ (~alone[q] /\ feed'[q] # <<>>)
    BY <1>4
  <2>3. erred => erred'
    BY <1>2
  <2>4. QED
    BY <2>1, <2>2, <2>3, PresenceFrame
<1>8. AloneIsCalm(p)'
  BY <1>4 DEF AloneIsCalm
<1>9. SharedIsTrue(p)'
  <2>1. SUFFICES ASSUME ~b PROVE WillBeTold(p)' /\ FieldFollows(p)'
    BY <1>4 DEF SharedIsTrue
  <2>2. pipe'[p] = <<"keys">> /\ <<"keys">> # <<>>
    BY <1>4, <2>1
  <2>3. ~Has(<<"keys">>, FieldCommands)
    BY DEF Has, FieldCommands
  <2>4. FieldFollows(p)'
    BY <1>4, <2>2, <2>3 DEF FieldFollows, Follows
  <2>5. QED
    BY <2>2, <2>4 DEF WillBeTold
<1>10. QED
  BY <1>5, <1>6, <1>7, <1>8, <1>9 DEF PresenceInv

LEMMA PresenceInitInv == PresenceInit => PresenceInv
<1>1. SUFFICES ASSUME PresenceInit PROVE PresenceInv
  OBVIOUS
<1>2. socket \in [Sockets -> SocketStates] /\ \A s \in Sockets : socket[s].at = "new"
  BY <1>1 DEF PresenceInit, SocketStates
<1>3. PresenceTypeOK
  <2>1. /\ <<>> \in Seq(Commands) /\ <<>> \in Seq(BOOLEAN)
        /\ <<>> \in Seq([command : Commands, anybody : BOOLEAN])
    OBVIOUS
  <2>2. 0 \in 0 .. MaxStops
    BY StopAssumption
  <2>3. QED
    BY <1>1, <1>2, <2>1, <2>2 DEF PresenceInit, PresenceTypeOK
<1>4. ASSUME NEW p \in Instances PROVE MapIsSockets(p) /\ AloneIsCalm(p) /\ SharedIsTrue(p)
  <2>1. MapIsSockets(p)
    BY <1>1, <1>2 DEF PresenceInit, MapIsSockets
  <2>2. AloneIsCalm(p)
    BY <1>1 DEF PresenceInit, AloneIsCalm
  <2>3. WillBeTold(p)
    BY <1>1 DEF PresenceInit, WillBeTold, Listed
  <2>4. FieldFollows(p)
    BY <1>1 DEF PresenceInit, FieldFollows, Follows, Has
  <2>5. QED
    BY <2>1, <2>2, <2>3, <2>4 DEF SharedIsTrue
<1>5. QED
  BY <1>3, <1>4 DEF PresenceInv

LEMMA PresenceStepKeeps == PresenceInv /\ [PresenceNext]_presenceVars => PresenceInv'
<1>1. SUFFICES ASSUME PresenceInv, [PresenceNext]_presenceVars PROVE PresenceInv'
  OBVIOUS
<1>2. CASE UNCHANGED presenceVars
  BY <1>1, <1>2 DEF presenceVars, PresenceInv, PresenceTypeOK, MapIsSockets, AloneIsCalm,
     SharedIsTrue, WillBeTold, FieldFollows, Announcing, Listed
<1>3. ASSUME NEW s \in Sockets, Connect(s) \/ RefuseSocket(s) \/ LeaveEarly(s) PROVE PresenceInv'
  BY <1>1, <1>3, SocketOutKeeps DEF Connect, RefuseSocket, LeaveEarly
<1>4. ASSUME NEW s \in Sockets, HandleConnection(s) \/ HandleDisconnect(s) PROVE PresenceInv'
  BY <1>1, <1>4, ConnectionKeeps, DisconnectKeeps
<1>5. ASSUME NEW p \in Instances,
             \/ RunCommand(p) \/ GetAnswer(p) \/ FailCommand(p)
             \/ HandleRedisMessage(p) \/ Restart(p)
      PROVE  PresenceInv'
  BY <1>1, <1>5, RunKeeps, AnswerKeeps, FailKeeps, PublicationKeeps, RestartKeeps
<1>6. QED
  BY <1>1, <1>2, <1>3, <1>4, <1>5 DEF PresenceNext

\* The invariant above holds in every state that the processes and Redis reach.
THEOREM PresenceInductive == PresenceSpec => []PresenceInv
  BY PresenceInitInv, PresenceStepKeeps, PTL DEF PresenceSpec

\* Every state is well typed: Redis gets no command but those the gateway sends.
THEOREM PresenceTypeCorrect == PresenceSpec => []PresenceTypeOK
<1>1. PresenceInv => PresenceTypeOK
  BY DEF PresenceInv
<1>2. QED
  BY <1>1, PresenceInductive, PTL

\* For any number of processes and sockets, and however the handlers of connections and
\* disconnections overlap: once everything is handled, the browsers of a process show the
\* user online exactly when a process that it hears of has an open socket of the user,
\* but for the sockets and fields that are left behind (chat.gateway.ts).
THEOREM PresenceAlwaysSettles == PresenceSpec => []PresenceSettles
<1>1. PresenceInv => PresenceSettles
  <2>1. SUFFICES ASSUME PresenceInv, Calm, ~erred, NEW p \in Instances
                 PROVE  shown[p] <=> \/ \E s \in Sockets : /\ socket[s].at = "open"
                                                           /\ socket[s].process \in Reach(p)
                                     \/ Haunted(p)
                                     \/ stale /\ ~alone[p]
    BY DEF PresenceSettles
  <2>2. \A q \in Instances :
          /\ pipe[q] = <<>> /\ answers[q] = <<>> /\ feed[q] = <<>>
          /\ MapIsSockets(q) /\ AloneIsCalm(q) /\ SharedIsTrue(q)
    BY <2>1 DEF Calm, PresenceInv
  <2>3. /\ \A s \in Sockets : socket[s].process \in Instances
        /\ fields \subseteq Instances /\ shown[p] \in BOOLEAN
    BY <2>1 DEF PresenceInv, PresenceTypeOK, SocketStates
  <2>4. ~Has(<<>>, Announcements) /\ ~Has(<<>>, FieldCommands) /\ ~Brings(<<>>, Announcements)
        /\ ~Brings(<<>>, FieldCommands)
    BY DEF Has, Brings
  <2>5. \A q \in Instances : ~alone[q] => (q \in fields <=> online[q] # {})
    <3>1. SUFFICES ASSUME NEW q \in Instances, ~alone[q] PROVE q \in fields <=> online[q] # {}
      OBVIOUS
    <3>2. FieldFollows(q) /\ pipe[q] = <<>>
      BY <2>1, <2>2, <3>1 DEF SharedIsTrue
    <3>3. ~LastSays(<<>>, online[q] # {})
      BY DEF LastSays
    <3>4. QED
      BY <3>2, <3>3 DEF FieldFollows, Follows
  <2>6. \A q \in Instances : alone[q] => q \notin fields
    BY <2>2 DEF AloneIsCalm
  <2>7. CASE alone[p]
    <3>1. shown[p] <=> online[p] # {}
      BY <2>2, <2>7 DEF AloneIsCalm
    <3>2. Reach(p) = {p}
      BY <2>7 DEF Reach
    <3>3. QED
      BY <2>2, <2>7, <3>1, <3>2 DEF Haunted, MapIsSockets
  <2>8. CASE ~alone[p]
    <3>1. WillBeTold(p)
      BY <2>1, <2>2, <2>8 DEF SharedIsTrue
    <3>2. \A q \in Instances : ~Announcing(q)
      BY <2>2, <2>4 DEF Announcing
    <3>3. shown[p] <=> Listed
      BY <2>2, <2>4, <3>1, <3>2 DEF WillBeTold
    <3>4. fields # {} <=> \E q \in Instances : ~alone[q] /\ online[q] # {}
      BY <2>3, <2>5, <2>6
    <3>5. (\E q \in Instances : ~alone[q] /\ online[q] # {})
            <=> \/ \E s \in Sockets : socket[s].at = "open" /\ socket[s].process \in Reach(p)
                \/ Haunted(p)
      BY <2>2, <2>3, <2>8 DEF Haunted, MapIsSockets, Reach
    <3>6. QED
      BY <2>8, <3>3, <3>4, <3>5 DEF Listed
  <2>9. QED
    BY <2>7, <2>8
<1>2. QED
  BY <1>1, PresenceInductive, PTL

-----------------------------------------------------------------------------
(* Timeline: numbers, and pages.                                           *)

\* A set of numbers that is not empty has a least one.
LEMMA LeastNumber ==
  ASSUME NEW T, T \subseteq Nat, T # {}
  PROVE  \E x \in T : \A y \in T : x <= y
<1> DEFINE R == OpToRel(<, Nat)
<1>1. IsWellFoundedOn(R, Nat)
  BY NatLessThanWellFounded
<1>2. \E x \in T : \A y \in T : ~ (<<y, x>> \in R)
  <2> HIDE DEF R
  <2> QED BY <1>1, WFMin
<1>3. PICK x \in T : \A y \in T : ~ (<<y, x>> \in R)
  BY <1>2
<1>4. ASSUME NEW y \in T PROVE x <= y
  <2>1. x \in Nat /\ y \in Nat
    OBVIOUS
  <2>2. CASE y < x
    <3>1. <<y, x>> \in R
      BY <2>1, <2>2 DEF OpToRel
    <3>2. QED
      BY <1>3, <3>1
  <2>3. QED
    BY <2>1, <2>2
<1>5. QED
  BY <1>4

LEMMA MinIsLeast ==
  ASSUME NEW T, T \subseteq Nat, T # {}
  PROVE  Min(T) \in T /\ \A y \in T : Min(T) <= y
<1>1. \E x \in T : \A y \in T : x <= y
  BY LeastNumber
<1>2. QED
  BY <1>1 DEF Min

LEMMA MinOfTwo ==
  ASSUME NEW a \in Nat, NEW b \in Nat
  PROVE  Min({a, b}) = (IF a <= b THEN a ELSE b)
<1>1. Min({a, b}) \in {a, b} /\ Min({a, b}) <= a /\ Min({a, b}) <= b
  <2>1. {a, b} \subseteq Nat /\ {a, b} # {}
    OBVIOUS
  <2>2. QED
    BY <2>1, MinIsLeast
<1>2. QED
  BY <1>1

\* A finite set of numbers has a subset of any smaller size above the rest: what Save
\* chooses exists.
Above(S, T) == T \subseteq S /\ \A m \in T, n \in S \ T : n < m

LEMMA NewestExist ==
  ASSUME NEW X, X \subseteq Nat, IsFiniteSet(X), NEW k \in Nat, k <= Cardinality(X)
  PROVE  \E T \in kSubset(k, X) : \A m \in T, n \in X \ T : n < m
<1> DEFINE Good(S) == \E T \in SUBSET S : Cardinality(T) = k /\ Above(S, T)
           Sizes == {n \in Nat : \E S \in SUBSET X : Cardinality(S) = n /\ k <= n /\ ~Good(S)}
<1>1. Sizes = {}
  <2>1. SUFFICES ASSUME Sizes # {} PROVE FALSE
    OBVIOUS
  <2>2. PICK n \in Sizes : \A y \in Sizes : n <= y
    <3>1. Sizes \subseteq Nat
      OBVIOUS
    <3> HIDE DEF Sizes
    <3>2. QED
      BY <2>1, <3>1, LeastNumber
  <2>3. PICK S \in SUBSET X : Cardinality(S) = n /\ k <= n /\ ~Good(S)
    BY <2>2
  <2>4. IsFiniteSet(S) /\ n \in Nat
    BY <2>2, FS_Subset
  <2>5. n # k
    <3>1. Above(S, S)
      BY DEF Above
    <3>2. QED
      BY <2>3, <3>1
  <2>6. k < n /\ S # {}
    BY <2>3, <2>4, <2>5, FS_EmptySet
  <2>7. PICK x \in S : \A y \in S : x <= y
    <3>1. S \subseteq Nat
      OBVIOUS
    <3>2. QED
      BY <2>6, <3>1, LeastNumber
  <2>8. Cardinality(S \ {x}) = n - 1 /\ k <= n - 1 /\ n - 1 \in Nat
    <3>1. Cardinality(S \ {x}) = Cardinality(S) - 1
      BY <2>4, <2>7, FS_RemoveElement
    <3>2. QED
      BY <2>3, <2>4, <2>6, <3>1
  <2>9. Good(S \ {x})
    <3>1. n - 1 \notin Sizes
      BY <2>2, <2>4
    <3>2. S \ {x} \in SUBSET X
      OBVIOUS
    <3>3. QED
      BY <2>8, <3>1, <3>2
  <2>10. PICK T \in SUBSET (S \ {x}) : Cardinality(T) = k /\ Above(S \ {x}, T)
    BY <2>9
  <2>11. Above(S, T)
    <3>1. S \subseteq Nat
      OBVIOUS
    <3>2. ASSUME NEW m \in T, NEW y \in S \ T PROVE y < m
      <4>1. m \in Nat /\ y \in Nat /\ x \in Nat /\ m # x /\ x <= m
        BY <2>7, <3>1
      <4>2. CASE y = x
        BY <4>1, <4>2
      <4>3. CASE y # x
        BY <2>10, <4>3 DEF Above
      <4>4. QED
        BY <4>2, <4>3
    <3>3. QED
      BY <3>2 DEF Above
  <2>12. QED
    BY <2>3, <2>10, <2>11
<1>2. Good(X)
  <2>1. Cardinality(X) \in Nat /\ Cardinality(X) \notin Sizes
    BY <1>1, FS_CardinalityType
  <2>2. QED
    BY <2>1
<1>3. QED
  BY <1>2 DEF kSubset, Above

-----------------------------------------------------------------------------
(* Timeline: the inductive invariant.                                      *)

Own(c) == Past[c] \cup Coming[c]

\* More is left only below a place; a history that has been loaded exists.
HistoryFits(h, X) ==
  /\ h.msgs \subseteq X
  /\ h.more => h.before # None /\ h.initialized
  /\ h.initialized => h.exists

\* A page leaves out nothing above its oldest message, and nothing at all if it is the last.
PageFits(before, page) ==
  /\ page.msgs \subseteq page.seen
  /\ page.more => page.msgs # {}
  /\ \A m \in page.seen :
       before = None \/ Date(m) < before
         => m \in page.msgs \/ (page.more /\ \A n \in page.msgs : Date(m) <= Date(n))

\* The message will be there, whatever page is put into the cache.
Accounted(c, m) == m \in kept[c].msgs \cup unseen[c] \/ <<c, m>> \in news

\* What came after the page was read is accounted for; a page further back goes on from
\* the place that the history has.
LoadFits(l) ==
  /\ kept[l.chat].exists
  /\ l.page.seen \subseteq Own(l.chat)
  /\ l.answered => PageFits(l.before, l.page)
  /\ l.answered /\ l.chat \notin tangled =>
       \A m \in visible[l.chat] \ l.page.seen : Accounted(l.chat, m)
  /\ l.kind = "older" /\ l.chat \notin tangled =>
       kept[l.chat].more /\ kept[l.chat].before = l.before

OneLoad == \A k, l \in loads : k.chat = l.chat /\ k # l => k.chat \in tangled

ChatFits(c) ==
  /\ HistoryFits(kept[c], Own(c)) /\ HistoryFits(saved[c], Own(c))
  /\ saved[c].initialized => saved[c].fromDisk
  /\ sent[c] \subseteq Coming[c] /\ visible[c] \subseteq Past[c] \cup sent[c]
  /\ unseen[c] \subseteq Own(c)

\* What has been hidden stays hidden: no message that is listed is stored later.
ClearingFits(r) ==
  /\ r.ids \subseteq Past[r.chat] \cup sent[r.chat]
  /\ r.at = "hidden" => r.ids \cap visible[r.chat] = {}

NewsOwned == \A n \in news \cup renders : n[2] \in Own(n[1])

\* NothingIsSkipped, of one chat.
Twin(c, m) == \E n \in Own(c) \ {m} : Date(n) = Date(m)
Shown(c) ==
  kept[c].initialized /\ ~kept[c].fromDisk /\ c \notin tangled =>
    \A m \in visible[c] :
      Accounted(c, m) \/ (kept[c].more /\ Date(m) < kept[c].before) \/ Twin(c, m)

HistoryRow == [exists : BOOLEAN, initialized : BOOLEAN, msgs : SUBSET Messages,
               before : Dates \cup {None}, more : BOOLEAN, loadingOlder : BOOLEAN,
               fromDisk : BOOLEAN]
PageRow == [msgs : SUBSET Messages, more : BOOLEAN, seen : SUBSET Messages]
LoadRow == [chat : Chats, kind : {"replace", "merge", "older"}, before : Dates \cup {None},
            answered : BOOLEAN, page : PageRow]
ClearRow == [chat : Chats, at : {"asked", "listed", "hidden"}, ids : SUBSET Messages]

LoadOK(l) == Cardinality(l.page.msgs) <= PageSize /\ (l.kind = "older" <=> l.before # None)

RowsTyped ==
  /\ visible \in [Chats -> SUBSET Messages] /\ sent \in [Chats -> SUBSET Messages]
  /\ kept \in [Chats -> HistoryRow] /\ saved \in [Chats -> HistoryRow]
  /\ unseen \in [Chats -> SUBSET Messages]
LoadsTyped ==
  /\ loads \subseteq LoadRow /\ IsFiniteSet(loads) /\ Cardinality(loads) <= MaxLoads
  /\ \A l \in loads : LoadOK(l)
RestTyped ==
  /\ open \in SUBSET Chats /\ (open = {} \/ \E c \in Chats : open = {c})
  /\ clearing \subseteq ClearRow
  /\ news \subseteq Chats \X Messages /\ renders \subseteq Chats \X Messages
  /\ tangled \subseteq Chats
  /\ moves \in 0 .. MaxMoves /\ losses \in 0 .. MaxLosses

TimelineInv ==
  /\ RowsTyped /\ LoadsTyped /\ RestTyped
  /\ \A c \in Chats : ChatFits(c) /\ Shown(c)
  /\ \A l \in loads : LoadFits(l)
  /\ \A r \in clearing : ClearingFits(r)
  /\ OneLoad /\ NewsOwned

-----------------------------------------------------------------------------
(* Timeline: rows and sets.                                                *)

LEMMA OwnTyped ==
  /\ \A c \in Chats : Own(c) \subseteq Messages /\ Own(c) \subseteq Nat /\ IsFiniteSet(Own(c))
  /\ \A c \in Chats : \A m \in Past[c], n \in Coming[c] : m # n
  /\ Messages \subseteq Nat
  /\ PageSize \in Nat \ {0} /\ MaxSaved \in Nat \ {0} /\ MaxLoads \in Nat /\ MaxMoves \in Nat
  /\ MaxLosses \in Nat
<1>1. ASSUME NEW c \in Chats PROVE Past[c] \subseteq Nat /\ Coming[c] \subseteq Nat
  BY TimelineAssumption
<1>2. ASSUME NEW c \in Chats PROVE IsFiniteSet(Own(c))
  BY TimelineAssumption, FS_Union DEF Own
<1>3. ASSUME NEW c \in Chats PROVE \A m \in Past[c], n \in Coming[c] : m # n
  BY <1>1, TimelineAssumption
<1>4. QED
  BY <1>1, <1>2, <1>3, TimelineAssumption DEF Own, Messages

LEMMA DateTyped ==
  /\ None \notin Dates /\ Dates \subseteq Int /\ \A m \in Messages : Date(m) \in Dates
<1>1. \A m \in Messages : Date(m) \in Nat
  BY OwnTyped DEF Date
<1>2. QED
  BY <1>1 DEF Dates, None

SameRow(h, g) ==
  /\ g.exists = h.exists /\ g.initialized = h.initialized /\ g.before = h.before
  /\ g.more = h.more /\ g.fromDisk = h.fromDisk

LEMMA RowTyped ==
  ASSUME NEW h \in HistoryRow
  PROVE  /\ h.exists \in BOOLEAN /\ h.initialized \in BOOLEAN /\ h.msgs \in SUBSET Messages
         /\ h.before \in Dates \cup {None} /\ h.more \in BOOLEAN
         /\ h.loadingOlder \in BOOLEAN /\ h.fromDisk \in BOOLEAN
  BY DEF HistoryRow

LEMMA EmptyTyped ==
  /\ EmptyHistory \in HistoryRow /\ EmptyHistory.exists /\ ~EmptyHistory.initialized
  /\ EmptyHistory.msgs = {} /\ ~EmptyHistory.more
  /\ NoHistory \in HistoryRow /\ ~NoHistory.initialized /\ NoHistory.msgs = {} /\ ~NoHistory.more
  BY DEF EmptyHistory, NoHistory, HistoryRow

LEMMA MsgsChange ==
  ASSUME NEW h \in HistoryRow, NEW X \in SUBSET Messages, NEW g, g = [h EXCEPT !.msgs = X]
  PROVE  g \in HistoryRow /\ SameRow(h, g) /\ g.msgs = X
<1>1. PICK k \in HistoryRow : k = [h EXCEPT !.msgs = X]
  BY DEF HistoryRow
<1>2. SameRow(h, k) /\ k.msgs = X
  BY <1>1 DEF HistoryRow, SameRow
<1>3. QED
  BY <1>1, <1>2

LEMMA OlderChange ==
  ASSUME NEW h \in HistoryRow, NEW b \in BOOLEAN, NEW g, g = [h EXCEPT !.loadingOlder = b]
  PROVE  g \in HistoryRow /\ SameRow(h, g) /\ g.msgs = h.msgs
<1>1. PICK k \in HistoryRow : k = [h EXCEPT !.loadingOlder = b]
  BY DEF HistoryRow
<1>2. SameRow(h, k) /\ k.msgs = h.msgs
  BY <1>1 DEF HistoryRow, SameRow
<1>3. QED
  BY <1>1, <1>2

LEMMA EndOlderKeeps ==
  ASSUME NEW h \in [Chats -> HistoryRow], NEW kind
  PROVE  /\ EndOlder(h, kind) \in [Chats -> HistoryRow]
         /\ \A c \in Chats : /\ SameRow(h[c], EndOlder(h, kind)[c])
                             /\ EndOlder(h, kind)[c].msgs = h[c].msgs
<1> DEFINE e == EndOlder(h, kind)
<1>1. ASSUME NEW c \in Chats
      PROVE  e[c] \in HistoryRow /\ SameRow(h[c], e[c]) /\ e[c].msgs = h[c].msgs
  <2>1. CASE c \in open /\ kind = "older"
    <3>1. e[c] = [h[c] EXCEPT !.loadingOlder = FALSE]
      BY <2>1 DEF EndOlder
    <3>2. QED
      BY <3>1, OlderChange
  <2>2. CASE ~(c \in open /\ kind = "older")
    <3>1. e[c] = h[c]
      BY <2>2 DEF EndOlder
    <3>2. QED
      BY <3>1 DEF SameRow
  <2>3. QED
    BY <2>1, <2>2
<1>2. e = [c \in Chats |-> e[c]]
  BY DEF EndOlder
<1>3. e \in [Chats -> HistoryRow]
  BY <1>1, <1>2
<1>4. QED
  BY <1>1, <1>3

LEMMA SameRowFits ==
  ASSUME NEW h, NEW g, NEW X, SameRow(h, g), HistoryFits(h, X), g.msgs \subseteq X
  PROVE  HistoryFits(g, X)
  BY DEF SameRow, HistoryFits

LEMMA LoadTyped ==
  ASSUME NEW l \in LoadRow
  PROVE  /\ l.chat \in Chats /\ l.kind \in {"replace", "merge", "older"}
         /\ l.before \in Dates \cup {None} /\ l.answered \in BOOLEAN /\ l.page \in PageRow
         /\ l.page.msgs \in SUBSET Messages /\ l.page.more \in BOOLEAN
         /\ l.page.seen \in SUBSET Messages
<1>1. l.page \in PageRow
  BY DEF LoadRow
<1>2. QED
  BY <1>1 DEF LoadRow, PageRow

\* What Merge makes of a history.
LEMMA MergeMakes ==
  ASSUME NEW h \in HistoryRow, NEW l \in LoadRow, PageFits(l.before, l.page)
  PROVE  LET g == Merge(h, l)
         IN /\ g \in HistoryRow /\ g.exists = h.exists /\ g.initialized /\ ~g.fromDisk
            /\ g.msgs = IF l.kind = "replace" THEN l.page.msgs ELSE h.msgs \cup l.page.msgs
            /\ g.more = l.page.more
            /\ g.before = IF l.page.more THEN Date(Min(l.page.msgs)) ELSE None
<1> DEFINE X == IF l.kind = "replace" THEN l.page.msgs ELSE h.msgs \cup l.page.msgs
           b == IF l.page.more THEN Date(Min(l.page.msgs)) ELSE None
           n == l.page.more
<1>1. X \in SUBSET Messages /\ n \in BOOLEAN
  BY LoadTyped, RowTyped
<1>2. b \in Dates \cup {None}
  <2>1. CASE l.page.more
    <3>1. l.page.msgs # {} /\ l.page.msgs \subseteq Messages
      BY <2>1, LoadTyped DEF PageFits
    <3>2. Min(l.page.msgs) \in Messages
      BY <3>1, OwnTyped, MinIsLeast
    <3>3. QED
      BY <2>1, <3>2, DateTyped
  <2>2. CASE ~l.page.more
    BY <2>2
  <2>3. QED
    BY <2>1, <2>2
<1>3. Merge(h, l) = [h EXCEPT !.msgs = X, !.before = b, !.more = n, !.initialized = TRUE,
                              !.fromDisk = FALSE]
  BY DEF Merge
<1> HIDE DEF X, b, n
<1>4. PICK g \in HistoryRow :
        g = [h EXCEPT !.msgs = X, !.before = b, !.more = n, !.initialized = TRUE,
                      !.fromDisk = FALSE]
  BY <1>1, <1>2 DEF HistoryRow
<1>5. /\ g.exists = h.exists /\ g.initialized /\ ~g.fromDisk /\ g.msgs = X /\ g.more = n
      /\ g.before = b
  BY <1>4 DEF HistoryRow
<1>6. QED
  BY <1>3, <1>4, <1>5 DEF X, b, n

-----------------------------------------------------------------------------
(* Timeline: what a step leaves.                                           *)

\* A step that may change what the history of c has, but not its place; or after which
\* nothing is said of it.
Steady(c) ==
  /\ kept[c].exists => kept'[c].exists
  /\ c \notin tangled' =>
       /\ c \notin tangled /\ SameRow(kept[c], kept'[c])
       /\ kept[c].exists => \A m \in visible'[c] :
            (m \in visible[c] => Accounted(c, m))
              => m \in kept'[c].msgs \cup unseen'[c] \/ <<c, m>> \in news'

LEMMA SteadyShows ==
  ASSUME NEW c \in Chats, HistoryFits(kept[c], Own(c)), Shown(c), Steady(c) PROVE Shown(c)'
<1> SUFFICES ASSUME kept'[c].initialized, ~kept'[c].fromDisk, c \notin tangled',
                    NEW m \in visible'[c],
                    ~(m \in kept'[c].msgs \cup unseen'[c] \/ <<c, m>> \in news')
             PROVE  (kept'[c].more /\ Date(m) < kept'[c].before) \/ Twin(c, m)
  BY DEF Shown, Accounted, Twin, Own
<1>1. SameRow(kept[c], kept'[c]) /\ m \in visible[c] /\ ~Accounted(c, m) /\ c \notin tangled
  BY DEF Steady, SameRow, HistoryFits
<1>2. QED
  BY <1>1 DEF Shown, SameRow

LEMMA SteadyLoads ==
  ASSUME NEW l, LoadFits(l), Steady(l.chat) PROVE LoadFits(l)'
<1>1. kept'[l.chat].exists
  BY DEF LoadFits, Steady
<1>2. ASSUME l.answered, l.chat \notin tangled', NEW m \in visible'[l.chat] \ l.page.seen
      PROVE  m \in kept'[l.chat].msgs \cup unseen'[l.chat] \/ <<l.chat, m>> \in news'
  BY <1>2 DEF LoadFits, Steady
<1>3. l.kind = "older" /\ l.chat \notin tangled' =>
        kept'[l.chat].more /\ kept'[l.chat].before = l.before
  BY DEF LoadFits, Steady, SameRow
<1>4. l.page.seen \subseteq Own(l.chat) /\ (l.answered => PageFits(l.before, l.page))
  BY DEF LoadFits
<1>5. QED
  BY <1>1, <1>2, <1>3, <1>4 DEF LoadFits, Accounted, Own, PageFits

\* No chat changes its place, and no load is added.
LEMMA AllSteady ==
  ASSUME TimelineInv, \A c \in Chats : Steady(c), loads' \subseteq loads, tangled \subseteq tangled'
  PROVE  (\A c \in Chats : Shown(c)') /\ (\A l \in loads' : LoadFits(l)') /\ OneLoad'
<1>1. \A c \in Chats : Shown(c)'
  BY SteadyShows DEF TimelineInv, ChatFits
<1>2. ASSUME NEW l \in loads' PROVE LoadFits(l)'
  <2>1. l.chat \in Chats
    BY LoadTyped DEF TimelineInv, LoadsTyped
  <2>2. QED
    BY <2>1, SteadyLoads DEF TimelineInv
<1>3. OneLoad'
  BY DEF TimelineInv, OneLoad
<1>4. QED
  BY <1>1, <1>2, <1>3

\* One chat changes its place, and perhaps the loads about it.
LEMMA MostSteady ==
  ASSUME TimelineInv, NEW c \in Chats, \A d \in Chats \ {c} : Steady(d), Shown(c)',
         c \in tangled' \/ \A l \in loads' : l.chat = c => LoadFits(l)',
         kept'[c].exists, \A l \in loads' : l.chat # c => l \in loads,
         \A l \in loads' : l.chat = c /\ l \notin loads => LoadFits(l)'
  PROVE  (\A d \in Chats : Shown(d)') /\ (\A l \in loads' : LoadFits(l)')
<1>1. \A d \in Chats : Shown(d)'
  BY SteadyShows DEF TimelineInv, ChatFits
<1>2. ASSUME NEW l \in loads' PROVE LoadFits(l)'
  <2>1. CASE l.chat # c
    <3>1. l.chat \in Chats /\ LoadFits(l)
      BY <2>1, LoadTyped DEF TimelineInv, LoadsTyped
    <3>2. QED
      BY <2>1, <3>1, SteadyLoads
  <2>2. CASE l.chat = c /\ c \in tangled' /\ l \in loads
    <3>1. LoadFits(l)
      BY <2>2 DEF TimelineInv
    <3>2. QED
      BY <2>2, <3>1 DEF LoadFits, Own, PageFits
  <2>3. QED
    BY <2>1, <2>2
<1>3. QED
  BY <1>1, <1>2

LEMMA LoadsShrink ==
  ASSUME LoadsTyped, NEW X, loads' = loads \/ loads' = loads \ {X} PROVE LoadsTyped'
<1>1. IsFiniteSet(loads') /\ Cardinality(loads') <= MaxLoads
  <2>1. loads' \in SUBSET loads /\ IsFiniteSet(loads) /\ Cardinality(loads) <= MaxLoads
    BY DEF LoadsTyped
  <2>2. IsFiniteSet(loads') /\ Cardinality(loads') <= Cardinality(loads)
        /\ Cardinality(loads) \in Nat /\ Cardinality(loads') \in Nat
    BY <2>1, FS_Subset, FS_CardinalityType
  <2>3. QED
    BY <2>1, <2>2, OwnTyped
<1>2. QED
  BY <1>1 DEF LoadsTyped, LoadRow, PageRow, Messages, Dates, LoadOK

\* A request is added.
LEMMA RequestFits ==
  ASSUME TimelineInv, NEW c \in Chats, NEW kind \in {"replace", "merge", "older"},
         NEW before \in Dates \cup {None}, kind = "older" <=> before # None,
         Request(c, kind, before)
  PROVE  /\ LoadsTyped' /\ OneLoad'
         /\ tangled \subseteq tangled' /\ tangled' \subseteq tangled \cup {c}
         /\ \A l \in loads : l.chat = c => c \in tangled'
         /\ loads \subseteq loads' /\ \A l \in loads' : l.chat # c => l \in loads
         /\ \A l \in loads' \ loads :
              /\ l.chat = c /\ l.kind = kind /\ l.before = before /\ ~l.answered
              /\ l.page.seen = {}
<1> DEFINE new == [chat |-> c, kind |-> kind, before |-> before, answered |-> FALSE, page |-> Unread]
<1>1. /\ Cardinality(loads) < MaxLoads /\ loads' = loads \cup {new}
      /\ tangled' = IF \E l \in loads : l.chat = c THEN tangled \cup {c} ELSE tangled
  BY DEF Request
<1>2. Unread \in PageRow /\ Unread.msgs = {} /\ Unread.seen = {}
  BY DEF Unread, PageRow
<1>3. new \in LoadRow /\ new.chat = c /\ new.kind = kind /\ new.before = before /\ ~new.answered
      /\ new.page = Unread
  BY <1>2 DEF LoadRow
<1>4. LoadOK(new)
  <2>1. Cardinality({}) = 0 /\ PageSize \in Nat
    BY OwnTyped, FS_EmptySet
  <2>2. Cardinality({}) <= PageSize
    BY <2>1
  <2>3. QED
    BY <1>2, <1>3, <2>2 DEF LoadOK
<1> HIDE DEF new
<1>5. IsFiniteSet(loads') /\ Cardinality(loads') <= MaxLoads
  <2>1. IsFiniteSet(loads) /\ Cardinality(loads) \in Nat
    BY FS_CardinalityType DEF TimelineInv, LoadsTyped
  <2>2. IsFiniteSet(loads') /\ Cardinality(loads') \in {Cardinality(loads), Cardinality(loads) + 1}
    BY <1>1, <2>1, FS_AddElement
  <2>3. QED
    BY <1>1, <2>1, <2>2, OwnTyped
<1>6. LoadsTyped'
  BY <1>1, <1>3, <1>4, <1>5 DEF TimelineInv, LoadsTyped, LoadRow, PageRow, Messages, Dates, LoadOK
<1>7. OneLoad'
  BY <1>1, <1>3 DEF TimelineInv, OneLoad
<1>8. QED
  BY <1>1, <1>2, <1>3, <1>6, <1>7

-----------------------------------------------------------------------------
(* Timeline: the server.                                                   *)

\* The counters of the bounds.
LEMMA MoveLose ==
  /\ moves \in 0 .. MaxMoves /\ (Move \/ moves' = moves) => moves' \in 0 .. MaxMoves
  /\ losses \in 0 .. MaxLosses /\ (Lose \/ losses' = losses) => losses' \in 0 .. MaxLosses
  BY OwnTyped DEF Move, Lose

\* The requests to clear a chat, when nothing is stored or hidden.
LEMMA ClearingStays ==
  ASSUME TimelineInv, visible' = visible, sent' = sent, NEW r \in clearing
  PROVE  ClearingFits(r)'
  BY DEF TimelineInv, ClearingFits

\* A message is stored.
LEMMA StoreKeeps == ASSUME TimelineInv, StoreMessage PROVE TimelineInv'
<1>1. PICK c \in Chats : \E m \in Coming[c] :
        /\ \A n \in sent[c] : n < m
        /\ sent' = [sent EXCEPT ![c] = @ \cup {m}]
        /\ visible' = [visible EXCEPT ![c] = @ \cup {m}]
        /\ news' = news \cup {<<c, m>>}
        /\ UNCHANGED <<open, kept, loads, clearing, renders, saved, unseen, tangled,
                       moves, losses>>
  BY DEF StoreMessage
<1>2. PICK m \in Coming[c] :
        /\ \A n \in sent[c] : n < m
        /\ sent' = [sent EXCEPT ![c] = @ \cup {m}]
        /\ visible' = [visible EXCEPT ![c] = @ \cup {m}]
        /\ news' = news \cup {<<c, m>>}
        /\ UNCHANGED <<open, kept, loads, clearing, renders, saved, unseen, tangled,
                       moves, losses>>
  BY <1>1
<1>3. m \in Messages /\ m \in Own(c) /\ m \notin Past[c] /\ m \notin sent[c]
  <2>1. m \in Messages /\ m \in Own(c)
    BY OwnTyped DEF Own
  <2>2. m \in Nat
    BY <2>1, OwnTyped
  <2>3. ~(m < m)
    BY <2>2
  <2>4. m \notin Past[c]
    BY OwnTyped
  <2>5. QED
    BY <1>2, <2>1, <2>3, <2>4
<1>4. /\ sent'[c] = sent[c] \cup {m} /\ visible'[c] = visible[c] \cup {m}
      /\ \A d \in Chats \ {c} : sent'[d] = sent[d] /\ visible'[d] = visible[d]
  BY <1>2 DEF TimelineInv, RowsTyped
<1>5. RowsTyped'
  BY <1>2, <1>3 DEF TimelineInv, RowsTyped, HistoryRow, Messages, Dates
<1>6. LoadsTyped'
  BY <1>2, LoadsShrink DEF TimelineInv
<1>7. RestTyped'
  BY <1>2, <1>3 DEF TimelineInv, RestTyped, ClearRow, Messages
<1>8. \A d \in Chats : Steady(d)
  BY <1>2, <1>4 DEF Steady, SameRow, Accounted
<1>9. ASSUME NEW d \in Chats PROVE ChatFits(d)'
  BY <1>2, <1>4 DEF TimelineInv, ChatFits, HistoryFits, Own
<1>10. ASSUME NEW r \in clearing PROVE ClearingFits(r)'
  <2>1. ClearingFits(r) /\ r.chat \in Chats
    BY DEF TimelineInv, RestTyped, ClearRow
  <2>2. QED
    BY <1>3, <1>4, <2>1 DEF ClearingFits
<1>11. NewsOwned'
  BY <1>2, <1>3 DEF TimelineInv, NewsOwned, Own
<1>12. QED
  BY <1>2, <1>5, <1>6, <1>7, <1>8, <1>9, <1>10, <1>11, AllSteady DEF TimelineInv

\* clearConversationForUser.
LEMMA ClearServerKeeps == ASSUME TimelineInv, ClearAtServer PROVE TimelineInv'
<1>1. PICK r \in clearing :
        /\ \/ /\ r.at = "asked"
              /\ clearing' = (clearing \ {r})
                             \cup {[r EXCEPT !.at = "listed", !.ids = visible[r.chat]]}
              /\ UNCHANGED visible
           \/ /\ r.at = "listed"
              /\ clearing' = (clearing \ {r}) \cup {[r EXCEPT !.at = "hidden"]}
              /\ visible' = [visible EXCEPT ![r.chat] = @ \ r.ids]
        /\ UNCHANGED <<sent, open, kept, loads, news, renders, saved, unseen, tangled, moves,
                       losses>>
  BY DEF ClearAtServer
<1>2. r \in ClearRow /\ r.chat \in Chats /\ r.ids \in SUBSET Messages /\ ClearingFits(r)
  BY DEF TimelineInv, RestTyped, ClearRow
<1>3. \A d \in Chats : visible'[d] \subseteq visible[d]
      /\ visible' \in [Chats -> SUBSET Messages]
  BY <1>1, <1>2 DEF TimelineInv, RowsTyped
<1>4. /\ clearing' \subseteq ClearRow
      /\ \A q \in clearing' : ClearingFits(q)'
  <2>1. ASSUME NEW q \in clearing PROVE ClearingFits(q)'
    <3>1. ClearingFits(q) /\ q.chat \in Chats
      BY DEF TimelineInv, RestTyped, ClearRow
    <3>2. QED
      BY <1>1, <1>3, <3>1 DEF ClearingFits
  <2>2. CASE r.at = "asked" /\ clearing' = (clearing \ {r})
                             \cup {[r EXCEPT !.at = "listed", !.ids = visible[r.chat]]}
    <3> DEFINE X == visible[r.chat]
    <3>1. X \in SUBSET Messages /\ X \subseteq Past[r.chat] \cup sent[r.chat]
      BY <1>2 DEF TimelineInv, RowsTyped, ChatFits
    <3> HIDE DEF X
    <3>2. PICK q \in ClearRow : q = [r EXCEPT !.at = "listed", !.ids = X]
      BY <1>2, <3>1 DEF ClearRow
    <3>3. q.at = "listed" /\ q.chat = r.chat /\ q.ids = X
      BY <1>2, <3>2 DEF ClearRow
    <3>4. ClearingFits(q)'
      BY <1>1, <3>1, <3>3 DEF ClearingFits
    <3>5. clearing' = (clearing \ {r}) \cup {q}
      BY <2>2, <3>2 DEF X
    <3>6. QED
      BY <2>1, <3>2, <3>4, <3>5 DEF TimelineInv, RestTyped
  <2>3. CASE r.at = "listed" /\ visible' = [visible EXCEPT ![r.chat] = @ \ r.ids]
             /\ clearing' = (clearing \ {r}) \cup {[r EXCEPT !.at = "hidden"]}
    <3>1. PICK q \in ClearRow : q = [r EXCEPT !.at = "hidden"]
      BY <1>2 DEF ClearRow
    <3>2. q.at = "hidden" /\ q.chat = r.chat /\ q.ids = r.ids
      BY <1>2, <3>1 DEF ClearRow
    <3>3. visible'[r.chat] = visible[r.chat] \ r.ids
      BY <1>2, <2>3 DEF TimelineInv, RowsTyped
    <3>4. ClearingFits(q)'
      BY <1>1, <1>2, <3>2, <3>3 DEF ClearingFits
    <3>5. clearing' = (clearing \ {r}) \cup {q}
      BY <2>3, <3>1
    <3>6. QED
      BY <2>1, <3>1, <3>4, <3>5 DEF TimelineInv, RestTyped
  <2>4. QED
    BY <1>1, <2>2, <2>3
<1>5. RowsTyped' /\ LoadsTyped'
  BY <1>1, <1>3, LoadsShrink DEF TimelineInv, RowsTyped, HistoryRow, Messages, Dates
<1>6. RestTyped'
  BY <1>1, <1>4 DEF TimelineInv, RestTyped, ClearRow, Messages
<1>7. \A d \in Chats : Steady(d)
  BY <1>1, <1>3 DEF Steady, SameRow, Accounted
<1>8. ASSUME NEW d \in Chats PROVE ChatFits(d)'
  BY <1>1, <1>3 DEF TimelineInv, ChatFits, HistoryFits, Own
<1>9. NewsOwned'
  BY <1>1 DEF TimelineInv, NewsOwned, Own
<1>10. QED
  BY <1>1, <1>4, <1>5, <1>6, <1>7, <1>8, <1>9, AllSteady DEF TimelineInv

\* The histories keep their places, and have messages of their chats.
HistoriesStay ==
  /\ kept' \in [Chats -> HistoryRow]
  /\ \A c \in Chats : SameRow(kept[c], kept'[c]) /\ kept'[c].msgs \subseteq Own(c)

LEMMA HistoriesFit ==
  ASSUME TimelineInv, HistoriesStay, sent' = sent, saved' = saved,
         visible' \in [Chats -> SUBSET Messages],
         \A c \in Chats : visible'[c] \subseteq visible[c] /\ unseen'[c] \subseteq Own(c),
         unseen' \in [Chats -> SUBSET Messages]
  PROVE  RowsTyped' /\ \A c \in Chats : ChatFits(c)'
<1>1. RowsTyped'
  BY DEF TimelineInv, RowsTyped, HistoriesStay, HistoryRow, Messages, Dates
<1>2. ASSUME NEW c \in Chats PROVE ChatFits(c)'
  <2>1. ChatFits(c) /\ SameRow(kept[c], kept'[c]) /\ kept'[c].msgs \subseteq Own(c)
    BY DEF TimelineInv, HistoriesStay
  <2>2. HistoryFits(kept'[c], Own(c)) /\ HistoryFits(saved'[c], Own(c))
    BY <2>1, SameRowFits DEF ChatFits
  <2>3. QED
    BY <2>1, <2>2 DEF ChatFits, HistoryFits, Own
<1>3. QED
  BY <1>1, <1>2

\* deleteMessageForMe.
LEMMA HideKeeps == ASSUME TimelineInv, HideMessage PROVE TimelineInv'
<1>1. PICK c \in Chats : \E m \in visible[c] \ sent[c] :
        /\ Move
        /\ visible' = [visible EXCEPT ![c] = @ \ {m}]
        /\ kept' = [kept EXCEPT ![c].msgs = @ \ {m}]
        /\ UNCHANGED <<sent, open, loads, clearing, news, renders, saved, unseen, tangled, losses>>
  BY DEF HideMessage
<1>2. PICK m \in visible[c] :
        /\ Move
        /\ visible' = [visible EXCEPT ![c] = @ \ {m}]
        /\ kept' = [kept EXCEPT ![c].msgs = @ \ {m}]
        /\ UNCHANGED <<sent, open, loads, clearing, news, renders, saved, unseen, tangled, losses>>
  BY <1>1
<1>3. /\ visible' \in [Chats -> SUBSET Messages] /\ visible'[c] = visible[c] \ {m}
      /\ \A d \in Chats \ {c} : visible'[d] = visible[d]
  BY <1>2 DEF TimelineInv, RowsTyped
<1>4. /\ kept' \in [Chats -> HistoryRow] /\ SameRow(kept[c], kept'[c])
      /\ kept'[c].msgs = kept[c].msgs \ {m}
      /\ \A d \in Chats \ {c} : kept'[d] = kept[d]
  <2> DEFINE X == kept[c].msgs \ {m}
             g == [kept[c] EXCEPT !.msgs = X]
  <2>1. kept \in [Chats -> HistoryRow] /\ kept[c] \in HistoryRow /\ X \in SUBSET Messages
    BY RowTyped DEF TimelineInv, RowsTyped
  <2>2. kept' = [kept EXCEPT ![c] = g]
    BY <1>2
  <2> HIDE DEF X
  <2>3. g \in HistoryRow /\ SameRow(kept[c], g) /\ g.msgs = X
    BY <2>1, MsgsChange
  <2> HIDE DEF g
  <2>4. kept' \in [Chats -> HistoryRow] /\ kept'[c] = g /\ \A d \in Chats \ {c} : kept'[d] = kept[d]
    BY <2>1, <2>2, <2>3
  <2>5. QED
    BY <2>3, <2>4 DEF X
<1>5. HistoriesStay
  BY <1>4 DEF HistoriesStay, SameRow, TimelineInv, ChatFits, HistoryFits
<1>6. RowsTyped' /\ \A d \in Chats : ChatFits(d)'
  <2>1. unseen' \in [Chats -> SUBSET Messages]
        /\ \A d \in Chats : visible'[d] \subseteq visible[d] /\ unseen'[d] \subseteq Own(d)
    BY <1>2, <1>3 DEF TimelineInv, RowsTyped, ChatFits
  <2>2. QED
    BY <1>2, <1>3, <1>5, <2>1, HistoriesFit
<1>7. LoadsTyped'
  BY <1>2, LoadsShrink DEF TimelineInv
<1>8. RestTyped'
  BY <1>2, MoveLose DEF TimelineInv, RestTyped, ClearRow, Messages
<1>9. \A d \in Chats : Steady(d)
  BY <1>2, <1>3, <1>4 DEF Steady, SameRow, Accounted
<1>10. ASSUME NEW r \in clearing PROVE ClearingFits(r)'
  <2>1. ClearingFits(r) /\ r.chat \in Chats
    BY DEF TimelineInv, RestTyped, ClearRow
  <2>2. QED
    BY <1>2, <1>3, <2>1 DEF ClearingFits
<1>11. NewsOwned'
  BY <1>2 DEF TimelineInv, NewsOwned, Own
<1>12. QED
  BY <1>2, <1>6, <1>7, <1>8, <1>9, <1>10, <1>11, AllSteady DEF TimelineInv

\* getMessages: the page fits, and is no longer than it may be.
LEMMA PageOfFits ==
  ASSUME NEW X, IsFiniteSet(X), X \subseteq Nat, NEW before, NEW page,
         NEW c, visible[c] = X, PageOf(c, before, page)
  PROVE  /\ PageFits(before, page) /\ Cardinality(page.msgs) <= PageSize
         /\ page.msgs \subseteq X /\ page.seen = X
<1> DEFINE found == {m \in X : before = None \/ Date(m) < before}
           k == Min({PageSize, Cardinality(found)})
<1>1. /\ page.msgs \in kSubset(k, found)
      /\ \A m \in page.msgs, n \in found \ page.msgs : Date(n) <= Date(m)
      /\ page.more = (found # page.msgs)
      /\ page.seen = X
  BY DEF PageOf
<1>2. IsFiniteSet(found) /\ Cardinality(found) \in Nat /\ found \subseteq X
  BY FS_Subset, FS_CardinalityType
<1>3. k = (IF PageSize <= Cardinality(found) THEN PageSize ELSE Cardinality(found))
  BY <1>2, OwnTyped, MinOfTwo
<1>4. \A m \in X : before = None \/ Date(m) < before => m \in found
  OBVIOUS
<1> HIDE DEF found, k
<1>5. page.msgs \in SUBSET found /\ Cardinality(page.msgs) = k
  BY <1>1 DEF kSubset
<1>6. Cardinality(page.msgs) <= PageSize
  BY <1>2, <1>3, <1>5, OwnTyped
<1>7. page.more => page.msgs # {}
  <2>1. SUFFICES ASSUME page.more, page.msgs = {} PROVE FALSE
    OBVIOUS
  <2>2. Cardinality(page.msgs) = 0
    BY <2>1, FS_EmptySet
  <2>3. Cardinality(found) = 0
    BY <1>2, <1>3, <1>5, <2>2, OwnTyped
  <2>4. found = {}
    BY <1>2, <2>3, FS_EmptySet
  <2>5. QED
    BY <1>1, <2>1, <2>4
<1>8. PageFits(before, page)
  <2>1. page.msgs \subseteq page.seen
    BY <1>1, <1>2, <1>5
  <2>2. ASSUME NEW m \in page.seen, before = None \/ Date(m) < before
        PROVE  m \in page.msgs \/ (page.more /\ \A n \in page.msgs : Date(m) <= Date(n))
    BY <1>1, <1>4, <2>2
  <2>3. QED
    BY <1>7, <2>1, <2>2 DEF PageFits
<1>9. QED
  BY <1>1, <1>2, <1>5, <1>6, <1>8

\* A request is answered.
LEMMA AnswerLoadKeeps == ASSUME TimelineInv, AnswerLoad PROVE TimelineInv'
<1>1. PICK l \in loads : \E msgs \in SUBSET visible[l.chat], more \in BOOLEAN :
        /\ ~l.answered
        /\ PageOf(l.chat, l.before, [msgs |-> msgs, more |-> more, seen |-> visible[l.chat]])
        /\ loads' = (loads \ {l}) \cup
                      {[l EXCEPT !.answered = TRUE,
                          !.page = [msgs |-> msgs, more |-> more, seen |-> visible[l.chat]]]}
        /\ UNCHANGED <<visible, sent, open, kept, clearing, news, renders, saved, unseen,
                       tangled, moves, losses>>
  BY DEF AnswerLoad
<1>2. PICK page \in PageRow :
        /\ PageOf(l.chat, l.before, page)
        /\ loads' = (loads \ {l}) \cup {[l EXCEPT !.answered = TRUE, !.page = page]}
        /\ UNCHANGED <<visible, sent, open, kept, clearing, news, renders, saved, unseen,
                       tangled, moves, losses>>
  <2>1. visible[l.chat] \in SUBSET Messages
    BY LoadTyped DEF TimelineInv, LoadsTyped, RowsTyped
  <2>2. \A msgs \in SUBSET visible[l.chat], more \in BOOLEAN :
          [msgs |-> msgs, more |-> more, seen |-> visible[l.chat]] \in PageRow
    BY <2>1 DEF PageRow
  <2>3. QED
    BY <1>1, <2>2
<1> DEFINE c == l.chat
<1>3. l \in LoadRow /\ c \in Chats /\ LoadFits(l) /\ LoadOK(l)
  BY LoadTyped DEF TimelineInv, LoadsTyped
<1>4. visible[c] \subseteq Own(c)
  BY <1>3 DEF TimelineInv, ChatFits, Own
<1>5. /\ PageFits(l.before, page) /\ Cardinality(page.msgs) <= PageSize
      /\ page.seen = visible[c]
  <2>1. IsFiniteSet(visible[c]) /\ visible[c] \subseteq Nat
    BY <1>3, <1>4, OwnTyped, FS_Subset
  <2>2. QED
    BY <1>2, <2>1, PageOfFits
<1>6. PICK a \in LoadRow : a = [l EXCEPT !.answered = TRUE, !.page = page]
  BY <1>3 DEF LoadRow
<1>7. a.chat = c /\ a.kind = l.kind /\ a.before = l.before /\ a.answered /\ a.page = page
  BY <1>3, <1>6 DEF LoadRow
<1> HIDE DEF c
<1>8. loads' = (loads \ {l}) \cup {a}
  BY <1>2, <1>6
<1>9. LoadsTyped'
  <2>1. IsFiniteSet(loads) /\ Cardinality(loads) \in Nat /\ Cardinality(loads) <= MaxLoads
    BY FS_CardinalityType DEF TimelineInv, LoadsTyped
  <2>2. IsFiniteSet(loads \ {l}) /\ Cardinality(loads \ {l}) = Cardinality(loads) - 1
    BY <2>1, FS_RemoveElement
  <2>3. IsFiniteSet(loads') /\ Cardinality(loads') \in {Cardinality(loads) - 1, Cardinality(loads)}
    BY <1>8, <2>1, <2>2, FS_AddElement
  <2>4. Cardinality(loads') <= MaxLoads
    BY <2>1, <2>3, OwnTyped
  <2>5. LoadOK(a)
    BY <1>3, <1>5, <1>7 DEF LoadOK
  <2>6. QED
    BY <1>8, <2>3, <2>4, <2>5 DEF TimelineInv, LoadsTyped, LoadRow, PageRow, Messages, Dates, LoadOK
<1>10. \A d \in Chats : Steady(d)
  BY <1>2 DEF Steady, SameRow, Accounted
<1>11. \A d \in Chats : Shown(d)'
  BY <1>10, SteadyShows DEF TimelineInv, ChatFits
<1>12. ASSUME NEW k \in loads' PROVE LoadFits(k)'
  <2>1. CASE k = a
    BY <1>2, <1>3, <1>5, <1>7, <1>4, <2>1 DEF LoadFits, Own, PageFits, c
  <2>2. CASE k # a
    <3>1. k \in loads /\ LoadFits(k) /\ k.chat \in Chats
      BY <1>8, <2>2, LoadTyped DEF TimelineInv, LoadsTyped
    <3>2. QED
      BY <1>10, <3>1, SteadyLoads
  <2>3. QED
    BY <2>1, <2>2
<1>13. OneLoad'
  <2>1. ASSUME NEW k \in loads', NEW j \in loads', k.chat = j.chat, k # j
        PROVE  k.chat \in tangled
    <3> DEFINE before(q) == IF q = a THEN l ELSE q
    <3>1. /\ before(k) \in loads /\ before(j) \in loads /\ before(k) # before(j)
          /\ before(k).chat = k.chat /\ before(j).chat = j.chat
      BY <1>7, <1>8, <2>1 DEF c
    <3>2. QED
      BY <2>1, <3>1 DEF TimelineInv, OneLoad
  <2>2. QED
    BY <1>2, <2>1 DEF OneLoad
<1>14. RowsTyped' /\ RestTyped' /\ NewsOwned' /\ \A r \in clearing' : ClearingFits(r)'
  BY <1>2, ClearingStays
     DEF TimelineInv, RowsTyped, HistoryRow, RestTyped, ClearRow, NewsOwned, Own, Messages, Dates
<1>15. ASSUME NEW d \in Chats PROVE ChatFits(d)'
  BY <1>2 DEF TimelineInv, ChatFits, HistoryFits, Own
<1>16. QED
  BY <1>9, <1>11, <1>12, <1>13, <1>14, <1>15 DEF TimelineInv

-----------------------------------------------------------------------------
(* Timeline: the page.                                                     *)

\* A step of the browser that changes no place, and adds no load: what it still has to
\* show.
LEMMA BrowserKeeps ==
  ASSUME TimelineInv, HistoriesStay, NEW X, loads' = loads \/ loads' = loads \ {X},
         UNCHANGED <<visible, sent, saved, tangled>>,
         unseen' \in [Chats -> SUBSET Messages], \A c \in Chats : unseen'[c] \subseteq Own(c),
         RestTyped', NewsOwned', \A r \in clearing' : ClearingFits(r)',
         \A c \in Chats : Steady(c)
  PROVE  TimelineInv'
<1>1. RowsTyped' /\ \A c \in Chats : ChatFits(c)'
  <2>1. visible' \in [Chats -> SUBSET Messages] /\ \A c \in Chats : visible'[c] \subseteq visible[c]
    BY DEF TimelineInv, RowsTyped
  <2>2. QED
    BY <2>1, HistoriesFit
<1>2. LoadsTyped'
  BY LoadsShrink DEF TimelineInv
<1>3. (\A c \in Chats : Shown(c)') /\ (\A l \in loads' : LoadFits(l)') /\ OneLoad'
  BY AllSteady
<1>4. QED
  BY <1>1, <1>2, <1>3 DEF TimelineInv

\* What the histories have belongs to their chats.
LEMMA StayWhenSame ==
  ASSUME TimelineInv, kept' = kept PROVE HistoriesStay
  BY DEF HistoriesStay, SameRow, TimelineInv, RowsTyped, ChatFits, HistoryFits

LEMMA StayWhenEnded ==
  ASSUME TimelineInv, NEW kind, kept' = EndOlder(kept, kind) PROVE HistoriesStay
  BY EndOlderKeeps DEF HistoriesStay, TimelineInv, RowsTyped, ChatFits, HistoryFits

\* The chat is closed, or asked to be cleared.
LEMMA CloseKeeps == ASSUME TimelineInv, CloseChat \/ ClearChat PROVE TimelineInv'
<1>1. /\ UNCHANGED <<visible, sent, kept, loads, news, renders, saved, unseen, tangled, losses>>
      /\ Move
  BY DEF CloseChat, ClearChat
<1>2. /\ clearing' \subseteq ClearRow /\ \A r \in clearing' : ClearingFits(r)'
      /\ open' \in SUBSET Chats /\ (open' = {} \/ \E c \in Chats : open' = {c})
  <2>1. CASE CloseChat
    BY <1>1, <2>1, ClearingStays DEF CloseChat, TimelineInv, RestTyped
  <2>2. CASE ClearChat
    <3>1. PICK c \in open : clearing' = {[chat |-> c, at |-> "asked", ids |-> {}]}
                            /\ open' = open
      BY <2>2 DEF ClearChat
    <3>2. PICK r \in ClearRow : r = [chat |-> c, at |-> "asked", ids |-> {}]
      BY DEF ClearRow, TimelineInv, RestTyped
    <3>3. r.at = "asked" /\ r.ids = {}
      BY <3>2
    <3>4. ClearingFits(r)'
      BY <3>3 DEF ClearingFits
    <3>5. QED
      BY <3>1, <3>2, <3>4 DEF TimelineInv, RestTyped
  <2>3. QED
    BY <2>1, <2>2
<1>3. RestTyped'
  BY <1>1, <1>2, MoveLose DEF TimelineInv, RestTyped, ClearRow, Messages
<1>4. \A c \in Chats : Steady(c)
  BY <1>1 DEF Steady, SameRow, Accounted
<1>5. unseen' \in [Chats -> SUBSET Messages] /\ \A c \in Chats : unseen'[c] \subseteq Own(c)
  BY <1>1 DEF TimelineInv, RowsTyped, ChatFits
<1>6. NewsOwned'
  BY <1>1 DEF TimelineInv, NewsOwned, Own
<1>7. QED
  BY <1>1, <1>2, <1>3, <1>4, <1>5, <1>6, StayWhenSame, BrowserKeeps

\* A request fails.
LEMMA LoadFailsKeeps == ASSUME TimelineInv, LoadFails PROVE TimelineInv'
<1>1. PICK l \in loads :
        /\ Lose
        /\ loads' = loads \ {l}
        /\ kept' = EndOlder(kept, l.kind)
        /\ UNCHANGED <<visible, sent, open, clearing, news, renders, saved, unseen, tangled, moves>>
  BY DEF LoadFails
<1>2. HistoriesStay /\ \A c \in Chats : kept'[c].msgs = kept[c].msgs
  BY <1>1, StayWhenEnded, EndOlderKeeps DEF TimelineInv, RowsTyped
<1>3. RestTyped'
  BY <1>1, MoveLose DEF TimelineInv, RestTyped, ClearRow, Messages
<1>4. \A c \in Chats : Steady(c)
  BY <1>1, <1>2 DEF Steady, HistoriesStay, SameRow, Accounted
<1>5. unseen' \in [Chats -> SUBSET Messages] /\ \A c \in Chats : unseen'[c] \subseteq Own(c)
  BY <1>1 DEF TimelineInv, RowsTyped, ChatFits
<1>6. NewsOwned' /\ \A r \in clearing' : ClearingFits(r)'
  BY <1>1, ClearingStays DEF TimelineInv, NewsOwned, Own
<1>7. QED
  BY <1>1, <1>2, <1>3, <1>4, <1>5, <1>6, BrowserKeeps

\* A pushed message is put into the cache of its chat.
LEMMA GetNewsKeeps == ASSUME TimelineInv, GetNews PROVE TimelineInv'
<1>1. PICK n \in news :
        /\ news' = news \ {n}
        /\ kept' = IF kept[n[1]].exists
                     THEN [kept EXCEPT ![n[1]].msgs = @ \cup {n[2]}] ELSE kept
        /\ renders' = IF n[1] \in open THEN renders \cup {n} ELSE renders
        /\ UNCHANGED <<visible, sent, open, loads, clearing, saved, unseen, tangled, moves, losses>>
  BY DEF GetNews
<1> DEFINE c == n[1]
           m == n[2]
<1>2. n = <<c, m>> /\ c \in Chats /\ m \in Messages /\ m \in Own(c)
  BY DEF TimelineInv, RestTyped, NewsOwned
<1>3. kept \in [Chats -> HistoryRow] /\ \A d \in Chats : kept[d].msgs \subseteq Own(d)
  BY DEF TimelineInv, RowsTyped, ChatFits, HistoryFits
<1>4. /\ kept' \in [Chats -> HistoryRow] /\ SameRow(kept[c], kept'[c])
      /\ kept'[c].msgs = (IF kept[c].exists THEN kept[c].msgs \cup {m} ELSE kept[c].msgs)
      /\ \A d \in Chats \ {c} : kept'[d] = kept[d]
  <2>1. CASE kept[c].exists
    <3> DEFINE X == kept[c].msgs \cup {m}
               g == [kept[c] EXCEPT !.msgs = X]
    <3>1. kept[c] \in HistoryRow /\ X \in SUBSET Messages
      BY <1>2, <1>3, RowTyped
    <3>2. kept' = [kept EXCEPT ![c] = g]
      BY <1>1, <2>1
    <3> HIDE DEF X
    <3>3. g \in HistoryRow /\ SameRow(kept[c], g) /\ g.msgs = X
      BY <3>1, MsgsChange
    <3> HIDE DEF g
    <3>4. kept' \in [Chats -> HistoryRow] /\ kept'[c] = g /\ \A d \in Chats \ {c} : kept'[d] = kept[d]
      BY <1>2, <1>3, <3>2, <3>3
    <3>5. QED
      BY <2>1, <3>3, <3>4 DEF X
  <2>2. CASE ~kept[c].exists
    BY <1>1, <1>3, <2>2 DEF SameRow
  <2>3. QED
    BY <2>1, <2>2
<1> HIDE DEF c, m
<1>5. HistoriesStay
  BY <1>2, <1>3, <1>4 DEF HistoriesStay, SameRow
<1>6. RestTyped'
  BY <1>1 DEF TimelineInv, RestTyped, ClearRow, Messages
<1>7. ASSUME NEW d \in Chats PROVE Steady(d)
  <2>1. SameRow(kept[d], kept'[d])
    BY <1>5 DEF HistoriesStay
  <2>2. ASSUME kept[d].exists, NEW x \in visible[d], Accounted(d, x)
        PROVE  x \in kept'[d].msgs \cup unseen'[d] \/ <<d, x>> \in news'
    <3>1. CASE <<d, x>> = n
      <4>1. d = c /\ x = m
        BY <1>2, <3>1
      <4>2. QED
        BY <1>4, <2>2, <4>1
    <3>2. CASE <<d, x>> # n
      <4>1. kept[d].msgs \subseteq kept'[d].msgs
        BY <1>4
      <4>2. QED
        BY <1>1, <2>2, <3>2, <4>1 DEF Accounted
    <3>3. QED
      BY <3>1, <3>2
  <2>3. QED
    BY <1>1, <2>1, <2>2 DEF Steady, SameRow
<1>8. unseen' \in [Chats -> SUBSET Messages] /\ \A d \in Chats : unseen'[d] \subseteq Own(d)
  BY <1>1 DEF TimelineInv, RowsTyped, ChatFits
<1>9. NewsOwned' /\ \A r \in clearing' : ClearingFits(r)'
  BY <1>1, ClearingStays DEF TimelineInv, NewsOwned, Own
<1>10. QED
  BY <1>1, <1>5, <1>6, <1>7, <1>8, <1>9, BrowserKeeps

\* A pushed message is lost.
LEMMA LoseNewsKeeps == ASSUME TimelineInv, LoseNews PROVE TimelineInv'
<1>1. PICK n \in news :
        /\ Lose
        /\ news' = news \ {n}
        /\ unseen' = [unseen EXCEPT ![n[1]] = @ \cup {n[2]}]
        /\ UNCHANGED <<visible, sent, open, kept, loads, clearing, renders, saved, tangled, moves>>
  BY DEF LoseNews
<1> DEFINE c == n[1]
           m == n[2]
<1>2. n = <<c, m>> /\ c \in Chats /\ m \in Messages /\ m \in Own(c)
  BY DEF TimelineInv, RestTyped, NewsOwned
<1>3. unseen \in [Chats -> SUBSET Messages] /\ \A d \in Chats : unseen[d] \subseteq Own(d)
  BY DEF TimelineInv, RowsTyped, ChatFits
<1>4. unseen' = [unseen EXCEPT ![c] = unseen[c] \cup {m}]
  BY <1>1
<1> HIDE DEF c, m
<1>5. /\ unseen' \in [Chats -> SUBSET Messages] /\ unseen'[c] = unseen[c] \cup {m}
      /\ \A d \in Chats \ {c} : unseen'[d] = unseen[d]
  BY <1>2, <1>3, <1>4
<1>6. \A d \in Chats : unseen'[d] \subseteq Own(d)
  BY <1>2, <1>3, <1>5
<1>7. RestTyped'
  BY <1>1, MoveLose DEF TimelineInv, RestTyped, ClearRow, Messages
<1>8. ASSUME NEW d \in Chats PROVE Steady(d)
  <2>1. ASSUME NEW x \in visible[d], Accounted(d, x)
        PROVE  x \in kept[d].msgs \cup unseen'[d] \/ <<d, x>> \in news'
    <3>1. CASE <<d, x>> = n
      BY <1>2, <1>5, <3>1
    <3>2. CASE <<d, x>> # n
      <4>1. unseen[d] \subseteq unseen'[d]
        BY <1>5
      <4>2. QED
        BY <1>1, <2>1, <3>2, <4>1 DEF Accounted
    <3>3. QED
      BY <3>1, <3>2
  <2>2. QED
    BY <1>1, <2>1 DEF Steady, SameRow
<1>9. NewsOwned' /\ \A r \in clearing' : ClearingFits(r)'
  BY <1>1, ClearingStays DEF TimelineInv, NewsOwned, Own
<1>10. QED
  BY <1>1, <1>5, <1>6, <1>7, <1>8, <1>9, StayWhenSame, BrowserKeeps

\* flushQueuedConversationMessageRenders.
LEMMA RenderKeeps == ASSUME TimelineInv, Render PROVE TimelineInv'
<1> DEFINE New(c) == {n[2] : n \in {r \in renders : r[1] = c}}
<1>1. /\ renders' = {}
      /\ kept' = [c \in Chats |-> IF c \in open
                    THEN [kept[c] EXCEPT !.msgs = kept[c].msgs \cup New(c)] ELSE kept[c]]
      /\ UNCHANGED <<visible, sent, open, loads, clearing, news, saved, unseen, tangled, moves, losses>>
  BY DEF Render
<1>2. ASSUME NEW c \in Chats PROVE New(c) \subseteq Own(c) /\ New(c) \subseteq Messages
  BY DEF TimelineInv, RestTyped, NewsOwned
<1>3. kept \in [Chats -> HistoryRow] /\ \A d \in Chats : kept[d].msgs \subseteq Own(d)
  BY DEF TimelineInv, RowsTyped, ChatFits, HistoryFits
<1> HIDE DEF New
<1>4. ASSUME NEW c \in Chats
      PROVE  /\ kept'[c] \in HistoryRow /\ SameRow(kept[c], kept'[c])
             /\ kept[c].msgs \subseteq kept'[c].msgs /\ kept'[c].msgs \subseteq Own(c)
  <2>1. CASE c \in open
    <3> DEFINE X == kept[c].msgs \cup New(c)
    <3>1. X \in SUBSET Messages
      BY <1>2, <1>3, RowTyped
    <3>2. kept'[c] = [kept[c] EXCEPT !.msgs = X]
      BY <1>1, <2>1
    <3> HIDE DEF X
    <3>3. kept'[c] \in HistoryRow /\ SameRow(kept[c], kept'[c]) /\ kept'[c].msgs = X
      BY <1>3, <3>1, <3>2, MsgsChange
    <3>4. QED
      BY <1>2, <1>3, <3>3 DEF X
  <2>2. CASE c \notin open
    BY <1>1, <1>3, <2>2 DEF SameRow
  <2>3. QED
    BY <2>1, <2>2
<1>5. HistoriesStay
  <2>1. kept' \in [Chats -> HistoryRow]
    BY <1>1, <1>4
  <2>2. QED
    BY <1>4, <2>1 DEF HistoriesStay
<1>6. RestTyped'
  BY <1>1 DEF TimelineInv, RestTyped, ClearRow, Messages
<1>7. \A c \in Chats : Steady(c)
  BY <1>1, <1>4 DEF Steady, SameRow, Accounted
<1>8. unseen' \in [Chats -> SUBSET Messages] /\ \A d \in Chats : unseen'[d] \subseteq Own(d)
  BY <1>1 DEF TimelineInv, RowsTyped, ChatFits
<1>9. NewsOwned' /\ \A r \in clearing' : ClearingFits(r)'
  BY <1>1, ClearingStays DEF TimelineInv, NewsOwned, Own
<1>10. QED
  BY <1>1, <1>5, <1>6, <1>7, <1>8, <1>9, BrowserKeeps

\* persistConversationHistoryCache.
LEMMA SaveKeeps == ASSUME TimelineInv, Save PROVE TimelineInv'
<1> DEFINE k(c) == Min({MaxSaved, Cardinality(kept[c].msgs)})
           Newest(c) == CHOOSE s \in kSubset(k(c), kept[c].msgs) :
                          \A m \in s, n \in kept[c].msgs \ s : n < m
<1>1. /\ Move
      /\ saved' = [c \in Chats |->
           IF kept[c].initialized /\ kept[c].msgs # {}
           THEN [kept[c] EXCEPT !.msgs = Newest(c), !.loadingOlder = FALSE, !.fromDisk = TRUE]
           ELSE NoHistory]
      /\ UNCHANGED <<visible, sent, open, kept, loads, clearing, news, renders, unseen, tangled, losses>>
  BY DEF Save
<1>2. ASSUME NEW c \in Chats PROVE Newest(c) \subseteq kept[c].msgs
  <2> DEFINE X == kept[c].msgs
  <2>1. IsFiniteSet(X) /\ X \subseteq Nat /\ Cardinality(X) \in Nat
    <3>1. X \subseteq Own(c)
      BY DEF TimelineInv, ChatFits, HistoryFits
    <3>2. QED
      BY <3>1, OwnTyped, FS_Subset, FS_CardinalityType
  <2>2. k(c) \in Nat /\ k(c) <= Cardinality(X)
    BY <2>1, OwnTyped, MinOfTwo
  <2> HIDE DEF k
  <2>3. \E T \in kSubset(k(c), X) : \A m \in T, n \in X \ T : n < m
    BY <2>1, <2>2, NewestExist
  <2>4. Newest(c) \in kSubset(k(c), X)
    BY <2>3
  <2>5. QED
    BY <2>4 DEF kSubset
<1> HIDE DEF Newest, k
<1>3. ASSUME NEW c \in Chats
      PROVE  /\ saved'[c] \in HistoryRow /\ HistoryFits(saved'[c], Own(c))
             /\ saved'[c].initialized => saved'[c].fromDisk
  <2>1. kept[c] \in HistoryRow /\ HistoryFits(kept[c], Own(c))
    BY DEF TimelineInv, RowsTyped, ChatFits
  <2>2. CASE kept[c].initialized /\ kept[c].msgs # {}
    <3> DEFINE X == Newest(c)
    <3>1. X \in SUBSET Messages /\ X \subseteq kept[c].msgs
      BY <1>2, <2>1, RowTyped
    <3>2. saved'[c] = [kept[c] EXCEPT !.msgs = X, !.loadingOlder = FALSE, !.fromDisk = TRUE]
      BY <1>1, <2>2
    <3> HIDE DEF X
    <3>3. PICK g \in HistoryRow :
            g = [kept[c] EXCEPT !.msgs = X, !.loadingOlder = FALSE, !.fromDisk = TRUE]
      BY <2>1, <3>1 DEF HistoryRow
    <3>4. /\ g.msgs = X /\ g.fromDisk /\ g.exists = kept[c].exists /\ g.more = kept[c].more
          /\ g.initialized = kept[c].initialized /\ g.before = kept[c].before
      BY <2>1, <3>3 DEF HistoryRow
    <3>5. HistoryFits(g, Own(c))
      BY <2>1, <3>1, <3>4 DEF HistoryFits
    <3>6. QED
      BY <3>2, <3>3, <3>4, <3>5
  <2>3. CASE ~(kept[c].initialized /\ kept[c].msgs # {})
    <3>1. saved'[c] = NoHistory
      BY <1>1, <2>3
    <3>2. QED
      BY <3>1, EmptyTyped DEF HistoryFits
  <2>4. QED
    BY <2>2, <2>3
<1>4. RowsTyped'
  <2>1. saved' \in [Chats -> HistoryRow]
    BY <1>1, <1>3
  <2>2. QED
    BY <1>1, <2>1 DEF TimelineInv, RowsTyped, HistoryRow, Messages, Dates
<1>5. RestTyped'
  BY <1>1, MoveLose DEF TimelineInv, RestTyped, ClearRow, Messages
<1>6. \A c \in Chats : Steady(c)
  BY <1>1 DEF Steady, SameRow, Accounted
<1>7. ASSUME NEW c \in Chats PROVE ChatFits(c)'
  BY <1>1, <1>3 DEF TimelineInv, ChatFits, HistoryFits, Own
<1>8. NewsOwned' /\ (\A r \in clearing' : ClearingFits(r)') /\ LoadsTyped'
  BY <1>1, ClearingStays, LoadsShrink DEF TimelineInv, NewsOwned, Own
<1>9. QED
  BY <1>1, <1>4, <1>5, <1>6, <1>7, <1>8, AllSteady DEF TimelineInv

\* A request about one chat, whose place it may forget.
LEMMA RequestKeeps ==
  ASSUME TimelineInv, NEW c \in Chats, NEW kind \in {"replace", "merge", "older"},
         NEW before \in Dates \cup {None}, kind = "older" <=> before # None,
         Request(c, kind, before),
         UNCHANGED <<visible, sent, clearing, news, renders, saved, unseen>>, RestTyped',
         kept' \in [Chats -> HistoryRow], \A d \in Chats \ {c} : kept'[d] = kept[d],
         kept'[c].exists, HistoryFits(kept'[c], Own(c)),
         kind = "older" /\ c \notin tangled => kept'[c].more /\ kept'[c].before = before,
         Shown(c) /\ tangled \subseteq tangled' => Shown(c)'
  PROVE  TimelineInv'
<1>1. /\ LoadsTyped' /\ OneLoad'
      /\ tangled \subseteq tangled' /\ tangled' \subseteq tangled \cup {c}
      /\ \A l \in loads : l.chat = c => c \in tangled'
      /\ loads \subseteq loads' /\ \A l \in loads' : l.chat # c => l \in loads
      /\ \A l \in loads' \ loads :
           /\ l.chat = c /\ l.kind = kind /\ l.before = before /\ ~l.answered
           /\ l.page.seen = {}
  BY RequestFits
<1>2. Shown(c)'
  BY <1>1 DEF TimelineInv
<1>3. \A d \in Chats \ {c} : Steady(d)
  BY <1>1 DEF Steady, SameRow, Accounted
<1>4. ASSUME NEW l \in loads', l.chat = c, l \notin loads PROVE LoadFits(l)'
  BY <1>1, <1>4 DEF LoadFits
<1>5. c \in tangled' \/ \A l \in loads' : l.chat = c => LoadFits(l)'
  BY <1>1, <1>4
<1>6. (\A d \in Chats : Shown(d)') /\ (\A l \in loads' : LoadFits(l)')
  BY <1>1, <1>2, <1>3, <1>4, <1>5, MostSteady
<1>7. ASSUME NEW d \in Chats PROVE ChatFits(d)'
  BY DEF TimelineInv, ChatFits, HistoryFits, Own
<1>8. RowsTyped' /\ NewsOwned' /\ \A r \in clearing' : ClearingFits(r)'
  BY ClearingStays DEF TimelineInv, RowsTyped, HistoryRow, NewsOwned, Own, Messages, Dates
<1>9. QED
  BY <1>1, <1>6, <1>7, <1>8 DEF TimelineInv

\* A chat that has not been loaded shows nothing yet.
LEMMA UnloadedShows ==
  ASSUME NEW c \in Chats, ~kept'[c].initialized PROVE Shown(c)'
  BY DEF Shown

\* selectUser.
LEMMA OpenKeeps == ASSUME TimelineInv, OpenChat PROVE TimelineInv'
<1>1. PICK c \in Chats \ open :
        /\ moves' = moves \/ Move
        /\ open' = {c}
        /\ kept' = IF kept[c].exists THEN kept ELSE [kept EXCEPT ![c] = EmptyHistory]
        /\ \/ kept[c].initialized /\ ~kept[c].fromDisk /\ UNCHANGED <<loads, tangled>>
           \/ Request(c, IF kept[c].initialized THEN "merge" ELSE "replace", None)
        /\ UNCHANGED <<visible, sent, clearing, news, renders, saved, unseen, losses>>
  BY DEF OpenChat
<1>2. /\ kept \in [Chats -> HistoryRow] /\ ChatFits(c) /\ Shown(c)
      /\ HistoryFits(kept[c], Own(c))
  BY DEF TimelineInv, RowsTyped, ChatFits
<1>3. CASE Request(c, IF kept[c].initialized THEN "merge" ELSE "replace", None)
  <2> DEFINE kind == IF kept[c].initialized THEN "merge" ELSE "replace"
  <2>1. kind \in {"replace", "merge", "older"} /\ kind # "older"
    OBVIOUS
  <2>2. Request(c, kind, None)
    BY <1>3
  <2> HIDE DEF kind
  <2>3. RestTyped'
    <3>1. tangled' \subseteq tangled \cup {c}
      BY <2>2 DEF Request
    <3>2. QED
      BY <1>1, <3>1, MoveLose DEF TimelineInv, RestTyped, ClearRow, Messages
  <2>4. /\ kept' \in [Chats -> HistoryRow] /\ \A d \in Chats \ {c} : kept'[d] = kept[d]
        /\ kept'[c] = IF kept[c].exists THEN kept[c] ELSE EmptyHistory
    BY <1>1, <1>2, EmptyTyped
  <2>5. kept'[c].exists /\ HistoryFits(kept'[c], Own(c))
    BY <1>2, <2>4, EmptyTyped DEF HistoryFits
  <2>6. ASSUME tangled \subseteq tangled' PROVE Shown(c)'
    <3>1. CASE kept[c].exists
      BY <1>1, <1>2, <2>6, <3>1 DEF Shown, Accounted, Twin, Own
    <3>2. CASE ~kept[c].exists
      BY <2>4, <3>2, EmptyTyped, UnloadedShows
    <3>3. QED
      BY <3>1, <3>2
  <2>7. QED
    BY <1>1, <2>1, <2>2, <2>3, <2>4, <2>5, <2>6, RequestKeeps
<1>4. CASE kept[c].initialized /\ ~kept[c].fromDisk /\ UNCHANGED <<loads, tangled>>
  <2>1. kept' = kept
    BY <1>1, <1>2, <1>4 DEF HistoryFits
  <2>2. RestTyped'
    BY <1>1, <1>4, MoveLose DEF TimelineInv, RestTyped, ClearRow, Messages
  <2>3. \A d \in Chats : Steady(d)
    BY <1>1, <1>4, <2>1 DEF Steady, SameRow, Accounted
  <2>4. unseen' \in [Chats -> SUBSET Messages] /\ \A d \in Chats : unseen'[d] \subseteq Own(d)
    BY <1>1 DEF TimelineInv, RowsTyped, ChatFits
  <2>5. NewsOwned' /\ \A r \in clearing' : ClearingFits(r)'
    BY <1>1, ClearingStays DEF TimelineInv, NewsOwned, Own
  <2>6. QED
    BY <1>1, <1>4, <2>1, <2>2, <2>3, <2>4, <2>5, StayWhenSame, BrowserKeeps
<1>5. QED
  BY <1>1, <1>3, <1>4

\* loadOlderMessages.
LEMMA LoadOlderKeeps == ASSUME TimelineInv, LoadOlder PROVE TimelineInv'
<1>1. PICK c \in open :
        /\ kept[c].more /\ ~kept[c].loadingOlder
        /\ kept' = [kept EXCEPT ![c].loadingOlder = TRUE]
        /\ Request(c, "older", kept[c].before)
        /\ UNCHANGED <<visible, sent, open, clearing, news, renders, saved, unseen, moves, losses>>
  BY DEF LoadOlder
<1>2. /\ c \in Chats /\ kept \in [Chats -> HistoryRow] /\ kept[c] \in HistoryRow
      /\ HistoryFits(kept[c], Own(c)) /\ Shown(c)
  BY DEF TimelineInv, RowsTyped, RestTyped, ChatFits
<1>3. kept[c].before \in Dates /\ kept[c].before # None /\ kept[c].exists
  BY <1>1, <1>2, RowTyped DEF HistoryFits
<1>4. /\ kept' \in [Chats -> HistoryRow] /\ SameRow(kept[c], kept'[c])
      /\ kept'[c].msgs = kept[c].msgs /\ \A d \in Chats \ {c} : kept'[d] = kept[d]
  <2> DEFINE g == [kept[c] EXCEPT !.loadingOlder = TRUE]
  <2>1. kept' = [kept EXCEPT ![c] = g]
    BY <1>1
  <2>2. g \in HistoryRow /\ SameRow(kept[c], g) /\ g.msgs = kept[c].msgs
    BY <1>2, OlderChange
  <2> HIDE DEF g
  <2>3. QED
    BY <1>2, <2>1, <2>2
<1>5. kept'[c].exists /\ HistoryFits(kept'[c], Own(c)) /\ kept'[c].more
      /\ kept'[c].before = kept[c].before
  BY <1>1, <1>2, <1>3, <1>4, SameRowFits DEF SameRow, HistoryFits
<1>6. RestTyped'
  <2>1. tangled' \subseteq tangled \cup {c}
    BY <1>1 DEF Request
  <2>2. QED
    BY <1>1, <1>2, <2>1 DEF TimelineInv, RestTyped, ClearRow, Messages
<1>7. ASSUME tangled \subseteq tangled' PROVE Shown(c)'
  <2>1. Steady(c)
    BY <1>1, <1>4, <1>7 DEF Steady, SameRow, Accounted
  <2>2. QED
    BY <1>2, <2>1, SteadyShows
<1>8. QED
  BY <1>1, <1>2, <1>3, <1>4, <1>5, <1>6, <1>7, RequestKeeps

\* refreshSelectedConversation.
LEMMA RefreshKeeps == ASSUME TimelineInv, Refresh PROVE TimelineInv'
<1>1. PICK c \in open :
        /\ Move
        /\ kept' = [kept EXCEPT ![c] = EmptyHistory]
        /\ Request(c, "replace", None)
        /\ UNCHANGED <<visible, sent, open, clearing, news, renders, saved, unseen, losses>>
  BY DEF Refresh
<1>2. c \in Chats /\ kept \in [Chats -> HistoryRow]
  BY DEF TimelineInv, RowsTyped, RestTyped
<1>3. /\ kept' \in [Chats -> HistoryRow] /\ kept'[c] = EmptyHistory
      /\ \A d \in Chats \ {c} : kept'[d] = kept[d]
  BY <1>1, <1>2, EmptyTyped
<1>4. kept'[c].exists /\ HistoryFits(kept'[c], Own(c))
  BY <1>3, EmptyTyped DEF HistoryFits
<1>5. RestTyped'
  <2>1. tangled' \subseteq tangled \cup {c}
    BY <1>1 DEF Request
  <2>2. QED
    BY <1>1, <1>2, <2>1, MoveLose DEF TimelineInv, RestTyped, ClearRow, Messages
<1>6. Shown(c)'
  BY <1>2, <1>3, EmptyTyped, UnloadedShows
<1>7. QED
  BY <1>1, <1>2, <1>3, <1>4, <1>5, <1>6, RequestKeeps

\* A page that is put into the cache leaves no gap above the new place.
LEMMA PageShows ==
  ASSUME NEW c \in Chats, NEW page \in PageRow, NEW before, PageFits(before, page),
         page.seen \subseteq Own(c),
         NEW m \in page.seen, before = None \/ Date(m) < before
  PROVE  m \in page.msgs \/ (page.more /\ Date(m) < Date(Min(page.msgs))) \/ Twin(c, m)
<1>1. SUFFICES ASSUME m \notin page.msgs, page.more, \A n \in page.msgs : Date(m) <= Date(n)
               PROVE  Date(m) < Date(Min(page.msgs)) \/ Twin(c, m)
  BY DEF PageFits
<1>2. page.msgs \subseteq Own(c) /\ page.msgs # {} /\ page.msgs \subseteq Nat
  BY <1>1, OwnTyped DEF PageFits
<1> DEFINE n == Min(page.msgs)
<1>3. n \in page.msgs
  BY <1>2, MinIsLeast
<1>4. Date(m) \in Int /\ Date(n) \in Int /\ Date(m) <= Date(n)
  BY <1>1, <1>2, <1>3, OwnTyped, DateTyped
<1>5. CASE Date(m) < Date(n)
  BY <1>5
<1>6. CASE Date(m) = Date(n)
  BY <1>1, <1>2, <1>3, <1>6 DEF Twin
<1>7. QED
  BY <1>4, <1>5, <1>6

\* loadMessageChunk, when the answer has come.
LEMMA GetPageKeeps == ASSUME TimelineInv, GetPage PROVE TimelineInv'
<1>1. PICK l \in loads :
        /\ l.answered
        /\ loads' = loads \ {l}
        /\ IF l.chat \notin open
           THEN /\ kept' = EndOlder(kept, l.kind)
                /\ UNCHANGED <<unseen, tangled>>
           ELSE /\ kept' = EndOlder([kept EXCEPT ![l.chat] = Merge(@, l)], l.kind)
                /\ unseen' = [unseen EXCEPT ![l.chat] =
                     CASE l.kind = "older" -> @
                       [] l.kind = "merge" /\ l.chat \notin tangled -> @ \ l.page.seen
                       [] OTHER -> (@ \ l.page.seen) \cup (visible[l.chat] \ l.page.seen)]
                /\ tangled' =
                     CASE l.kind # "older" /\ ~ \E k \in loads \ {l} : k.chat = l.chat ->
                            tangled \ {l.chat}
                       [] l.kind = "older" /\ kept[l.chat].fromDisk -> tangled \cup {l.chat}
                       [] OTHER -> tangled
        /\ UNCHANGED <<visible, sent, open, clearing, news, renders, saved, moves, losses>>
  BY DEF GetPage
<1> DEFINE c == l.chat
<1>2. /\ l \in LoadRow /\ c \in Chats /\ LoadFits(l) /\ LoadOK(l) /\ PageFits(l.before, l.page)
      /\ l.kind \in {"replace", "merge", "older"} /\ l.page \in PageRow
      /\ l.page.seen \subseteq Own(c) /\ l.page.msgs \subseteq l.page.seen
  BY <1>1, LoadTyped DEF TimelineInv, LoadsTyped, LoadFits, PageFits
<1>3. /\ kept \in [Chats -> HistoryRow] /\ unseen \in [Chats -> SUBSET Messages]
      /\ visible \in [Chats -> SUBSET Messages] /\ ChatFits(c) /\ Shown(c)
  BY <1>2 DEF TimelineInv, RowsTyped
<1>4. NewsOwned' /\ (\A r \in clearing' : ClearingFits(r)') /\ LoadsTyped'
  BY <1>1, ClearingStays, LoadsShrink DEF TimelineInv, NewsOwned, Own
<1>5. CASE c \notin open
  <2>1. kept' = EndOlder(kept, l.kind) /\ UNCHANGED <<unseen, tangled>>
    BY <1>1, <1>5
  <2>2. HistoriesStay /\ \A d \in Chats : kept'[d].msgs = kept[d].msgs
    BY <1>3, <2>1, StayWhenEnded, EndOlderKeeps
  <2>3. RestTyped'
    BY <1>1, <2>1 DEF TimelineInv, RestTyped, ClearRow, Messages
  <2>4. \A d \in Chats : Steady(d)
    BY <1>1, <2>1, <2>2 DEF Steady, HistoriesStay, SameRow, Accounted
  <2>5. unseen' \in [Chats -> SUBSET Messages] /\ \A d \in Chats : unseen'[d] \subseteq Own(d)
    BY <2>1 DEF TimelineInv, RowsTyped, ChatFits
  <2>6. QED
    BY <1>1, <1>4, <2>1, <2>2, <2>3, <2>4, <2>5, BrowserKeeps
<1>6. CASE c \in open
  <2> DEFINE g == Merge(kept[c], l)
             h == [kept EXCEPT ![c] = g]
             older == l.kind = "older"
             others == \E k \in loads \ {l} : k.chat = c
  <2>1. /\ g \in HistoryRow /\ g.exists = kept[c].exists /\ g.initialized /\ ~g.fromDisk
        /\ g.msgs = IF l.kind = "replace" THEN l.page.msgs ELSE kept[c].msgs \cup l.page.msgs
        /\ g.more = l.page.more
        /\ g.before = IF l.page.more THEN Date(Min(l.page.msgs)) ELSE None
    BY <1>2, <1>3, MergeMakes
  <2>2. kept' = EndOlder(h, l.kind)
    BY <1>1, <1>6
  <2> HIDE DEF g
  <2>3. h \in [Chats -> HistoryRow] /\ h[c] = g /\ \A d \in Chats \ {c} : h[d] = kept[d]
    BY <1>2, <1>3, <2>1
  <2>4. /\ kept' \in [Chats -> HistoryRow] /\ SameRow(g, kept'[c]) /\ kept'[c].msgs = g.msgs
        /\ \A d \in Chats \ {c} : SameRow(kept[d], kept'[d]) /\ kept'[d].msgs = kept[d].msgs
    BY <1>2, <2>2, <2>3, EndOlderKeeps
  <2>5. /\ kept'[c].exists /\ kept'[c].initialized /\ ~kept'[c].fromDisk
        /\ kept'[c].msgs = IF l.kind = "replace" THEN l.page.msgs
                           ELSE kept[c].msgs \cup l.page.msgs
        /\ kept'[c].more = l.page.more
        /\ kept'[c].before = IF l.page.more THEN Date(Min(l.page.msgs)) ELSE None
    BY <1>2, <2>1, <2>4 DEF SameRow, LoadFits
  <2>6. unseen' = [unseen EXCEPT ![c] =
           CASE older -> @
             [] l.kind = "merge" /\ c \notin tangled -> @ \ l.page.seen
             [] OTHER -> (@ \ l.page.seen) \cup (visible[c] \ l.page.seen)]
    BY <1>1, <1>6
  <2>7. /\ unseen' \in [Chats -> SUBSET Messages] /\ unseen'[c] \subseteq Own(c)
        /\ \A d \in Chats \ {c} : unseen'[d] = unseen[d]
    <3> DEFINE U == CASE older -> unseen[c]
                      [] l.kind = "merge" /\ c \notin tangled -> unseen[c] \ l.page.seen
                      [] OTHER -> (unseen[c] \ l.page.seen) \cup (visible[c] \ l.page.seen)
    <3>1. U \subseteq unseen[c] \cup visible[c]
      OBVIOUS
    <3>2. unseen' = [unseen EXCEPT ![c] = U]
      BY <2>6
    <3> HIDE DEF U
    <3>3. U \in SUBSET Messages /\ U \subseteq Own(c)
      BY <1>2, <1>3, <3>1 DEF ChatFits, Own
    <3>4. QED
      BY <1>2, <1>3, <3>2, <3>3
  <2>8. tangled' = CASE ~older /\ ~others -> tangled \ {c}
                     [] older /\ kept[c].fromDisk -> tangled \cup {c}
                     [] OTHER -> tangled
    BY <1>1, <1>6
  <2>9. /\ \A d \in Chats \ {c} : d \in tangled' <=> d \in tangled
        /\ others => c \in tangled'
        /\ older /\ c \notin tangled' => c \notin tangled /\ ~kept[c].fromDisk
        /\ tangled' \subseteq tangled \cup {c}
    <3>1. others => c \in tangled
      BY DEF TimelineInv, OneLoad
    <3>2. CASE ~older /\ ~others
      BY <2>8, <3>2
    <3>3. CASE older /\ kept[c].fromDisk
      BY <2>8, <3>3
    <3>4. CASE ~(~older /\ ~others) /\ ~(older /\ kept[c].fromDisk)
      <4>1. tangled' = tangled
        BY <2>8, <3>4
      <4>2. QED
        BY <3>1, <3>4, <4>1
    <3>5. QED
      BY <3>2, <3>3, <3>4
  <2>10. \A d \in Chats \ {c} : Steady(d)
    BY <1>1, <2>4, <2>7, <2>9 DEF Steady, SameRow, Accounted
  <2>11. ASSUME c \notin tangled', NEW m \in visible[c],
                ~(m \in kept'[c].msgs \cup unseen'[c] \/ <<c, m>> \in news), ~Twin(c, m)
         PROVE  kept'[c].more /\ Date(m) < kept'[c].before
    <3>1. l.page.msgs \subseteq kept'[c].msgs
      BY <2>5
    <3>2. m \in l.page.seen /\ (l.before = None \/ Date(m) < l.before)
      <4>1. CASE older
        <5>1. kept[c].more /\ kept[c].before = l.before /\ kept[c].initialized /\ ~kept[c].fromDisk
              /\ c \notin tangled
          BY <1>2, <1>3, <2>9, <2>11, <4>1 DEF LoadFits, ChatFits, HistoryFits
        <5>2. ~Accounted(c, m)
          BY <1>2, <1>3, <2>5, <2>6, <2>11, <4>1 DEF Accounted
        <5>3. Date(m) < l.before
          BY <1>3, <2>11, <5>1, <5>2 DEF Shown
        <5>4. m \in l.page.seen
          BY <1>1, <1>2, <5>1, <5>2 DEF LoadFits
        <5>5. QED
          BY <5>3, <5>4
      <4>2. CASE ~older /\ ~(l.kind = "merge" /\ c \notin tangled)
        <5>1. unseen'[c] = (unseen[c] \ l.page.seen) \cup (visible[c] \ l.page.seen)
          BY <1>2, <1>3, <2>6, <4>2
        <5>2. QED
          BY <1>2, <2>11, <4>2, <5>1 DEF LoadOK
      <4>3. CASE l.kind = "merge" /\ c \notin tangled
        <5>1. unseen'[c] = unseen[c] \ l.page.seen /\ kept[c].msgs \subseteq kept'[c].msgs
          BY <1>2, <1>3, <2>5, <2>6, <4>3
        <5>2. m \in l.page.seen
          BY <1>1, <1>2, <2>11, <4>3, <5>1 DEF LoadFits, Accounted
        <5>3. QED
          BY <1>2, <4>3, <5>2 DEF LoadOK
      <4>4. QED
        BY <4>1, <4>2, <4>3
    <3>3. l.page.more /\ Date(m) < Date(Min(l.page.msgs))
      BY <1>2, <2>11, <3>1, <3>2, PageShows
    <3>4. QED
      BY <2>5, <3>3
  <2>12. Shown(c)'
    BY <1>1, <2>11 DEF Shown, Accounted, Twin, Own
  <2>13. /\ \A k \in loads' : k.chat # c => k \in loads
         /\ \A k \in loads' : ~(k.chat = c /\ k \notin loads)
         /\ c \in tangled' \/ \A k \in loads' : k.chat = c => LoadFits(k)'
    BY <1>1, <2>9
  <2>14. (\A d \in Chats : Shown(d)') /\ (\A k \in loads' : LoadFits(k)')
    BY <1>2, <2>5, <2>10, <2>12, <2>13, MostSteady
  <2>15. OneLoad'
    <3>1. ASSUME NEW k \in loads', NEW j \in loads', k.chat = j.chat, k # j
          PROVE  k.chat \in tangled'
      <4>1. k.chat \in tangled /\ k.chat \in Chats /\ k \in loads \ {l}
        BY <1>1, <3>1, LoadTyped DEF TimelineInv, OneLoad, LoadsTyped
      <4>2. CASE k.chat = c
        BY <2>9, <4>1, <4>2
      <4>3. CASE k.chat # c
        BY <2>9, <4>1, <4>3
      <4>4. QED
        BY <4>2, <4>3
    <3>2. QED
      BY <3>1 DEF OneLoad
  <2>16. HistoryFits(kept'[c], Own(c))
    <3>1. kept'[c].msgs \subseteq Own(c)
      BY <1>2, <1>3, <2>5 DEF ChatFits, HistoryFits
    <3>2. kept'[c].before # None \/ ~kept'[c].more
      <4>1. CASE l.page.more
        <5>1. l.page.msgs # {} /\ l.page.msgs \subseteq Own(c)
          BY <1>2, <4>1 DEF PageFits
        <5>2. Min(l.page.msgs) \in Messages
          BY <1>2, <5>1, OwnTyped, MinIsLeast
        <5>3. QED
          BY <2>5, <4>1, <5>2, DateTyped
      <4>2. CASE ~l.page.more
        BY <2>5, <4>2
      <4>3. QED
        BY <4>1, <4>2
    <3>3. QED
      BY <2>5, <3>1, <3>2 DEF HistoryFits
  <2>17. ASSUME NEW d \in Chats PROVE ChatFits(d)'
    <3>1. HistoryFits(kept'[d], Own(d)) /\ unseen'[d] \subseteq Own(d)
      <4>1. CASE d = c
        BY <2>7, <2>16, <4>1
      <4>2. CASE d # c
        BY <2>4, <2>7, <4>2, SameRowFits DEF TimelineInv, ChatFits, HistoryFits
      <4>3. QED
        BY <4>1, <4>2
    <3>2. QED
      BY <1>1, <3>1 DEF TimelineInv, ChatFits, HistoryFits, Own
  <2>18. RowsTyped'
    BY <1>1, <2>4, <2>7 DEF TimelineInv, RowsTyped, HistoryRow, Messages, Dates
  <2>19. RestTyped'
    BY <1>1, <1>2, <2>9 DEF TimelineInv, RestTyped, ClearRow, Messages
  <2>20. QED
    BY <1>4, <2>14, <2>15, <2>17, <2>18, <2>19 DEF TimelineInv
<1>7. QED
  BY <1>5, <1>6

\* clearSelectedConversation, when the answer has come.
LEMMA GetClearedKeeps == ASSUME TimelineInv, GetCleared PROVE TimelineInv'
<1>1. PICK r \in clearing :
        /\ r.at = "hidden"
        /\ clearing' = {}
        /\ kept' = [c \in Chats |-> IF c \in open
                                      THEN [EmptyHistory EXCEPT !.initialized = TRUE] ELSE kept[c]]
        /\ unseen' = [c \in Chats |-> IF c \in open
                                     THEN unseen[c] \cup (visible[c] \ r.ids) ELSE unseen[c]]
        /\ tangled' = IF r.chat \notin open \/ \E l \in loads : l.chat \in open
                        THEN tangled \cup open ELSE tangled \ (open \cap {r.chat})
        /\ UNCHANGED <<visible, sent, open, loads, news, renders, saved, moves, losses>>
  BY DEF GetCleared
<1>2. /\ kept \in [Chats -> HistoryRow] /\ unseen \in [Chats -> SUBSET Messages]
      /\ visible \in [Chats -> SUBSET Messages]
      /\ \A c \in Chats : visible[c] \subseteq Own(c) /\ unseen[c] \subseteq Own(c)
      /\ open \subseteq Chats /\ tangled \subseteq Chats
  BY DEF TimelineInv, RowsTyped, RestTyped, ChatFits, Own
<1> DEFINE g == [EmptyHistory EXCEPT !.initialized = TRUE]
<1>3. g \in HistoryRow /\ g.exists /\ g.initialized /\ ~g.more /\ g.msgs = {}
  BY DEF EmptyHistory, HistoryRow
<1> HIDE DEF g
<1>4. \A c \in Chats : kept'[c] = IF c \in open THEN g ELSE kept[c]
  BY <1>1 DEF g
<1>5. \A c \in Chats : unseen'[c] = IF c \in open THEN unseen[c] \cup (visible[c] \ r.ids)
                                    ELSE unseen[c]
  BY <1>1
<1>6. RowsTyped'
  <2>1. kept' \in [Chats -> HistoryRow]
    BY <1>1, <1>2, <1>3, <1>4
  <2>2. unseen' \in [Chats -> SUBSET Messages]
    BY <1>1, <1>2
  <2>3. QED
    BY <1>1, <2>1, <2>2 DEF TimelineInv, RowsTyped, HistoryRow, Messages, Dates
<1>7. ASSUME NEW c \in Chats PROVE ChatFits(c)'
  <2>1. HistoryFits(kept'[c], Own(c))
    BY <1>3, <1>4 DEF TimelineInv, ChatFits, HistoryFits
  <2>2. unseen'[c] \subseteq Own(c)
    BY <1>2, <1>5
  <2>3. QED
    BY <1>1, <2>1, <2>2 DEF TimelineInv, ChatFits, HistoryFits, Own
<1>8. RestTyped' /\ NewsOwned' /\ LoadsTyped' /\ \A q \in clearing' : ClearingFits(q)'
  <2>1. tangled' \subseteq Chats
    BY <1>1, <1>2
  <2>2. QED
    BY <1>1, <2>1, LoadsShrink DEF TimelineInv, RestTyped, ClearRow, NewsOwned, Own, Messages
<1>9. OneLoad'
  <2>1. ASSUME NEW k \in loads, k.chat \in tangled PROVE k.chat \in tangled'
    BY <1>1, <2>1
  <2>2. QED
    BY <1>1, <2>1 DEF TimelineInv, OneLoad
<1>10. ASSUME NEW d \in Chats \ open PROVE Steady(d)
  BY <1>1, <1>4, <1>5 DEF Steady, SameRow, Accounted
<1>11. (\A c \in Chats : Shown(c)') /\ (\A l \in loads' : LoadFits(l)')
  <2>1. CASE open = {}
    BY <1>1, <1>10, <2>1, AllSteady
  <2>2. CASE open # {}
    <3>1. PICK c \in Chats : open = {c}
      BY <2>2 DEF TimelineInv, RestTyped
    <3>2. Shown(c)'
      <4>1. SUFFICES ASSUME c \notin tangled', NEW m \in visible[c]
                     PROVE  m \in unseen'[c]
        BY <1>1 DEF Shown, Accounted
      <4>2. r.chat = c
        BY <1>1, <3>1, <4>1
      <4>3. m \notin r.ids
        BY <1>1, <4>2 DEF TimelineInv, ClearingFits
      <4>4. QED
        BY <1>5, <3>1, <4>3
    <3>3. c \in tangled' \/ \A l \in loads' : l.chat = c => LoadFits(l)'
      BY <1>1, <3>1
    <3>4. kept'[c].exists
      BY <1>3, <1>4, <3>1
    <3>5. QED
      BY <1>1, <1>10, <3>1, <3>2, <3>3, <3>4, MostSteady
  <2>3. QED
    BY <2>1, <2>2
<1>12. QED
  BY <1>6, <1>7, <1>8, <1>9, <1>11 DEF TimelineInv

\* restoreConversationHistoryCacheFromSession.
LEMMA ReloadKeeps == ASSUME TimelineInv, ReloadPage PROVE TimelineInv'
<1>1. /\ Lose /\ open' = {} /\ kept' = saved
      /\ unseen' = [c \in Chats |-> visible[c] \ saved[c].msgs]
      /\ loads' = {} /\ clearing' = {} /\ news' = {} /\ renders' = {} /\ tangled' = {}
      /\ UNCHANGED <<visible, sent, saved, moves>>
  BY DEF ReloadPage
<1>2. RowsTyped'
  BY <1>1 DEF TimelineInv, RowsTyped, HistoryRow, Messages, Dates
<1>3. LoadsTyped' /\ OneLoad' /\ NewsOwned' /\ (\A l \in loads' : LoadFits(l)')
      /\ \A r \in clearing' : ClearingFits(r)'
  <2>1. IsFiniteSet(loads') /\ Cardinality(loads') <= MaxLoads
    BY <1>1, FS_EmptySet, OwnTyped
  <2>2. QED
    BY <1>1, <2>1 DEF LoadsTyped, OneLoad, NewsOwned
<1>4. RestTyped'
  BY <1>1, MoveLose DEF TimelineInv, RestTyped
<1>5. ASSUME NEW c \in Chats PROVE ChatFits(c)' /\ Shown(c)'
  <2>1. ChatFits(c)'
    BY <1>1 DEF TimelineInv, ChatFits, HistoryFits, Own
  <2>2. Shown(c)'
    BY <1>1 DEF TimelineInv, ChatFits, Shown
  <2>3. QED
    BY <2>1, <2>2
<1>6. QED
  BY <1>2, <1>3, <1>4, <1>5 DEF TimelineInv

LEMMA TimelineStart == ASSUME TimelineInit PROVE TimelineInv
<1>1. RowsTyped
  <2>1. Past \in [Chats -> SUBSET Messages]
    <3>1. \A c \in Chats : Past[c] \subseteq Messages
      BY OwnTyped DEF Own
    <3>2. QED
      BY <3>1, TimelineAssumption
  <2>2. QED
    BY <2>1, EmptyTyped DEF TimelineInit, RowsTyped
<1>2. LoadsTyped /\ OneLoad /\ NewsOwned
  <2>1. IsFiniteSet({}) /\ Cardinality({}) <= MaxLoads
    BY FS_EmptySet, OwnTyped
  <2>2. QED
    BY <2>1 DEF TimelineInit, LoadsTyped, OneLoad, NewsOwned
<1>3. RestTyped
  BY OwnTyped DEF TimelineInit, RestTyped
<1>4. ASSUME NEW c \in Chats PROVE ChatFits(c) /\ Shown(c)
  BY EmptyTyped DEF TimelineInit, ChatFits, HistoryFits, Shown, Own
<1>5. QED
  BY <1>1, <1>2, <1>3, <1>4 DEF TimelineInit, TimelineInv

\* The step.
LEMMA TimelineStep == ASSUME TimelineInv, [TimelineNext]_timelineVars PROVE TimelineInv'
<1>1. CASE UNCHANGED timelineVars
  BY <1>1 DEF timelineVars, TimelineInv, RowsTyped, LoadsTyped, RestTyped, HistoryRow, LoadRow,
              PageRow, ClearRow, LoadOK, ChatFits, HistoryFits, Shown, Accounted, Twin, LoadFits,
              PageFits, ClearingFits, OneLoad, NewsOwned, Own, Messages, Dates
<1>2. CASE AnswerLoad \/ StoreMessage \/ ClearAtServer \/ HideMessage
  BY <1>2, AnswerLoadKeeps, StoreKeeps, ClearServerKeeps, HideKeeps
<1>3. CASE OpenChat \/ CloseChat \/ LoadOlder \/ Refresh
  BY <1>3, OpenKeeps, CloseKeeps, LoadOlderKeeps, RefreshKeeps
<1>4. CASE GetPage \/ LoadFails \/ GetNews \/ LoseNews \/ Render
  BY <1>4, GetPageKeeps, LoadFailsKeeps, GetNewsKeeps, LoseNewsKeeps, RenderKeeps
<1>5. CASE ClearChat \/ GetCleared \/ Save \/ ReloadPage
  BY <1>5, CloseKeeps, GetClearedKeeps, SaveKeeps, ReloadKeeps
<1>6. QED
  BY <1>1, <1>2, <1>3, <1>4, <1>5 DEF TimelineNext

\* The invariant of how the browser keeps the messages of each chat.
THEOREM TimelineInductive == TimelineSpec => []TimelineInv
<1>1. TimelineInit => TimelineInv
  BY TimelineStart
<1>2. TimelineInv /\ [TimelineNext]_timelineVars => TimelineInv'
  BY TimelineStep
<1>3. QED
  BY <1>1, <1>2, PTL DEF TimelineSpec

\* The caches, the requests and the events keep their types; at most one chat is open, and
\* more is left to load only below a place.
THEOREM TimelineTypeCorrect == TimelineSpec => []TimelineTypeOK
<1>1. ASSUME TimelineInv PROVE TimelineTypeOK
  <2>1. Cardinality(open) <= 1
    <3>1. CASE open = {}
      BY <3>1, FS_EmptySet
    <3>2. CASE \E c \in Chats : open = {c}
      BY <3>2, FS_Singleton
    <3>3. QED
      BY <1>1, <3>1, <3>2 DEF TimelineInv, RestTyped
  <2>2. \A c \in Chats : kept[c].more => kept[c].before # None
    BY <1>1 DEF TimelineInv, ChatFits, HistoryFits
  <2>3. QED
    BY <1>1, <2>1, <2>2 DEF TimelineTypeOK, TimelineInv, RowsTyped, LoadsTyped, RestTyped,
                            HistoryRow, LoadRow, PageRow, ClearRow, LoadOK
<1>2. QED
  BY <1>1, TimelineInductive, PTL

\* A chat is shown without gaps (loadMessageChunk, clearSelectedConversation, and the rest):
\* every message as new as the place from which older ones will be loaded is in the cache.
THEOREM NothingSkipped == TimelineSpec => []NothingIsSkipped
<1>1. ASSUME TimelineInv PROVE NothingIsSkipped
  BY <1>1 DEF TimelineInv, Shown, Accounted, Twin, Own, NothingIsSkipped
<1>2. QED
  BY <1>1, TimelineInductive, PTL
-----------------------------------------------------------------------------
(* The five parts together                                                 *)

\* A behaviour of the five parts is, for each of them, one of its own behaviours: the parts
\* that are not picked stutter.
LEMMA EachPageIsItself ==
  Pages => PresenceSpec /\ ChatPageSpec /\ TimelineSpec /\ CallsSpec /\ ReportsSpec
<1>1. PagesInit => PresenceInit /\ ChatPageInit /\ TimelineInit /\ CallsInit /\ ReportsInit
  BY DEF PagesInit
<1>2. [PagesNext]_pagesVars
        => /\ [PresenceNext]_presenceVars /\ [ChatPageNext]_chatPageVars
           /\ [TimelineNext]_timelineVars /\ [CallsNext]_callsVars /\ [ReportsNext]_reportsVars
  BY DEF PagesNext, pagesVars
<1>3. QED
  BY <1>1, <1>2, PTL
     DEF Pages, PresenceSpec, ChatPageSpec, TimelineSpec, CallsSpec, ReportsSpec

\* Open pages, composed: every state of the part that is picked is well typed, and in fact
\* so is every state of the others.
THEOREM PagesTypeCorrect == Pages => []PagesTypesOK
<1>1. PresenceTypeOK /\ ChatPageTypeOK /\ TimelineTypeOK /\ CallsTypeOK /\ ReportsTypeOK
        => PagesTypesOK
  BY DEF PagesTypesOK
<1>2. QED
  BY <1>1, EachPageIsItself, PresenceTypeCorrect, PageTypeCorrect, TimelineTypeCorrect,
     CallsTypeCorrect, ReportsTypeCorrect, PTL
================================================================================
