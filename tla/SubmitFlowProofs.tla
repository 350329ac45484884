-------------------------- MODULE SubmitFlowProofs --------------------------
(***************************************************************************)
(* The submit and viewer handlers, for any number of each, of reports and   *)
(* issues, and for any failures and crashes: reports are linked to their    *)
(* own issues, what clients and receivers are told is so, and the issue of a *)
(* report that no overlap, failure or crash befell follows its report.       *)
(***************************************************************************)
EXTENDS SubmitFlow, TLAPS

\* Report i exists; a lemma below says that this is what the contract means.
There(i) == reports[i].tag # None

\* Where a handler has saved its report and is not done, and where it is done
\* with its link.
Working == {"saved", "creating", "created", "webhook"}
Past == {"webhook", "answered", "crashed"}

\* The ids in use were handed out, and a report is stored once.
IdsUsed == \A i \in Ids : There(i) => i \in used
OneReportEach == \A i, j \in Ids : There(i) /\ reports[i].tag = reports[j].tag => i = j

\* A handler that goes on has the id of its report, no other report has it, and
\* the report is there unless a viewer deleted it.
OwnId == \A s \in Submissions :
  /\ req[s].at \in Working \/ req[s].answer = "201" => req[s].id # None
  /\ req[s].id # None =>
       /\ req[s].id \in used
       /\ There(req[s].id) => reports[req[s].id].tag = s
       /\ s \notin gone => There(req[s].id)

\* Who is answered is done, and the webhook carried the issue the handler had.
AnswerInv == \A s \in Submissions :
  /\ req[s].answer # None <=> req[s].at = "answered"
  /\ body[s].sent => req[s].answer = "201" /\ body[s].issue = req[s].issue

\* An issue is one for a handler that is past asking for it and that cannot
\* answer with an error any more.
IssueInv ==
  /\ \A l \in Links : \A s \in Submissions : issues[l].for = s =>
       req[s].at \in {"created", "webhook", "crashed"} \/ req[s].answer = "201"
  /\ \A s \in Submissions : req[s].at = "created" =>
       req[s].issue # None /\ issues[req[s].issue].for = s

\* A report's link is the one its own handler stored.
LinkInv == \A i \in Ids : There(i) /\ reports[i].link # None =>
  LET s == reports[i].tag IN
  /\ issues[reports[i].link].for = s
  /\ req[s].issue = reports[i].link
  /\ req[s].id = i
  /\ req[s].at \in Past

\* Without a failure a handler knows its issue until the report does.
KeptInv == failures = 0 => \A l \in Links : \A s \in Submissions : issues[l].for = s =>
  /\ req[s].at = "created" => req[s].issue = l
  /\ req[s].at \in {"webhook", "answered"} =>
       s \in gone \/ reports[req[s].id].link = l

\* A viewer passes a status on to an issue that was linked.
ViewInv == \A v \in Viewers : view[v].issue # None =>
  \E s \in Submissions : issues[view[v].issue].for = s /\ req[s].at \in Past

\* Of the reports that are not astray: at most one viewer is on its way to the
\* issue, ...
OneOnTheWay == \A i \in Ids \ astray : There(i) =>
  \A v, w \in Viewers : OnItsWay(v, i) /\ OnItsWay(w, i) => v = w

\* ... a report is as it was saved until it is linked, and so is its issue,
\* whatever becomes of the report, ...
BornOpen == \A s \in Submissions :
  req[s].at \in {"saved", "creating", "created"} =>
    /\ There(req[s].id) /\ req[s].id \notin astray => reports[req[s].id].status = "open"
    /\ req[s].at = "created" => issues[req[s].issue].state = "open"

\* ... who is on the way brings the status of the report, ...
BringsStatus == \A i \in Ids \ astray : There(i) =>
  \A v \in Viewers : OnItsWay(v, i) => StateOf(view[v].status) = StateOf(reports[i].status)

\* ... and an issue nobody is on the way to shows it.
Shown == \A i \in Ids \ astray :
  There(i) /\ reports[i].link # None /\ (\A v \in Viewers : ~OnItsWay(v, i)) =>
    issues[reports[i].link].state = StateOf(reports[i].status)

IInv == /\ TypeOK /\ IdsUsed /\ OneReportEach /\ OwnId /\ AnswerInv /\ IssueInv
        /\ LinkInv /\ KeptInv /\ ViewInv
        /\ OneOnTheWay /\ BornOpen /\ BringsStatus /\ Shown

-----------------------------------------------------------------------------
(* What the calls of the storage do, report by report.                     *)

Reports == [Ids -> Store!StoredReport \cup {Store!NoReport}]

\* A report is there when it has a payload.
LEMMA ThereExists ==
  ASSUME reports \in Reports, NEW i \in Ids
  PROVE  /\ There(i) <=> Store!Exists(i)
         /\ There(i) => reports[i] \in Store!StoredReport
<1>1. CASE reports[i] = Store!NoReport
  BY <1>1 DEF There, Store!Exists, Store!NoReport
<1>2. CASE reports[i] \in Store!StoredReport
  <2>1. reports[i].tag \in Submissions
    BY <1>2 DEF Store!StoredReport
  <2>2. reports[i].tag # None
    BY <2>1, SubmitFlowAssumption
  <2>3. reports[i] # Store!NoReport
    BY <2>2 DEF Store!NoReport
  <2>. QED BY <1>2, <2>2, <2>3 DEF There, Store!Exists
<1>. QED BY <1>1, <1>2 DEF Reports

\* Only report i changes.
OnlyReport(i) == \A j \in Ids \ {i} : reports'[j] = reports[j]

\* What the storage operations do to each report.
LEMMA SaveEffect ==
  ASSUME reports \in Reports, NEW i \in Ids, NEW s \in Submissions, Store!Save(i, s)
  PROVE  /\ reports' \in Reports /\ OnlyReport(i) /\ ~There(i)
         /\ \A j \in Ids : reports[j].tag # s
         /\ reports'[i].tag = s /\ reports'[i].status = "open" /\ reports'[i].link = None
<1>1. ~There(i)
  BY ThereExists DEF Store!Save
<1>. QED BY <1>1 DEF Store!Save, Reports, Store!StoredReport, Store!Status, OnlyReport

LEMMA DeleteEffect ==
  ASSUME reports \in Reports, NEW i \in Ids, Store!Delete(i)
  PROVE  reports' \in Reports /\ OnlyReport(i) /\ There(i) /\ reports'[i].tag = None
<1>1. There(i)
  BY ThereExists DEF Store!Delete
<1>. QED BY <1>1 DEF Store!Delete, Reports, Store!NoReport, OnlyReport

LEMMA LinkEffect ==
  ASSUME reports \in Reports, NEW i \in Ids, NEW l \in Links, Store!SetGithubLink(i, l)
  PROVE  /\ reports' \in Reports /\ OnlyReport(i) /\ There(i)
         /\ reports'[i].tag = reports[i].tag /\ reports'[i].status = reports[i].status
         /\ reports'[i].link = l
<1>1. There(i) /\ reports[i] \in Store!StoredReport
  BY ThereExists DEF Store!SetGithubLink
<1>. QED BY <1>1 DEF Store!SetGithubLink, Reports, Store!StoredReport, OnlyReport

\* The tags and links stay, and so does the status of the reports not in S.
LEMMA StatusEffect ==
  ASSUME reports \in Reports, NEW S \in SUBSET Ids, NEW st \in Store!Status,
         Store!UpdateStatus(S, st)
  PROVE  /\ reports' \in Reports
         /\ \A i \in S : There(i)
         /\ \A i \in Ids : /\ reports'[i].tag = reports[i].tag
                           /\ There(i) => reports'[i].link = reports[i].link
                           /\ i \in S => reports'[i].status = st
                           /\ i \notin S => reports'[i] = reports[i]
<1>1. \A i \in S : There(i) /\ reports[i] \in Store!StoredReport
  BY ThereExists DEF Store!UpdateStatus
<1>2. reports' = [i \in Ids |-> IF i \in S THEN [reports[i] EXCEPT !.status = st, !.life = @ + 1]
                                ELSE reports[i]]
  BY DEF Store!UpdateStatus
<1>3. ASSUME NEW i \in S
      PROVE  /\ reports'[i] \in Store!StoredReport /\ reports'[i].status = st
             /\ reports'[i].tag = reports[i].tag /\ reports'[i].link = reports[i].link
  <2>1. i \in Ids /\ reports[i] \in Store!StoredReport
    BY <1>1
  <2>2. reports'[i] = [reports[i] EXCEPT !.status = st, !.life = @ + 1]
    BY <1>2, <2>1, <1>3
  <2>3. PICK r \in Store!StoredReport : r = reports[i]
    BY <2>1
  <2>4. r.life + 1 \in Nat
    BY DEF Store!StoredReport
  <2>5. reports'[i] = [tag |-> r.tag, status |-> st, life |-> r.life + 1,
                       link |-> r.link, archived |-> r.archived]
    BY <2>2, <2>3 DEF Store!StoredReport
  <2>. QED BY <2>3, <2>4, <2>5 DEF Store!StoredReport
<1>4. \A i \in Ids \ S : reports'[i] = reports[i]
  BY <1>2
<1>5. reports' \in Reports
  BY <1>2, <1>3, <1>4 DEF Reports
<1>. QED BY <1>1, <1>3, <1>4, <1>5

LEMMA ArchiveEffect ==
  ASSUME reports \in Reports, NEW S \in SUBSET Ids, Store!Archive(S)
  PROVE  /\ reports' \in Reports
         /\ \A i \in Ids : /\ reports'[i].tag = reports[i].tag
                           /\ There(i) => /\ reports'[i].link = reports[i].link
                                          /\ reports'[i].status = reports[i].status
<1>1. \A i \in S : There(i) /\ reports[i] \in Store!StoredReport
  BY ThereExists DEF Store!Archive, Store!Archived
<1>2. PICK n \in {0, 1} : reports' = [i \in Ids |->
        IF i \in S THEN [reports[i] EXCEPT !.archived = TRUE, !.life = @ + n] ELSE reports[i]]
  BY DEF Store!Archive, Store!Archived
<1>3. ASSUME NEW i \in S
      PROVE  /\ reports'[i] \in Store!StoredReport /\ reports'[i].status = reports[i].status
             /\ reports'[i].tag = reports[i].tag /\ reports'[i].link = reports[i].link
  <2>1. i \in Ids /\ reports[i] \in Store!StoredReport
    BY <1>1
  <2>2. PICK yes \in BOOLEAN : reports'[i] = [reports[i] EXCEPT !.archived = yes, !.life = @ + n]
    BY <1>2, <2>1, <1>3, Zenon
  <2>3. PICK r \in Store!StoredReport : r = reports[i]
    BY <2>1
  <2>4. r.life + n \in Nat
    BY DEF Store!StoredReport
  <2>5. reports'[i] = [tag |-> r.tag, status |-> r.status, life |-> r.life + n,
                       link |-> r.link, archived |-> yes]
    BY <2>2, <2>3 DEF Store!StoredReport
  <2>. QED BY <2>3, <2>4, <2>5 DEF Store!StoredReport
<1>4. \A i \in Ids \ S : reports'[i] = reports[i]
  BY <1>2
<1>5. reports' \in Reports
  BY <1>2, <1>3, <1>4 DEF Reports
<1>. QED BY <1>1, <1>3, <1>4, <1>5
-----------------------------------------------------------------------------
(* Steps of a submit handler.                                              *)

\* Handler s moves, and no other does.
Moves(s, at, id, issue, answer) ==
  /\ req' \in [Submissions -> Req]
  /\ \A t \in Submissions \ {s} : req'[t] = req[t]
  /\ req'[s].at = at /\ req'[s].id = id /\ req'[s].issue = issue /\ req'[s].answer = answer

\* What a step does to the request it serves, and to no other.
LEMMA GotoMoves ==
  ASSUME req \in [Submissions -> Req], NEW s \in Submissions, NEW label \in ReqLabels,
         Goto(s, label)
  PROVE  Moves(s, label, req[s].id, req[s].issue, req[s].answer)
BY DEF Goto, Moves, Req

LEMMA AnswerMoves ==
  ASSUME req \in [Submissions -> Req], NEW s \in Submissions, NEW a \in Answers,
         Answer(s, a)
  PROVE  Moves(s, "answered", req[s].id, req[s].issue, a)
BY DEF Answer, Moves, Req, ReqLabels

\* What a report that exists holds.
LEMMA Stored ==
  ASSUME IInv, NEW i \in Ids, There(i)
  PROVE  /\ reports[i].tag \in Submissions /\ reports[i].status \in Store!Status
         /\ reports[i].link \in Links \cup {None}
<1>1. reports[i] \in Store!StoredReport
  BY ThereExists DEF IInv, TypeOK, Reports
<1>. QED BY <1>1 DEF Store!StoredReport

\* The id of a handler that has one.
LEMMA HasId ==
  ASSUME IInv, NEW s \in Submissions
  PROVE  /\ req[s].id # None => req[s].id \in Ids /\ req[s].id \in used
         /\ req[s].at \in Working \/ req[s].answer = "201" => req[s].id # None
BY DEF IInv, TypeOK, OwnId, Req

\* The issues handlers, reports and viewers know of are somebody's.
LEMMA Known ==
  ASSUME IInv
  PROVE  /\ \A s \in Submissions : req[s].at = "created" =>
              req[s].issue \in Links /\ issues[req[s].issue].for = s
         /\ \A i \in Ids : There(i) /\ reports[i].link # None =>
              /\ reports[i].link \in Links
              /\ issues[reports[i].link].for = reports[i].tag
              /\ reports[i].tag \in Submissions /\ req[reports[i].tag].at \in Past
         /\ \A v \in Viewers : view[v].issue # None =>
              /\ view[v].issue \in Links
              /\ \E s \in Submissions : issues[view[v].issue].for = s /\ req[s].at \in Past
<1>1. \A s \in Submissions : req[s].at = "created" =>
        req[s].issue \in Links /\ issues[req[s].issue].for = s
  BY DEF IInv, TypeOK, Req, IssueInv
<1>2. \A i \in Ids : There(i) /\ reports[i].link # None =>
        /\ reports[i].link \in Links
        /\ issues[reports[i].link].for = reports[i].tag
        /\ reports[i].tag \in Submissions /\ req[reports[i].tag].at \in Past
  BY Stored DEF IInv, LinkInv
<1>3. \A v \in Viewers : view[v].issue # None =>
        /\ view[v].issue \in Links
        /\ \E s \in Submissions : issues[view[v].issue].for = s /\ req[s].at \in Past
  BY DEF IInv, TypeOK, View, ViewInv
<1>. QED BY <1>1, <1>2, <1>3

\* A refused request has stored nothing.
LEMMA RefuseStep ==
  ASSUME IInv, NEW s \in Submissions, Refuse(s) PROVE IInv'
<1>1. /\ req[s].at = "new" /\ Moves(s, "answered", req[s].id, req[s].issue, "4xx")
  BY AnswerMoves DEF IInv, TypeOK, Refuse, Answers
<1>2. UNCHANGED <<reports, external, view, listed, history, failures, crashes>>
  BY DEF Refuse
<1>TypeOK. TypeOK'
  BY <1>1, <1>2 DEF IInv, external, history, TypeOK, Moves
<1>IdsUsed. IdsUsed'
  BY <1>1, <1>2 DEF IInv, external, history, IdsUsed, There
<1>OneReportEach. OneReportEach'
  BY <1>1, <1>2 DEF IInv, external, OneReportEach, There
<1>OwnId. OwnId'
  BY <1>1, <1>2 DEF IInv, external, history, OwnId, There, Working, Moves
<1>AnswerInv. AnswerInv'
  BY <1>1, <1>2, SubmitFlowAssumption DEF IInv, external, AnswerInv, Moves
<1>IssueInv. IssueInv'
  BY <1>1, <1>2, SubmitFlowAssumption DEF IInv, external, IssueInv, AnswerInv, Moves
<1>LinkInv. LinkInv'
  BY <1>1, <1>2, Stored DEF IInv, external, LinkInv, There, Past, Moves
<1>KeptInv. KeptInv'
  BY <1>1, <1>2, SubmitFlowAssumption DEF IInv, external, history, KeptInv, IssueInv,
     AnswerInv, Moves
<1>ViewInv. ViewInv'
  BY <1>1, <1>2 DEF IInv, external, ViewInv, Past, Moves
<1>OneOnTheWay. OneOnTheWay'
  BY <1>1, <1>2 DEF IInv, external, history, OneOnTheWay, OnItsWay, There
<1>BornOpen. BornOpen'
  BY <1>1, <1>2 DEF IInv, external, history, BornOpen, OnItsWay, There, Moves
<1>BringsStatus. BringsStatus'
  BY <1>1, <1>2 DEF IInv, external, history, BringsStatus, OnItsWay, There
<1>Shown. Shown'
  BY <1>1, <1>2 DEF IInv, external, history, Shown, OnItsWay, There
<1>. QED BY <1>TypeOK, <1>IdsUsed, <1>OneReportEach, <1>OwnId, <1>AnswerInv,
            <1>IssueInv, <1>LinkInv, <1>KeptInv, <1>ViewInv, <1>OneOnTheWay,
            <1>BornOpen, <1>BringsStatus, <1>Shown DEF IInv

\* A new report gets an id of its own.
LEMMA SaveReportStep ==
  ASSUME IInv, NEW s \in Submissions, SaveReport(s) PROVE IInv'
<1>. PICK i \in NewId : Store!Save(i, s) /\ used' = used \cup {i}
                         /\ req' = [req EXCEPT ![s].at = "saved", ![s].id = i]
  BY DEF SaveReport
<1>1. /\ req[s].at = "new" /\ Moves(s, "saved", i, req[s].issue, req[s].answer)
      /\ i \in Ids /\ i \notin used /\ used' = used \cup {i}
      /\ UNCHANGED <<issues, body, view, listed, gone, astray, failures, crashes>>
  BY DEF IInv, TypeOK, SaveReport, NewId, Moves, Req, ReqLabels, external
<1>2. /\ reports' \in Reports /\ OnlyReport(i) /\ ~There(i)
      /\ \A j \in Ids : reports[j].tag # s
      /\ reports'[i].tag = s /\ reports'[i].status = "open" /\ reports'[i].link = None
  BY <1>1, SaveEffect DEF IInv, TypeOK, Reports
<1>TypeOK. TypeOK'
  BY <1>1, <1>2 DEF IInv, external, TypeOK, Moves, Reports
<1>IdsUsed. IdsUsed'
  BY <1>1, <1>2 DEF IInv, external, IdsUsed, There, OnlyReport
<1>OneReportEach. OneReportEach'
  BY <1>1, <1>2 DEF IInv, external, OneReportEach, There, OnlyReport
<1>OwnId. OwnId'
  BY <1>1, <1>2, HasId, SubmitFlowAssumption DEF IInv, OwnId, There, Working, Moves,
     OnlyReport
<1>AnswerInv. AnswerInv'
  BY <1>1 DEF IInv, external, AnswerInv, Moves, OnlyReport
<1>IssueInv. IssueInv'
  BY <1>1 DEF IInv, external, IssueInv, AnswerInv, Moves, OnlyReport
<1>LinkInv. LinkInv'
  BY <1>1, <1>2, Stored DEF IInv, external, LinkInv, There, Past, Moves, OnlyReport
<1>KeptInv. KeptInv'
  BY <1>1, <1>2, HasId DEF IInv, KeptInv, IssueInv, AnswerInv, Working, Moves,
     OnlyReport
<1>ViewInv. ViewInv'
  BY <1>1 DEF IInv, external, ViewInv, Past, Moves, OnlyReport
<1>OneOnTheWay. OneOnTheWay'
  BY <1>1, <1>2 DEF IInv, OneOnTheWay, There, OnItsWay, external, history, OnlyReport
<1>BornOpen. BornOpen'
  BY <1>1, <1>2, HasId DEF IInv, BornOpen, OnItsWay, There, Working, Moves, OnlyReport
<1>BringsStatus. BringsStatus'
  BY <1>1, <1>2 DEF IInv, external, BringsStatus, OnItsWay, There, OnlyReport
<1>Shown. Shown'
  BY <1>1, <1>2 DEF IInv, external, Shown, OnItsWay, There, OnlyReport
<1>. QED BY <1>TypeOK, <1>IdsUsed, <1>OneReportEach, <1>OwnId, <1>AnswerInv,
            <1>IssueInv, <1>LinkInv, <1>KeptInv, <1>ViewInv, <1>OneOnTheWay,
            <1>BornOpen, <1>BringsStatus, <1>Shown DEF IInv

\* The handler reads the report it saved.
LEMMA ReadBackStep ==
  ASSUME IInv, NEW s \in Submissions, ReadBack(s) PROVE IInv'
<1>1. /\ req[s].at = "saved"
      /\ \/ Moves(s, "creating", req[s].id, req[s].issue, req[s].answer)
         \/ Moves(s, "answered", req[s].id, req[s].issue, "500")
      /\ failures' \in Nat /\ (failures' = 0 => failures = 0)
  BY GotoMoves, AnswerMoves DEF IInv, TypeOK, ReadBack, Answers, ReqLabels, Failure
<1>2. UNCHANGED <<reports, external, view, listed, history, crashes>>
  BY DEF ReadBack
<1>TypeOK. TypeOK'
  BY <1>1, <1>2 DEF IInv, external, history, TypeOK, Moves
<1>IdsUsed. IdsUsed'
  BY <1>1, <1>2 DEF IInv, external, history, IdsUsed, There
<1>OneReportEach. OneReportEach'
  BY <1>1, <1>2 DEF IInv, external, OneReportEach, There
<1>OwnId. OwnId'
  BY <1>1, <1>2 DEF IInv, external, history, OwnId, There, Working, Moves
<1>AnswerInv. AnswerInv'
  BY <1>1, <1>2, SubmitFlowAssumption DEF IInv, external, AnswerInv, Moves
<1>IssueInv. IssueInv'
  BY <1>1, <1>2, SubmitFlowAssumption DEF IInv, external, IssueInv, AnswerInv, Moves
<1>LinkInv. LinkInv'
  BY <1>1, <1>2, Stored DEF IInv, external, LinkInv, There, Past, Moves
<1>KeptInv. KeptInv'
  BY <1>1, <1>2, SubmitFlowAssumption DEF IInv, external, history, KeptInv, IssueInv,
     AnswerInv, Moves
<1>ViewInv. ViewInv'
  BY <1>1, <1>2 DEF IInv, external, ViewInv, Past, Moves
<1>OneOnTheWay. OneOnTheWay'
  BY <1>1, <1>2 DEF IInv, external, history, OneOnTheWay, OnItsWay, There
<1>BornOpen. BornOpen'
  BY <1>1, <1>2 DEF IInv, external, history, BornOpen, OnItsWay, There, Moves
<1>BringsStatus. BringsStatus'
  BY <1>1, <1>2 DEF IInv, external, history, BringsStatus, OnItsWay, There
<1>Shown. Shown'
  BY <1>1, <1>2 DEF IInv, external, history, Shown, OnItsWay, There
<1>. QED BY <1>TypeOK, <1>IdsUsed, <1>OneReportEach, <1>OwnId, <1>AnswerInv,
            <1>IssueInv, <1>LinkInv, <1>KeptInv, <1>ViewInv, <1>OneOnTheWay,
            <1>BornOpen, <1>BringsStatus, <1>Shown DEF IInv

\* A save that failed before it stored anything.
LEMMA SaveFailsEmptyStep ==
  ASSUME IInv, NEW s \in Submissions, SaveFails(s), UNCHANGED <<reports, used>> PROVE IInv'
<1>1. /\ req[s].at = "new" /\ Moves(s, "answered", req[s].id, req[s].issue, "500")
      /\ failures' \in Nat /\ failures' # 0
  BY AnswerMoves DEF IInv, TypeOK, SaveFails, Answers, Failure
<1>2. UNCHANGED <<reports, used, external, view, listed, gone, astray, crashes>>
  BY DEF SaveFails
<1>TypeOK. TypeOK'
  BY <1>1, <1>2 DEF IInv, external, TypeOK, Moves
<1>IdsUsed. IdsUsed'
  BY <1>1 DEF IInv, external, IdsUsed, There
<1>OneReportEach. OneReportEach'
  BY <1>1 DEF IInv, external, OneReportEach, There
<1>OwnId. OwnId'
  BY <1>1, <1>2 DEF IInv, external, OwnId, There, Working, Moves
<1>AnswerInv. AnswerInv'
  BY <1>1, <1>2, SubmitFlowAssumption DEF IInv, external, AnswerInv, Moves
<1>IssueInv. IssueInv'
  BY <1>1, <1>2, SubmitFlowAssumption DEF IInv, external, IssueInv, AnswerInv, Moves
<1>LinkInv. LinkInv'
  BY <1>1, <1>2, Stored DEF IInv, external, LinkInv, There, Past, Moves
<1>KeptInv. KeptInv'
  BY <1>1 DEF IInv, external, KeptInv, IssueInv, AnswerInv, Moves
<1>ViewInv. ViewInv'
  BY <1>1, <1>2 DEF IInv, external, ViewInv, Past, Moves
<1>OneOnTheWay. OneOnTheWay'
  BY <1>1, <1>2 DEF IInv, external, OneOnTheWay, OnItsWay, There
<1>BornOpen. BornOpen'
  BY <1>1, <1>2 DEF IInv, external, BornOpen, OnItsWay, There, Moves
<1>BringsStatus. BringsStatus'
  BY <1>1, <1>2 DEF IInv, external, BringsStatus, OnItsWay, There
<1>Shown. Shown'
  BY <1>1, <1>2 DEF IInv, external, Shown, OnItsWay, There
<1>. QED BY <1>TypeOK, <1>IdsUsed, <1>OneReportEach, <1>OwnId, <1>AnswerInv,
            <1>IssueInv, <1>LinkInv, <1>KeptInv, <1>ViewInv, <1>OneOnTheWay,
            <1>BornOpen, <1>BringsStatus, <1>Shown DEF IInv

\* A save that failed after it stored the report.
LEMMA SaveFailsStoredStep ==
  ASSUME IInv, NEW s \in Submissions, SaveFails(s),
         NEW i \in NewId, Store!Save(i, s), used' = used \cup {i} PROVE IInv'
<1>1. /\ req[s].at = "new" /\ Moves(s, "answered", req[s].id, req[s].issue, "500")
      /\ failures' \in Nat /\ failures' # 0 /\ i \in Ids /\ i \notin used
      /\ UNCHANGED <<external, view, listed, gone, astray, crashes>>
  BY AnswerMoves DEF IInv, TypeOK, SaveFails, Answers, Failure, NewId
<1>2. /\ reports' \in Reports /\ OnlyReport(i) /\ ~There(i)
      /\ \A j \in Ids : reports[j].tag # s
      /\ reports'[i].tag = s /\ reports'[i].status = "open" /\ reports'[i].link = None
  BY <1>1, SaveEffect DEF IInv, TypeOK, Reports
<1>TypeOK. TypeOK'
  BY <1>1, <1>2 DEF IInv, external, TypeOK, Moves, Reports
<1>IdsUsed. IdsUsed'
  BY <1>1, <1>2 DEF IInv, external, IdsUsed, There, OnlyReport
<1>OneReportEach. OneReportEach'
  BY <1>1, <1>2 DEF IInv, external, OneReportEach, There, OnlyReport
<1>OwnId. OwnId'
  BY <1>1, <1>2, HasId DEF IInv, OwnId, There, Working, Moves, OnlyReport
<1>AnswerInv. AnswerInv'
  BY <1>1, SubmitFlowAssumption DEF IInv, external, AnswerInv, Moves, OnlyReport
<1>IssueInv. IssueInv'
  BY <1>1, SubmitFlowAssumption DEF IInv, external, IssueInv, AnswerInv, Moves,
     OnlyReport
<1>LinkInv. LinkInv'
  BY <1>1, <1>2, Stored DEF IInv, external, LinkInv, There, Past, Moves, OnlyReport
<1>KeptInv. KeptInv'
  BY <1>1 DEF IInv, external, KeptInv, IssueInv, AnswerInv, Moves, OnlyReport
<1>ViewInv. ViewInv'
  BY <1>1 DEF IInv, external, ViewInv, Past, Moves, OnlyReport
<1>OneOnTheWay. OneOnTheWay'
  BY <1>1, <1>2 DEF IInv, OneOnTheWay, There, OnItsWay, external, history, OnlyReport
<1>BornOpen. BornOpen'
  BY <1>1, <1>2, HasId DEF IInv, BornOpen, There, OnItsWay, external, history, Moves, OnlyReport, Working
<1>BringsStatus. BringsStatus'
  BY <1>1, <1>2, HasId DEF IInv, BringsStatus, There, OnItsWay, external, history, OnlyReport, Working
<1>Shown. Shown'
  BY <1>1, <1>2, HasId DEF IInv, Shown, There, OnItsWay, external, history, OnlyReport, Working
<1>. QED BY <1>TypeOK, <1>IdsUsed, <1>OneReportEach, <1>OwnId, <1>AnswerInv,
            <1>IssueInv, <1>LinkInv, <1>KeptInv, <1>ViewInv, <1>OneOnTheWay,
            <1>BornOpen, <1>BringsStatus, <1>Shown DEF IInv

\* GitHub makes issue l for s.
Made(l, s) ==
  /\ issues[l].for = None
  /\ issues' \in [Links -> Issue]
  /\ issues'[l].for = s /\ issues'[l].state = "open"
  /\ \A k \in Links \ {l} : issues'[k] = issues[k]

\* GitHub makes an issue that was not there.
LEMMA MadeEffect ==
  ASSUME issues \in [Links -> Issue], NEW s \in Submissions, NEW l \in Links,
         issues[l].for = None,
         issues' = [issues EXCEPT ![l] = [for |-> s, state |-> "open"]]
  PROVE  Made(l, s)
BY DEF Made, Issue

\* The issue is on its way to the handler that made it.
LEMMA CreatedStep ==
  ASSUME IInv, NEW s \in Submissions, NEW l \in Links, req[s].at = "creating",
         Made(l, s), Moves(s, "created", req[s].id, l, req[s].answer),
         UNCHANGED <<reports, body, view, listed, history, failures, crashes>> PROVE IInv'
<1>1. req[s].at = "creating" /\ Made(l, s) /\ Moves(s, "created", req[s].id, l, req[s].answer)
  OBVIOUS
<1>2. UNCHANGED <<reports, body, view, listed, history, failures, crashes>>
  OBVIOUS
<1>TypeOK. TypeOK'
  BY <1>1 DEF IInv, external, history, TypeOK, Moves, Made
<1>IdsUsed. IdsUsed'
  BY <1>1 DEF IInv, external, history, IdsUsed, There, Made
<1>OneReportEach. OneReportEach'
  BY <1>1 DEF IInv, external, OneReportEach, There, Made
<1>OwnId. OwnId'
  BY <1>1 DEF IInv, external, history, OwnId, There, Working, Moves, Made
<1>AnswerInv. AnswerInv'
  BY <1>1, SubmitFlowAssumption DEF IInv, external, AnswerInv, Moves, Made
<1>IssueInv. IssueInv'
  BY <1>1, Known, SubmitFlowAssumption DEF IInv, IssueInv, AnswerInv, Moves, Made
<1>LinkInv. LinkInv'
  BY <1>1, Stored DEF IInv, external, LinkInv, There, Past, Moves, Made
<1>KeptInv. KeptInv'
  BY <1>1, SubmitFlowAssumption DEF IInv, external, history, KeptInv, IssueInv,
     AnswerInv, Moves, Made
<1>ViewInv. ViewInv'
  BY <1>1, Known, SubmitFlowAssumption DEF IInv, ViewInv, Past, Moves, Made
<1>OneOnTheWay. OneOnTheWay'
  BY <1>1, <1>2 DEF IInv, external, history, OneOnTheWay, OnItsWay, Made, There
<1>BornOpen. BornOpen'
  BY <1>1, Known DEF IInv, BornOpen, OnItsWay, There, Moves, history, Made
<1>BringsStatus. BringsStatus'
  BY <1>1, <1>2 DEF IInv, external, history, BringsStatus, OnItsWay, There, Made
<1>Shown. Shown'
  BY <1>1, Known DEF IInv, Shown, OnItsWay, There, history, Made
<1>. QED BY <1>TypeOK, <1>IdsUsed, <1>OneReportEach, <1>OwnId, <1>AnswerInv,
            <1>IssueInv, <1>LinkInv, <1>KeptInv, <1>ViewInv, <1>OneOnTheWay,
            <1>BornOpen, <1>BringsStatus, <1>Shown DEF IInv

\* No issue is known to the handler: none was made, or its answer was lost.
LEMMA NotCreatedStep ==
  ASSUME IInv, NEW s \in Submissions, req[s].at = "creating",
         failures' \in Nat, failures' # 0,
         issues' = issues \/ (\E l \in Links : Made(l, s)),
         Moves(s, "webhook", req[s].id, req[s].issue, req[s].answer),
         UNCHANGED <<reports, body, view, listed, history, crashes>> PROVE IInv'
<1>1. /\ req[s].at = "creating" /\ (issues' = issues \/ (\E l \in Links : Made(l, s)))
      /\ Moves(s, "webhook", req[s].id, req[s].issue, req[s].answer)
  OBVIOUS
<1>2. /\ UNCHANGED <<reports, body, view, listed, history, crashes>>
      /\ failures' \in Nat /\ failures' # 0
  OBVIOUS
<1>TypeOK. TypeOK'
  BY <1>1 DEF IInv, external, history, TypeOK, Moves, Made
<1>IdsUsed. IdsUsed'
  BY <1>1 DEF IInv, external, history, IdsUsed, There, Made
<1>OneReportEach. OneReportEach'
  BY <1>1 DEF IInv, external, OneReportEach, There, Made
<1>OwnId. OwnId'
  BY <1>1 DEF IInv, external, history, OwnId, There, Working, Moves, Made
<1>AnswerInv. AnswerInv'
  BY <1>1 DEF IInv, external, AnswerInv, Moves, Made
<1>IssueInv. IssueInv'
  BY <1>1, Known, SubmitFlowAssumption DEF IInv, IssueInv, AnswerInv, Moves, Made
<1>LinkInv. LinkInv'
  BY <1>1, Stored DEF IInv, external, LinkInv, There, Past, Moves, Made
<1>KeptInv. KeptInv'
  BY <1>1 DEF IInv, external, KeptInv, IssueInv, AnswerInv, Moves, Made
<1>ViewInv. ViewInv'
  BY <1>1, Known DEF IInv, ViewInv, Past, Moves, Made
<1>OneOnTheWay. OneOnTheWay'
  BY <1>1, <1>2 DEF IInv, OneOnTheWay, There, OnItsWay, external, history
<1>BornOpen. BornOpen'
  BY <1>1, <1>2, Known DEF IInv, BornOpen, There, OnItsWay, external, history, Moves, Made, Past
<1>BringsStatus. BringsStatus'
  BY <1>1, <1>2, Known DEF IInv, BringsStatus, There, OnItsWay, external, history, Made, Past
<1>Shown. Shown'
  BY <1>1, <1>2, Known DEF IInv, Shown, There, OnItsWay, external, history, Made, Past
<1>. QED BY <1>TypeOK, <1>IdsUsed, <1>OneReportEach, <1>OwnId, <1>AnswerInv,
            <1>IssueInv, <1>LinkInv, <1>KeptInv, <1>ViewInv, <1>OneOnTheWay,
            <1>BornOpen, <1>BringsStatus, <1>Shown DEF IInv

\* The link stored and answered is that of the report's own issue.
LEMMA LinkedStep ==
  ASSUME IInv, NEW s \in Submissions, SetLink(s), There(req[s].id),
         Store!SetGithubLink(req[s].id, req[s].issue), failures' = failures PROVE IInv'
<1>. DEFINE i == req[s].id
            l == req[s].issue
<1>1. /\ req[s].at = "created" /\ Moves(s, "webhook", i, l, req[s].answer)
      /\ UNCHANGED <<external, view, listed, history, failures, crashes>>
      /\ i \in Ids /\ l \in Links /\ issues[l].for = s
  BY GotoMoves, HasId DEF IInv, TypeOK, SetLink, ReqLabels, Req, Working, IssueInv
<1>2. /\ reports' \in Reports /\ OnlyReport(i) /\ There(i)
      /\ reports'[i].tag = reports[i].tag /\ reports'[i].status = reports[i].status
      /\ reports'[i].link = l
  BY <1>1, LinkEffect DEF IInv, TypeOK, Reports
<1>3. /\ \A j \in Ids : reports'[j].tag = reports[j].tag /\ reports'[j].status = reports[j].status
      /\ reports[i].tag = s
  BY <1>1, <1>2, SubmitFlowAssumption DEF OnlyReport, IInv, OwnId
<1>TypeOK. TypeOK'
  BY <1>1, <1>2 DEF IInv, external, history, TypeOK, Moves, Reports
<1>IdsUsed. IdsUsed'
  BY <1>1, <1>2 DEF IInv, external, history, IdsUsed, There, OnlyReport
<1>OneReportEach. OneReportEach'
  BY <1>1, <1>2 DEF IInv, external, OneReportEach, There, OnlyReport
<1>OwnId. OwnId'
  BY <1>1, <1>3, HasId DEF IInv, OwnId, There, Working, Moves, history
<1>AnswerInv. AnswerInv'
  BY <1>1 DEF IInv, external, AnswerInv, Moves, OnlyReport
<1>IssueInv. IssueInv'
  BY <1>1 DEF IInv, external, IssueInv, AnswerInv, Moves, OnlyReport
<1>LinkInv. LinkInv'
  BY <1>1, <1>2, <1>3, Known DEF IInv, LinkInv, There, Past, Moves, OnlyReport, external
<1>KeptInv. KeptInv'
  BY <1>1, <1>2, HasId DEF IInv, KeptInv, OwnId, IssueInv, AnswerInv, There, Working,
     Moves, OnlyReport, external, history
<1>ViewInv. ViewInv'
  BY <1>1 DEF IInv, external, ViewInv, Past, Moves, OnlyReport
<1>OneOnTheWay. OneOnTheWay'
  BY <1>1, <1>2, <1>3, Known DEF IInv, OneOnTheWay, There, OnItsWay, external, history, OnlyReport, Past
<1>BornOpen. BornOpen'
  BY <1>1, <1>3, HasId DEF IInv, BornOpen, OnItsWay, There, Working, Moves, external,
     history
<1>BringsStatus. BringsStatus'
  BY <1>1, <1>2, Known DEF IInv, BringsStatus, OnItsWay, There, Past, OnlyReport,
     external, history
<1>Shown. Shown'
  BY <1>1, <1>2 DEF IInv, Shown, BornOpen, OnItsWay, There, OnlyReport, StateOf, external,
     history
<1>. QED BY <1>TypeOK, <1>IdsUsed, <1>OneReportEach, <1>OwnId, <1>AnswerInv,
            <1>IssueInv, <1>LinkInv, <1>KeptInv, <1>ViewInv, <1>OneOnTheWay,
            <1>BornOpen, <1>BringsStatus, <1>Shown DEF IInv

\* The issue was made, and its link is answered but not stored.
LEMMA NotLinkedStep ==
  ASSUME IInv, NEW s \in Submissions, SetLink(s), UNCHANGED reports,
         failures' \in Nat, failures' # 0 \/ (failures' = failures /\ ~There(req[s].id)) PROVE IInv'
<1>1. /\ req[s].at = "created" /\ Moves(s, "webhook", req[s].id, req[s].issue, req[s].answer)
      /\ req[s].id # None
  BY GotoMoves, HasId DEF IInv, TypeOK, SetLink, ReqLabels, Working
<1>2. /\ UNCHANGED <<reports, external, view, listed, history, crashes>>
      /\ failures' \in Nat
      /\ failures' # 0 \/ (failures' = failures /\ ~There(req[s].id))
  BY DEF SetLink
<1>TypeOK. TypeOK'
  BY <1>1, <1>2 DEF IInv, external, history, TypeOK, Moves
<1>IdsUsed. IdsUsed'
  BY <1>1, <1>2 DEF IInv, external, history, IdsUsed, There
<1>OneReportEach. OneReportEach'
  BY <1>1 DEF IInv, external, OneReportEach, There
<1>OwnId. OwnId'
  BY <1>1, <1>2 DEF IInv, external, history, OwnId, There, Working, Moves
<1>AnswerInv. AnswerInv'
  BY <1>1, <1>2 DEF IInv, external, AnswerInv, Moves
<1>IssueInv. IssueInv'
  BY <1>1, <1>2 DEF IInv, external, IssueInv, AnswerInv, Moves
<1>LinkInv. LinkInv'
  BY <1>1, <1>2, Stored DEF IInv, external, LinkInv, There, Past, Moves
<1>KeptInv. KeptInv'
  BY <1>1, <1>2 DEF IInv, external, history, KeptInv, IssueInv, AnswerInv, Moves, OwnId
<1>ViewInv. ViewInv'
  BY <1>1, <1>2 DEF IInv, external, ViewInv, Past, Moves
<1>OneOnTheWay. OneOnTheWay'
  BY <1>1, <1>2 DEF IInv, external, history, OneOnTheWay, OnItsWay, There
<1>BornOpen. BornOpen'
  BY <1>1, <1>2 DEF IInv, external, history, BornOpen, OnItsWay, There, Moves
<1>BringsStatus. BringsStatus'
  BY <1>1, <1>2 DEF IInv, external, history, BringsStatus, OnItsWay, There
<1>Shown. Shown'
  BY <1>1, <1>2 DEF IInv, external, history, Shown, OnItsWay, There
<1>. QED BY <1>TypeOK, <1>IdsUsed, <1>OneReportEach, <1>OwnId, <1>AnswerInv,
            <1>IssueInv, <1>LinkInv, <1>KeptInv, <1>ViewInv, <1>OneOnTheWay,
            <1>BornOpen, <1>BringsStatus, <1>Shown DEF IInv

\* The webhook ends the submission.
LEMMA SendWebhookStep ==
  ASSUME IInv, NEW s \in Submissions, SendWebhook(s) PROVE IInv'
<1>1. /\ req[s].at = "webhook" /\ Moves(s, "answered", req[s].id, req[s].issue, "201")
      /\ UNCHANGED <<reports, issues, view, listed, history, failures, crashes>>
  BY AnswerMoves DEF IInv, TypeOK, SendWebhook, Answers
<1>2. /\ body' \in [Submissions -> [sent : BOOLEAN, issue : Links \cup {None}]]
      /\ body'[s].issue = req[s].issue
      /\ \A t \in Submissions \ {s} : body'[t] = body[t]
  BY DEF IInv, TypeOK, Req, SendWebhook, Body
<1>TypeOK. TypeOK'
  BY <1>1, <1>2 DEF IInv, external, history, TypeOK, Moves
<1>IdsUsed. IdsUsed'
  BY <1>1 DEF IInv, external, history, IdsUsed, There
<1>OneReportEach. OneReportEach'
  BY <1>1 DEF IInv, external, OneReportEach, There
<1>OwnId. OwnId'
  BY <1>1 DEF IInv, external, history, OwnId, There, Working, Moves
<1>AnswerInv. AnswerInv'
  BY <1>1, <1>2, SubmitFlowAssumption DEF IInv, external, AnswerInv, Moves
<1>IssueInv. IssueInv'
  BY <1>1 DEF IInv, external, IssueInv, AnswerInv, Moves
<1>LinkInv. LinkInv'
  BY <1>1, Stored DEF IInv, external, LinkInv, There, Past, Moves
<1>KeptInv. KeptInv'
  BY <1>1 DEF IInv, external, history, KeptInv, IssueInv, AnswerInv, Moves
<1>ViewInv. ViewInv'
  BY <1>1 DEF IInv, external, ViewInv, Past, Moves
<1>OneOnTheWay. OneOnTheWay'
  BY <1>1, <1>2 DEF IInv, external, history, OneOnTheWay, OnItsWay, There
<1>BornOpen. BornOpen'
  BY <1>1, <1>2 DEF IInv, external, history, BornOpen, OnItsWay, There, Moves
<1>BringsStatus. BringsStatus'
  BY <1>1, <1>2 DEF IInv, external, history, BringsStatus, OnItsWay, There
<1>Shown. Shown'
  BY <1>1, <1>2 DEF IInv, external, history, Shown, OnItsWay, There
<1>. QED BY <1>TypeOK, <1>IdsUsed, <1>OneReportEach, <1>OwnId, <1>AnswerInv,
            <1>IssueInv, <1>LinkInv, <1>KeptInv, <1>ViewInv, <1>OneOnTheWay,
            <1>BornOpen, <1>BringsStatus, <1>Shown DEF IInv

-----------------------------------------------------------------------------
(* Steps of the viewers, and a crash.                                      *)

\* What one viewer holds.
Holds(v, issue) ==
  /\ view' \in [Viewers -> View]
  /\ \A w \in Viewers \ {v} : view'[w] = view[w]
  /\ view'[v].issue = issue

\* A viewer's status is stored, and on its way to the issue when there is one.
LEMMA ChangeStatusStep ==
  ASSUME IInv, NEW v \in Viewers, ChangeStatus(v) PROVE IInv'
<1>. PICK i \in Ids, st \in Updates :
        /\ Store!UpdateStatus({i}, st)
        /\ \/ /\ view' = [view EXCEPT ![v] = PassOn(i, st)] /\ UNCHANGED failures
              /\ astray' = IF InFlight(i) THEN astray \cup {i} ELSE astray \ {i}
           \/ Failure /\ UNCHANGED view /\ astray' = astray \cup {i}
  BY DEF ChangeStatus
<1>1. /\ reports' \in Reports /\ There(i)
      /\ \A j \in Ids : /\ reports'[j].tag = reports[j].tag
                        /\ There(j) => reports'[j].link = reports[j].link
                        /\ j # i => reports'[j].status = reports[j].status
      /\ reports'[i].status = st
  BY StatusEffect, SubmitFlowAssumption DEF IInv, TypeOK, Reports, Store!Status
<1>2. /\ UNCHANGED <<external, req, listed, gone, used, crashes>>
      /\ failures' \in Nat /\ (failures' = 0 => failures = 0)
      /\ astray' \subseteq Ids
      /\ \A j \in Ids \ astray' : IF j = i THEN ~InFlight(i) ELSE j \notin astray
  <2>1. UNCHANGED <<external, req, listed, gone, used, crashes>>
    BY DEF ChangeStatus
  <2>2. failures' \in Nat /\ (failures' = 0 => failures = 0)
    BY DEF IInv, TypeOK, Failure
  <2>3. astray \subseteq Ids
    BY DEF IInv, TypeOK
  <2>4. astray' = astray \cup {i} \/ (astray' = astray \ {i} /\ ~InFlight(i))
    OBVIOUS
  <2>5. astray' \subseteq Ids
    BY <2>3, <2>4
  <2>6. \A j \in Ids \ astray' : IF j = i THEN ~InFlight(i) ELSE j \notin astray
    BY <2>4, Zenon
  <2>. QED BY <2>1, <2>2, <2>5, <2>6
<1>3. /\ view' \in [Viewers -> View] /\ view[v].issue = None
      /\ \/ /\ Holds(v, reports[i].link) /\ failures' = failures
            /\ reports[i].link # None => view'[v].status = st
         \/ view' = view /\ failures' # 0 /\ i \in astray'
  <2>1. view \in [Viewers -> View] /\ view[v].issue = None /\ failures \in Nat
    BY DEF ChangeStatus, Unoccupied, IInv, TypeOK, NoView
  <2>2. /\ PassOn(i, st) \in View /\ PassOn(i, st).issue = reports[i].link
        /\ reports[i].link # None => PassOn(i, st).status = st
    BY <1>1, Stored, SubmitFlowAssumption DEF PassOn, View, NoView, Store!Status
  <2>3. CASE view' = [view EXCEPT ![v] = PassOn(i, st)] /\ UNCHANGED failures
    BY <2>1, <2>2, <2>3 DEF Holds
  <2>4. CASE Failure /\ UNCHANGED view /\ astray' = astray \cup {i}
    BY <2>1, <2>4 DEF Failure
  <2>. QED BY <2>3, <2>4
\* Nobody else is on the way to the issue of another report than i, and who is
\* on the way to the issue of i is v.
<1>4. ASSUME NEW j \in Ids \ astray', There(j), NEW w \in Viewers, OnItsWay(w, j)'
      PROVE  IF j = i THEN w = v /\ view'[v].status = st
                      ELSE j \notin astray /\ OnItsWay(w, j) /\ view'[w] = view[w]
  <2>1. view'[w].issue # None /\ view'[w].issue = reports[j].link
    BY <1>1, <1>4 DEF OnItsWay
  <2>2. CASE j = i
    BY <1>2, <1>3, <2>1, <2>2 DEF Holds, InFlight, OnItsWay
  <2>3. CASE j # i
    <3>1. j \notin astray
      BY <1>2, <1>4, <2>3
    <3>2. reports[i].link # reports[j].link
      BY <1>1, <1>4, <2>1, <2>3, Known DEF IInv, OneReportEach
    <3>. QED BY <1>3, <2>1, <2>3, <3>1, <3>2 DEF Holds, OnItsWay
  <2>. QED BY <2>2, <2>3
<1>TypeOK. TypeOK'
  BY <1>1, <1>2, <1>3 DEF IInv, external, TypeOK, Moves, Reports
<1>IdsUsed. IdsUsed'
  BY <1>1, <1>2 DEF IInv, external, IdsUsed, There
<1>OneReportEach. OneReportEach'
  BY <1>1 DEF IInv, external, OneReportEach, There
<1>OwnId. OwnId'
  BY <1>1, <1>2, HasId DEF IInv, external, OwnId, There, Working, Moves
<1>AnswerInv. AnswerInv'
  BY <1>1, <1>2 DEF IInv, external, AnswerInv, Moves
<1>IssueInv. IssueInv'
  BY <1>1, <1>2 DEF IInv, external, IssueInv, AnswerInv, Moves
<1>LinkInv. LinkInv'
  BY <1>1, <1>2 DEF IInv, external, LinkInv, There, Past, Moves
<1>KeptInv. KeptInv'
  BY <1>1, <1>2, <1>3, HasId DEF IInv, external, KeptInv, IssueInv, AnswerInv, Moves,
     OwnId, Working, There
<1>ViewInv. ViewInv'
  BY <1>1, <1>2, <1>3, Known DEF IInv, external, ViewInv, Past, Moves, Holds
<1>OneOnTheWay. OneOnTheWay'
  <2>1. SUFFICES ASSUME NEW j \in Ids \ astray', There(j)', NEW w1 \in Viewers,
                        NEW w2 \in Viewers, OnItsWay(w1, j)', OnItsWay(w2, j)'
                 PROVE  w1 = w2
    BY DEF OneOnTheWay
  <2>2. There(j)
    BY <1>1, <2>1 DEF There
  <2>3. CASE j = i
    BY <1>4, <2>1, <2>2, <2>3
  <2>4. CASE j # i
    <3>1. j \notin astray /\ OnItsWay(w1, j) /\ OnItsWay(w2, j)
      BY <1>4, <2>1, <2>2, <2>4
    <3>. QED BY <2>2, <3>1 DEF IInv, OneOnTheWay
  <2>. QED BY <2>3, <2>4
<1>BornOpen. BornOpen'
  <2>1. ASSUME NEW s \in Submissions, req[s].at \in {"saved", "creating", "created"}
        PROVE  /\ There(req[s].id)' /\ req[s].id \notin astray' =>
                    reports'[req[s].id].status = "open"
               /\ req[s].at = "created" => issues[req[s].issue].state = "open"
    <3>1. req[s].id \in Ids
      BY <2>1, HasId DEF Working
    <3>2. req[s].id \notin astray' => req[s].id # i /\ req[s].id \notin astray
      BY <1>2, <2>1, <3>1 DEF InFlight
    <3>. QED BY <1>1, <1>2, <2>1, <3>1, <3>2 DEF IInv, BornOpen, There
  <2>. QED BY <1>2, <2>1 DEF BornOpen, external, There
<1>BringsStatus. BringsStatus'
  <2>1. SUFFICES ASSUME NEW j \in Ids \ astray', There(j)', NEW w \in Viewers, OnItsWay(w, j)'
                 PROVE  StateOf(view'[w].status) = StateOf(reports'[j].status)
    BY DEF BringsStatus, StateOf
  <2>2. There(j)
    BY <1>1, <2>1 DEF There
  <2>3. CASE j = i
    <3>1. w = v /\ view'[v].status = st
      BY <1>4, <2>1, <2>2, <2>3
    <3>. QED BY <1>1, <2>3, <3>1
  <2>4. CASE j # i
    <3>1. j \notin astray /\ OnItsWay(w, j) /\ view'[w] = view[w]
      BY <1>4, <2>1, <2>2, <2>4
    <3>2. reports'[j].status = reports[j].status
      BY <1>1, <2>4
    <3>. QED BY <2>2, <3>1, <3>2 DEF IInv, BringsStatus
  <2>. QED BY <2>3, <2>4
<1>Shown. Shown'
  <2>1. SUFFICES ASSUME NEW j \in Ids \ astray', There(j)', reports'[j].link # None,
                        \A w \in Viewers : ~OnItsWay(w, j)'
                 PROVE  issues[reports'[j].link].state = StateOf(reports'[j].status)
    BY <1>2 DEF Shown, StateOf, external
  <2>2. There(j) /\ reports'[j].link = reports[j].link
    BY <1>1, <2>1 DEF There
  <2>3. j # i
    BY <1>3, <2>1, <2>2 DEF OnItsWay, Holds
  <2>4. j \notin astray /\ reports'[j].status = reports[j].status
    BY <1>1, <1>2, <2>1, <2>3
  <2>5. \A w \in Viewers : ~OnItsWay(w, j)
    BY <1>3, <2>1, <2>2 DEF OnItsWay, Holds
  <2>. QED BY <2>1, <2>2, <2>4, <2>5 DEF IInv, Shown
<1>. QED BY <1>TypeOK, <1>IdsUsed, <1>OneReportEach, <1>OwnId, <1>AnswerInv,
            <1>IssueInv, <1>LinkInv, <1>KeptInv, <1>ViewInv, <1>OneOnTheWay,
            <1>BornOpen, <1>BringsStatus, <1>Shown DEF IInv

\* The issue takes the state its report was given.
LEMMA PatchStep ==
  ASSUME IInv, NEW v \in Viewers, Patch(v) PROVE IInv'
<1>1. /\ UNCHANGED <<reports, body, req, listed, gone, used, crashes>>
      /\ view[v].issue # None /\ view[v].issue \in Links
      /\ failures' \in Nat
  BY DEF Patch, IInv, TypeOK, View, Failure
<1>2. Holds(v, None)
  BY SubmitFlowAssumption DEF Patch, IInv, TypeOK, Holds, View, NoView, Store!Status
<1>3. \/ /\ failures' = failures /\ astray' = astray
         /\ issues' \in [Links -> Issue] /\ issues'[view[v].issue].state = StateOf(view[v].status)
         /\ \A l \in Links : /\ issues'[l].for = issues[l].for
                             /\ l # view[v].issue => issues'[l] = issues[l]
      \/ /\ failures' # 0 /\ issues' = issues
         /\ astray \subseteq astray' /\ astray' \subseteq Ids
         /\ \A j \in Ids \ astray' : There(j) => ~OnItsWay(v, j)
  <2>1. CASE UNCHANGED <<astray, failures>> /\
             issues' = [issues EXCEPT ![view[v].issue].state = StateOf(view[v].status)]
    BY <1>1, <2>1 DEF IInv, TypeOK, Issue, StateOf
  <2>2. CASE Failure /\ UNCHANGED issues /\ astray' = astray \cup Carried({v})
    <3>1. \A j \in Ids : There(j) => Store!Exists(j)
      BY ThereExists DEF IInv, TypeOK, Reports
    <3>. QED BY <2>2, <3>1 DEF Carried, IInv, TypeOK, Failure
  <2>. QED BY <2>1, <2>2 DEF Patch
<1>TypeOK. TypeOK'
  BY <1>1, <1>2, <1>3 DEF IInv, external, history, TypeOK, Moves, Reports, Holds
<1>IdsUsed. IdsUsed'
  BY <1>1 DEF IInv, external, history, IdsUsed, There
<1>OneReportEach. OneReportEach'
  BY <1>1 DEF IInv, external, OneReportEach, There
<1>OwnId. OwnId'
  BY <1>1 DEF IInv, external, history, OwnId, There, Working, Moves
<1>AnswerInv. AnswerInv'
  BY <1>1 DEF IInv, external, AnswerInv, Moves
<1>IssueInv. IssueInv'
  BY <1>1, <1>3, Known DEF IInv, external, IssueInv, AnswerInv, Moves
<1>LinkInv. LinkInv'
  BY <1>1, <1>3, Known DEF IInv, external, LinkInv, There, Past, Moves
<1>KeptInv. KeptInv'
  BY <1>1, <1>3 DEF IInv, external, history, KeptInv, IssueInv, AnswerInv, Moves
<1>ViewInv. ViewInv'
  BY <1>1, <1>2, <1>3, Known DEF IInv, external, ViewInv, Past, Moves, Holds
<1>OneOnTheWay. OneOnTheWay'
  BY <1>1, <1>2, <1>3 DEF IInv, external, history, OneOnTheWay, OnItsWay, Holds, There
<1>BornOpen. BornOpen'
  BY <1>1, <1>3, Known DEF IInv, external, history, BornOpen, OnItsWay, There, Moves, Past
<1>BringsStatus. BringsStatus'
  BY <1>1, <1>2, <1>3 DEF IInv, external, history, BringsStatus, OnItsWay, There, Holds
<1>Shown. Shown'
  BY <1>1, <1>2, <1>3, Known DEF IInv, external, history, Shown, OnItsWay, There, Holds,
     BringsStatus, OneOnTheWay
<1>. QED BY <1>TypeOK, <1>IdsUsed, <1>OneReportEach, <1>OwnId, <1>AnswerInv,
            <1>IssueInv, <1>LinkInv, <1>KeptInv, <1>ViewInv, <1>OneOnTheWay,
            <1>BornOpen, <1>BringsStatus, <1>Shown DEF IInv

\* A deletion leaves the issue as it is.
LEMMA DeleteReportStep ==
  ASSUME IInv, DeleteReport PROVE IInv'
<1>. PICK i \in Ids : Store!Delete(i) /\ gone' = gone \cup {reports[i].tag}
  BY DEF DeleteReport
<1>1. reports' \in Reports /\ OnlyReport(i) /\ There(i) /\ reports'[i].tag = None
  BY DeleteEffect DEF IInv, TypeOK, Reports
<1>2. /\ UNCHANGED <<external, req, view, listed, used, astray, failures, crashes>>
      /\ reports[i].tag \in Submissions
  BY <1>1, Stored DEF DeleteReport
<1>3. gone' = gone \cup {reports[i].tag}
  OBVIOUS
<1>TypeOK. TypeOK'
  BY <1>1, <1>2 DEF IInv, external, TypeOK, Moves, Reports
<1>IdsUsed. IdsUsed'
  BY <1>1, <1>2 DEF IInv, external, IdsUsed, There, OnlyReport
<1>OneReportEach. OneReportEach'
  BY <1>1 DEF IInv, external, OneReportEach, There, OnlyReport
<1>OwnId. OwnId'
  BY <1>1, <1>2, HasId DEF IInv, external, OwnId, There, Working, Moves, OnlyReport
<1>AnswerInv. AnswerInv'
  BY <1>1, <1>2 DEF IInv, external, AnswerInv, Moves, OnlyReport
<1>IssueInv. IssueInv'
  BY <1>1, <1>2 DEF IInv, external, IssueInv, AnswerInv, Moves, OnlyReport
<1>LinkInv. LinkInv'
  BY <1>1, <1>2 DEF IInv, external, LinkInv, There, Past, Moves, OnlyReport
<1>KeptInv. KeptInv'
  BY <1>1, <1>2, HasId DEF IInv, external, KeptInv, IssueInv, AnswerInv, Moves,
     OnlyReport, OwnId, There, Working
<1>ViewInv. ViewInv'
  BY <1>1, <1>2 DEF IInv, external, ViewInv, Past, Moves, OnlyReport
<1>OneOnTheWay. OneOnTheWay'
  BY <1>1, <1>2 DEF IInv, external, OneOnTheWay, OnItsWay, OnlyReport, There
<1>BornOpen. BornOpen'
  BY <1>1, <1>2, HasId DEF IInv, external, BornOpen, OnItsWay, There, Moves, OnlyReport,
     Working
<1>BringsStatus. BringsStatus'
  BY <1>1, <1>2 DEF IInv, external, BringsStatus, OnItsWay, There, OnlyReport
<1>Shown. Shown'
  BY <1>1, <1>2 DEF IInv, external, Shown, OnItsWay, There, OnlyReport
<1>. QED BY <1>TypeOK, <1>IdsUsed, <1>OneReportEach, <1>OwnId, <1>AnswerInv,
            <1>IssueInv, <1>LinkInv, <1>KeptInv, <1>ViewInv, <1>OneOnTheWay,
            <1>BornOpen, <1>BringsStatus, <1>Shown DEF IInv

\* What a bulk close has listed is nobody else's business.
LEMMA ListedStep ==
  ASSUME IInv, listed' \in [Viewers -> SUBSET Ids],
         UNCHANGED <<reports, external, req, view, history, failures, crashes>>
  PROVE  IInv'
<1>1. TypeOK'
  BY DEF IInv, TypeOK, external, history
<1>2. IdsUsed' /\ OneReportEach' /\ OwnId' /\ AnswerInv' /\ IssueInv' /\ LinkInv'
  BY DEF IInv, IdsUsed, OneReportEach, OwnId, AnswerInv, IssueInv, LinkInv, There,
     external, history
<1>3. KeptInv' /\ ViewInv' /\ OneOnTheWay' /\ BornOpen' /\ BringsStatus' /\ Shown'
  BY DEF IInv, KeptInv, ViewInv, OneOnTheWay, BornOpen, BringsStatus, Shown, OnItsWay,
     There, StateOf, external, history
<1>. QED BY <1>1, <1>2, <1>3 DEF IInv

\* A bulk close lists what it will close, or gives up.
LEMMA BulkListStep ==
  ASSUME IInv, NEW v \in Viewers, BulkList(v) \/ BulkFails(v) PROVE IInv'
<1>1. listed' \in [Viewers -> SUBSET Ids]
  BY DEF IInv, TypeOK, BulkList, BulkFails
<1>2. UNCHANGED <<reports, external, req, view, history, failures, crashes>>
  BY DEF BulkList, BulkFails
<1>. QED BY <1>1, <1>2, ListedStep

\* A bulk close leaves links and issues as they are; a report it closes was done
\* already or is astray from here on.
LEMMA BulkCloseStep ==
  ASSUME IInv, NEW v \in Viewers, BulkClose(v) PROVE IInv'
<1>. PICK S \in SUBSET listed[v] :
        LET T == {i \in S : Store!Exists(i)} IN
        /\ Store!UpdateStatus(T, "closed")
        /\ astray' = astray \cup {i \in T : reports[i].status \notin Done}
        /\ listed' = [listed EXCEPT ![v] = @ \ S]
  BY DEF BulkClose
<1>. DEFINE T == {i \in S : Store!Exists(i)}
<1>1. S \subseteq Ids /\ astray \subseteq Ids
  BY DEF IInv, TypeOK
<1>2. /\ UNCHANGED <<external, req, view, gone, used, failures, crashes>>
      /\ listed' \in [Viewers -> SUBSET Ids]
      /\ astray \subseteq astray' /\ astray' \subseteq Ids
      /\ \A j \in T \ astray' : reports[j].status \in Done
  <2>1. listed' \in [Viewers -> SUBSET Ids]
    BY DEF IInv, TypeOK
  <2>. QED BY <1>1, <2>1 DEF BulkClose
<1>3. /\ reports' \in Reports
      /\ \A j \in Ids : /\ reports'[j].tag = reports[j].tag
                        /\ There(j) => /\ reports'[j].link = reports[j].link
                                       /\ \/ reports'[j].status = reports[j].status
                                          \/ reports'[j].status = "closed"
                                       /\ j \notin astray' =>
                                            StateOf(reports'[j].status) = StateOf(reports[j].status)
                                       /\ reports[j].status = "open" /\ j \notin astray' =>
                                            reports'[j].status = "open"
  <2>1. T \in SUBSET Ids /\ "closed" \in Store!Status /\ Store!UpdateStatus(T, "closed")
    BY <1>1 DEF Store!Status
  <2>. HIDE DEF T
  <2>2. /\ reports' \in Reports
        /\ \A j \in Ids : /\ reports'[j].tag = reports[j].tag
                          /\ There(j) => reports'[j].link = reports[j].link
                          /\ j \in T => reports'[j].status = "closed"
                          /\ j \notin T => reports'[j] = reports[j]
    BY <2>1, StatusEffect DEF IInv, TypeOK, Reports
  <2>. QED BY <1>2, <2>2 DEF Done, StateOf
<1>TypeOK. TypeOK'
  BY <1>1, <1>2, <1>3 DEF IInv, external, history, TypeOK, Moves, Reports
<1>IdsUsed. IdsUsed'
  BY <1>1, <1>2, <1>3 DEF IInv, external, history, IdsUsed, There
<1>OneReportEach. OneReportEach'
  BY <1>1, <1>3 DEF IInv, external, OneReportEach, There
<1>OwnId. OwnId'
  BY <1>1, <1>2, <1>3, HasId DEF IInv, external, history, OwnId, There, Working, Moves
<1>AnswerInv. AnswerInv'
  BY <1>1, <1>2 DEF IInv, external, AnswerInv, Moves
<1>IssueInv. IssueInv'
  BY <1>1, <1>2 DEF IInv, external, IssueInv, AnswerInv, Moves
<1>LinkInv. LinkInv'
  BY <1>1, <1>2, <1>3 DEF IInv, external, LinkInv, There, Past, Moves
<1>KeptInv. KeptInv'
  BY <1>1, <1>2, <1>3, HasId DEF IInv, external, history, KeptInv, IssueInv,
     AnswerInv, Moves, OwnId, Working, There
<1>ViewInv. ViewInv'
  BY <1>1, <1>2 DEF IInv, external, ViewInv, Past, Moves
<1>OneOnTheWay. OneOnTheWay'
  BY <1>1, <1>2, <1>3 DEF IInv, OneOnTheWay, There, OnItsWay, external, history
<1>BornOpen. BornOpen'
  BY <1>1, <1>2, <1>3, HasId DEF IInv, external, history, BornOpen, OnItsWay, There,
     Moves, Working
<1>BringsStatus. BringsStatus'
  BY <1>1, <1>2, <1>3 DEF IInv, external, history, BringsStatus, OnItsWay, There, StateOf
<1>Shown. Shown'
  BY <1>1, <1>2, <1>3 DEF IInv, external, history, Shown, OnItsWay, There, StateOf
<1>. QED BY <1>TypeOK, <1>IdsUsed, <1>OneReportEach, <1>OwnId, <1>AnswerInv,
            <1>IssueInv, <1>LinkInv, <1>KeptInv, <1>ViewInv, <1>OneOnTheWay,
            <1>BornOpen, <1>BringsStatus, <1>Shown DEF IInv

\* Archiving leaves links, statuses and issues as they are.
LEMMA BulkArchiveStep ==
  ASSUME IInv, BulkArchive PROVE IInv'
<1>. DEFINE S == {i \in Ids : /\ Store!Exists(i)
                               /\ reports[i].status = "closed" /\ ~reports[i].archived}
<1>1. Store!Archive(S)
  BY DEF BulkArchive
<1>2. UNCHANGED <<external, req, view, listed, history, failures, crashes>>
  BY DEF BulkArchive
<1>3. /\ reports' \in Reports
      /\ \A j \in Ids : /\ reports'[j].tag = reports[j].tag
                        /\ There(j) => /\ reports'[j].link = reports[j].link
                                       /\ reports'[j].status = reports[j].status
  <2>1. S \in SUBSET Ids
    OBVIOUS
  <2>. HIDE DEF S
  <2>. QED BY <1>1, <2>1, ArchiveEffect DEF IInv, TypeOK, Reports
<1>TypeOK. TypeOK'
  BY <1>1, <1>2, <1>3 DEF IInv, external, history, TypeOK, Moves, Reports
<1>IdsUsed. IdsUsed'
  BY <1>1, <1>2, <1>3 DEF IInv, external, history, IdsUsed, There
<1>OneReportEach. OneReportEach'
  BY <1>1, <1>3 DEF IInv, external, OneReportEach, There
<1>OwnId. OwnId'
  BY <1>1, <1>2, <1>3, HasId DEF IInv, external, history, OwnId, There, Working, Moves
<1>AnswerInv. AnswerInv'
  BY <1>1, <1>2 DEF IInv, external, AnswerInv, Moves
<1>IssueInv. IssueInv'
  BY <1>1, <1>2 DEF IInv, external, IssueInv, AnswerInv, Moves
<1>LinkInv. LinkInv'
  BY <1>1, <1>2, <1>3 DEF IInv, external, LinkInv, There, Past, Moves
<1>KeptInv. KeptInv'
  BY <1>1, <1>2, <1>3, HasId DEF IInv, external, history, KeptInv, IssueInv,
     AnswerInv, Moves, OwnId, Working, There
<1>ViewInv. ViewInv'
  BY <1>1, <1>2 DEF IInv, external, ViewInv, Past, Moves
<1>OneOnTheWay. OneOnTheWay'
  BY <1>1, <1>2, <1>3 DEF IInv, OneOnTheWay, There, OnItsWay, external, history
<1>BornOpen. BornOpen'
  BY <1>1, <1>2, <1>3, HasId DEF IInv, external, history, BornOpen, OnItsWay, There,
     Moves, Working
<1>BringsStatus. BringsStatus'
  BY <1>1, <1>2, <1>3 DEF IInv, external, history, BringsStatus, OnItsWay, There
<1>Shown. Shown'
  BY <1>1, <1>2, <1>3 DEF IInv, external, history, Shown, OnItsWay, There
<1>. QED BY <1>TypeOK, <1>IdsUsed, <1>OneReportEach, <1>OwnId, <1>AnswerInv,
            <1>IssueInv, <1>LinkInv, <1>KeptInv, <1>ViewInv, <1>OneOnTheWay,
            <1>BornOpen, <1>BringsStatus, <1>Shown DEF IInv

\* A crash ends all requests; reports and issues stay.
LEMMA CrashStep ==
  ASSUME IInv, Crash PROVE IInv'
<1>1. /\ UNCHANGED <<reports, external, gone, used, failures>> /\ crashes' \in Nat
      /\ listed' \in [Viewers -> SUBSET Ids]
      /\ astray \subseteq astray' /\ astray' \subseteq Ids
      /\ \A j \in Ids \ astray' : There(j) => \A v \in Viewers : ~OnItsWay(v, j)
  <2>1. \A j \in Ids : There(j) => Store!Exists(j)
    BY ThereExists DEF IInv, TypeOK, Reports
  <2>2. astray' \subseteq Ids /\ \A j \in Ids \ astray' : There(j) =>
          j \notin astray /\ \A v \in Viewers : ~OnItsWay(v, j)
    BY <2>1 DEF Crash, Carried, IInv, TypeOK
  <2>. QED BY <2>2 DEF Crash, IInv, TypeOK
<1>2. \A v \in Viewers : view'[v].issue = None
  BY DEF Crash, NoView
<1>3. /\ view' \in [Viewers -> View] /\ req' \in [Submissions -> Req]
      /\ \A s \in Submissions :
           /\ req'[s].id = req[s].id /\ req'[s].issue = req[s].issue /\ req'[s].answer = req[s].answer
           /\ IF req[s].at \in {"new", "answered"} THEN req'[s].at = req[s].at
                                                   ELSE req'[s].at = "crashed"
  <2>1. view' \in [Viewers -> View]
    BY SubmitFlowAssumption DEF Crash, NoView, View, Store!Status
  <2>2. /\ req \in [Submissions -> Req]
        /\ req' = [s \in Submissions |-> IF req[s].at \in {"new", "answered"} THEN req[s]
                                         ELSE [req[s] EXCEPT !.at = "crashed"]]
    BY DEF Crash, IInv, TypeOK
  <2>. QED BY <2>1, <2>2 DEF Req, ReqLabels
<1>TypeOK. TypeOK'
  BY <1>1, <1>3 DEF IInv, external, history, TypeOK, Moves, Reports
<1>IdsUsed. IdsUsed'
  BY <1>1 DEF IInv, external, history, IdsUsed, There
<1>OneReportEach. OneReportEach'
  BY <1>1 DEF IInv, external, OneReportEach, There
<1>OwnId. OwnId'
  BY <1>1, <1>3 DEF IInv, external, history, OwnId, There, Working, Moves
<1>AnswerInv. AnswerInv'
  BY <1>1, <1>3 DEF IInv, external, AnswerInv, Moves
<1>IssueInv. IssueInv'
  BY <1>1, <1>3 DEF IInv, external, IssueInv, AnswerInv, Moves
<1>LinkInv. LinkInv'
  BY <1>1, <1>3, Known DEF IInv, external, LinkInv, There, Past, Moves
<1>KeptInv. KeptInv'
  BY <1>1, <1>3 DEF IInv, external, history, KeptInv, IssueInv, AnswerInv, Moves
<1>ViewInv. ViewInv'
  BY <1>1, <1>2 DEF IInv, external, ViewInv, Past, Moves
<1>OneOnTheWay. OneOnTheWay'
  BY <1>1, <1>2, <1>3 DEF IInv, external, OneOnTheWay, OnItsWay, There, StateOf
<1>BornOpen. BornOpen'
  BY <1>1, <1>2, <1>3 DEF IInv, external, BornOpen, OnItsWay, There, StateOf
<1>BringsStatus. BringsStatus'
  BY <1>1, <1>2, <1>3 DEF IInv, external, BringsStatus, OnItsWay, There, StateOf
<1>Shown. Shown'
  BY <1>1, <1>2, <1>3 DEF IInv, external, Shown, OnItsWay, There, StateOf
<1>. QED BY <1>TypeOK, <1>IdsUsed, <1>OneReportEach, <1>OwnId, <1>AnswerInv,
            <1>IssueInv, <1>LinkInv, <1>KeptInv, <1>ViewInv, <1>OneOnTheWay,
            <1>BornOpen, <1>BringsStatus, <1>Shown DEF IInv

-----------------------------------------------------------------------------
\* The invariant holds at first, and every step keeps it.
LEMMA InitIInv == Init => IInv
<1>. SUFFICES ASSUME Init PROVE IInv
  OBVIOUS
<1>1. \A i \in Ids : reports[i].tag = None
  BY DEF Init, Store!Init, Store!NoReport
<1>2. TypeOK
  BY SubmitFlowAssumption DEF Init, TypeOK, Store!Init, Issue, Req, ReqLabels, Answers,
     View, NoView, Store!Status
<1>3. IdsUsed /\ OneReportEach /\ LinkInv
  BY <1>1 DEF IdsUsed, OneReportEach, LinkInv, There
<1>4. OwnId /\ AnswerInv /\ IssueInv /\ KeptInv
  BY SubmitFlowAssumption DEF Init, OwnId, AnswerInv, IssueInv, KeptInv, Working
<1>5. ViewInv /\ OneOnTheWay
  BY <1>1 DEF Init, NoView, ViewInv, OneOnTheWay, There
<1>6. BornOpen /\ BringsStatus /\ Shown
  BY <1>1 DEF Init, BornOpen, BringsStatus, Shown, There
<1>. QED BY <1>2, <1>3, <1>4, <1>5, <1>6 DEF IInv

LEMMA StepIInv == ASSUME IInv, [Next]_vars PROVE IInv'
<1>1. ASSUME NEW s \in Submissions, Refuse(s) \/ SaveReport(s) \/ ReadBack(s) \/ SendWebhook(s)
      PROVE  IInv'
  BY <1>1, RefuseStep, SaveReportStep, ReadBackStep, SendWebhookStep
<1>2. ASSUME NEW s \in Submissions, SaveFails(s) PROVE IInv'
  <2>1. CASE UNCHANGED <<reports, used>>
    BY <1>2, <2>1, SaveFailsEmptyStep
  <2>2. ASSUME NEW i \in NewId, Store!Save(i, s), used' = used \cup {i} PROVE IInv'
    BY <1>2, <2>2, SaveFailsStoredStep
  <2>. QED BY <1>2, <2>1, <2>2 DEF SaveFails
<1>3. ASSUME NEW s \in Submissions, CreateIssue(s) PROVE IInv'
  <2>1. /\ req[s].at = "creating" /\ UNCHANGED <<reports, body, view, listed, history, crashes>>
        /\ issues \in [Links -> Issue] /\ req \in [Submissions -> Req] /\ failures \in Nat
    BY <1>3 DEF CreateIssue, IInv, TypeOK
  <2>2. ASSUME NEW l \in Links, issues[l].for = None,
               issues' = [issues EXCEPT ![l] = [for |-> s, state |-> "open"]],
               req' = [req EXCEPT ![s].at = "created", ![s].issue = l], UNCHANGED failures
        PROVE  IInv'
    <3>1. Made(l, s)
      BY <2>1, <2>2, MadeEffect
    <3>2. Moves(s, "created", req[s].id, l, req[s].answer)
      BY <2>1, <2>2 DEF Moves, Req, ReqLabels
    <3>. QED BY <2>1, <2>2, <3>1, <3>2, CreatedStep
  <2>3. ASSUME Failure, WithoutIssue(s), issues' = issues \/ \E l \in Links : Made(l, s)
        PROVE  IInv'
    <3>1. failures' \in Nat /\ failures' # 0
      BY <2>1, <2>3 DEF Failure
    <3>2. Moves(s, "webhook", req[s].id, req[s].issue, req[s].answer)
      BY <2>1, <2>3, GotoMoves DEF WithoutIssue, ReqLabels
    <3>. QED BY <2>1, <2>3, <3>1, <3>2, NotCreatedStep
  <2>4. ASSUME NEW l \in Links, issues[l].for = None,
               issues' = [issues EXCEPT ![l] = [for |-> s, state |-> "open"]]
        PROVE  Made(l, s)
    BY <2>1, <2>4, MadeEffect
  <2>. QED BY <1>3, <2>2, <2>3, <2>4 DEF CreateIssue
<1>4. ASSUME NEW s \in Submissions, SetLink(s) PROVE IInv'
  <2>1. req[s].at = "created" /\ req[s].id \in Ids /\ failures \in Nat
    BY <1>4, HasId DEF SetLink, Working, IInv, TypeOK
  <2>2. There(req[s].id) <=> Store!Exists(req[s].id)
    BY <2>1, ThereExists DEF IInv, TypeOK, Reports
  <2>3. CASE StoreLink(req[s].id, req[s].issue) /\ failures' = failures /\ There(req[s].id)
    BY <1>4, <2>2, <2>3, LinkedStep DEF StoreLink
  <2>4. CASE StoreLink(req[s].id, req[s].issue) /\ failures' = failures /\ ~There(req[s].id)
    BY <1>4, <2>1, <2>2, <2>4, NotLinkedStep DEF StoreLink
  <2>5. CASE Failure /\ UNCHANGED reports
    BY <1>4, <2>1, <2>5, NotLinkedStep DEF Failure
  <2>. QED BY <1>4, <2>3, <2>4, <2>5 DEF SetLink
<1>5. ASSUME NEW v \in Viewers, ChangeStatus(v) \/ Patch(v) PROVE IInv'
  BY <1>5, ChangeStatusStep, PatchStep
<1>6. ASSUME NEW v \in Viewers, BulkList(v) \/ BulkClose(v) \/ BulkFails(v) PROVE IInv'
  BY <1>6, BulkListStep, BulkCloseStep
<1>7. CASE DeleteReport \/ BulkArchive \/ Crash
  BY <1>7, DeleteReportStep, BulkArchiveStep, CrashStep
<1>8. CASE UNCHANGED vars
  BY <1>8, ListedStep DEF vars, IInv, TypeOK
<1>. QED BY <1>1, <1>2, <1>3, <1>4, <1>5, <1>7, <1>8, <1>6 DEF Next, Step

\* The inductive invariant of the handlers.
THEOREM HandlersInvariant == Spec => []IInv
BY InitIInv, StepIInv, PTL DEF Spec

\* Every state has the types: whatever handlers, viewers, failures and crashes
\* do, requests and storage stay of their shape.
THEOREM HandlersTyped == Spec => []TypeOK
<1>1. IInv => TypeOK
  BY DEF IInv
<1>. QED BY <1>1, HandlersInvariant, PTL

\* However viewers delete and handlers overlap, a report is linked to the issue
\* made for it and to no other; without a failure every issue whose request is
\* over is linked from its report (submit_bug_report, set_github_link).
THEOREM LinksAreRight == Spec => []LinkRight
<1>1. ASSUME IInv PROVE LinkIsOwn
  <2>1. \A i \in Ids : There(i) <=> Store!Exists(i)
    BY <1>1, ThereExists DEF IInv, TypeOK, Reports
  <2>. QED BY <1>1, <2>1 DEF IInv, LinkInv, LinkIsOwn
<1>2. ASSUME IInv PROVE NoForgottenIssue
  <2>1. \A l \in Links : issues[l].for # None => issues[l].for \in Submissions
    BY <1>2 DEF IInv, TypeOK, Issue
  <2>. QED BY <1>2, <2>1 DEF IInv, KeptInv, NoForgottenIssue
<1>3. IInv => LinkRight
  BY <1>1, <1>2 DEF LinkRight
<1>. QED BY <1>3, HandlersInvariant, PTL

\* 201 means stored, 500 means nothing outside was told, and the webhook names
\* the issue the report is linked to (the answers of submit_bug_report).
THEOREM AnswersAreTrue == Spec => []ToldTruly
<1>1. ASSUME IInv PROVE BodyCarriesLink
  <2>1. SUFFICES ASSUME NEW s \in Submissions, NEW i \in Ids, body[s].sent,
                        reports[i].tag = s, reports[i].link # None
                 PROVE  body[s].issue = reports[i].link
    BY DEF BodyCarriesLink
  <2>2. There(i)
    BY <2>1, SubmitFlowAssumption DEF There
  <2>. QED BY <1>1, <2>1, <2>2 DEF IInv, LinkInv, AnswerInv
<1>2. ASSUME IInv PROVE AnswerIsTrue
  <2>1. ASSUME NEW s \in Submissions, req[s].answer = "201"
        PROVE  reports[req[s].id].tag = s \/ s \in gone
    BY <1>2, <2>1 DEF IInv, OwnId
  <2>2. ASSUME NEW s \in Submissions, req[s].answer = "500"
        PROVE  ~body[s].sent /\ \A l \in Links : issues[l].for # s
    BY <1>2, <2>2, SubmitFlowAssumption DEF IInv, AnswerInv, IssueInv
  <2>. QED BY <2>1, <2>2 DEF AnswerIsTrue
<1>3. IInv => ToldTruly
  BY <1>1, <1>2 DEF ToldTruly
<1>. QED BY <1>3, HandlersInvariant, PTL

\* The issue of a report that no overlap, failure or crash befell since its last
\* change in turn is closed exactly when the report is fixed or closed, whenever
\* no handler of it is under way (update_report_status, sync_issue_state and the
\* bulk calls).
THEOREM IssuesFollow == Spec => []IssueFollowsInTurn
<1>1. ASSUME IInv, NEW i \in Ids \ astray, Store!Exists(i), ~InFlight(i)
      PROVE  InStep(i)
  <2>1. There(i)
    BY <1>1, ThereExists DEF IInv, TypeOK, Reports
  <2>2. \A v \in Viewers : ~OnItsWay(v, i)
    BY <1>1 DEF InFlight
  <2>3. reports[i].link # None =>
          issues[reports[i].link].state = StateOf(reports[i].status)
    BY <1>1, <2>1, <2>2 DEF IInv, Shown
  <2>. QED BY <2>3 DEF InStep, StateOf, Done
<1>2. IInv => IssueFollowsInTurn
  BY <1>1 DEF IssueFollowsInTurn
<1>. QED BY <1>2, HandlersInvariant, PTL
=============================================================================
