----------------------------- MODULE SubmitFlow -----------------------------
(***************************************************************************)
(* The submit handler (bug_fab/routers/submit.py) and the viewer handlers   *)
(* (bug_fab/routers/viewer.py) around a storage and GitHub                  *)
(* (bug_fab/integrations/github.py).                                        *)
(*                                                                         *)
(* The storage is its contract, ReportStore, with ids that are never handed *)
(* out again, which FileStorage and SqlStorage establish (NoIdReuse).       *)
(* Between two awaits of a handler any other handler may run.  GitHub is    *)
(* external: a request may fail, or succeed and have its answer lost.       *)
(* Webhook delivery is WebhookDelivery; here send is the step after which   *)
(* the handler answers, since it always returns.                            *)
(***************************************************************************)
EXTENDS Naturals

CONSTANTS Ids,          \* the numbers report ids are formatted from
          Submissions,  \* POST requests, each with a payload of its own
          Links,        \* the numbers GitHub gives to issues
          None,         \* "absent"
          Viewers,      \* concurrent requests to the viewer
          Updates,      \* the statuses viewers set
          MaxLife,      \* bound on a lifecycle log (model only)
          MaxFailures,  \* bound on failures of storage and GitHub (model only)
          MaxCrashes    \* bound on crashes of the process (model only)

ASSUME SubmitFlowAssumption ==
  /\ None \notin Ids \cup Submissions \cup Links \cup {"201", "4xx", "500"}
  /\ Updates \subseteq {"open", "investigating", "fixed", "closed"}
  /\ MaxLife \in Nat /\ MaxFailures \in Nat /\ MaxCrashes \in Nat

VARIABLES
  reports,     \* the storage
  issues,      \* GitHub: for which submission, and its state
  req,         \* what each submit request is doing
  view,        \* the status a viewer request has to pass on to an issue
  listed,      \* the reports a bulk close has listed and not closed yet
  body,        \* the webhook body sent for a submission: its issue link
  gone,        \* history: submissions whose report a viewer deleted
  used,        \* history: ids the storage handed out
  astray,      \* history: reports whose issue may not show their status
  failures, crashes

Store == INSTANCE ReportStore

external == <<issues, body>>
history == <<gone, used, astray>>
vars == <<reports, external, req, view, listed, history, failures, crashes>>

ReqLabels == {"new", "saved", "creating", "created", "webhook", "answered",
              "crashed"}
Answers == {None, "201", "4xx", "500"}

\* What a submit handler is at, the id it was given, the issue it knows of and
\* its answer.
Req == [at : ReqLabels, id : Ids \cup {None}, issue : Links \cup {None},
        answer : Answers]

\* A viewer handler that has a status to pass on to an issue.
View == [issue : Links \cup {None}, status : Store!Status]
NoView == [issue |-> None, status |-> "open"]

\* An issue number GitHub has not given out yet is an issue for nobody.
Issue == [for : Submissions \cup {None}, state : {"open", "closed"}]

Init ==
  /\ Store!Init
  /\ issues = [l \in Links |-> [for |-> None, state |-> "open"]]
  /\ req = [s \in Submissions |->
              [at |-> "new", id |-> None, issue |-> None, answer |-> None]]
  /\ view = [v \in Viewers |-> NoView]
  /\ body = [s \in Submissions |-> [sent |-> FALSE, issue |-> None]]
  /\ listed = [v \in Viewers |-> {}]
  /\ gone = {} /\ used = {} /\ astray = {}
  /\ failures = 0 /\ crashes = 0

Goto(s, label) == req' = [req EXCEPT ![s].at = label]

\* Variant for mutation: the request is forgotten with its answer.
Forget(s, a) == req' = [req EXCEPT ![s] = [answer |-> a]]

Answer(s, a) == req' = [req EXCEPT ![s].at = "answered", ![s].answer = a]

Failure == failures < MaxFailures /\ failures' = failures + 1

-----------------------------------------------------------------------------
\* submit_bug_report.

\* Over the rate limit, or the payload is not valid.
Refuse(s) ==
  /\ req[s].at = "new"
  /\ Answer(s, "4xx")
  /\ UNCHANGED <<reports, external, view, listed, history, failures, crashes>>

\* Variant for mutation: an id is free as soon as its report is deleted.
AnyFreeId == {i \in Ids : ~Store!Exists(i)}

NewId == Ids \ used

SaveReport(s) ==
  /\ req[s].at = "new"
  /\ \E i \in NewId :
       /\ Store!Save(i, s)
       /\ used' = used \cup {i}
       /\ req' = [req EXCEPT ![s].at = "saved", ![s].id = i]
  /\ UNCHANGED <<external, view, listed, gone, astray, failures, crashes>>

\* save_report raises, be it before or after the report is stored.
SaveFails(s) ==
  /\ req[s].at = "new" /\ Failure
  /\ \/ UNCHANGED <<reports, used>>
     \/ \E i \in NewId : Store!Save(i, s) /\ used' = used \cup {i}
  /\ Answer(s, "500")
  /\ UNCHANGED <<external, view, listed, gone, astray, crashes>>

\* get_report: a viewer may have deleted the report meanwhile, and it may raise.
ReadBack(s) ==
  /\ req[s].at = "saved"
  /\ \/ /\ IF Store!Exists(req[s].id) THEN Goto(s, "creating")
                                       ELSE Answer(s, "500")
        /\ UNCHANGED failures
     \/ Failure /\ Answer(s, "500")
  /\ UNCHANGED <<reports, external, view, listed, history, crashes>>

\* create_issue returned (None, None).
WithoutIssue(s) == Goto(s, "webhook")

\* create_issue: GitHub makes an issue and says so, makes one and the answer is
\* lost, or makes none.
CreateIssue(s) ==
  /\ req[s].at = "creating"
  /\ \/ \E l \in Links :
          /\ issues[l].for = None
          /\ issues' = [issues EXCEPT ![l] = [for |-> s, state |-> "open"]]
          /\ \/ /\ req' = [req EXCEPT ![s].at = "created", ![s].issue = l]
                /\ UNCHANGED failures
             \/ Failure /\ WithoutIssue(s)
     \/ Failure /\ WithoutIssue(s) /\ UNCHANGED issues
  /\ UNCHANGED <<reports, body, view, listed, history, crashes>>

\* set_github_link on a report that is gone returns None, which is ignored.
StoreLink(i, l) ==
  IF Store!Exists(i) THEN Store!SetGithubLink(i, l) ELSE UNCHANGED reports

\* The storage call may raise; the handler logs that and keeps the URL.
SetLink(s) ==
  /\ req[s].at = "created"
  /\ \/ StoreLink(req[s].id, req[s].issue) /\ UNCHANGED failures
     \/ Failure /\ UNCHANGED reports
  /\ Goto(s, "webhook")
  /\ UNCHANGED <<external, view, listed, history, crashes>>

\* Variant for mutation: the detail as it was read back.
BodyAsRead(s) == [sent |-> TRUE, issue |-> None]

\* The detail read back with the URL of the issue put in.
Body(s) == [sent |-> TRUE, issue |-> req[s].issue]

\* The webhook is sent; whatever becomes of it, the request is answered.
SendWebhook(s) ==
  /\ req[s].at = "webhook"
  /\ body' = [body EXCEPT ![s] = Body(s)]
  /\ Answer(s, "201")
  /\ UNCHANGED <<reports, issues, view, listed, history, failures, crashes>>

-----------------------------------------------------------------------------
\* The viewer handlers.

\* The handler is between two requests.
Unoccupied(v) == view[v] = NoView /\ listed[v] = {}

\* Viewer v has a status to pass on to the issue of report i.
OnItsWay(v, i) == view[v].issue # None /\ view[v].issue = reports[i].link

\* A handler that is between saving report i and storing its link, or that has
\* a status to pass on to its issue.
InFlight(i) ==
  \/ \E s \in Submissions :
       req[s].id = i /\ req[s].at \in {"saved", "creating", "created"}
  \/ \E v \in Viewers : OnItsWay(v, i)

\* Variant for mutation: nothing is said of a report that is reopened.
PassOnClosing(i, st) == IF reports[i].link = None \/ st = "open" THEN NoView
                        ELSE [issue |-> reports[i].link, status |-> st]

\* A report with an issue has its new status passed on.
PassOn(i, st) == IF reports[i].link = None THEN NoView
                 ELSE [issue |-> reports[i].link, status |-> st]

\* update_report_status, up to the GitHub call.  update_status may raise after
\* it stored the change; then GitHub is not told.  A change that overlaps a
\* handler of its report may be overtaken; any other sets the issue right.
ChangeStatus(v) ==
  /\ Unoccupied(v)
  /\ \E i \in Ids, st \in Updates :
       /\ Store!Exists(i) /\ reports[i].life < MaxLife
       /\ Store!UpdateStatus({i}, st)
       /\ \/ /\ view' = [view EXCEPT ![v] = PassOn(i, st)]
             /\ astray' = IF InFlight(i) THEN astray \cup {i} ELSE astray \ {i}
             /\ UNCHANGED failures
          \/ Failure /\ UNCHANGED view /\ astray' = astray \cup {i}
  /\ UNCHANGED <<external, req, listed, gone, used, crashes>>

\* DEFAULT_STATE_MAP.
StateOf(st) == IF st \in {"fixed", "closed"} THEN "closed" ELSE "open"

\* The reports viewers V have a status of.
Carried(V) == {i \in Ids : Store!Exists(i) /\ \E v \in V : OnItsWay(v, i)}

\* sync_issue_state: the PATCH takes effect, or fails and is logged.
Patch(v) ==
  /\ view[v].issue # None
  /\ \/ /\ issues' = [issues EXCEPT ![view[v].issue].state =
                        StateOf(view[v].status)]
        /\ UNCHANGED <<astray, failures>>
     \/ /\ Failure /\ UNCHANGED issues
        /\ astray' = astray \cup Carried({v})
  /\ view' = [view EXCEPT ![v] = NoView]
  /\ UNCHANGED <<reports, body, req, listed, gone, used, crashes>>

\* delete_report: the issue is left alone.
DeleteReport ==
  /\ \E i \in Ids :
       /\ Store!Delete(i)
       /\ gone' = gone \cup {reports[i].tag}
  /\ UNCHANGED <<external, req, view, listed, used, astray, failures, crashes>>

Done == {"fixed", "closed"}

\* bulk_close_fixed, which calls GitHub for nothing.  The backends list the
\* fixed reports first, ...
BulkList(v) ==
  /\ Unoccupied(v)
  /\ LET S == {i \in Ids : Store!Exists(i) /\ reports[i].status = "fixed"} IN
     S # {} /\ listed' = [listed EXCEPT ![v] = S]
  /\ UNCHANGED <<reports, external, req, view, history, failures, crashes>>

\* ... and close what they listed, one by one (files) or at once (SQL), whatever
\* its status is by now.  Nobody tells the issue of one reopened in between.
BulkClose(v) ==
  /\ \E S \in SUBSET listed[v] \ {{}} :
       LET T == {i \in S : Store!Exists(i)} IN
       /\ Store!UpdateStatus(T, "closed")
       /\ astray' = astray \cup {i \in T : reports[i].status \notin Done}
       /\ listed' = [listed EXCEPT ![v] = @ \ S]
  /\ UNCHANGED <<external, req, view, gone, used, failures, crashes>>

\* The bulk call raises, in SQL also when a report it listed is gone.
BulkFails(v) ==
  /\ listed[v] # {}
  /\ listed' = [listed EXCEPT ![v] = {}]
  /\ UNCHANGED <<reports, external, req, view, history, failures, crashes>>

\* bulk_archive_closed: no GitHub call, and no status changes.
BulkArchive ==
  LET S == {i \in Ids : /\ Store!Exists(i)
                        /\ reports[i].status = "closed" /\ ~reports[i].archived}
  IN
  /\ S # {} /\ Store!Archive(S)
  /\ UNCHANGED <<external, req, view, listed, history, failures, crashes>>

\* The process stops: what is stored here and at GitHub stays, and what was on
\* its way is lost.
Crash ==
  /\ crashes < MaxCrashes
  /\ crashes' = crashes + 1
  /\ req' = [s \in Submissions |->
               IF req[s].at \in {"new", "answered"} THEN req[s]
               ELSE [req[s] EXCEPT !.at = "crashed"]]
  /\ view' = [v \in Viewers |-> NoView]
  /\ listed' = [v \in Viewers |-> {}]
  /\ astray' = astray \cup Carried(Viewers)
  /\ UNCHANGED <<reports, external, gone, used, failures>>

Step(s) == \/ ReadBack(s) \/ CreateIssue(s) \/ SetLink(s) \/ SendWebhook(s)

Next ==
  \/ \E s \in Submissions : Refuse(s) \/ SaveReport(s) \/ SaveFails(s) \/ Step(s)
  \/ \E v \in Viewers : \/ ChangeStatus(v) \/ Patch(v)
                       \/ BulkList(v) \/ BulkClose(v) \/ BulkFails(v)
  \/ DeleteReport \/ BulkArchive \/ Crash

Spec == Init /\ [][Next]_vars

-----------------------------------------------------------------------------
TypeOK ==
  /\ reports \in [Ids -> Store!StoredReport \cup {Store!NoReport}]
  /\ issues \in [Links -> Issue]
  /\ req \in [Submissions -> Req]
  /\ view \in [Viewers -> View]
  /\ body \in [Submissions -> [sent : BOOLEAN, issue : Links \cup {None}]]
  /\ listed \in [Viewers -> SUBSET Ids]
  /\ gone \subseteq Submissions /\ used \subseteq Ids
  /\ astray \subseteq Ids /\ failures \in Nat /\ crashes \in Nat

\* A report is never linked to the issue of another one, although it may be
\* deleted, and another be saved, while its issue is being created.
LinkIsOwn == \A i \in Ids :
  Store!Exists(i) /\ reports[i].link # None
    => issues[reports[i].link].for = reports[i].tag

\* "populates github_issue_url on the stored report": once the request is over
\* and unless something failed, the issue is linked from its report, which may
\* have been deleted since.
NoForgottenIssue == failures = 0 => \A l \in Links :
  LET s == issues[l].for IN
  s # None /\ req[s].at = "answered" => \/ s \in gone
                                        \/ reports[req[s].id].link = l

\* Links and issues belong together.
LinkRight == LinkIsOwn /\ NoForgottenIssue

\* "the outbound payload includes github_issue_url when both integrations are
\* enabled": it names the issue the stored report is linked to.
BodyCarriesLink == \A s \in Submissions : \A i \in Ids :
  body[s].sent /\ reports[i].tag = s /\ reports[i].link # None
    => body[s].issue = reports[i].link

\* 201 means the report is stored, whatever became of GitHub and the webhook,
\* unless a viewer deleted it.  After a 500 nothing outside was told of the
\* report: once GitHub was asked for an issue no failure turns into an error.
AnswerIsTrue == \A s \in Submissions :
  /\ req[s].answer = "201" => reports[req[s].id].tag = s \/ s \in gone
  /\ req[s].answer = "500" => ~body[s].sent /\ \A l \in Links : issues[l].for # s

\* What the client and the webhook receiver are told is so.
ToldTruly == BodyCarriesLink /\ AnswerIsTrue

\* The issue of report i is closed when and only when the report is done.
InStep(i) == reports[i].link # None =>
  (issues[reports[i].link].state = "closed" <=> reports[i].status \in Done)

\* While no handler of it is under way the issue of a report shows its status,
\* whatever overlaps, fails or stops for other reports.  A change made in turn
\* sets right what an overlap, a lost PATCH or a crash left astray, and a bulk
\* close, which tells GitHub nothing, leaves astray only what was reopened
\* after it was listed.
IssueFollowsInTurn == \A i \in Ids \ astray :
  Store!Exists(i) /\ ~InFlight(i) => InStep(i)
=============================================================================
