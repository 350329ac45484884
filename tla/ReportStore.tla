---------------------------- MODULE ReportStore ----------------------------
(***************************************************************************)
(* What every storage backend of Bug-Fab promises: the Storage class of     *)
(* bug_fab/storage/base.py seen as a map from report ids to reports, every  *)
(* operation one indivisible step.                                          *)
(*                                                                         *)
(* A report carries the submission it was made from (standing for title,    *)
(* description, context and screenshot bytes, which no operation changes),  *)
(* its status, the number of entries of its lifecycle log, its GitHub link  *)
(* and whether it was archived.                                             *)
(***************************************************************************)
EXTENDS Naturals

CONSTANTS Ids,          \* the numbers a report id is formatted from
          Submissions,  \* distinct submitted payloads
          Links,        \* GitHub issues a report may be linked to
          None          \* "absent"

Status == {"open", "investigating", "fixed", "closed"}

StoredReport == [tag      : Submissions,
                 status   : Status,
                 life     : Nat,
                 link     : Links \cup {None},
                 archived : BOOLEAN]

VARIABLE reports

NoReport == [tag |-> None]

Exists(i) == reports[i] # NoReport

Init == reports = [i \in Ids |-> NoReport]

\* get_report, list_reports and get_screenshot_path change nothing.
Read == UNCHANGED reports

\* save_report: a fresh id, never one in use, and a report born "open" with
\* the "created" lifecycle entry.
Save(i, s) ==
  /\ ~Exists(i)
  /\ \A j \in Ids : reports[j].tag # s
  /\ reports' = [reports EXCEPT ![i] =
        [tag |-> s, status |-> "open", life |-> 1, link |-> None,
         archived |-> FALSE]]

\* update_status for one report, bulk_close_fixed for several: one more
\* lifecycle entry each, nothing else but the status moves.
UpdateStatus(S, st) ==
  /\ \A i \in S : Exists(i)
  /\ reports' = [i \in Ids |->
        IF i \in S THEN [reports[i] EXCEPT !.status = st, !.life = @ + 1]
        ELSE reports[i]]

\* set_github_link: metadata, so the lifecycle log does not grow.
SetGithubLink(i, l) ==
  /\ Exists(i)
  /\ reports' = [reports EXCEPT ![i].link = l]

\* delete_report.
Delete(i) ==
  /\ Exists(i)
  /\ reports' = [reports EXCEPT ![i] = NoReport]

\* Reports that exist become archived.  The lifecycle entry of the archival
\* is the backend's choice (files: none, SQL: one).
Archived(S) ==
  /\ \A i \in S : Exists(i)
  /\ \E n \in {0, 1} :
       reports' = [i \in Ids |->
         IF i \in S THEN [reports[i] EXCEPT !.archived = TRUE, !.life = @ + n]
         ELSE reports[i]]

\* archive_report and bulk_archive_closed: reports not archived yet.
Archive(S) == Archived(S) /\ \A i \in S : ~reports[i].archived

\* What all backends share.
Shared ==
  \/ Read
  \/ \E i \in Ids, s \in Submissions : Save(i, s)
  \/ \E S \in SUBSET Ids, st \in Status : UpdateStatus(S, st)
  \/ \E i \in Ids, l \in Links : SetGithubLink(i, l)
  \/ \E i \in Ids : Delete(i)

Next == Shared \/ \E S \in SUBSET Ids : Archive(S)

Spec == Init /\ [][Next]_reports

\* A weaker contract, of a backend whose archival may be repeated.
LooseSpec == Init /\ [][Shared \/ \E S \in SUBSET Ids : Archived(S)]_reports
=============================================================================
