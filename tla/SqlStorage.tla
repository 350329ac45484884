----------------------------- MODULE SqlStorage -----------------------------
(***************************************************************************)
(* bug_fab/storage/_sql_base.py with sqlite.py and postgres.py: reports as  *)
(* rows of a database, screenshots as files beside it.                      *)
(*                                                                         *)
(* Every operation is a function run by asyncio.to_thread with a session of *)
(* its own; nothing but the database orders two of them.  A call reads in   *)
(* one step and writes in another: the ORM sends its statements at commit,  *)
(* where they apply together or not at all.  The file system has no part in *)
(* the transaction, so its writes are steps of their own, and the process   *)
(* may stop between any two steps.                                          *)
(*                                                                         *)
(* idSource is "row" for SQLite (the counter row is updated inside the      *)
(* transaction, which makes it the database's only writer until it ends)    *)
(* and "sequence" for PostgreSQL (a number is never given back).            *)
(***************************************************************************)
EXTENDS Naturals, Sequences

CONSTANTS Ids,          \* the numbers ids are formatted from (bug-001 is 1)
          Submissions,  \* distinct submitted payloads, each submitted once
          Links,        \* GitHub issues a report may be linked to
          None,         \* "absent"
          Workers,      \* threads of the pool that runs the calls
          IdSources,    \* the databases to look at: "row", "sequence"
          Updates,      \* the statuses viewers set
          Failures,     \* whether writes may fail
          MaxLog,       \* bound on a lifecycle log (model only)
          MaxCrashes    \* bound on crashes of the process (model only)

ASSUME SqlStorageAssumption ==
  /\ Ids \subseteq Nat \ {0}
  /\ None \notin Links /\ None \notin Submissions /\ None \notin Workers
  /\ IdSources \subseteq {"row", "sequence"}
  /\ Updates \subseteq {"open", "investigating", "fixed", "closed"}
  /\ Failures \in BOOLEAN
  /\ MaxLog \in Nat /\ MaxCrashes \in Nat

Status == {"open", "investigating", "fixed", "closed"}

VARIABLES
  idSource,    \* which of the two databases it is
  rows,        \* bug_reports with its bug_report_lifecycle rows
  live, arch,  \* <screenshot_dir>/bug-N.png and archive/bug-N.png
  counter,     \* bug_report_id_counter, or the sequence
  writer,      \* SQLite: the worker whose transaction holds the write lock
  op,          \* what each worker is doing
  pending,     \* submissions not yet made
  acked,       \* history: the submission whose save returned this id
  issued,      \* history: every id some save returned
  crashes      \* model bound

shots == <<live, arch>>
history == <<acked, issued>>
vars == <<idSource, rows, shots, counter, writer, op, pending, history, crashes>>

-----------------------------------------------------------------------------
\* BugReport; an entry of the log is an action, or the status it set.
Entry == Status \cup {"created", "archived"}
Row == [tag : Submissions, status : Status, link : Links \cup {None},
        archived : BOOLEAN, log : Seq(Entry)]
NoRow == [tag |-> None]
Exists(i) == rows[i] # NoRow

\* Variant for mutation: the status is left to the database.
NewRowNoStatus(s) == [tag |-> s, status |-> None, link |-> None,
                      archived |-> FALSE, log |-> <<"created">>]

NewRow(s) == [tag |-> s, status |-> "open", link |-> None, archived |-> FALSE,
              log |-> <<"created">>]

Labels == {"idle", "savePng", "saveCommit", "cleanup", "update", "link",
           "delete", "unlinkLive", "unlinkArch", "unlinkStored", "archive",
           "bulkClose", "bulkArchive", "move", "look"}

\* One shape for every call: the report it is about, the row it read, the
\* value to write, the ids of a bulk call, and, for a screenshot lookup,
\* whether the screenshot has been there all along.
Op == [at : Labels, id : Ids \cup {None}, seen : Row \cup {NoRow},
       val : Submissions \cup Status \cup Links \cup {None},
       todo : SUBSET Ids, had : BOOLEAN]

Doing(label, i, seen, val) ==
  [at |-> label, id |-> i, seen |-> seen, val |-> val, todo |-> {},
   had |-> FALSE]
Idle == Doing("idle", None, NoRow, None)
Bulk(label, S) == [Idle EXCEPT !.at = label, !.todo = S]
Looking(i, had) == [Doing("look", i, NoRow, None) EXCEPT !.had = had]

Become(w, o) == op' = [op EXCEPT ![w] = o]
Goto(w, label) == op' = [op EXCEPT ![w].at = label]

Init ==
  /\ idSource \in IdSources
  /\ rows = [i \in Ids |-> NoRow]
  /\ live = [i \in Ids |-> None] /\ arch = [i \in Ids |-> None]
  /\ counter = 0 /\ writer = None
  /\ op = [w \in Workers |-> Idle]
  /\ pending = Submissions
  /\ acked = [i \in Ids |-> None]
  /\ issued = {}
  /\ crashes = 0

\* A statement that writes may run: SQLite has one writer at a time.
MayWrite == idSource = "row" => writer = None

-----------------------------------------------------------------------------
\* _save_report_sync: allocate, write the screenshot, commit.

\* Variant for mutation: the number after the rows that are left.
NextByRows ==
  {i \in Ids : (i = 1 \/ Exists(i - 1)) /\ \A j \in Ids : Exists(j) => j < i}

\* _next_id_value: a set of at most one number.
NextIdValue == {i \in Ids : i = counter + 1}

\* The counter row changes at commit, the sequence at once.
SaveBegin(w) ==
  /\ op[w].at = "idle" /\ MayWrite
  /\ \E s \in pending, i \in NextIdValue :
       /\ pending' = pending \ {s}
       /\ Become(w, Doing("savePng", i, NoRow, s))
       /\ counter' = IF idSource = "row" THEN counter ELSE i
  /\ writer' = IF idSource = "row" THEN w ELSE None
  /\ UNCHANGED <<rows, shots, history, crashes>>

\* _write_screenshot.
SavePng(w) ==
  /\ op[w].at = "savePng"
  /\ live' = [live EXCEPT ![op[w].id] = op[w].val]
  /\ Goto(w, "saveCommit")
  /\ UNCHANGED <<rows, arch, counter, writer, pending, history, crashes>>

\* Report, "created" entry and counter row are committed, the id is returned.
SaveCommit(w) ==
  LET i == op[w].id IN
  /\ op[w].at = "saveCommit"
  /\ rows' = [rows EXCEPT ![i] = NewRow(op[w].val)]
  /\ counter' = IF idSource = "row" THEN i ELSE counter
  /\ writer' = IF idSource = "row" THEN None ELSE writer
  /\ acked' = [acked EXCEPT ![i] = op[w].val]
  /\ issued' = issued \cup {i}
  /\ Become(w, Idle)
  /\ UNCHANGED <<shots, pending, crashes>>

\* The screenshot could not be written, or the commit failed: rollback, which
\* ends the transaction before the cleanup below.
SaveFail(w) ==
  /\ Failures /\ op[w].at \in {"savePng", "saveCommit"}
  /\ writer' = IF idSource = "row" THEN None ELSE writer
  /\ Goto(w, "cleanup")
  /\ UNCHANGED <<rows, shots, counter, pending, history, crashes>>

UnlinkLiveFile(i) == live' = [live EXCEPT ![i] = None]

SaveCleanup(w) ==
  /\ op[w].at = "cleanup"
  /\ UnlinkLiveFile(op[w].id)
  /\ Become(w, Idle)
  /\ UNCHANGED <<rows, arch, counter, writer, pending, history, crashes>>

-----------------------------------------------------------------------------
\* _update_status_sync and _set_github_link_sync: session.get, then commit.

UpdateBegin(w) ==
  /\ op[w].at = "idle"
  /\ \E i \in Ids, st \in Updates :
       /\ Exists(i) /\ Len(rows[i].log) < MaxLog
       /\ Become(w, Doing("update", i, rows[i], st))
  /\ UNCHANGED <<rows, shots, counter, writer, pending, history, crashes>>

\* Variant for mutation: the row as it was read is written back.
RowAsRead(i, seen, st) ==
  /\ Exists(i)
  /\ rows' = [rows EXCEPT ![i] =
       [seen EXCEPT !.status = st, !.log = Append(@, st)]]

\* What the flush sends: no UPDATE for a status equal to the one read, and an
\* INSERT into the log, which needs the row to be there.
WriteStatus(i, seen, st) ==
  /\ Exists(i)
  /\ rows' = [rows EXCEPT
       ![i].status = IF seen.status = st THEN @ ELSE st,
       ![i].log = Append(@, st)]

UpdateCommit(w) ==
  LET o == op[w] IN
  /\ o.at = "update" /\ MayWrite
  /\ WriteStatus(o.id, o.seen, o.val)
  /\ Become(w, Idle)
  /\ UNCHANGED <<shots, counter, writer, pending, history, crashes>>

LinkBegin(w) ==
  /\ op[w].at = "idle"
  /\ \E i \in Ids, l \in Links :
       /\ Exists(i)
       /\ Become(w, Doing("link", i, rows[i], l))
  /\ UNCHANGED <<rows, shots, counter, writer, pending, history, crashes>>

\* A link equal to the one read sends nothing.
LinkCommit(w) ==
  LET o == op[w] IN
  /\ o.at = "link"
  /\ \/ o.seen.link = o.val /\ UNCHANGED rows
     \/ /\ o.seen.link # o.val /\ MayWrite /\ Exists(o.id)
        /\ rows' = [rows EXCEPT ![o.id].link = o.val]
  /\ Become(w, Idle)
  /\ UNCHANGED <<shots, counter, writer, pending, history, crashes>>

-----------------------------------------------------------------------------
\* _delete_report_sync: the row, then the live, archived and stored paths.

DeleteBegin(w) ==
  /\ op[w].at = "idle"
  /\ \E i \in Ids :
       /\ Exists(i)
       /\ Become(w, Doing("delete", i, NoRow, None))
  /\ UNCHANGED <<rows, shots, counter, writer, pending, history, crashes>>

\* A row another call deleted first is no error.  A screenshot lookup under
\* way may now rightly come back empty.
DeleteCommit(w) ==
  LET i == op[w].id IN
  /\ op[w].at = "delete" /\ MayWrite
  /\ rows' = [rows EXCEPT ![i] = NoRow]
  /\ acked' = [acked EXCEPT ![i] = None]
  /\ op' = [v \in Workers |->
              IF v = w THEN Doing("unlinkLive", i, NoRow, None)
              ELSE IF op[v].at = "look" /\ op[v].id = i THEN Looking(i, FALSE)
              ELSE op[v]]
  /\ UNCHANGED <<shots, counter, writer, pending, issued, crashes>>

UnlinkLive(w) ==
  /\ op[w].at = "unlinkLive"
  /\ UnlinkLiveFile(op[w].id)
  /\ Goto(w, "unlinkArch")
  /\ UNCHANGED <<rows, arch, counter, writer, pending, history, crashes>>

UnlinkArch(w) ==
  /\ op[w].at = "unlinkArch"
  /\ arch' = [arch EXCEPT ![op[w].id] = None]
  /\ Goto(w, "unlinkStored")
  /\ UNCHANGED <<rows, live, counter, writer, pending, history, crashes>>

\* The stored path is the live one.
UnlinkStored(w) ==
  /\ op[w].at = "unlinkStored"
  /\ UnlinkLiveFile(op[w].id)
  /\ Become(w, Idle)
  /\ UNCHANGED <<rows, arch, counter, writer, pending, history, crashes>>

-----------------------------------------------------------------------------
\* _archive_report_sync, _bulk_close_fixed_sync, _bulk_archive_closed_sync.

ArchiveBegin(w) ==
  /\ op[w].at = "idle"
  /\ \E i \in Ids :
       /\ Exists(i) /\ ~rows[i].archived
       /\ Become(w, [Bulk("archive", {i}) EXCEPT !.id = i])
  /\ UNCHANGED <<rows, shots, counter, writer, pending, history, crashes>>

BulkCloseBegin(w) ==
  LET S == {i \in Ids : Exists(i) /\ rows[i].status = "fixed"} IN
  /\ op[w].at = "idle" /\ S # {}
  /\ Become(w, Bulk("bulkClose", S))
  /\ UNCHANGED <<rows, shots, counter, writer, pending, history, crashes>>

BulkArchiveBegin(w) ==
  LET S == {i \in Ids :
              Exists(i) /\ rows[i].status = "closed" /\ ~rows[i].archived}
  IN
  /\ op[w].at = "idle" /\ S # {}
  /\ Become(w, Bulk("bulkArchive", S))
  /\ UNCHANGED <<rows, shots, counter, writer, pending, history, crashes>>

\* Rows and log entries of a set of reports; an entry for a row that is gone
\* is refused, and with it the whole transaction.
SetAll(S, st) ==
  /\ \A i \in S : Exists(i)
  /\ rows' = [i \in Ids |->
       IF i \in S THEN [rows[i] EXCEPT !.status = st, !.log = Append(@, st)]
       ELSE rows[i]]

ArchiveAll(S) ==
  /\ \A i \in S : Exists(i)
  /\ rows' = [i \in Ids |->
       IF i \in S
       THEN [rows[i] EXCEPT !.archived = TRUE, !.log = Append(@, "archived")]
       ELSE rows[i]]

BulkCloseCommit(w) ==
  LET S == op[w].todo IN
  /\ op[w].at = "bulkClose" /\ MayWrite
  /\ SetAll(S, "closed")
  /\ Become(w, Idle)
  /\ UNCHANGED <<shots, counter, writer, pending, history, crashes>>

ArchiveCommit(w) ==
  /\ op[w].at \in {"archive", "bulkArchive"} /\ MayWrite
  /\ ArchiveAll(op[w].todo)
  /\ Become(w, Bulk("move", op[w].todo))
  /\ UNCHANGED <<shots, counter, writer, pending, history, crashes>>

\* Variant for mutation: the file is copied.
CopyFile(i) == arch' = [arch EXCEPT ![i] = live[i]] /\ UNCHANGED live

MoveFile(i) == /\ arch' = [arch EXCEPT ![i] = live[i]]
               /\ live' = [live EXCEPT ![i] = None]

\* The files are moved one by one; one that is not there is passed over.
Move(w) ==
  \E i \in op[w].todo :
    LET rest == op[w].todo \ {i} IN
    /\ op[w].at = "move" /\ \A j \in op[w].todo : i <= j
    /\ IF live[i] = None THEN UNCHANGED shots ELSE MoveFile(i)
    /\ Become(w, IF rest = {} THEN Idle ELSE Bulk("move", rest))
    /\ UNCHANGED <<rows, counter, writer, pending, history, crashes>>

\* An exception before the commit (a row that is gone, a lock that is not
\* granted): the transaction leaves no trace.
Rollback(w) ==
  /\ op[w].at \in {"update", "link", "delete", "archive", "bulkClose",
                   "bulkArchive"}
  /\ Become(w, Idle)
  /\ UNCHANGED <<rows, shots, counter, writer, pending, history, crashes>>

-----------------------------------------------------------------------------
\* _get_screenshot_path_sync: the live file, then the archived one, then the
\* path the row has, which is the live one again.

ShotIn(k, i) == IF k = 1 THEN live[i] ELSE arch[i]

Look(w) ==
  /\ op[w].at = "idle"
  /\ \E i \in Ids :
       /\ ShotIn(1, i) = None
       /\ Become(w, Looking(i, Exists(i) /\ \E k \in {1, 2} : ShotIn(k, i) # None))
  /\ UNCHANGED <<rows, shots, counter, writer, pending, history, crashes>>

LookAgain(w) ==
  /\ op[w].at = "look"
  /\ Become(w, Idle)
  /\ UNCHANGED <<rows, shots, counter, writer, pending, history, crashes>>

\* The process stops: open transactions are rolled back, files stay.
Crash ==
  /\ crashes < MaxCrashes
  /\ crashes' = crashes + 1
  /\ op' = [w \in Workers |-> Idle]
  /\ writer' = None
  /\ UNCHANGED <<rows, shots, counter, pending, history>>

Call(w) ==
  \/ SaveBegin(w) \/ UpdateBegin(w) \/ LinkBegin(w) \/ DeleteBegin(w)
  \/ ArchiveBegin(w) \/ BulkCloseBegin(w) \/ BulkArchiveBegin(w) \/ Look(w)

Step(w) ==
  \/ SavePng(w) \/ SaveCommit(w) \/ SaveFail(w) \/ SaveCleanup(w)
  \/ UpdateCommit(w) \/ LinkCommit(w)
  \/ DeleteCommit(w) \/ UnlinkLive(w) \/ UnlinkArch(w) \/ UnlinkStored(w)
  \/ ArchiveCommit(w) \/ BulkCloseCommit(w) \/ Move(w)
  \/ Rollback(w) \/ LookAgain(w)

Next == /\ (\E w \in Workers : Call(w) \/ Step(w)) \/ Crash
        /\ UNCHANGED idSource

Spec == Init /\ [][Next]_vars

-----------------------------------------------------------------------------
TypeOK ==
  /\ idSource \in IdSources
  /\ rows \in [Ids -> Row \cup {NoRow}]
  /\ live \in [Ids -> Submissions \cup {None}]
  /\ arch \in [Ids -> Submissions \cup {None}]
  /\ counter \in Nat
  /\ writer \in Workers \cup {None}
  /\ op \in [Workers -> Op]
  /\ pending \subseteq Submissions
  /\ acked \in [Ids -> Submissions \cup {None}]
  /\ issued \subseteq Ids
  /\ crashes \in Nat

\* A report whose save returned has its row and its screenshot, with the
\* content submitted, until its deletion commits: "The DB insert and
\* screenshot write share one transaction" (save_report).
AckedKept == \A i \in Ids : acked[i] # None =>
  /\ rows[i].tag = acked[i]
  /\ acked[i] \in {live[i], arch[i]}

\* It is so on PostgreSQL.  On SQLite the clean-up of a failed save may remove
\* the screenshot of the save that was given its id.
KeptWithSequence == idSource = "sequence" => AckedKept

\* The calls that have still to bring the files of report i in line.
Busy(i) == \E w \in Workers :
  /\ op[w].id = i
  /\ op[w].at \in {"savePng", "saveCommit", "cleanup",
                   "unlinkLive", "unlinkArch", "unlinkStored"}

\* No screenshot on disk belongs to another submission than the row of its
\* id, although an id that was rolled back is given out again.
ShotBelongsToRow == \A i \in Ids : Exists(i) =>
  {live[i], arch[i]} \subseteq {rows[i].tag, None}

\* No screenshot outlives its report: a file without a row is about to be
\* unlinked.
NoOrphans == \A i \in Ids :
  live[i] # None \/ arch[i] # None => Exists(i) \/ Busy(i)

\* The screenshot of an archived report ends up in the archive directory,
\* and only there.
ArchivedShotMoved == \A i \in Ids :
  /\ live[i] = None \/ arch[i] = None
  /\ Exists(i) /\ rows[i].archived /\ live[i] # None
       => \E w \in Workers : op[w].at = "move" /\ i \in op[w].todo

\* Files follow rows, whatever archives, bulk archives, deletes and failed
\* saves overlap, as long as the process does not stop.
FilesFollowRows ==
  crashes = 0 => ShotBelongsToRow /\ NoOrphans /\ ArchivedShotMoved

\* An id that was handed out is never handed out again, also after its report
\* was deleted and the process restarted.
NoIdReuse == \A w \in Workers :
  op[w].at \in {"savePng", "saveCommit"} => op[w].id \notin issued

\* A lookup that began when the report had a screenshot finds it unless the
\* report is deleted: it looks in the order in which archival moves the file.
ScreenshotFound == \A w \in Workers :
  op[w].at = "look" /\ op[w].had => ShotIn(2, op[w].id) # None

\* The files are right, and found.
FilesSound == FilesFollowRows /\ ScreenshotFound

-----------------------------------------------------------------------------
\* The contract of bug_fab/storage/base.py: a report exists from commit to
\* commit.  Overlapping archivals may both archive it, hence LooseSpec.
Stored(i) ==
  IF ~Exists(i) THEN NoRow
  ELSE [tag |-> rows[i].tag, status |-> rows[i].status,
        life |-> Len(rows[i].log), link |-> rows[i].link,
        archived |-> rows[i].archived]

Contract == INSTANCE ReportStore WITH reports <- [i \in Ids |-> Stored(i)]

ImplementsContract == Contract!LooseSpec
=============================================================================
