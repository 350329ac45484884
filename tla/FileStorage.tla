---------------------------- MODULE FileStorage ----------------------------
(***************************************************************************)
(* bug_fab/storage/files.py: reports as JSON and PNG files in a directory,  *)
(* an archive directory beside it, and index.json, a denormalised listing   *)
(* that is kept in step with the files by hand.                             *)
(*                                                                         *)
(* Every call but get_screenshot_path runs under the instance's             *)
(* asyncio.Lock.  A worker is a thread of one process that serves requests  *)
(* (Flask's run_sync: one event loop per request); with a single worker the *)
(* model is the single event loop of FastAPI.  Each write to the disk is a  *)
(* step of its own, so the process may stop between any two of them; each   *)
(* single write is atomic (tmp + os.replace, rename, unlink).               *)
(***************************************************************************)
EXTENDS Naturals

CONSTANTS Ids,          \* the numbers ids are formatted from (bug-001 is 1)
          Submissions,  \* distinct submitted payloads, each submitted once
          Links,        \* GitHub issues a report may be linked to
          None,         \* "absent"
          Workers,      \* the threads that serve requests
          Updates,      \* the statuses viewers set
          IndexFaults,  \* what may befall index.json: "lost", "older"
          MaxLife,      \* bound on a lifecycle log (model only)
          MaxCrashes,   \* bound on crashes and failed writes (model only)
          MaxFaults,    \* bound on faults of index.json (model only)
          MaxCopied     \* bound on the counter of an index of which a copy
                        \* is kept (model only)

ASSUME FileStorageAssumption ==
  /\ Ids \subseteq Nat \ {0}
  /\ None \notin Links
  /\ None \notin Submissions
  /\ None \notin Workers
  /\ Updates \subseteq {"open", "investigating", "fixed", "closed"}
  /\ IndexFaults \subseteq {"lost", "older"}
  /\ MaxLife \in Nat /\ MaxCrashes \in Nat /\ MaxFaults \in Nat /\ MaxCopied \in Nat

Status == {"open", "investigating", "fixed", "closed"}

VARIABLES
  live, arch,        \* <storage_dir>/bug-N.json and archive/bug-N.json
  livePng, archPng,  \* <storage_dir>/bug-N.png and archive/bug-N.png
  index,             \* index.json
  backup,            \* a copy of index.json that somebody may put back
  holder,            \* the worker that holds self._lock
  op,                \* what each worker is doing
  pending,           \* submissions not yet made
  acked,             \* history: the submission whose save returned this id
  ackedUpdates,      \* history: status updates of the id that returned
  issued,            \* history: every id some save returned
  crashes, faults    \* model bounds

disk == <<live, arch, livePng, archPng>>
history == <<acked, ackedUpdates, issued>>
vars == <<disk, index, holder, op, pending, history, crashes, faults, backup>>

-----------------------------------------------------------------------------
\* The data on disk.

Report == [tag : Submissions, status : Status, life : Nat,
           link : Links \cup {None}]
NoReport == [tag |-> None]

\* The fields of an index row that change after it was made.
Row == [id : Ids, status : Status, link : Links \cup {None}]

Index == [present : BOOLEAN, next : Nat, rows : SUBSET Row]

\* _build_report: born open, with the "created" lifecycle event.
BuildReport(s) == [tag |-> s, status |-> "open", life |-> 1, link |-> None]

\* Variant for mutation: two fields swapped.
EntryMixedUp(i, r) == [id |-> i, status |-> r.link, link |-> r.status]

\* _build_index_entry.
BuildIndexEntry(i, r) == [id |-> i, status |-> r.status, link |-> r.link]

\* _candidate_paths: a file that may belong to report i exists.
AnyFile(i) == \/ live[i] # NoReport \/ livePng[i] # None
              \/ arch[i] # NoReport \/ archPng[i] # None

\* _read_report: live first, then the archive.
ReadReport(i) == IF live[i] # NoReport THEN live[i] ELSE arch[i]

\* The least and the greatest number of a set, as a set of at most one number.
First(S) == {i \in S : \A j \in S : i <= j}
Last(S) == {i \in S : \A j \in S : j <= i}

\* _rebuild_index_from_disk: only JSON files are scanned, and archived ones
\* count for the next number alone.
RebuiltNext ==
  LET last == Last({i \in Ids : live[i] # NoReport \/ arch[i] # NoReport})
  IN  IF last = {} THEN 1 ELSE 1 + (CHOOSE i \in last : TRUE)

RebuiltRows ==
  {BuildIndexEntry(i, live[i]) : i \in {j \in Ids : live[j] # NoReport}}

RebuildIndex == [present |-> TRUE, next |-> RebuiltNext, rows |-> RebuiltRows]

\* _read_index.
ReadIndex == IF index.present THEN index ELSE RebuildIndex

\* Variants for mutation: the counter alone, live files alone, files alone.
FreeByCounter(idx) == {i \in Ids : i >= idx.next}
FreeOfLiveFiles(idx) ==
  {i \in Ids : i >= idx.next /\ live[i] = NoReport /\ livePng[i] = None}
FreeOfFiles(idx) == {i \in Ids : ~AnyFile(i)}

\* _next_id: the numbers it may stop at; it stops at the least of them.
FreeIds(idx) == {i \in Ids : i >= idx.next /\ ~AnyFile(i)}

DropRow(idx, i) == [idx EXCEPT !.rows = {r \in @ : r.id # i}]

\* The one field that is passed: the status, or the link.
UpdateRow(r, rep, status) ==
  IF status THEN [r EXCEPT !.status = rep.status] ELSE [r EXCEPT !.link = rep.link]

\* Variant for mutation: the row is left alone.
RowLeftAlone(idx, i, rep, status) == idx

\* _update_index_entry; where no row has the id nothing is written into one.
UpdateIndexEntry(idx, i, rep, status) ==
  [idx EXCEPT !.rows = {IF r.id = i THEN UpdateRow(r, rep, status) ELSE r : r \in @}]

\* The ids bulk_close_fixed and bulk_archive_closed start from.
ListedAs(st) == {r.id : r \in {q \in ReadIndex.rows : q.status = st}}

-----------------------------------------------------------------------------
\* Workers and the lock.

Labels == {"idle", "savePng", "saveJson", "saveIndex", "writeReport",
           "updateIndex", "unlink", "archive", "closing", "lookSecond"}

\* One shape for every call: the report it is about, the report value and the
\* index it holds in memory, the ids a bulk call has left, and, for a
\* screenshot lookup, whether the screenshot has been there all along.
Op == [at : Labels, id : Ids \cup {None}, new : Report \cup {NoReport},
       idx : Index, todo : SUBSET Ids, status : BOOLEAN, had : BOOLEAN]

NoIndex == [present |-> FALSE, next |-> 1, rows |-> {}]

Doing(label, i, todo) ==
  [at |-> label, id |-> i, new |-> NoReport, idx |-> NoIndex, todo |-> todo,
   status |-> FALSE, had |-> FALSE]

Idle == Doing("idle", None, {})

Saving(i, rep, idx) ==
  [at |-> "savePng", id |-> i, new |-> rep, idx |-> idx, todo |-> {},
   status |-> FALSE, had |-> FALSE]

Updating(i, rep, status, todo) ==
  [at |-> "writeReport", id |-> i, new |-> rep, idx |-> NoIndex,
   todo |-> todo, status |-> status, had |-> FALSE]

\* A bulk close with the ids it has left.
Closing(todo) == IF todo = {} THEN Idle ELSE Doing("closing", None, todo)

Looking(i, had) ==
  [at |-> "lookSecond", id |-> i, new |-> NoReport, idx |-> NoIndex,
   todo |-> {}, status |-> FALSE, had |-> had]

Become(w, o) == op' = [op EXCEPT ![w] = o]
Goto(w, label) == op' = [op EXCEPT ![w].at = label]

\* Variant for mutation: no lock is taken.
NoLock == TRUE

Free == holder = None

Init ==
  /\ live = [i \in Ids |-> NoReport] /\ arch = [i \in Ids |-> NoReport]
  /\ livePng = [i \in Ids |-> None] /\ archPng = [i \in Ids |-> None]
  /\ index = NoIndex /\ backup = NoIndex
  /\ holder = None
  /\ op = [w \in Workers |-> Idle]
  /\ pending = Submissions
  /\ acked = [i \in Ids |-> None]
  /\ ackedUpdates = [i \in Ids |-> 0]
  /\ issued = {}
  /\ crashes = 0 /\ faults = 0

-----------------------------------------------------------------------------
\* save_report.

SaveBegin(w) ==
  /\ op[w].at = "idle" /\ Free
  /\ \E s \in pending, i \in First(FreeIds(ReadIndex)) :
       /\ pending' = pending \ {s}
       /\ Become(w, Saving(i, BuildReport(s), [ReadIndex EXCEPT !.next = i]))
  /\ holder' = w
  /\ UNCHANGED <<disk, index, history, crashes, faults, backup>>

SavePng(w) ==
  /\ op[w].at = "savePng"
  /\ livePng' = [livePng EXCEPT ![op[w].id] = op[w].new.tag]
  /\ Goto(w, "saveJson")
  /\ UNCHANGED <<live, arch, archPng, index, holder, pending, history,
                 crashes, faults, backup>>

\* Variant for mutation: always the live path.
WriteLive(i, rep) == live' = [live EXCEPT ![i] = rep] /\ UNCHANGED arch

\* _write_report: the live path unless only the archived file exists.
WriteReport(i, rep) ==
  IF live[i] = NoReport /\ arch[i] # NoReport
  THEN arch' = [arch EXCEPT ![i] = rep] /\ UNCHANGED live
  ELSE live' = [live EXCEPT ![i] = rep] /\ UNCHANGED arch

SaveJson(w) ==
  /\ op[w].at = "saveJson"
  /\ WriteReport(op[w].id, op[w].new)
  /\ Goto(w, "saveIndex")
  /\ UNCHANGED <<livePng, archPng, index, holder, pending, history,
                 crashes, faults, backup>>

\* The row is appended, the number advanced, and the call returns the id.
SaveIndex(w) ==
  /\ op[w].at = "saveIndex"
  /\ LET i == op[w].id
         idx == op[w].idx
     IN
       /\ index' = [present |-> TRUE, next |-> idx.next + 1,
                    rows |-> idx.rows \cup {BuildIndexEntry(i, op[w].new)}]
       /\ acked' = [acked EXCEPT ![i] = op[w].new.tag]
       /\ ackedUpdates' = [ackedUpdates EXCEPT ![i] = 0]
       /\ issued' = issued \cup {i}
  /\ Become(w, Idle)
  /\ holder' = None
  /\ UNCHANGED <<disk, pending, crashes, faults, backup>>

-----------------------------------------------------------------------------
\* update_status and set_github_link: read, change, write, fix the row.

\* The report as update_status leaves it.
WithStatus(rep, st) ==
  [tag |-> rep.tag, status |-> st, life |-> rep.life + 1, link |-> rep.link]

UpdateBegin(w) ==
  /\ op[w].at = "idle" /\ Free
  /\ \E i \in Ids, st \in Updates :
       /\ ReadReport(i) # NoReport
       /\ ReadReport(i).life < MaxLife
       /\ Become(w, Updating(i, WithStatus(ReadReport(i), st), TRUE, {}))
  /\ holder' = w
  /\ UNCHANGED <<disk, index, pending, history, crashes, faults, backup>>

LinkBegin(w) ==
  /\ op[w].at = "idle" /\ Free
  /\ \E i \in Ids, l \in Links :
       /\ ReadReport(i) # NoReport
       /\ Become(w, Updating(i, [ReadReport(i) EXCEPT !.link = l], FALSE, {}))
  /\ holder' = w
  /\ UNCHANGED <<disk, index, pending, history, crashes, faults, backup>>

UpdateReport(w) ==
  /\ op[w].at = "writeReport"
  /\ WriteReport(op[w].id, op[w].new)
  /\ Goto(w, "updateIndex")
  /\ UNCHANGED <<livePng, archPng, index, holder, pending, history,
                 crashes, faults, backup>>

\* The call returns; a bulk close goes on to its next report.
UpdateIndex(w) ==
  /\ op[w].at = "updateIndex"
  /\ index' = UpdateIndexEntry(ReadIndex, op[w].id, op[w].new, op[w].status)
  /\ ackedUpdates' = IF op[w].status
                     THEN [ackedUpdates EXCEPT ![op[w].id] = @ + 1]
                     ELSE ackedUpdates
  /\ Become(w, Closing(op[w].todo))
  /\ holder' = None
  /\ UNCHANGED <<disk, pending, acked, issued, crashes, faults, backup>>

\* bulk_close_fixed: the ids are listed under the lock, which is released;
\* then every one of them is closed by an update_status call of its own.
BulkCloseBegin(w) ==
  /\ op[w].at = "idle" /\ Free
  /\ ListedAs("fixed") # {}
  /\ Become(w, Closing(ListedAs("fixed")))
  /\ UNCHANGED <<disk, index, holder, pending, history, crashes, faults, backup>>

CloseNext(w) ==
  /\ op[w].at = "closing" /\ Free
  /\ \E i \in First(op[w].todo) :
       LET rest == op[w].todo \ {i} IN
       IF ReadReport(i) # NoReport
       THEN /\ Become(w, Updating(i, WithStatus(ReadReport(i), "closed"),
                                  TRUE, rest))
            /\ holder' = w
       ELSE /\ Become(w, Closing(rest))
            /\ UNCHANGED holder
  /\ UNCHANGED <<disk, index, pending, history, crashes, faults, backup>>

-----------------------------------------------------------------------------
\* delete_report: the candidate paths are unlinked in order, then the row
\* goes.  From the first step on nobody may expect to find the report.

DeleteBegin(w) ==
  /\ op[w].at = "idle" /\ Free
  /\ \E i \in Ids :
       /\ AnyFile(i)
       /\ Become(w, Doing("unlink", i, {}))
       /\ acked' = [acked EXCEPT ![i] = None]
  /\ holder' = w
  /\ UNCHANGED <<disk, index, pending, ackedUpdates, issued, crashes, faults, backup>>

\* One unlink: the first candidate path that exists.
UnlinkFirst(i) ==
  \/ /\ live[i] # NoReport
     /\ live' = [live EXCEPT ![i] = NoReport]
     /\ UNCHANGED <<livePng, arch, archPng>>
  \/ /\ live[i] = NoReport /\ livePng[i] # None
     /\ livePng' = [livePng EXCEPT ![i] = None]
     /\ UNCHANGED <<live, arch, archPng>>
  \/ /\ live[i] = NoReport /\ livePng[i] = None /\ arch[i] # NoReport
     /\ arch' = [arch EXCEPT ![i] = NoReport]
     /\ UNCHANGED <<live, livePng, archPng>>
  \/ /\ live[i] = NoReport /\ livePng[i] = None /\ arch[i] = NoReport
     /\ archPng[i] # None
     /\ archPng' = [archPng EXCEPT ![i] = None]
     /\ UNCHANGED <<live, livePng, arch>>

\* A screenshot lookup under way may now rightly come back empty.
Unlink(w) ==
  /\ op[w].at = "unlink" /\ AnyFile(op[w].id)
  /\ UnlinkFirst(op[w].id)
  /\ op' = [v \in Workers |->
              IF op[v].at = "lookSecond" /\ op[v].id = op[w].id
              THEN Looking(op[w].id, FALSE) ELSE op[v]]
  /\ UNCHANGED <<index, holder, pending, history, crashes, faults, backup>>

DeleteIndex(w) ==
  /\ op[w].at = "unlink" /\ ~AnyFile(op[w].id)
  /\ index' = DropRow(ReadIndex, op[w].id)
  /\ Become(w, Idle)
  /\ holder' = None
  /\ UNCHANGED <<disk, pending, history, crashes, faults, backup>>

-----------------------------------------------------------------------------
\* archive_report and bulk_archive_closed: _archive_one moves the JSON, then
\* the PNG, then drops the row.

HasLiveFile(i) == live[i] # NoReport \/ livePng[i] # None

ArchiveBegin(w) ==
  /\ op[w].at = "idle" /\ Free
  /\ \E i \in Ids :
       /\ HasLiveFile(i)
       /\ Become(w, Doing("archive", i, {}))
  /\ holder' = w
  /\ UNCHANGED <<disk, index, pending, history, crashes, faults, backup>>

\* Go on with the first of the reports a bulk call has left.
ArchiveFirst(w, todo) ==
  \E i \in First(todo) :
    Become(w, Doing("archive", i, todo \ {i}))

\* The closed reports of the listing; those without a live file are skipped.
BulkArchiveBegin(w) ==
  /\ op[w].at = "idle" /\ Free
  /\ ArchiveFirst(w, {i \in ListedAs("closed") : HasLiveFile(i)})
  /\ holder' = w
  /\ UNCHANGED <<disk, index, pending, history, crashes, faults, backup>>

ArchiveJson(w) ==
  LET i == op[w].id IN
  /\ op[w].at = "archive" /\ live[i] # NoReport
  /\ arch' = [arch EXCEPT ![i] = live[i]]
  /\ live' = [live EXCEPT ![i] = NoReport]
  /\ UNCHANGED <<livePng, archPng, index, holder, op, pending, history,
                 crashes, faults, backup>>

ArchivePng(w) ==
  LET i == op[w].id IN
  /\ op[w].at = "archive" /\ live[i] = NoReport /\ livePng[i] # None
  /\ archPng' = [archPng EXCEPT ![i] = livePng[i]]
  /\ livePng' = [livePng EXCEPT ![i] = None]
  /\ UNCHANGED <<live, arch, index, holder, op, pending, history,
                 crashes, faults, backup>>

\* Still under the lock, a bulk call goes on to the next report.
ArchiveIndex(w) ==
  LET todo == op[w].todo IN
  /\ op[w].at = "archive" /\ ~HasLiveFile(op[w].id)
  /\ index' = DropRow(ReadIndex, op[w].id)
  /\ \/ todo = {} /\ Become(w, Idle) /\ holder' = None
     \/ ArchiveFirst(w, todo) /\ UNCHANGED holder
  /\ UNCHANGED <<disk, pending, history, crashes, faults, backup>>

-----------------------------------------------------------------------------
\* get_screenshot_path takes no lock: it looks for the live file and, when
\* there is none, for the archived one.

\* Variant for mutation: the archive is looked at first.
ShotInArchiveFirst(k, i) == IF k = 1 THEN archPng[i] ELSE livePng[i]

ShotIn(k, i) == IF k = 1 THEN livePng[i] ELSE archPng[i]

LookFirst(w) ==
  /\ op[w].at = "idle"
  /\ \E i \in Ids :
       /\ ShotIn(1, i) = None
       /\ Become(w, Looking(i, \E k \in {1, 2} : ShotIn(k, i) # None))
  /\ UNCHANGED <<disk, index, holder, pending, history, crashes, faults, backup>>

LookSecond(w) ==
  /\ op[w].at = "lookSecond"
  /\ Become(w, Idle)
  /\ UNCHANGED <<disk, index, holder, pending, history, crashes, faults, backup>>

-----------------------------------------------------------------------------
\* A write raises: "async with" releases the lock and the call ends there.
Fail(w) ==
  /\ holder = w /\ crashes < MaxCrashes
  /\ crashes' = crashes + 1
  /\ Become(w, Idle)
  /\ holder' = None
  /\ UNCHANGED <<disk, index, pending, history, faults, backup>>

\* The process stops: files stay, every call and the lock are gone.
Crash ==
  /\ crashes < MaxCrashes
  /\ crashes' = crashes + 1
  /\ op' = [w \in Workers |-> Idle]
  /\ holder' = None
  /\ UNCHANGED <<disk, index, pending, history, faults, backup>>

\* Somebody keeps a copy of index.json, one at a time.
Backup ==
  /\ "older" \in IndexFaults /\ faults < MaxFaults
  /\ index.present /\ index.next <= MaxCopied
  /\ ~backup.present
  /\ backup' = index
  /\ UNCHANGED <<disk, index, holder, op, pending, history, crashes, faults>>

\* Between calls index.json disappears or is truncated (_read_index rebuilds
\* it then), or the copy is put back, the drift _next_id speaks of.
IndexFault ==
  /\ faults < MaxFaults /\ Free /\ index.present
  /\ faults' = faults + 1
  /\ backup' = NoIndex
  /\ \/ "lost" \in IndexFaults /\ index' = NoIndex
     \/ backup.present /\ index' = backup
  /\ UNCHANGED <<disk, holder, op, pending, history, crashes>>

Step(w) ==
  \/ SavePng(w) \/ SaveJson(w) \/ SaveIndex(w)
  \/ UpdateReport(w) \/ UpdateIndex(w) \/ CloseNext(w)
  \/ Unlink(w) \/ DeleteIndex(w)
  \/ ArchiveJson(w) \/ ArchivePng(w) \/ ArchiveIndex(w)
  \/ LookSecond(w) \/ Fail(w)

Call(w) ==
  \/ SaveBegin(w) \/ UpdateBegin(w) \/ LinkBegin(w) \/ BulkCloseBegin(w)
  \/ DeleteBegin(w) \/ ArchiveBegin(w) \/ BulkArchiveBegin(w) \/ LookFirst(w)

Next == (\E w \in Workers : Call(w) \/ Step(w)) \/ Crash \/ Backup \/ IndexFault

Spec == Init /\ [][Next]_vars

-----------------------------------------------------------------------------
TypeOK ==
  /\ live \in [Ids -> Report \cup {NoReport}]
  /\ arch \in [Ids -> Report \cup {NoReport}]
  /\ livePng \in [Ids -> Submissions \cup {None}]
  /\ archPng \in [Ids -> Submissions \cup {None}]
  /\ index \in Index /\ backup \in Index
  /\ holder \in Workers \cup {None}
  /\ op \in [Workers -> Op]
  /\ pending \subseteq Submissions
  /\ acked \in [Ids -> Submissions \cup {None}]
  /\ ackedUpdates \in [Ids -> Nat]
  /\ issued \subseteq Ids
  /\ crashes \in Nat /\ faults \in Nat

\* Whatever order calls, crashes and index faults come in, the files of one id
\* all come from one submission: no save takes over an id whose JSON or
\* screenshot is still somewhere on disk (_next_id's promise).
OneSubmissionPerId == \A i \in Ids : \E s \in Submissions \cup {None} :
  /\ live[i].tag \in {s, None} /\ livePng[i] \in {s, None}
  /\ arch[i].tag \in {s, None} /\ archPng[i] \in {s, None}

\* A report is never live and archived at once, so _read_report's preference
\* for the live file never hides a newer one, and no archival overwrites an
\* archived report.
OnePlace == \A i \in Ids :
  /\ live[i] = NoReport \/ arch[i] = NoReport
  /\ livePng[i] = None \/ archPng[i] = None

\* A report whose save returned stays readable, JSON and screenshot, with the
\* content submitted, until somebody begins to delete it: through archival,
\* bulk calls, crashes between any two writes and faults of the index.
AckedKept == \A i \in Ids : acked[i] # None =>
  /\ ReadReport(i).tag = acked[i]
  /\ acked[i] \in {livePng[i], archPng[i]}

\* The lifecycle log of a report has an entry for its creation and for every
\* status update that returned: no update works on a report read before
\* another one wrote it.
NoLostUpdate == \A i \in Ids : acked[i] # None =>
  /\ ReadReport(i) # NoReport
  /\ ReadReport(i).life >= 1 + ackedUpdates[i]

\* An acknowledged live report is listed even after a crash or a failed write,
\* as long as the index is intact: archival and deletion touch the files before
\* the row.
AckedListed == faults = 0 => \A i \in Ids :
  acked[i] # None /\ live[i] # NoReport => \E r \in ReadIndex.rows : r.id = i

\* The listing has one row per report.
OneRowPerReport == \A r, q \in ReadIndex.rows : r.id = q.id => r = q

\* Before any crash or fault the listing is exact whenever no call is under
\* way: one row for every live report, with its status and link.
ListingExact == crashes = 0 /\ faults = 0 /\ Free =>
  /\ \A r \in ReadIndex.rows :
       live[r.id] # NoReport /\ r = BuildIndexEntry(r.id, live[r.id])
  /\ \A i \in Ids :
       live[i] # NoReport => BuildIndexEntry(i, live[i]) \in ReadIndex.rows

\* What GET /reports lists is what there is.
ListingRight == OneRowPerReport /\ ListingExact /\ AckedListed

\* get_screenshot_path takes no lock, yet it finds a screenshot that was there
\* when it was called and is not being deleted: it looks in the order in
\* which archival moves the file.
ScreenshotFound == \A w \in Workers :
  op[w].at = "lookSecond" /\ op[w].had => ShotIn(2, op[w].id) # None

\* An id that was handed out is never handed out again, so a link to a report
\* never comes to show another one: the counter of index.json only grows,
\* unless the index is lost.
NoIdReuse == faults = 0 => \A w \in Workers :
  op[w].at \in {"savePng", "saveJson", "saveIndex"} => op[w].id \notin issued

-----------------------------------------------------------------------------
\* The contract of bug_fab/storage/base.py: a report exists from the moment
\* its JSON is written to the moment the JSON is unlinked, and it is archived
\* when the JSON is moved; screenshot and index do not matter for that.
Stored(i) ==
  LET rep == ReadReport(i) IN
  IF rep = NoReport THEN NoReport
  ELSE [tag |-> rep.tag, status |-> rep.status, life |-> rep.life,
        link |-> rep.link, archived |-> live[i] = NoReport]

Contract == INSTANCE ReportStore WITH reports <- [i \in Ids |-> Stored(i)]

\* FileStorage implements the contract, also when the process stops between
\* two writes and when the index is lost.
ImplementsContract == Contract!Spec

=============================================================================
