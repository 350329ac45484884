--------------------------- MODULE DjangoStorage ---------------------------
(***************************************************************************)
(* bug_fab/adapters/django/storage.py: DjangoORMStorage on PostgreSQL, in   *)
(* its default isolation level (read committed).                            *)
(*                                                                         *)
(* Each worker runs one call at a time.  A transaction locks the rows it    *)
(* selects for update until it ends and writes at its commit.  A report's   *)
(* screenshot is a file that FileField creates under a name no file has;    *)
(* the file system takes no part in the transaction.                        *)
(*                                                                         *)
(* The id of a new report is one more than that of the row with the latest  *)
(* received_at, and received_at is read before the transaction begins.      *)
(***************************************************************************)
EXTENDS Naturals, Sequences, FiniteSets

CONSTANTS Ids,          \* the numbers ids are formatted from (a bound: the code has all)
          Submissions,  \* distinct submitted payloads, each submitted once
          Links,        \* GitHub issues a report may be linked to
          None,         \* "absent"
          Workers,      \* threads and processes that serve requests
          Updates,      \* the statuses viewers set
          MaxClock      \* bound on the clock (model only)

ASSUME DjangoStorageAssumption ==
  /\ Ids \subseteq Nat \ {0} /\ 1 \in Ids
  /\ None \notin Nat \cup Links \cup Submissions \cup Workers
  /\ Updates \subseteq {"open", "investigating", "fixed", "closed"}
  /\ MaxClock \in Nat

Status == {"open", "investigating", "fixed", "closed"}

VARIABLES
  rows,        \* the committed bug reports with their lifecycle entries
  disk,        \* the screenshot files, by name
  lock,        \* which worker's transaction locks a row, or inserts its key
  op,          \* what each worker is doing
  clock,       \* the time, which passes when a call reads it first
  pending,     \* submissions not yet made
  acked,       \* history: the submission whose save returned this id
  ackedUpdates,\* history: status updates of the report that were committed
  overlapped,  \* history: a save began before an earlier one had ended
  raced        \* history: an update was committed while a bulk call ran

history == <<acked, ackedUpdates, overlapped, raced>>
vars == <<rows, disk, lock, op, clock, pending, history>>

-----------------------------------------------------------------------------
\* bug-N.png, or bug-N_<suffix>.png with a suffix of the save's own when a
\* file of the first name is there.
Names == Ids \X (Submissions \cup {None})

\* BugReport.  An entry of the log is an action, or the status it set, with
\* its time.
Entry == [what : Status \cup {"created", "archived"}, at : Nat]
Row == [tag : Submissions, at : Nat, status : Status, link : Links \cup {None},
        archived : BOOLEAN, shot : Names, log : Seq(Entry)]
NoRow == [tag |-> None]
Exists(i) == rows[i] # NoRow

SaveLabels == {"saveSelect", "saveWait", "saveFile", "saveUpdate",
               "saveInsert", "saveCommit"}
BulkLabels == {"closeCall", "archiveCall", "bulkClose", "bulkArchive"}
TxLabels == {"updateCall", "update", "link", "delete"} \cup BulkLabels

\* The rows a SELECT found, each with the time it is ordered by.
Result == [Ids -> Nat \cup {None}]
NoResult == [i \in Ids |-> None]

\* What a worker is doing: the submission being saved, the time the call
\* began, what its SELECT found, the report, the file, the value to write and the
\* rows of a bulk call.
Op == [at : {"idle", "unlink", "refetch"} \cup SaveLabels \cup TxLabels,
       tag : Submissions \cup {None}, stamp : Nat, found : Result,
       id : Ids \cup {None}, name : Names \cup {None},
       val : Status \cup Links \cup {None}, todo : SUBSET Ids]

Idle == [at |-> "idle", tag |-> None, stamp |-> 0, found |-> NoResult,
         id |-> None, name |-> None, val |-> None, todo |-> {}]

Refetching(i) == [Idle EXCEPT !.at = "refetch", !.id = i]

Become(w, o) == op' = [op EXCEPT ![w] = o]

Init ==
  /\ rows = [i \in Ids |-> NoRow]
  /\ disk = [n \in Names |-> None]
  /\ lock = [i \in Ids |-> None]
  /\ op = [w \in Workers |-> Idle]
  /\ clock = 0
  /\ pending = Submissions
  /\ acked = [i \in Ids |-> None]
  /\ ackedUpdates = [i \in Ids |-> 0]
  /\ overlapped = FALSE /\ raced = FALSE

Free(S) == \A i \in S : lock[i] = None
Lock(w, S) == lock' = [i \in Ids |-> IF i \in S THEN w ELSE lock[i]]

\* A call that reads the time.
Call(w, o) ==
  /\ clock < MaxClock /\ clock' = clock + 1
  /\ Become(w, [o EXCEPT !.stamp = clock + 1])

\* The log as the detail shows it: ordered by time, then by insertion.
Logged(log, what, at) ==
  LET n == Cardinality({k \in DOMAIN log : log[k].at <= at})
  IN SubSeq(log, 1, n) \o <<[what |-> what, at |-> at]>>
       \o SubSeq(log, n + 1, Len(log))

\* The end of a transaction.
Unlock(w) == lock' = [i \in Ids |-> IF lock[i] = w THEN None ELSE lock[i]]

-----------------------------------------------------------------------------
\* save_report.

\* The time is read, then the transaction begins.
SaveStart(w) ==
  /\ op[w].at = "idle"
  /\ \E s \in pending :
       /\ pending' = pending \ {s}
       /\ Call(w, [Idle EXCEPT !.at = "saveSelect", !.tag = s])
  /\ overlapped' = (overlapped \/ \E v \in Workers : op[v].at \in SaveLabels)
  /\ UNCHANGED <<rows, disk, lock, acked, ackedUpdates, raced>>

\* The rows committed when the statement starts.
Found == [i \in Ids |-> IF Exists(i) THEN rows[i].at ELSE None]

\* Variant for mutation: the order is ascending.
Earliest(q) == {i \in Ids : q[i] # None /\ \A j \in Ids : q[j] # None => q[i] <= q[j]}

\* ORDER BY received_at DESC and .first(): a set of at most one row (the times
\* differ, so the second key never decides).
First(q) == {i \in Ids : q[i] # None /\ \A j \in Ids : q[j] # None => q[j] <= q[i]}

\* Variant for mutation: the first id is 0.
NextFromZero(q) == IF First(q) = {} THEN 0 ELSE (CHOOSE i \in First(q) : TRUE) + 1

\* _next_int_after, of the row that was locked.
NextIntAfter(q) == IF First(q) = {} THEN 1 ELSE (CHOOSE i \in First(q) : TRUE) + 1

\* Bound: there is a number for the next id.
Room(q) == \A i \in First(q) : i + 1 \in Ids

\* The first row of the order is locked.
Locked(w, q) ==
  /\ Room(q)
  /\ Become(w, [op[w] EXCEPT !.at = "saveFile", !.id = NextIntAfter(q),
                             !.found = NoResult])
  /\ Lock(w, First(q))

\* select_for_update().order_by("-received_at", "-id").first(): without a row
\* nothing is locked; a locked row is waited for.
SaveSelect(w) ==
  /\ op[w].at = "saveSelect"
  /\ IF Free(First(Found)) THEN Locked(w, Found)
     ELSE /\ Become(w, [op[w] EXCEPT !.at = "saveWait", !.found = Found])
          /\ UNCHANGED lock
  /\ UNCHANGED <<rows, disk, clock, pending, history>>

\* The row waited for is free: it is locked as it is now, and whatever was
\* committed in the meantime is not looked at.
SaveSelectWaited(w) ==
  /\ op[w].at = "saveWait" /\ Free(First(op[w].found))
  /\ Locked(w, op[w].found)
  /\ UNCHANGED <<rows, disk, clock, pending, history>>

\* Variant for mutation: the file is written over.
SameName(i, s) == <<i, None>>

\* FileSystemStorage creates the file exclusively, under another name if need be.
AvailableName(i, s) ==
  IF disk[<<i, None>>] = None THEN <<i, None>> ELSE <<i, s>>

\* report.screenshot.save(..., save=False).
SaveFile(w) ==
  LET n == AvailableName(op[w].id, op[w].tag) IN
  /\ op[w].at = "saveFile"
  /\ disk' = [disk EXCEPT ![n] = op[w].tag]
  /\ Become(w, [op[w] EXCEPT !.at = "saveUpdate", !.name = n])
  /\ UNCHANGED <<rows, lock, clock, pending, history>>

\* report.save() of an instance with a primary key: first an UPDATE, which
\* waits for a row that is locked, ...
SaveUpdate(w) ==
  LET i == op[w].id IN
  /\ op[w].at = "saveUpdate"
  /\ IF Exists(i)
     THEN /\ Free({i}) /\ Lock(w, {i})
          /\ Become(w, [op[w] EXCEPT !.at = "saveCommit"])
     ELSE /\ Become(w, [op[w] EXCEPT !.at = "saveInsert"])
          /\ UNCHANGED lock
  /\ UNCHANGED <<rows, disk, clock, pending, history>>

\* ... and an INSERT if there was no row.  It waits for another transaction
\* that inserts the key, and fails if the row is there by now.
SaveInsert(w) ==
  LET i == op[w].id IN
  /\ op[w].at = "saveInsert" /\ Free({i})
  /\ IF Exists(i)
     THEN Become(w, Idle) /\ Unlock(w)
     ELSE Become(w, [op[w] EXCEPT !.at = "saveCommit"]) /\ Lock(w, {i})
  /\ UNCHANGED <<rows, disk, clock, pending, history>>

\* Every column is written, and a "created" entry goes to the log.
SaveCommit(w) ==
  LET o == op[w]
      log == IF Exists(o.id) THEN rows[o.id].log ELSE <<>>
  IN
  /\ o.at = "saveCommit"
  /\ rows' = [rows EXCEPT ![o.id] =
       [tag |-> o.tag, at |-> o.stamp, status |-> "open", link |-> None,
        archived |-> FALSE, shot |-> o.name, log |-> Logged(log, "created", o.stamp)]]
  /\ acked' = [acked EXCEPT ![o.id] = IF @ = None THEN o.tag ELSE @]
  /\ Become(w, Idle) /\ Unlock(w)
  /\ UNCHANGED <<disk, clock, pending, ackedUpdates, overlapped, raced>>

-----------------------------------------------------------------------------
\* update_status, set_github_link and delete_report select the row for update.

PickRow(w, i, label, v) ==
  /\ Exists(i) /\ Free({i}) /\ Lock(w, {i})
  /\ Become(w, [Idle EXCEPT !.at = label, !.id = i, !.val = v])

UpdateCall(w) ==
  /\ op[w].at = "idle"
  /\ \E i \in Ids, st \in Updates :
       /\ Exists(i)
       /\ Call(w, [Idle EXCEPT !.at = "updateCall", !.id = i, !.val = st])
  /\ UNCHANGED <<rows, disk, lock, pending, history>>

\* A row that is gone by now is "not found".
UpdateBegin(w) ==
  LET i == op[w].id IN
  /\ op[w].at = "updateCall"
  /\ IF Exists(i)
     THEN Free({i}) /\ Lock(w, {i}) /\ Become(w, [op[w] EXCEPT !.at = "update"])
     ELSE Become(w, Idle) /\ UNCHANGED lock
  /\ UNCHANGED <<rows, disk, clock, pending, history>>

\* Variant for mutation: the time the call began.
TimeOfCall(w) == op[w].stamp

\* dj_timezone.now() when the entry is made.
TimeOfEntry(w) == clock

\* save(update_fields=["status"]) and the lifecycle entry.
UpdateCommit(w) ==
  LET i == op[w].id IN
  /\ op[w].at = "update"
  /\ rows' = [rows EXCEPT ![i].status = op[w].val,
                          ![i].log = Logged(@, op[w].val, TimeOfEntry(w))]
  /\ ackedUpdates' = [ackedUpdates EXCEPT ![i] = @ + 1]
  /\ raced' = (raced \/ \E v \in Workers : op[v].at \in BulkLabels)
  /\ Become(w, Refetching(i)) /\ Unlock(w)
  /\ UNCHANGED <<disk, clock, pending, acked, overlapped>>

LinkBegin(w) ==
  /\ op[w].at = "idle"
  /\ \E i \in Ids, l \in Links : PickRow(w, i, "link", l)
  /\ UNCHANGED <<rows, disk, clock, pending, history>>

LinkCommit(w) ==
  /\ op[w].at = "link"
  /\ rows' = [rows EXCEPT ![op[w].id].link = op[w].val]
  /\ Become(w, Refetching(op[w].id)) /\ Unlock(w)
  /\ UNCHANGED <<disk, clock, pending, history>>

\* With its transaction over and the row unlocked, either call reads the row
\* again for its answer: a row deleted meanwhile raises DoesNotExist, and one
\* made anew under the id is returned.  What was committed stays.
Refetch(w) ==
  /\ op[w].at = "refetch"
  /\ Become(w, Idle)
  /\ UNCHANGED <<rows, disk, lock, clock, pending, history>>

DeleteBegin(w) ==
  /\ op[w].at = "idle"
  /\ \E i \in Ids : PickRow(w, i, "delete", None)
  /\ UNCHANGED <<rows, disk, clock, pending, history>>

\* A save that waits for the row goes on to the next one it found.  The path
\* of the file is the one the row had.
DeleteCommit(w) ==
  LET i == op[w].id
      other(v) == [op[v] EXCEPT !.found[i] = None]
  IN
  /\ op[w].at = "delete"
  /\ rows' = [rows EXCEPT ![i] = NoRow]
  /\ acked' = [acked EXCEPT ![i] = None]
  /\ ackedUpdates' = [ackedUpdates EXCEPT ![i] = 0]
  /\ op' = [v \in Workers |-> IF v = w
              THEN [Idle EXCEPT !.at = "unlink", !.name = rows[i].shot]
              ELSE other(v)]
  /\ Unlock(w)
  /\ UNCHANGED <<disk, clock, pending, overlapped, raced>>

\* After the commit; a file that is not there is no error.
Unlink(w) ==
  /\ op[w].at = "unlink"
  /\ disk' = [disk EXCEPT ![op[w].name] = None]
  /\ Become(w, Idle)
  /\ UNCHANGED <<rows, lock, clock, pending, history>>

-----------------------------------------------------------------------------
\* bulk_close_fixed and bulk_archive_closed lock the rows they select.

FixedRows == {i \in Ids : Exists(i) /\ rows[i].status = "fixed"}
ClosedRows ==
  {i \in Ids : Exists(i) /\ rows[i].status = "closed" /\ ~rows[i].archived}

\* The time is read before the transaction begins.
BulkCall(w) ==
  /\ op[w].at = "idle"
  /\ \E label \in {"closeCall", "archiveCall"} :
       Call(w, [Idle EXCEPT !.at = label])
  /\ UNCHANGED <<rows, disk, lock, pending, history>>

\* The rows selected are locked; without any the call is over.
BulkSelect(w, S, label) ==
  /\ Free(S) /\ Lock(w, S)
  /\ Become(w, IF S = {} THEN Idle ELSE [op[w] EXCEPT !.at = label, !.todo = S])

BulkBegin(w) ==
  /\ \/ op[w].at = "closeCall" /\ BulkSelect(w, FixedRows, "bulkClose")
     \/ op[w].at = "archiveCall" /\ BulkSelect(w, ClosedRows, "bulkArchive")
  /\ UNCHANGED <<rows, disk, clock, pending, history>>

BulkCloseCommit(w) ==
  LET S == op[w].todo IN
  /\ op[w].at = "bulkClose"
  /\ rows' = [i \in Ids |-> IF i \in S
       THEN [rows[i] EXCEPT !.status = "closed",
                            !.log = Logged(@, "closed", op[w].stamp)]
       ELSE rows[i]]
  /\ ackedUpdates' = [i \in Ids |->
       IF i \in S THEN ackedUpdates[i] + 1 ELSE ackedUpdates[i]]
  /\ Become(w, Idle) /\ Unlock(w)
  /\ UNCHANGED <<disk, clock, pending, acked, overlapped, raced>>

BulkArchiveCommit(w) ==
  LET S == op[w].todo IN
  /\ op[w].at = "bulkArchive"
  /\ rows' = [i \in Ids |-> IF i \in S
       THEN [rows[i] EXCEPT !.archived = TRUE,
                            !.log = Logged(@, "archived", op[w].stamp)]
       ELSE rows[i]]
  /\ Become(w, Idle) /\ Unlock(w)
  /\ UNCHANGED <<disk, clock, pending, history>>

\* An exception, a deadlock the database broke, or the end of the process:
\* the transaction leaves nothing, the files stay as they are.
Abort(w) ==
  /\ op[w].at # "idle"
  /\ Become(w, Idle) /\ Unlock(w)
  /\ UNCHANGED <<rows, disk, clock, pending, history>>

Save(w) ==
  \/ SaveStart(w) \/ SaveSelect(w) \/ SaveSelectWaited(w) \/ SaveFile(w)
  \/ SaveUpdate(w) \/ SaveInsert(w) \/ SaveCommit(w)

Change(w) ==
  \/ UpdateCall(w) \/ UpdateBegin(w) \/ UpdateCommit(w)
  \/ LinkBegin(w) \/ LinkCommit(w) \/ Refetch(w)
  \/ DeleteBegin(w) \/ DeleteCommit(w) \/ Unlink(w)
  \/ BulkCall(w) \/ BulkBegin(w) \/ BulkCloseCommit(w) \/ BulkArchiveCommit(w)

Next == \E w \in Workers : Save(w) \/ Change(w) \/ Abort(w)

Spec == Init /\ [][Next]_vars

-----------------------------------------------------------------------------
TypeOK ==
  /\ rows \in [Ids -> Row \cup {NoRow}]
  /\ disk \in [Names -> Submissions \cup {None}]
  /\ lock \in [Ids -> Workers \cup {None}]
  /\ op \in [Workers -> Op]
  /\ clock \in Nat
  /\ pending \subseteq Submissions
  /\ acked \in [Ids -> Submissions \cup {None}]
  /\ ackedUpdates \in [Ids -> Nat]
  /\ overlapped \in BOOLEAN /\ raced \in BOOLEAN

\* The screenshot of every report is there and is its own, also when the id
\* was used before: by a report whose file is still to be unlinked, by a save
\* that was rolled back, or by one that is overwritten.
ScreenshotIsOwn == \A i \in Ids : Exists(i) => disk[rows[i].shot] = rows[i].tag

\* The log has an entry for every update that was committed, however updates and
\* bulk calls overlap.  As shown, ordered by time, it ends with the status of
\* the report, unless saves overlapped or an update overlapped a bulk call.
AuditTrail == \A i \in Ids : Exists(i) =>
  LET log == rows[i].log
      set == {k \in DOMAIN log : log[k].what # "archived"}
      last == log[CHOOSE k \in set : \A j \in set : j <= k].what
  IN /\ Len(log) >= 1 + ackedUpdates[i]
     /\ ~overlapped /\ ~raced =>
          rows[i].status = IF last = "created" THEN "open" ELSE last

\* "select_for_update on the highest-existing-row keeps the next-id
\* allocation safe under multi-worker concurrency" (save_report): a report
\* whose save returned its id is the report of that id until it is deleted.
AckedKept == \A i \in Ids : acked[i] # None => rows[i].tag = acked[i]

-----------------------------------------------------------------------------
Stored(i) ==
  IF ~Exists(i) THEN NoRow
  ELSE [tag |-> rows[i].tag, status |-> rows[i].status,
        life |-> Len(rows[i].log), link |-> rows[i].link,
        archived |-> rows[i].archived]

stored == [i \in Ids |-> Stored(i)]

Contract == INSTANCE ReportStore WITH reports <- stored

\* As long as no save begins while another runs, every step is one the
\* contract of the storage backends allows, whatever else overlaps.
ContractInTurn == [][~overlapped => [Contract!Next]_stored]_vars
=============================================================================
