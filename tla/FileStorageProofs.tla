------------------------- MODULE FileStorageProofs -------------------------
(***************************************************************************)
(* Proofs about FileStorage for any number of threads, ids, submissions,    *)
(* crashes and index faults: types, who holds what, what an archived and a  *)
(* deleted report may become; the storage contract, no update lost and no   *)
(* id handed out twice; and what GET /reports lists is what there is.       *)
(***************************************************************************)
EXTENDS FileStorage, WellFoundedInduction, TLAPS

USE DEF Status

\* The types of all but the copy of the index, which no call reads.
Typed ==
  /\ live \in [Ids -> Report \cup {NoReport}]
  /\ arch \in [Ids -> Report \cup {NoReport}]
  /\ livePng \in [Ids -> Submissions \cup {None}]
  /\ archPng \in [Ids -> Submissions \cup {None}]
  /\ index \in Index
  /\ holder \in Workers \cup {None}
  /\ op \in [Workers -> Op]
  /\ pending \subseteq Submissions
  /\ acked \in [Ids -> Submissions \cup {None}]
  /\ ackedUpdates \in [Ids -> Nat]
  /\ issued \subseteq Ids
  /\ crashes \in Nat /\ faults \in Nat

\* The labels at which a thread holds the lock.
Locked == {"savePng", "saveJson", "saveIndex", "writeReport", "updateIndex",
           "unlink", "archive"}

Writing == {"savePng", "saveJson", "saveIndex", "writeReport", "updateIndex"}

\* A thread between two writes is the holder of the lock, and knows its report.
LockInv == \A w \in Workers :
  /\ op[w].at \in Locked => holder = w /\ op[w].id \in Ids
  /\ op[w].at = "lookSecond" => op[w].id \in Ids
  /\ op[w].at \in Writing => op[w].new \in Report

\* What a save has put on disk so far; the id had no file when it was chosen.
SaveInv == \A w \in Workers : LET i == op[w].id IN
  /\ op[w].at \in {"savePng", "saveJson", "saveIndex"} =>
       arch[i] = NoReport /\ archPng[i] = None
  /\ op[w].at \in {"savePng", "saveJson"} => live[i] = NoReport
  /\ op[w].at = "savePng" => livePng[i] = None
  /\ op[w].at \in {"saveJson", "saveIndex"} => livePng[i] = op[w].new.tag
  /\ op[w].at = "saveIndex" => live[i] = op[w].new

\* An update rewrites the report it read, which is still there.
UpdateInv == \A w \in Workers : op[w].at = "writeReport" =>
  /\ ReadReport(op[w].id) # NoReport
  /\ op[w].new.tag = ReadReport(op[w].id).tag

\* Nobody expects to find a report that is being deleted.
DeleteInv == \A w \in Workers : op[w].at = "unlink" => acked[op[w].id] = None

IInv == /\ Typed /\ LockInv /\ SaveInv /\ UpdateInv /\ DeleteInv
        /\ OneSubmissionPerId /\ OnePlace /\ AckedKept /\ ScreenshotFound

-----------------------------------------------------------------------------
\* A report is never the marker of an absent one.
LEMMA ReportIsNotAbsent ==
  ASSUME NEW r \in Report PROVE r # NoReport
BY FileStorageAssumption, SMT DEF Report, NoReport

\* What _read_index returns, read or rebuilt, is an index.
LEMMA IndexTyped ==
  ASSUME Typed PROVE ReadIndex \in Index
<1>1. CASE index.present
  BY <1>1, SMT DEF Typed, ReadIndex
<1>2. CASE ~index.present
  <2>1. \A i \in Ids : live[i] # NoReport => BuildIndexEntry(i, live[i]) \in Row
    BY SMT DEF Typed, BuildIndexEntry, Row, Report
  <2>2. RebuiltRows \in SUBSET Row
    BY <2>1, SMT DEF RebuiltRows
  <2>3. RebuiltNext \in Nat
    <3> DEFINE last == Last({i \in Ids : live[i] # NoReport \/ arch[i] # NoReport})
    <3>1. \A i \in last : i \in Nat
      BY FileStorageAssumption, SMT DEF Last
    <3>2. last # {} => (CHOOSE i \in last : TRUE) \in last
      OBVIOUS
    <3> HIDE DEF last
    <3>3. (IF last = {} THEN 1 ELSE 1 + (CHOOSE i \in last : TRUE)) \in Nat
      BY <3>1, <3>2
    <3>4. QED
      BY <3>3, Zenon DEF RebuiltNext, last
  <2>4. QED
    BY <1>2, <2>2, <2>3, SMT DEF ReadIndex, RebuildIndex, Index
<1>3. QED
  BY <1>1, <1>2

\* An empty directory satisfies the invariant.
LEMMA InitIInv == Init => IInv
<1> SUFFICES ASSUME Init PROVE IInv
  OBVIOUS
<1> USE FileStorageAssumption
<1>1. Typed
  BY SMT DEF Init, Typed, NoIndex, Index, Idle, Doing, Op, NoReport, Labels
<1>2. \A w \in Workers : op[w].at = "idle"
  BY SMT DEF Init, Idle, Doing
<1>3. LockInv /\ SaveInv /\ UpdateInv /\ DeleteInv /\ ScreenshotFound
  BY <1>2, SMT DEF LockInv, SaveInv, UpdateInv, DeleteInv, ScreenshotFound,
     Locked, Writing
<1>4. OneSubmissionPerId
  <2> SUFFICES ASSUME NEW i \in Ids
               PROVE  \E s \in Submissions \cup {None} :
                        /\ live[i].tag \in {s, None} /\ livePng[i] \in {s, None}
                        /\ arch[i].tag \in {s, None} /\ archPng[i] \in {s, None}
    BY Zenon DEF OneSubmissionPerId
  <2> WITNESS None \in Submissions \cup {None}
  <2> QED
    BY SMT DEF Init, NoReport
<1>5. OnePlace /\ AckedKept
  BY SMT DEF Init, OnePlace, AckedKept, NoReport
<1>6. QED
  BY <1>1, <1>3, <1>4, <1>5, Zenon DEF IInv

-----------------------------------------------------------------------------
\* A step that changes what one thread does and leaves the files alone keeps
\* the invariant when the thread's new state is one the invariant allows.
LEMMA OpStep ==
  ASSUME IInv, NEW w \in Workers, NEW o \in Op, Become(w, o), UNCHANGED disk,
         index' \in Index, pending' \subseteq Submissions, issued' = issued,
         ackedUpdates' \in [Ids -> Nat], crashes' \in Nat, faults' \in Nat,
         holder' \in Workers \cup {None},
         holder' = holder \/ holder \in {w, None},
         o.at \in Locked => holder' = w /\ o.id \in Ids,
         o.at = "lookSecond" => /\ o.id \in Ids
                                /\ o.had => ShotIn(2, o.id) # None,
         o.at \in Writing => o.new \in Report,
         o.at = "savePng" => ~AnyFile(o.id),
         o.at \notin {"saveJson", "saveIndex"},
         o.at = "writeReport" => /\ ReadReport(o.id) # NoReport
                                 /\ o.new.tag = ReadReport(o.id).tag,
         acked' \in [Ids -> Submissions \cup {None}],
         \A i \in Ids : acked'[i] \in {acked[i], None},
         o.at = "unlink" => acked'[o.id] = None
  PROVE  IInv'
<1> USE FileStorageAssumption
<1>1. op' \in [Workers -> Op] /\ op'[w] = o
      /\ \A v \in Workers \ {w} : op'[v] = op[v]
  BY SMT DEF IInv, Typed, Become
<1>2. \A v \in Workers \ {w} : op[v].at \in Locked => holder' = v
  BY SMT DEF IInv, LockInv
<1>4. Typed'
  BY <1>1, SMT DEF IInv, Typed, disk
<1>5. LockInv'
  BY <1>1, <1>2, SMT DEF IInv, LockInv
<1>6. SaveInv'
  BY <1>1, SMT DEF IInv, SaveInv, AnyFile, disk
<1>7. UpdateInv'
  BY <1>1, SMT DEF IInv, UpdateInv, ReadReport, disk
<1>8. DeleteInv'
  <2> SUFFICES ASSUME NEW v \in Workers, op'[v].at = "unlink"
               PROVE  acked'[op'[v].id] = None
    BY DEF DeleteInv
  <2>1. CASE v = w
    BY <1>1, <2>1
  <2>2. CASE v # w
    <3>1. op[v].at = "unlink" /\ op'[v].id = op[v].id
      BY <1>1, <2>2
    <3>2. op[v].id \in Ids /\ acked[op[v].id] = None
      BY <3>1, SMT DEF IInv, LockInv, DeleteInv, Locked
    <3>3. QED
      BY <3>1, <3>2
  <2>3. QED
    BY <2>1, <2>2
<1>9. OneSubmissionPerId' /\ OnePlace'
  BY Zenon DEF IInv, OneSubmissionPerId, OnePlace, disk
<1>10. AckedKept'
  BY SMT DEF IInv, AckedKept, ReadReport, disk
<1>11. ScreenshotFound'
  BY <1>1, SMT DEF IInv, ScreenshotFound, ShotIn, disk
<1>12. QED
  BY <1>4, <1>5, <1>6, <1>7, <1>8, <1>9, <1>10, <1>11, Zenon DEF IInv

-----------------------------------------------------------------------------
\* The calls that only begin, or only end, an operation.
LEMMA OpsTyped ==
  ASSUME NEW i \in Ids, NEW rep \in Report, NEW idx \in Index,
         NEW todo \in SUBSET Ids, NEW b \in BOOLEAN
  PROVE  /\ Idle \in Op
         /\ Saving(i, rep, idx) \in Op
         /\ Updating(i, rep, b, todo) \in Op
         /\ Closing(todo) \in Op
         /\ Closing(todo).at \in {"idle", "closing"}
         /\ Looking(i, b) \in Op
         /\ Doing("unlink", i, {}) \in Op
         /\ Doing("archive", i, todo) \in Op
BY SMT DEF Op, Labels, Index, Idle, Doing, Saving, Updating, Closing, Looking,
   NoIndex

\* save_report, up to the choice of a free id.
LEMMA SaveBeginKeeps ==
  ASSUME IInv, NEW w \in Workers, SaveBegin(w) PROVE IInv'
<1> USE FileStorageAssumption
<1> DEFINE o(s, i) == Saving(i, BuildReport(s), [ReadIndex EXCEPT !.next = i])
<1>1. PICK s \in pending, i \in First(FreeIds(ReadIndex)) :
        pending' = pending \ {s} /\ Become(w, o(s, i))
  BY Zenon DEF SaveBegin
<1>2. s \in Submissions /\ i \in Ids /\ i \in Nat /\ ~AnyFile(i)
  BY SMT DEF IInv, Typed, First, FreeIds
<1>3. ReadIndex \in Index
  BY IndexTyped, Zenon DEF IInv
<1>4. BuildReport(s) \in Report
  BY <1>2, SMT DEF BuildReport, Report
<1>5. [ReadIndex EXCEPT !.next = i] \in Index
  BY <1>2, <1>3, SMT DEF Index
<1>6. o(s, i) \in Op
  BY <1>2, <1>4, <1>5, OpsTyped
<1>7. /\ o(s, i).at = "savePng" /\ o(s, i).id = i /\ o(s, i).new \in Report
  BY <1>4, SMT DEF Saving
<1> HIDE DEF o
<1>8. QED
  BY <1>1, <1>2, <1>6, <1>7, OpStep, SMT DEF SaveBegin, IInv, Typed, history,
     Free, Locked, Writing

\* delete_report, up to its first unlink.
LEMMA DeleteBeginKeeps ==
  ASSUME IInv, NEW w \in Workers, DeleteBegin(w) PROVE IInv'
<1> USE FileStorageAssumption
<1> DEFINE o(i) == Doing("unlink", i, {})
<1>1. PICK i \in Ids :
        Become(w, o(i)) /\ acked' = [acked EXCEPT ![i] = None]
  BY Zenon DEF DeleteBegin
<1>2. o(i) \in Op /\ o(i).at = "unlink" /\ o(i).id = i
  BY SMT DEF Op, Labels, Doing, NoIndex, Index
<1> HIDE DEF o
<1>3. /\ acked' \in [Ids -> Submissions \cup {None}]
      /\ \A j \in Ids : acked'[j] \in {acked[j], None}
      /\ acked'[o(i).id] = None
  BY <1>1, <1>2, SMT DEF IInv, Typed
<1>4. /\ UNCHANGED <<disk, index, pending, ackedUpdates, issued, crashes, faults>>
      /\ holder = None /\ holder' = w
  BY DEF DeleteBegin, Free
<1>5. QED
  BY <1>1, <1>2, <1>3, <1>4, OpStep, SMT DEF IInv, Typed, Locked, Writing

\* The read-only lookup.
LEMMA LookKeeps ==
  ASSUME IInv, NEW w \in Workers, LookFirst(w) \/ LookSecond(w) PROVE IInv'
<1> USE FileStorageAssumption
<1>1. CASE LookFirst(w)
  <2> DEFINE o(i) == Looking(i, \E k \in {1, 2} : ShotIn(k, i) # None)
  <2>1. PICK i \in Ids : ShotIn(1, i) = None /\ Become(w, o(i))
    BY <1>1, Zenon DEF LookFirst
  <2>2. o(i) \in Op /\ o(i).at = "lookSecond" /\ o(i).id = i
    BY SMT DEF Op, Labels, Looking, NoIndex, Index
  <2>3. o(i).had => ShotIn(2, o(i).id) # None
    BY <2>1, SMT DEF Looking
  <2>4. UNCHANGED <<disk, index, holder, pending, history, crashes, faults>>
    BY <1>1 DEF LookFirst
  <2>5. op[w].at = "idle"
    BY <1>1 DEF LookFirst
  <2> HIDE DEF o
  <2>6. QED
    BY <2>1, <2>2, <2>3, <2>4, OpStep, SMT DEF history, IInv, Typed, Locked,
       Writing
<1>2. CASE LookSecond(w)
  <2>1. Idle \in Op /\ Idle.at = "idle"
    BY SMT DEF Op, Labels, Idle, Doing, NoIndex, Index
  <2>2. Become(w, Idle)
        /\ UNCHANGED <<disk, index, holder, pending, history, crashes, faults>>
    BY <1>2 DEF LookSecond
  <2>3. QED
    BY <2>1, <2>2, OpStep, SMT DEF history, IInv, Typed, Locked, Writing
<1>3. QED
  BY <1>1, <1>2

\* update_status and set_github_link, up to the write.
LEMMA UpdateBeginKeeps ==
  ASSUME IInv, NEW w \in Workers, UpdateBegin(w) \/ LinkBegin(w) PROVE IInv'
<1> USE FileStorageAssumption
<1>1. PICK i \in Ids, rep \in Report, b \in BOOLEAN :
        /\ ReadReport(i) # NoReport /\ rep.tag = ReadReport(i).tag
        /\ Become(w, Updating(i, rep, b, {}))
  <2>1. \A i \in Ids : ReadReport(i) # NoReport => ReadReport(i) \in Report
    BY SMT DEF IInv, Typed, ReadReport
  <2>2. CASE UpdateBegin(w)
    <3>1. PICK i \in Ids, st \in Updates :
            /\ ReadReport(i) # NoReport
            /\ Become(w, Updating(i, WithStatus(ReadReport(i), st), TRUE, {}))
      BY <2>2, Zenon DEF UpdateBegin
    <3>2. /\ WithStatus(ReadReport(i), st) \in Report
          /\ WithStatus(ReadReport(i), st).tag = ReadReport(i).tag
      BY <2>1, <3>1, SMT DEF WithStatus, Report
    <3>3. QED
      BY <3>1, <3>2, Zenon
  <2>3. CASE LinkBegin(w)
    <3>1. PICK i \in Ids, l \in Links :
            /\ ReadReport(i) # NoReport
            /\ Become(w, Updating(i, [ReadReport(i) EXCEPT !.link = l], FALSE, {}))
      BY <2>3, Zenon DEF LinkBegin
    <3>2. /\ [ReadReport(i) EXCEPT !.link = l] \in Report
          /\ [ReadReport(i) EXCEPT !.link = l].tag = ReadReport(i).tag
      BY <2>1, <3>1, SMT DEF Report
    <3>3. QED
      BY <3>1, <3>2, Zenon
  <2>4. QED
    BY <2>2, <2>3
<1>2. /\ Updating(i, rep, b, {}) \in Op
      /\ Updating(i, rep, b, {}).at = "writeReport"
      /\ Updating(i, rep, b, {}).id = i /\ Updating(i, rep, b, {}).new = rep
  BY SMT DEF Op, Labels, Updating, NoIndex, Index
<1>3. /\ UNCHANGED <<disk, index, pending, history, crashes, faults>>
      /\ holder = None /\ holder' = w
  BY DEF UpdateBegin, LinkBegin, Free
<1>4. QED
  BY <1>1, <1>2, <1>3, OpStep, SMT DEF history, IInv, Typed, Locked, Writing

\* The listing names ids only, and so do the ids a bulk call has left.
LEMMA ListedTyped == ASSUME IInv, NEW st PROVE ListedAs(st) \subseteq Ids
<1>1. ReadIndex \in Index
  BY IndexTyped, Zenon DEF IInv
<1>2. QED
  BY <1>1, SMT DEF ListedAs, Index, Row

\* What begins or goes on from a set of ids: a thread that is closing.
LEMMA ClosingTyped ==
  ASSUME NEW todo \in SUBSET Ids
  PROVE  Closing(todo) \in Op /\ Closing(todo).at \in {"idle", "closing"}
BY SMT DEF Op, Labels, Closing, Idle, Doing, NoIndex, Index

\* bulk_close_fixed: the listing.
LEMMA BulkCloseBeginKeeps ==
  ASSUME IInv, NEW w \in Workers, BulkCloseBegin(w) PROVE IInv'
<1> USE FileStorageAssumption
<1> DEFINE o == Closing(ListedAs("fixed"))
<1>1. o \in Op /\ o.at \in {"idle", "closing"}
  BY ListedTyped, ClosingTyped
<1>2. /\ Become(w, o)
      /\ UNCHANGED <<disk, index, holder, pending, history, crashes, faults>>
  BY DEF BulkCloseBegin
<1> HIDE DEF o
<1>3. QED
  BY <1>1, <1>2, OpStep, SMT DEF history, IInv, Typed, Locked, Writing

\* bulk_close_fixed: one of its updates begins, or is skipped.
LEMMA CloseNextKeeps ==
  ASSUME IInv, NEW w \in Workers, CloseNext(w) PROVE IInv'
<1> USE FileStorageAssumption
<1>1. PICK i \in First(op[w].todo) :
        \/ /\ ReadReport(i) # NoReport
           /\ Become(w, Updating(i, WithStatus(ReadReport(i), "closed"), TRUE,
                                 op[w].todo \ {i}))
           /\ holder' = w
        \/ Become(w, Closing(op[w].todo \ {i})) /\ holder' = holder
  BY Zenon DEF CloseNext
<1>2. op[w].todo \in SUBSET Ids /\ i \in Ids
  BY <1>1, SMT DEF IInv, Typed, Op, First
<1>3. /\ UNCHANGED <<disk, index, pending, history, crashes, faults>>
      /\ holder = None
  BY DEF CloseNext, Free
<1>4. CASE /\ ReadReport(i) # NoReport
           /\ Become(w, Updating(i, WithStatus(ReadReport(i), "closed"), TRUE,
                                 op[w].todo \ {i}))
           /\ holder' = w
  <2> DEFINE rep == WithStatus(ReadReport(i), "closed")
             o == Updating(i, rep, TRUE, op[w].todo \ {i})
  <2>1. ReadReport(i) \in Report
    <3>1. ReadReport(i) # NoReport
      BY <1>4
    <3>2. live \in [Ids -> Report \cup {NoReport}]
          /\ arch \in [Ids -> Report \cup {NoReport}]
      BY Zenon DEF IInv, Typed
    <3>3. live[i] \in Report \cup {NoReport} /\ arch[i] \in Report \cup {NoReport}
      BY <1>2, <3>2, Zenon
    <3>4. QED
      BY <3>1, <3>3, Zenon DEF ReadReport
  <2>2. rep \in Report /\ rep.tag = ReadReport(i).tag
    BY <2>1, SMT DEF WithStatus, Report
  <2> HIDE DEF rep
  <2>3. o \in Op /\ o.at = "writeReport" /\ o.id = i /\ o.new = rep
    BY <1>2, <2>2, SMT DEF Op, Labels, Updating, NoIndex, Index
  <2>4. Become(w, o)
    BY <1>4 DEF rep
  <2> HIDE DEF o
  <2>5. QED
    BY <1>2, <1>3, <1>4, <2>2, <2>3, <2>4, OpStep,
       SMT DEF history, IInv, Typed, Locked, Writing
<1>5. CASE Become(w, Closing(op[w].todo \ {i})) /\ holder' = holder
  <2> DEFINE o == Closing(op[w].todo \ {i})
  <2>1. o \in Op /\ o.at \in {"idle", "closing"}
    BY <1>2, ClosingTyped
  <2> HIDE DEF o
  <2>2. Become(w, o)
    BY <1>5 DEF o
  <2>3. QED
    BY <1>3, <1>5, <2>1, <2>2, OpStep,
       SMT DEF history, IInv, Typed, Locked, Writing
<1>6. QED
  BY <1>1, <1>4, <1>5

\* archive_report and bulk_archive_closed, up to the first move.
LEMMA ArchiveBeginKeeps ==
  ASSUME IInv, NEW w \in Workers, ArchiveBegin(w) \/ BulkArchiveBegin(w)
  PROVE  IInv'
<1> USE FileStorageAssumption
<1>1. PICK i \in Ids, todo \in SUBSET Ids : Become(w, Doing("archive", i, todo))
  <2>1. CASE ArchiveBegin(w)
    <3>1. {} \in SUBSET Ids
      OBVIOUS
    <3>2. QED
      BY <2>1, <3>1, Zenon DEF ArchiveBegin
  <2>2. CASE BulkArchiveBegin(w)
    <3> DEFINE T == {i \in ListedAs("closed") : HasLiveFile(i)}
    <3>1. T \subseteq Ids
      BY ListedTyped
    <3>2. PICK i \in First(T) : Become(w, Doing("archive", i, T \ {i}))
      BY <2>2, Zenon DEF BulkArchiveBegin, ArchiveFirst
    <3>3. i \in Ids /\ T \ {i} \in SUBSET Ids
      BY <3>1, <3>2, SMT DEF First
    <3>4. QED
      BY <3>2, <3>3
  <2>3. QED
    BY <2>1, <2>2
<1> DEFINE o == Doing("archive", i, todo)
<1>2. o \in Op /\ o.at = "archive" /\ o.id = i
  BY SMT DEF Op, Labels, Doing, NoIndex, Index
<1>3. /\ UNCHANGED <<disk, index, pending, history, crashes, faults>>
      /\ holder = None /\ holder' = w
  BY DEF ArchiveBegin, BulkArchiveBegin, Free
<1>4. Become(w, o)
  BY <1>1
<1> HIDE DEF o
<1>5. QED
  BY <1>2, <1>3, <1>4, OpStep, SMT DEF history, IInv, Typed, Locked, Writing

\* The last write of a call: only the index and the caller's state change.
LEMMA ArchiveIndexKeeps ==
  ASSUME IInv, NEW w \in Workers, ArchiveIndex(w) PROVE IInv'
<1> USE FileStorageAssumption
<1>1. index' \in Index
  <2>1. ReadIndex \in Index
    BY IndexTyped, Zenon DEF IInv
  <2>2. QED
    BY <2>1, SMT DEF ArchiveIndex, DropRow, Index
<1>2. UNCHANGED <<disk, pending, history, crashes, faults>>
  BY DEF ArchiveIndex
<1>3. holder = w /\ op[w].todo \in SUBSET Ids
  BY SMT DEF ArchiveIndex, IInv, LockInv, Locked, Typed, Op
<1>4. CASE Become(w, Idle) /\ holder' = None
  <2>1. Idle \in Op /\ Idle.at = "idle"
    BY SMT DEF Op, Labels, Idle, Doing, NoIndex, Index
  <2>2. QED
    BY <1>1, <1>2, <1>3, <1>4, <2>1, OpStep,
       SMT DEF history, IInv, Typed, Locked, Writing
<1>5. CASE ArchiveFirst(w, op[w].todo) /\ holder' = holder
  <2>1. PICK i \in First(op[w].todo) :
          Become(w, Doing("archive", i, op[w].todo \ {i}))
    BY <1>5, Zenon DEF ArchiveFirst
  <2> DEFINE o == Doing("archive", i, op[w].todo \ {i})
  <2>2. i \in Ids
    BY <1>3, <2>1, SMT DEF First
  <2>3. o \in Op /\ o.at = "archive" /\ o.id = i
    BY <1>3, <2>2, SMT DEF Op, Labels, Doing, NoIndex, Index
  <2>4. Become(w, o)
    BY <2>1
  <2> HIDE DEF o
  <2>5. QED
    BY <1>1, <1>2, <1>3, <1>5, <2>2, <2>3, <2>4, OpStep,
       SMT DEF history, IInv, Typed, Locked, Writing
<1>6. QED
  BY <1>4, <1>5 DEF ArchiveIndex

\* delete_report: the row is dropped.
LEMMA DeleteIndexKeeps ==
  ASSUME IInv, NEW w \in Workers, DeleteIndex(w) PROVE IInv'
<1> USE FileStorageAssumption
<1>1. index' \in Index
  <2>1. ReadIndex \in Index
    BY IndexTyped, Zenon DEF IInv
  <2>2. QED
    BY <2>1, SMT DEF DeleteIndex, DropRow, Index
<1>2. Idle \in Op /\ Idle.at = "idle"
  BY SMT DEF Op, Labels, Idle, Doing, NoIndex, Index
<1>3. /\ UNCHANGED <<disk, pending, history, crashes, faults>>
      /\ holder' = None /\ Become(w, Idle) /\ op[w].at = "unlink"
  BY DEF DeleteIndex
<1>4. holder = w
  BY <1>3, SMT DEF IInv, LockInv, Locked
<1>5. QED
  BY <1>1, <1>2, <1>3, <1>4, OpStep,
     SMT DEF history, IInv, Typed, Locked, Writing

\* A failed write: the call ends, the files stay as they are.
LEMMA FailKeeps ==
  ASSUME IInv, NEW w \in Workers, Fail(w) PROVE IInv'
<1> USE FileStorageAssumption
<1>1. Idle \in Op /\ Idle.at = "idle"
  BY SMT DEF Op, Labels, Idle, Doing, NoIndex, Index
<1>2. /\ UNCHANGED <<disk, index, pending, history, faults>>
      /\ crashes' = crashes + 1 /\ holder = w /\ holder' = None
      /\ Become(w, Idle)
  BY DEF Fail
<1>3. QED
  BY <1>1, <1>2, OpStep, SMT DEF history, IInv, Typed, Locked, Writing

\* _update_index_entry writes one field of a row and leaves its id alone.
LEMMA RowUpdated ==
  ASSUME NEW r \in Row, NEW rep \in Report, NEW status
  PROVE  UpdateRow(r, rep, status) \in Row /\ UpdateRow(r, rep, status).id = r.id
<1>1. CASE status
  BY <1>1, SMT DEF UpdateRow, Row, Report
<1>2. CASE ~status
  BY <1>2, SMT DEF UpdateRow, Row, Report
<1>3. QED
  BY <1>1, <1>2

\* update_status and set_github_link: the row is brought up to date.
LEMMA UpdateIndexKeeps ==
  ASSUME IInv, NEW w \in Workers, UpdateIndex(w) PROVE IInv'
<1> USE FileStorageAssumption
<1>1. /\ UNCHANGED <<disk, pending, acked, issued, crashes, faults>>
      /\ holder' = None /\ Become(w, Closing(op[w].todo))
      /\ op[w].at = "updateIndex"
  BY DEF UpdateIndex
<1>2. holder = w /\ op[w].id \in Ids /\ op[w].new \in Report
  BY <1>1, SMT DEF IInv, LockInv, Locked, Writing
<1>3. index' \in Index
  <2>1. ReadIndex \in Index
    BY IndexTyped, Zenon DEF IInv
  <2>2. \A r \in Row : UpdateRow(r, op[w].new, op[w].status) \in Row
    BY <1>2, RowUpdated
  <2>3. QED
    BY <1>2, <2>1, <2>2, SMT DEF UpdateIndex, UpdateIndexEntry, Index
<1>4. ackedUpdates' \in [Ids -> Nat]
  <2>1. ackedUpdates \in [Ids -> Nat]
    BY DEF IInv, Typed
  <2>2. \/ ackedUpdates' = [ackedUpdates EXCEPT ![op[w].id] = @ + 1]
        \/ ackedUpdates' = ackedUpdates
    BY DEF UpdateIndex
  <2>3. QED
    BY <1>2, <2>1, <2>2, SMT
<1>5. op[w].todo \in SUBSET Ids
  BY SMT DEF IInv, Typed, Op
<1> DEFINE o == Closing(op[w].todo)
<1>6. o \in Op /\ o.at \in {"idle", "closing"}
  BY <1>5, ClosingTyped
<1>7. Become(w, o)
  BY <1>1
<1> HIDE DEF o
<1>8. QED
  BY <1>1, <1>2, <1>3, <1>4, <1>6, <1>7, OpStep,
     SMT DEF IInv, Typed, Locked, Writing

-----------------------------------------------------------------------------
\* The steps that write to the disk.
LEMMA GotoTyped ==
  ASSUME Typed, NEW w \in Workers, NEW label \in Labels, Goto(w, label)
  PROVE  op' \in [Workers -> Op]
BY SMT DEF Typed, Goto, Op

\* Changing one value of a function keeps it in its set of functions.
LEMMA ExceptTyped ==
  ASSUME NEW S, NEW T, NEW f \in [S -> T], NEW x, NEW y \in T
  PROVE  [f EXCEPT ![x] = y] \in [S -> T]
OBVIOUS

\* save_report: the screenshot is written.
LEMMA SavePngKeeps ==
  ASSUME IInv, NEW w \in Workers, SavePng(w) PROVE IInv'
<1> USE FileStorageAssumption DEF IInv
<1>1. Typed'
  <2>1. op' \in [Workers -> Op]
    BY GotoTyped DEF SavePng, Labels
  <2>2. op[w].new.tag \in Submissions
    BY SMT DEF SavePng, LockInv, Writing, Report
  <2>3. livePng' \in [Ids -> Submissions \cup {None}]
    BY <2>2, ExceptTyped, Zenon DEF SavePng, Typed
  <2>4. QED
    BY <2>1, <2>3, SMT DEF Typed, SavePng, history
<1>2. LockInv'
  BY SMT DEF Typed, SavePng, Goto, LockInv, Locked, Writing
<1>3. SaveInv'
  BY SMT DEF Typed, SavePng, Goto, LockInv, Locked, SaveInv
<1>4. UpdateInv' /\ DeleteInv'
  BY SMT DEF Typed, SavePng, Goto, history, ReadReport, UpdateInv, DeleteInv
<1>5. OneSubmissionPerId'
  BY SMT DEF Typed, SavePng, LockInv, Locked, Writing, SaveInv,
     OneSubmissionPerId, Report, NoReport
<1>6. OnePlace'
  BY SMT DEF Typed, SavePng, LockInv, Locked, SaveInv, OnePlace
<1>7. AckedKept'
  BY SMT DEF Typed, SavePng, history, ReadReport, LockInv, Locked, SaveInv,
     AckedKept
<1>8. ScreenshotFound'
  BY SMT DEF Typed, SavePng, Goto, ScreenshotFound, ShotIn
<1>9. QED
  BY <1>1, <1>2, <1>3, <1>4, <1>5, <1>6, <1>7, <1>8

\* save_report: the JSON is written.
LEMMA SaveJsonKeeps ==
  ASSUME IInv, NEW w \in Workers, SaveJson(w) PROVE IInv'
<1> USE FileStorageAssumption DEF IInv
<1>1. Typed'
  <2>1. op' \in [Workers -> Op]
    BY GotoTyped DEF SaveJson, Labels
  <2>2. op[w].new \in Report
    BY SMT DEF SaveJson, LockInv, Writing
  <2>3. QED
    BY <2>1, <2>2, SMT DEF Typed, SaveJson, WriteReport, history
<1>2. LockInv'
  BY SMT DEF Typed, SaveJson, Goto, LockInv, Locked, Writing
<1>3. SaveInv'
  BY SMT DEF Typed, SaveJson, WriteReport, Goto, LockInv, Locked, SaveInv
<1>4. UpdateInv' /\ DeleteInv'
  BY SMT DEF Typed, SaveJson, WriteReport, Goto, history, ReadReport, LockInv,
     Locked, UpdateInv, DeleteInv
<1>5. OneSubmissionPerId'
  BY SMT DEF Typed, SaveJson, WriteReport, LockInv, Locked, Writing, SaveInv,
     OneSubmissionPerId, Report, NoReport
<1>6. OnePlace'
  BY SMT DEF Typed, SaveJson, WriteReport, LockInv, Locked, SaveInv, OnePlace
<1>7. AckedKept'
  <2> DEFINE j == op[w].id
  <2>1. /\ j \in Ids /\ live[j] = NoReport /\ arch[j] = NoReport
        /\ live' = [live EXCEPT ![j] = op[w].new] /\ UNCHANGED arch
        /\ UNCHANGED <<livePng, archPng, acked>>
    BY SMT DEF SaveJson, WriteReport, history, LockInv, Locked, SaveInv
  <2>2. acked[j] = None
    <3>1. ReadReport(j) = NoReport
      BY <2>1, Zenon DEF ReadReport
    <3>2. NoReport.tag = None
      BY DEF NoReport
    <3>3. QED
      BY <2>1, <3>1, <3>2, Zenon DEF AckedKept
  <2> HIDE DEF j
  <2>3. \A i \in Ids \ {j} : live'[i] = live[i] /\ arch'[i] = arch[i]
    BY <2>1, SMT DEF Typed
  <2>4. \A i \in Ids \ {j} : ReadReport(i)' = ReadReport(i)
    BY <2>3, Zenon DEF ReadReport
  <2>5. QED
    BY <2>1, <2>2, <2>4, Zenon DEF AckedKept
<1>8. ScreenshotFound'
  <2>1. op' = [op EXCEPT ![w].at = "saveIndex"] /\ archPng' = archPng /\ livePng' = livePng
    BY Zenon DEF SaveJson, Goto
  <2>2. \A v \in Workers : op'[v].at = "lookSecond" => op'[v] = op[v]
    BY <2>1, SMT DEF Typed, Op
  <2>3. QED
    BY <2>1, <2>2, Zenon DEF ScreenshotFound, ShotIn
<1>9. QED
  BY <1>1, <1>2, <1>3, <1>4, <1>5, <1>6, <1>7, <1>8

\* Here the id is acknowledged: by SaveInv its two files are in place.
LEMMA SaveIndexKeeps ==
  ASSUME IInv, NEW w \in Workers, SaveIndex(w) PROVE IInv'
<1> USE FileStorageAssumption DEF IInv
<1>1. Typed'
  <2>1. /\ op[w].at = "saveIndex" /\ op[w].id \in Ids /\ op[w].new \in Report
        /\ op[w].idx \in Index
    BY SMT DEF SaveIndex, Typed, LockInv, Locked, Writing, Op
  <2>2. op' \in [Workers -> Op]
    <3>1. Idle \in Op
      BY SMT DEF Op, Labels, Idle, Doing, NoIndex, Index
    <3>2. QED
      BY <3>1 DEF SaveIndex, Become, Typed
  <2>3. BuildIndexEntry(op[w].id, op[w].new) \in Row
    BY <2>1, SMT DEF BuildIndexEntry, Row, Report
  <2>4. index' \in Index
    <3> DEFINE e == BuildIndexEntry(op[w].id, op[w].new)
    <3>1. index' = [present |-> TRUE, next |-> op[w].idx.next + 1,
                    rows |-> op[w].idx.rows \cup {e}]
      BY DEF SaveIndex
    <3>2. op[w].idx.next + 1 \in Nat /\ op[w].idx.rows \cup {e} \in SUBSET Row
      BY <2>1, <2>3, SMT DEF Index
    <3> HIDE DEF e
    <3>3. QED
      BY <3>1, <3>2, SMT DEF Index
  <2>5. /\ acked' \in [Ids -> Submissions \cup {None}]
        /\ ackedUpdates' \in [Ids -> Nat] /\ issued' \subseteq Ids
    <3>1. op[w].new.tag \in Submissions \cup {None} /\ 0 \in Nat
      BY <2>1, SMT DEF Report
    <3>2. QED
      BY <2>1, <3>1, ExceptTyped, Zenon DEF SaveIndex, Typed
  <2>6. QED
    BY <2>2, <2>4, <2>5, SMT DEF Typed, SaveIndex, disk
<1>2. LockInv'
  BY SMT DEF Typed, SaveIndex, Become, Idle, Doing, LockInv, Locked, Writing
<1>3. SaveInv'
  BY SMT DEF Typed, SaveIndex, Become, Idle, Doing, disk, SaveInv
<1>4. UpdateInv' /\ DeleteInv'
  BY SMT DEF Typed, SaveIndex, Become, Idle, Doing, disk, ReadReport, LockInv,
     Locked, UpdateInv, DeleteInv
<1>5. OneSubmissionPerId' /\ OnePlace'
  BY Zenon DEF SaveIndex, disk, OneSubmissionPerId, OnePlace
<1>6. AckedKept'
  BY ReportIsNotAbsent, SMT DEF Typed, SaveIndex, disk, ReadReport, LockInv,
     Locked, Writing, SaveInv, AckedKept
<1>7. ScreenshotFound'
  BY SMT DEF Typed, SaveIndex, Become, Idle, Doing, disk, ScreenshotFound, ShotIn
<1>8. QED
  BY <1>1, <1>2, <1>3, <1>4, <1>5, <1>6, <1>7

\* update_status and set_github_link: the JSON is rewritten in place.
LEMMA UpdateReportKeeps ==
  ASSUME IInv, NEW w \in Workers, UpdateReport(w) PROVE IInv'
<1> USE FileStorageAssumption DEF IInv
<1>1. Typed'
  <2>1. op' \in [Workers -> Op]
    BY GotoTyped DEF UpdateReport, Labels
  <2>2. op[w].new \in Report
    BY SMT DEF UpdateReport, LockInv, Writing
  <2>3. /\ live' \in [Ids -> Report \cup {NoReport}]
        /\ arch' \in [Ids -> Report \cup {NoReport}]
    BY <2>2, ExceptTyped, Zenon DEF UpdateReport, WriteReport, Typed
  <2>4. QED
    BY <2>1, <2>3, SMT DEF Typed, UpdateReport, history
<1>2. LockInv'
  BY SMT DEF Typed, UpdateReport, Goto, LockInv, Locked, Writing
<1>3. SaveInv'
  BY SMT DEF Typed, UpdateReport, WriteReport, Goto, LockInv, Locked, SaveInv
<1>4. UpdateInv' /\ DeleteInv'
  BY SMT DEF Typed, UpdateReport, Goto, history, LockInv, Locked, UpdateInv,
     DeleteInv
<1>5. OneSubmissionPerId'
  BY SMT DEF Typed, UpdateReport, WriteReport, ReadReport, LockInv, Locked,
     UpdateInv, OneSubmissionPerId
<1>6. OnePlace'
  BY SMT DEF Typed, UpdateReport, WriteReport, ReadReport, LockInv, Locked,
     UpdateInv, OnePlace
<1>7. AckedKept'
  BY ReportIsNotAbsent, SMT DEF Typed, UpdateReport, WriteReport, history,
     ReadReport, LockInv, Locked, Writing, UpdateInv, OnePlace, AckedKept
<1>8. ScreenshotFound'
  BY SMT DEF Typed, UpdateReport, Goto, ScreenshotFound, ShotIn
<1>9. QED
  BY <1>1, <1>2, <1>3, <1>4, <1>5, <1>6, <1>7, <1>8

\* One file goes; a lookup that is under way is no longer owed the screenshot.
LEMMA UnlinkKeeps ==
  ASSUME IInv, NEW w \in Workers, Unlink(w) PROVE IInv'
<1> USE FileStorageAssumption DEF IInv
<1>0. op[w].at = "unlink" /\ op[w].id \in Ids /\ UnlinkFirst(op[w].id)
  BY SMT DEF Unlink, LockInv, Locked
<1>1. Typed'
  <2>1. Looking(op[w].id, FALSE) \in Op
    BY SMT DEF Unlink, LockInv, Locked, Op, Labels, Looking, NoIndex, Index
  <2>2. op' \in [Workers -> Op]
    BY <2>1, Zenon DEF Unlink, Typed
  <2>3. /\ live' \in [Ids -> Report \cup {NoReport}]
        /\ arch' \in [Ids -> Report \cup {NoReport}]
        /\ livePng' \in [Ids -> Submissions \cup {None}]
        /\ archPng' \in [Ids -> Submissions \cup {None}]
    BY ExceptTyped, SMT DEF Unlink, UnlinkFirst, Typed
  <2>4. QED
    BY <2>2, <2>3, Zenon DEF Typed, Unlink, history
<1>2. LockInv'
  BY SMT DEF Typed, Unlink, LockInv, Locked, Writing, Op, Looking
<1>3. SaveInv'
  BY SMT DEF Typed, Unlink, UnlinkFirst, LockInv, Locked, SaveInv, Op, Looking
<1>4. UpdateInv' /\ DeleteInv'
  BY SMT DEF Typed, Unlink, UnlinkFirst, history, ReadReport, LockInv, Locked,
     UpdateInv, DeleteInv, Op, Looking
<1>5. OneSubmissionPerId'
  BY <1>0, SMT DEF Typed, UnlinkFirst, OneSubmissionPerId, NoReport
<1>6. OnePlace'
  BY SMT DEF Typed, Unlink, UnlinkFirst, LockInv, Locked, OnePlace
<1>7. AckedKept'
  BY SMT DEF Typed, Unlink, UnlinkFirst, history, ReadReport, LockInv, Locked,
     DeleteInv, AckedKept
<1>8. ScreenshotFound'
  <2>1. \A i \in Ids : i # op[w].id => archPng'[i] = archPng[i]
    BY SMT DEF Typed, Unlink, UnlinkFirst
  <2>2. \A v \in Workers : op'[v].at = "lookSecond" /\ op'[v].had =>
          op'[v] = op[v] /\ op'[v].id # op[w].id
    BY SMT DEF Typed, Unlink, Op, Looking
  <2>3. \A v \in Workers : op[v].at = "lookSecond" => op[v].id \in Ids
    BY SMT DEF LockInv
  <2>4. \A i : ShotIn(2, i) = archPng[i] /\ ShotIn(2, i)' = archPng'[i]
    BY SMT DEF ShotIn
  <2>5. ASSUME NEW v \in Workers, op'[v].at = "lookSecond", op'[v].had
        PROVE  ShotIn(2, op[v].id)' # None
    <3>1. op'[v] = op[v] /\ op[v].id # op[w].id /\ op[v].id \in Ids
      BY <2>2, <2>3, <2>5, Zenon
    <3>2. ShotIn(2, op[v].id) # None
      BY <2>5, <3>1, Zenon DEF ScreenshotFound
    <3>3. archPng'[op[v].id] = archPng[op[v].id]
      BY <2>1, <3>1, Zenon
    <3>4. QED
      BY <2>4, <3>1, <3>2, <3>3, Zenon
  <2>6. QED
    BY <2>5, Zenon DEF ScreenshotFound
<1>9. QED
  BY <1>1, <1>2, <1>3, <1>4, <1>5, <1>6, <1>7, <1>8

\* _archive_one: either file is moved.
LEMMA ArchiveMoveKeeps ==
  ASSUME IInv, NEW w \in Workers, ArchiveJson(w) \/ ArchivePng(w) PROVE IInv'
<1> USE FileStorageAssumption DEF IInv
<1>0. op[w].at = "archive" /\ op[w].id \in Ids
  BY SMT DEF ArchiveJson, ArchivePng, LockInv, Locked
<1>1. Typed'
  <2>1. live[op[w].id] \in Report \cup {NoReport}
        /\ livePng[op[w].id] \in Submissions \cup {None}
    BY <1>0 DEF Typed
  <2>2. /\ live' \in [Ids -> Report \cup {NoReport}]
        /\ arch' \in [Ids -> Report \cup {NoReport}]
        /\ livePng' \in [Ids -> Submissions \cup {None}]
        /\ archPng' \in [Ids -> Submissions \cup {None}]
    BY <2>1, ExceptTyped, SMT DEF ArchiveJson, ArchivePng, Typed
  <2>3. QED
    BY <2>2, Zenon DEF Typed, ArchiveJson, ArchivePng, history
<1>2. LockInv'
  BY Zenon DEF ArchiveJson, ArchivePng, LockInv
<1>3. SaveInv'
  BY <1>0, SMT DEF Typed, ArchiveJson, ArchivePng, LockInv, Locked, SaveInv
<1>4. UpdateInv' /\ DeleteInv'
  BY <1>0, SMT DEF Typed, ArchiveJson, ArchivePng, history, LockInv, Locked,
     UpdateInv, DeleteInv
<1>5. OneSubmissionPerId'
  BY <1>0, SMT DEF Typed, ArchiveJson, ArchivePng, OneSubmissionPerId, OnePlace,
     NoReport
<1>6. OnePlace'
  BY <1>0, SMT DEF Typed, ArchiveJson, ArchivePng, OnePlace
<1>7. AckedKept'
  <2>1. CASE ArchiveJson(w)
    BY <1>0, <2>1, SMT DEF Typed, ArchiveJson, history, ReadReport, OnePlace,
       AckedKept
  <2>2. CASE ArchivePng(w)
    BY <1>0, <2>2, SMT DEF Typed, ArchivePng, history, ReadReport, OnePlace,
       AckedKept
  <2>3. QED
    BY <2>1, <2>2
<1>8. ScreenshotFound'
  BY <1>0, SMT DEF Typed, ArchiveJson, ArchivePng, LockInv, ScreenshotFound,
     ShotIn
<1>9. QED
  BY <1>1, <1>2, <1>3, <1>4, <1>5, <1>6, <1>7, <1>8

-----------------------------------------------------------------------------
\* Crashes and index faults.
LEMMA EnvironmentKeeps ==
  ASSUME IInv, backup \in Index, Crash \/ IndexFault PROVE IInv'
<1> USE FileStorageAssumption DEF IInv
<1>1. CASE Crash
  <2>1. Idle \in Op /\ Idle.at = "idle"
    BY SMT DEF Op, Labels, Idle, Doing, NoIndex, Index
  <2>2. op' \in [Workers -> Op] /\ \A w \in Workers : op'[w].at = "idle"
    BY <1>1, <2>1 DEF Crash
  <2>3. UNCHANGED <<disk, index, pending, history, faults>> /\ holder' = None
        /\ crashes' = crashes + 1
    BY <1>1 DEF Crash
  <2>4. Typed'
    BY <2>2, <2>3, SMT DEF Typed, disk, history
  <2>5. LockInv' /\ SaveInv' /\ UpdateInv' /\ DeleteInv' /\ ScreenshotFound'
    BY <2>2, SMT DEF LockInv, SaveInv, UpdateInv, DeleteInv, ScreenshotFound,
       Locked, Writing
  <2>6. OneSubmissionPerId' /\ OnePlace'
    BY <2>3, Zenon DEF disk, OneSubmissionPerId, OnePlace
  <2>7. AckedKept'
    BY <2>3, Zenon DEF disk, history, ReadReport, AckedKept
  <2>8. QED
    BY <2>4, <2>5, <2>6, <2>7
<1>2. CASE IndexFault
  <2>1. UNCHANGED <<disk, holder, op, pending, history, crashes>>
        /\ faults' = faults + 1
    BY <1>2 DEF IndexFault
  <2>2. index' \in Index
    <3>1. index' = NoIndex \/ index' = backup
      BY <1>2 DEF IndexFault
    <3>2. NoIndex \in Index
      BY SMT DEF NoIndex, Index
    <3>3. QED
      BY <3>1, <3>2
  <2>3. Typed'
    BY <2>1, <2>2, SMT DEF Typed, disk, history
  <2>4. LockInv' /\ SaveInv' /\ UpdateInv' /\ DeleteInv' /\ ScreenshotFound'
    BY <2>1, Zenon DEF LockInv, SaveInv, UpdateInv, DeleteInv, ScreenshotFound,
       ShotIn, ReadReport, disk, history
  <2>5. OneSubmissionPerId' /\ OnePlace'
    BY <2>1, Zenon DEF disk, OneSubmissionPerId, OnePlace
  <2>6. AckedKept'
    BY <2>1, Zenon DEF disk, history, ReadReport, AckedKept
  <2>7. QED
    BY <2>3, <2>4, <2>5, <2>6
<1>3. QED
  BY <1>1, <1>2

\* Every step of the storage keeps the invariant.
LEMMA NextKeepsIInv == IInv /\ backup \in Index /\ [Next]_vars => IInv'
<1> SUFFICES ASSUME IInv, backup \in Index, [Next]_vars PROVE IInv'
  OBVIOUS
<1>1. ASSUME NEW w \in Workers, Call(w) PROVE IInv'
  BY <1>1, SaveBeginKeeps, UpdateBeginKeeps, BulkCloseBeginKeeps,
     DeleteBeginKeeps, ArchiveBeginKeeps, LookKeeps, Zenon DEF Call
<1>2. ASSUME NEW w \in Workers, Step(w) PROVE IInv'
  BY <1>2, SavePngKeeps, SaveJsonKeeps, SaveIndexKeeps, UpdateReportKeeps,
     UpdateIndexKeeps, CloseNextKeeps, UnlinkKeeps, DeleteIndexKeeps,
     ArchiveMoveKeeps, ArchiveIndexKeeps, LookKeeps, FailKeeps, Zenon DEF Step
<1>3. CASE Crash \/ IndexFault
  BY <1>3, EnvironmentKeeps
<1>4. CASE Backup \/ UNCHANGED vars
  <2>1. /\ UNCHANGED <<live, arch, livePng, archPng, index, holder, op>>
        /\ UNCHANGED <<pending, acked, ackedUpdates, issued, crashes, faults>>
    BY <1>4, Zenon DEF Backup, vars, disk, history
  <2>2. Typed'
    BY <2>1, Zenon DEF IInv, Typed
  <2>3. LockInv' /\ SaveInv'
    BY <2>1, Zenon DEF IInv, LockInv, SaveInv
  <2>4. UpdateInv' /\ DeleteInv'
    BY <2>1, Zenon DEF IInv, UpdateInv, DeleteInv, ReadReport
  <2>5. OneSubmissionPerId' /\ OnePlace'
    BY <2>1, Zenon DEF IInv, OneSubmissionPerId, OnePlace
  <2>6. AckedKept' /\ ScreenshotFound'
    BY <2>1, Zenon DEF IInv, AckedKept, ScreenshotFound, ReadReport, ShotIn
  <2>7. QED
    BY <2>2, <2>3, <2>4, <2>5, <2>6, Zenon DEF IInv
<1>5. QED
  BY <1>1, <1>2, <1>3, <1>4, Zenon DEF Next

\* A copy of the index is one of the indexes there were.
CopyInv ==
  /\ backup \in Index
  /\ \A r, q \in backup.rows : r.id = q.id => r = q
  /\ \A r \in backup.rows : r.id < backup.next

LEMMA CopyMade == [Next]_vars => backup' = backup \/ backup' = index \/ backup' = NoIndex
<1> SUFFICES ASSUME [Next]_vars PROVE backup' = backup \/ backup' = index \/ backup' = NoIndex
  OBVIOUS
<1>1. ASSUME NEW w \in Workers, Call(w) PROVE backup' = backup
  BY <1>1, Zenon DEF Call, SaveBegin, UpdateBegin, LinkBegin, BulkCloseBegin, DeleteBegin,
     ArchiveBegin, BulkArchiveBegin, LookFirst
<1>2. ASSUME NEW w \in Workers, Step(w) PROVE backup' = backup
  BY <1>2, Zenon DEF Step, SavePng, SaveJson, SaveIndex, UpdateReport, UpdateIndex, CloseNext,
     Unlink, DeleteIndex, ArchiveJson, ArchivePng, ArchiveIndex, LookSecond, Fail
<1>3. CASE Crash \/ Backup \/ IndexFault \/ UNCHANGED vars
  BY <1>3, Zenon DEF Crash, Backup, IndexFault, vars
<1>4. QED
  BY <1>1, <1>2, <1>3, Zenon DEF Next

LEMMA CopyTyped == IInv /\ backup \in Index /\ [Next]_vars => backup' \in Index
<1>1. NoIndex \in Index
  BY SMT DEF NoIndex, Index
<1>2. QED
  BY <1>1, CopyMade, Zenon DEF IInv, Typed

\* At first there is no copy.
LEMMA InitCopy == Init => CopyInv
BY SMT DEF Init, CopyInv, NoIndex, Index

\* The invariant holds in every reachable state, for every value of the
\* constants (FileStorage, all operations).
THEOREM IInvariant == Spec => [](IInv /\ backup \in Index)
<1>1. Init => IInv /\ backup \in Index
  BY InitIInv, InitCopy DEF CopyInv
<1>2. IInv /\ backup \in Index /\ [Next]_vars => (IInv /\ backup \in Index)'
  BY NextKeepsIInv, CopyTyped
<1>3. QED
  BY <1>1, <1>2, PTL DEF Spec

\* Every variable keeps its type, for any number of threads, ids and crashes.
THEOREM TypeCorrect == Spec => []TypeOK
<1>1. IInv /\ backup \in Index => TypeOK
  BY DEF IInv, Typed, TypeOK
<1>2. QED
  BY <1>1, IInvariant, PTL

\* No save ever takes over an id of which a file is left on disk (_next_id).
THEOREM NoTakeover == Spec => []OneSubmissionPerId
<1>1. IInv => OneSubmissionPerId
  BY DEF IInv
<1>2. QED
  BY <1>1, IInvariant, PTL

\* No report is live and archived at once.
THEOREM LiveOrArchived == Spec => []OnePlace
<1>1. IInv => OnePlace
  BY DEF IInv
<1>2. QED
  BY <1>1, IInvariant, PTL

\* A report whose save_report returned is on disk, JSON and screenshot, with
\* what was submitted, until its deletion begins.
THEOREM Durability == Spec => []AckedKept
<1>1. IInv => AckedKept
  BY DEF IInv
<1>2. QED
  BY <1>1, IInvariant, PTL

\* get_screenshot_path, without the lock, misses no screenshot.
THEOREM LookupComplete == Spec => []ScreenshotFound
<1>1. IInv => ScreenshotFound
  BY DEF IInv
<1>2. QED
  BY <1>1, IInvariant, PTL

-----------------------------------------------------------------------------
(* FileStorage implements the storage contract, loses no update and hands   *)
(* no id out twice.                                                         *)

SavingAt == {"savePng", "saveJson", "saveIndex"}

\* A payload that is still to be submitted is in no file.
FreshTags == \A i \in Ids : live[i].tag \notin pending /\ arch[i].tag \notin pending

\* A save works on a newborn report, in no file before its JSON is written.
SaverInv == \A w \in Workers :
  /\ op[w].at \in SavingAt =>
       op[w].new = BuildReport(op[w].new.tag) /\ op[w].new.tag \notin pending
  /\ op[w].at \in {"savePng", "saveJson"} =>
       \A j \in Ids : op[w].new.tag \notin {live[j].tag, arch[j].tag}

\* How a report differs from the one an update read.
NewStatus(old, new) == \E st \in Status : new = WithStatus(old, st)
NewLink(old, new) == \E l \in Links : new = [old EXCEPT !.link = l]

\* An update is about to write what it made of the report that is there.
UpdaterInv == \A w \in Workers : op[w].at = "writeReport" =>
  IF op[w].status THEN NewStatus(ReadReport(op[w].id), op[w].new)
                  ELSE NewLink(ReadReport(op[w].id), op[w].new)

\* The log counts the updates that returned, and one that has been written and
\* is about to return.
LifeInv == \A i \in Ids : acked[i] # None =>
  /\ ReadReport(i).life >= 1 + ackedUpdates[i]
  /\ \A w \in Workers :
       op[w].at = "updateIndex" /\ op[w].id = i /\ op[w].status =>
         ReadReport(i).life >= 2 + ackedUpdates[i]

\* Unless the index was lost, its counter and a save's id are beyond every id
\* that was handed out.
IdInv == faults = 0 =>
  /\ issued # {} => index.present
  /\ \A i \in issued : i < index.next
  /\ \A w \in Workers : op[w].at \in SavingAt =>
       op[w].idx.next = op[w].id /\ \A i \in issued : i < op[w].id

CInv == FreshTags /\ SaverInv /\ UpdaterInv /\ LifeInv /\ IdInv

-----------------------------------------------------------------------------
\* An empty directory satisfies it.
LEMMA InitCInv == Init => CInv
<1> SUFFICES ASSUME Init PROVE CInv
  OBVIOUS
<1>1. \A w \in Workers : op[w].at = "idle"
  BY SMT DEF Init, Idle, Doing
<1>2. FreshTags
  <2>1. \A i \in Ids : live[i] = NoReport /\ arch[i] = NoReport
    BY Zenon DEF Init
  <2>2. NoReport.tag = None /\ pending = Submissions
    BY DEF Init, NoReport
  <2>3. QED
    BY <2>1, <2>2, FileStorageAssumption, Zenon DEF FreshTags
<1>3. SaverInv /\ UpdaterInv
  BY <1>1, SMT DEF SaverInv, UpdaterInv, SavingAt
<1>4. LifeInv
  BY SMT DEF Init, LifeInv
<1>5. IdInv
  BY <1>1, SMT DEF Init, IdInv, SavingAt
<1>6. QED
  BY <1>2, <1>3, <1>4, <1>5 DEF CInv

\* What a thread's new state has to satisfy for SaverInv and UpdaterInv.
Proper(o) ==
  /\ o.at \in SavingAt => o.new = BuildReport(o.new.tag) /\ o.new.tag \notin pending'
  /\ o.at \in {"savePng", "saveJson"} =>
       \A j \in Ids : o.new.tag \notin {live[j].tag, arch[j].tag}
  /\ o.at = "writeReport" =>
       IF o.status THEN NewStatus(ReadReport(o.id), o.new)
                   ELSE NewLink(ReadReport(o.id), o.new)
  /\ o.at # "updateIndex"

\* A step of one thread that writes no JSON.
LEMMA QuietStep ==
  ASSUME IInv, CInv, NEW w \in Workers, NEW o, Become(w, o), UNCHANGED <<live, arch>>,
         pending' \subseteq pending, Proper(o),
         \A i \in Ids : \/ acked'[i] = None
                        \/ acked'[i] # None /\ ReadReport(i).life >= 1 + ackedUpdates'[i],
         \A i \in Ids : acked'[i] \in {acked[i], None} \/ holder = w,
         ackedUpdates' = ackedUpdates \/ holder = w,
         IdInv'
  PROVE  CInv'
<1>1. op'[w] = o /\ \A v \in Workers \ {w} : op'[v] = op[v]
  BY SMT DEF IInv, Typed, Become
<1>2. FreshTags'
  BY DEF CInv, FreshTags
<1>3. SaverInv'
  BY <1>1, SMT DEF CInv, SaverInv, Proper
<1>4. UpdaterInv'
  <2> SUFFICES ASSUME NEW v \in Workers, op'[v].at = "writeReport"
               PROVE  IF op'[v].status THEN NewStatus(ReadReport(op[v].id)', op'[v].new)
                      ELSE NewLink(ReadReport(op[v].id)', op'[v].new)
    BY Zenon DEF UpdaterInv
  <2>1. \A i : ReadReport(i)' = ReadReport(i)
    BY DEF ReadReport
  <2>2. CASE v = w
    BY <1>1, <2>1, <2>2, Zenon DEF Proper
  <2>3. CASE v # w
    BY <1>1, <2>1, <2>3, Zenon DEF CInv, UpdaterInv
  <2>4. QED
    BY <2>2, <2>3
<1>5. LifeInv'
  <2> SUFFICES ASSUME NEW i \in Ids, acked'[i] # None
               PROVE  /\ ReadReport(i)'.life >= 1 + ackedUpdates'[i]
                      /\ \A v \in Workers :
                           op'[v].at = "updateIndex" /\ op'[v].id = i /\ op'[v].status =>
                             ReadReport(i)'.life >= 2 + ackedUpdates'[i]
    BY Zenon DEF LifeInv
  <2>1. ReadReport(i)' = ReadReport(i)
    BY DEF ReadReport
  <2>2. ReadReport(i)'.life >= 1 + ackedUpdates'[i]
    BY <2>1, Zenon
  <2>3. ASSUME NEW v \in Workers, op'[v].at = "updateIndex", op'[v].id = i, op'[v].status
        PROVE  ReadReport(i)'.life >= 2 + ackedUpdates'[i]
    <3>1. v # w /\ op'[v] = op[v]
      BY <1>1, <2>3, SMT DEF Proper
    <3>2. holder = v
      BY <2>3, <3>1, Zenon DEF IInv, LockInv, Locked
    <3>3. acked[i] # None /\ ackedUpdates' = ackedUpdates
      BY <3>1, <3>2, Zenon
    <3>4. QED
      BY <2>1, <2>3, <3>1, <3>3, Zenon DEF CInv, LifeInv
  <2>4. QED
    BY <2>2, <2>3
<1>6. QED
  BY <1>2, <1>3, <1>4, <1>5 DEF CInv

-----------------------------------------------------------------------------
\* What is read from the index keeps beyond the ids that were handed out.
LEMMA ReadBeyond ==
  ASSUME IdInv, faults = 0 PROVE \A i \in issued : i < ReadIndex.next
BY Zenon DEF IdInv, ReadIndex

\* Steps that neither hand an id out nor lose the index.
LEMMA IdStep ==
  ASSUME IInv, IdInv, NEW w \in Workers, NEW o, Become(w, o),
         faults' = faults, issued' = issued,
         index' = index \/ (index'.present /\ index'.next = ReadIndex.next),
         faults = 0 /\ o.at \in SavingAt =>
           o.idx.next = o.id /\ \A i \in issued : i < o.id
  PROVE  IdInv'
<1> SUFFICES ASSUME faults = 0 PROVE IdInv'
  BY Zenon DEF IdInv
<1>1. op'[w] = o /\ \A v \in Workers \ {w} : op'[v] = op[v]
  BY SMT DEF IInv, Typed, Become
<1>2. (issued # {} => index'.present) /\ \A i \in issued : i < index'.next
  BY ReadBeyond, Zenon DEF IdInv
<1>3. \A v \in Workers : op'[v].at \in SavingAt =>
        op'[v].idx.next = op'[v].id /\ \A i \in issued : i < op'[v].id
  BY <1>1, Zenon DEF IdInv
<1>4. QED
  BY <1>2, <1>3, Zenon DEF IdInv

\* Steps by which a thread neither saves nor updates, and nothing is handed out.
LEMMA DullStep ==
  ASSUME IInv, CInv, NEW w \in Workers, NEW o, Become(w, o), UNCHANGED <<live, arch>>,
         UNCHANGED <<pending, ackedUpdates, issued, faults>>,
         index' = index \/ (index'.present /\ index'.next = ReadIndex.next),
         o.at \notin SavingAt \cup {"writeReport", "updateIndex"},
         \A i \in Ids : acked'[i] \in {acked[i], None}
  PROVE  CInv'
<1>1. IdInv'
  BY IdStep, Zenon DEF CInv
<1>2. Proper(o)
  BY SMT DEF Proper, SavingAt
<1>3. \A i \in Ids : \/ acked'[i] = None
                     \/ acked'[i] # None /\ ReadReport(i).life >= 1 + ackedUpdates'[i]
  BY Zenon DEF CInv, LifeInv
<1>4. QED
  BY <1>1, <1>2, <1>3, QuietStep

\* bulk_close_fixed's listing, the beginnings and ends of deletions and archivals,
\* the lookup, failed writes.
LEMMA DullKeeps ==
  ASSUME IInv, CInv, NEW w \in Workers,
         \/ BulkCloseBegin(w) \/ DeleteBegin(w) \/ DeleteIndex(w)
         \/ ArchiveBegin(w) \/ BulkArchiveBegin(w) \/ ArchivePng(w) \/ ArchiveIndex(w)
         \/ LookFirst(w) \/ LookSecond(w) \/ Fail(w)
  PROVE  CInv'
<1> DEFINE Dull(o) == o.at \notin SavingAt \cup {"writeReport", "updateIndex"}
<1>1. \A S : Dull(Closing(S))
  BY SMT DEF Closing, Idle, Doing, SavingAt
<1>2. \A i, S : Dull(Doing("unlink", i, S)) /\ Dull(Doing("archive", i, S))
  BY SMT DEF Doing, SavingAt
<1>3. (\A i, b : Dull(Looking(i, b))) /\ Dull(Idle)
  BY SMT DEF Looking, Idle, Doing, SavingAt
<1>4. ReadIndex.present /\ \A i : /\ DropRow(ReadIndex, i).present
                                  /\ DropRow(ReadIndex, i).next = ReadIndex.next
  <2>1. ReadIndex \in Index
    BY IndexTyped, Zenon DEF IInv
  <2>2. ReadIndex.present
    BY SMT DEF ReadIndex, RebuildIndex
  <2>3. QED
    BY <2>1, <2>2, SMT DEF DropRow, Index
<1> DEFINE Known == \E o : Become(w, o) /\ Dull(o)
<1>5. Known
  <2>1. CASE BulkCloseBegin(w)
    BY <1>1, <2>1 DEF BulkCloseBegin
  <2>2. CASE DeleteBegin(w)
    BY <1>2, <2>2 DEF DeleteBegin
  <2>3. CASE DeleteIndex(w) \/ LookSecond(w) \/ Fail(w)
    BY <1>3, <2>3 DEF DeleteIndex, LookSecond, Fail
  <2>4. CASE ArchiveBegin(w)
    BY <1>2, <2>4 DEF ArchiveBegin
  <2>5. CASE BulkArchiveBegin(w)
    BY <1>2, <2>5 DEF BulkArchiveBegin, ArchiveFirst
  <2>6. CASE ArchiveIndex(w)
    BY <1>2, <1>3, <2>6 DEF ArchiveIndex, ArchiveFirst
  <2>7. CASE LookFirst(w)
    BY <1>3, <2>7 DEF LookFirst
  <2>8. CASE ArchivePng(w)
    <3>1. op' = [op EXCEPT ![w] = op[w]]
      BY <2>8, SMT DEF ArchivePng, IInv, Typed
    <3>2. Dull(op[w])
      BY <2>8, SMT DEF ArchivePng, SavingAt
    <3>3. QED
      BY <3>1, <3>2, Zenon DEF Become
  <2>9. QED
    BY <2>1, <2>2, <2>3, <2>4, <2>5, <2>6, <2>7, <2>8
<1>6. /\ UNCHANGED <<live, arch>>
      /\ UNCHANGED <<pending, ackedUpdates, issued, faults>>
  BY Zenon DEF BulkCloseBegin, DeleteBegin, DeleteIndex, ArchiveBegin, BulkArchiveBegin,
     ArchivePng, ArchiveIndex, LookFirst, LookSecond, Fail, disk, history
<1>7. index' = index \/ (index'.present /\ index'.next = ReadIndex.next)
  BY <1>4, Zenon DEF BulkCloseBegin, DeleteBegin, DeleteIndex, ArchiveBegin, BulkArchiveBegin,
     ArchivePng, ArchiveIndex, LookFirst, LookSecond, Fail
<1>8. \A i \in Ids : acked'[i] \in {acked[i], None}
  <2>1. CASE DeleteBegin(w)
    BY <2>1, SMT DEF DeleteBegin, IInv, Typed
  <2>2. CASE acked' = acked
    BY <2>2
  <2>3. QED
    BY <2>1, <2>2, Zenon DEF BulkCloseBegin, DeleteIndex, ArchiveBegin, BulkArchiveBegin,
       ArchivePng, ArchiveIndex, LookFirst, LookSecond, Fail, history
<1>9. PICK o : Become(w, o) /\ Dull(o)
  BY <1>5
<1>10. QED
  BY <1>6, <1>7, <1>8, <1>9, DullStep

\* Where a lifecycle log is not touched, it is long enough.
LEMMA LifeKept ==
  ASSUME CInv, UNCHANGED <<acked, ackedUpdates>>
  PROVE  \A i \in Ids : \/ acked'[i] = None
                        \/ acked'[i] # None /\ ReadReport(i).life >= 1 + ackedUpdates'[i]
BY Zenon DEF CInv, LifeInv

\* save_report, up to the choice of a free id.
LEMMA SaveBeginContract ==
  ASSUME IInv, CInv, NEW w \in Workers, SaveBegin(w) PROVE CInv'
<1> DEFINE o(s, i) == Saving(i, BuildReport(s), [ReadIndex EXCEPT !.next = i])
<1>1. PICK s \in pending, i \in First(FreeIds(ReadIndex)) :
        pending' = pending \ {s} /\ Become(w, o(s, i))
  BY Zenon DEF SaveBegin
<1>2. /\ UNCHANGED <<live, arch, index, issued, acked, ackedUpdates, faults>>
  BY Zenon DEF SaveBegin, disk, history
<1>3. i \in Ids /\ i >= ReadIndex.next
  BY SMT DEF First, FreeIds
<1>4. ReadIndex \in Index
  BY IndexTyped, Zenon DEF IInv
<1>5. /\ o(s, i).at = "savePng" /\ o(s, i).id = i /\ o(s, i).new = BuildReport(s)
      /\ o(s, i).idx.next = i /\ BuildReport(s).tag = s
  BY <1>4, SMT DEF Saving, Index, BuildReport
<1> HIDE DEF o
<1>6. Proper(o(s, i))
  <2>1. s \notin pending'
    BY <1>1
  <2>2. \A j \in Ids : s \notin {live[j].tag, arch[j].tag}
    BY Zenon DEF CInv, FreshTags
  <2>3. QED
    BY <1>5, <2>1, <2>2, SMT DEF Proper
<1>7. faults = 0 => \A j \in issued : j < i
  <2> SUFFICES ASSUME faults = 0, NEW j \in issued PROVE j < i
    OBVIOUS
  <2>1. j < ReadIndex.next
    BY ReadBeyond, Zenon DEF CInv
  <2>2. j \in Nat /\ i \in Nat /\ ReadIndex.next \in Nat
    BY <1>3, <1>4, FileStorageAssumption, SMT DEF IInv, Typed, Index
  <2>3. QED
    BY <1>3, <2>1, <2>2, SMT
<1>8. IdInv'
  BY <1>1, <1>2, <1>5, <1>7, IdStep, Zenon DEF CInv
<1>9. QED
  BY <1>1, <1>2, <1>6, <1>8, LifeKept, QuietStep

\* update_status, set_github_link and one update of bulk_close_fixed, up to the
\* write.
LEMMA UpdateBeginContract ==
  ASSUME IInv, CInv, NEW w \in Workers, UpdateBegin(w) \/ LinkBegin(w) \/ CloseNext(w)
  PROVE  CInv'
<1>1. /\ UNCHANGED <<live, arch, index, issued, acked, ackedUpdates, faults, pending>>
  BY Zenon DEF UpdateBegin, LinkBegin, CloseNext, disk, history
<1>2. ASSUME NEW i \in Ids, NEW rep, NEW b, NEW rest,
             Become(w, Updating(i, rep, b, rest)),
             IF b THEN NewStatus(ReadReport(i), rep) ELSE NewLink(ReadReport(i), rep)
      PROVE  CInv'
  <2> DEFINE o == Updating(i, rep, b, rest)
  <2>1. o.at = "writeReport" /\ o.id = i /\ o.new = rep /\ o.status = b
    BY Zenon DEF Updating
  <2>2. Become(w, o)
    BY <1>2
  <2> HIDE DEF o
  <2>3. o.at \notin SavingAt /\ o.at \notin {"savePng", "saveJson"} /\ o.at # "updateIndex"
    BY <2>1, SMT DEF SavingAt
  <2>4. Proper(o)
    BY <1>2, <2>1, <2>3, Zenon DEF Proper
  <2>5. IdInv'
    BY <1>1, <2>2, <2>3, IdStep, Zenon DEF CInv
  <2>6. QED
    BY <1>1, <2>2, <2>4, <2>5, LifeKept, QuietStep
<1>3. CASE UpdateBegin(w)
  <2>1. PICK i \in Ids, st \in Updates :
          Become(w, Updating(i, WithStatus(ReadReport(i), st), TRUE, {}))
    BY <1>3, Zenon DEF UpdateBegin
  <2>2. NewStatus(ReadReport(i), WithStatus(ReadReport(i), st))
    <3>1. st \in Status
      BY FileStorageAssumption, SMT DEF Status
    <3>2. QED
      BY <3>1, Zenon DEF NewStatus
  <2>3. QED
    BY <1>2, <2>1, <2>2, Zenon
<1>4. CASE LinkBegin(w)
  <2>1. PICK i \in Ids, l \in Links :
          Become(w, Updating(i, [ReadReport(i) EXCEPT !.link = l], FALSE, {}))
    BY <1>4, Zenon DEF LinkBegin
  <2>2. NewLink(ReadReport(i), [ReadReport(i) EXCEPT !.link = l])
    BY Zenon DEF NewLink
  <2>3. QED
    BY <1>2, <2>1, <2>2, Zenon
<1>5. CASE CloseNext(w)
  <2>1. PICK i \in First(op[w].todo) :
          \/ Become(w, Updating(i, WithStatus(ReadReport(i), "closed"), TRUE,
                                op[w].todo \ {i}))
          \/ Become(w, Closing(op[w].todo \ {i}))
    BY <1>5, Zenon DEF CloseNext
  <2>2. i \in Ids
    BY <2>1, SMT DEF First, IInv, Typed, Op
  <2>3. NewStatus(ReadReport(i), WithStatus(ReadReport(i), "closed"))
    <3>1. "closed" \in Status
      BY SMT DEF Status
    <3>2. QED
      BY <3>1, Zenon DEF NewStatus
  <2>4. CASE Become(w, Closing(op[w].todo \ {i}))
    <3> DEFINE o == Closing(op[w].todo \ {i})
    <3>1. o.at \notin SavingAt \cup {"writeReport", "updateIndex"}
      BY SMT DEF Closing, Idle, Doing, SavingAt
    <3>2. Become(w, o)
      BY <2>4
    <3> HIDE DEF o
    <3>3. QED
      BY <1>1, <3>1, <3>2, DullStep
  <2>5. QED
    BY <1>2, <2>1, <2>2, <2>3, <2>4, Zenon
<1>6. QED
  BY <1>3, <1>4, <1>5

\* save_report: the screenshot is written.
LEMMA SavePngContract ==
  ASSUME IInv, CInv, NEW w \in Workers, SavePng(w) PROVE CInv'
<1> DEFINE o == [op[w] EXCEPT !.at = "saveJson"]
<1>1. /\ UNCHANGED <<live, arch, index, issued, acked, ackedUpdates, faults, pending>>
      /\ op[w].at = "savePng"
  BY Zenon DEF SavePng, history
<1>2. op[w] \in Op
  BY Zenon DEF IInv, Typed
<1>3. /\ o.at = "saveJson" /\ o.id = op[w].id /\ o.new = op[w].new
      /\ o.idx = op[w].idx
  BY <1>2, SMT DEF Op
<1>4. Become(w, o)
  BY SMT DEF SavePng, Goto, Become
<1> HIDE DEF o
<1>5. Proper(o)
  BY <1>1, <1>3, SMT DEF CInv, SaverInv, Proper, SavingAt
<1>6. IdInv'
  <2>1. op[w].at \in SavingAt
    BY <1>1, SMT DEF SavingAt
  <2>2. faults = 0 => o.idx.next = o.id /\ \A i \in issued : i < o.id
    BY <1>3, <2>1, Zenon DEF CInv, IdInv
  <2>3. QED
    BY <1>1, <1>4, <2>2, IdStep, Zenon DEF CInv
<1>7. QED
  BY <1>1, <1>4, <1>5, <1>6, LifeKept, QuietStep

-----------------------------------------------------------------------------
\* A step of the thread that holds the lock, after which it is about to write
\* no JSON: all the other threads are neither saving nor updating.
LEMMA HolderStep ==
  ASSUME IInv, CInv, NEW w \in Workers, op[w].at \in Locked,
         \A v \in Workers \ {w} : op'[v].at = op[v].at,
         op'[w].at \notin {"savePng", "saveJson", "writeReport"},
         op'[w].at = "saveIndex" =>
           op'[w].new = BuildReport(op'[w].new.tag) /\ op'[w].new.tag \notin pending',
         FreshTags', IdInv',
         \A i \in Ids : acked'[i] # None =>
           /\ ReadReport(i)'.life >= 1 + ackedUpdates'[i]
           /\ op'[w].at = "updateIndex" /\ op'[w].id = i /\ op'[w].status =>
                ReadReport(i)'.life >= 2 + ackedUpdates'[i]
  PROVE  CInv'
<1>1. \A v \in Workers \ {w} : op'[v].at \notin Locked
  BY Zenon DEF IInv, LockInv
<1>2. \A v \in Workers \ {w} :
        op'[v].at \notin SavingAt \cup {"writeReport", "updateIndex"}
  BY <1>1, SMT DEF Locked, SavingAt
<1>3. SaverInv'
  BY <1>2, SMT DEF SaverInv, SavingAt
<1>4. UpdaterInv'
  <2>1. \A v \in Workers : op'[v].at # "writeReport"
    BY <1>2, SMT
  <2>2. QED
    BY <2>1, Zenon DEF UpdaterInv
<1>5. LifeInv'
  <2>1. \A v \in Workers : v = w \/ op'[v].at # "updateIndex"
    BY <1>2, SMT
  <2>2. QED
    BY <2>1, Zenon DEF LifeInv
<1>6. QED
  BY <1>3, <1>4, <1>5, Zenon DEF CInv

\* A write to a report file touches neither the ids nor the index.
LEMMA IdKept ==
  ASSUME CInv, UNCHANGED <<index, issued, faults>>,
         \A v \in Workers : op'[v].at \in SavingAt =>
           op[v].at \in SavingAt /\ op'[v].idx = op[v].idx /\ op'[v].id = op[v].id
  PROVE  IdInv'
BY SMT DEF CInv, IdInv

\* What a file holds is a report or the marker of an absent one, and only a
\* report has a tag.
LEMMA TagOfReport ==
  ASSUME IInv, NEW i \in Ids
  PROVE  /\ live[i] \in Report \cup {NoReport} /\ arch[i] \in Report \cup {NoReport}
         /\ ReadReport(i) \in Report \cup {NoReport}
         /\ ReadReport(i).tag # None => ReadReport(i) \in Report
         /\ NoReport.tag = None
         /\ acked[i] # None => ReadReport(i) \in Report
<1>1. live[i] \in Report \cup {NoReport} /\ arch[i] \in Report \cup {NoReport}
  BY SMT DEF IInv, Typed
<1>2. ReadReport(i) \in Report \cup {NoReport}
  BY <1>1, Zenon DEF ReadReport
<1>3. NoReport.tag = None
  BY SMT DEF NoReport
<1>4. ReadReport(i).tag # None => ReadReport(i) \in Report
  BY <1>2, <1>3, Zenon
<1>5. acked[i] # None => ReadReport(i).tag = acked[i]
  BY Zenon DEF IInv, AckedKept
<1>6. QED
  BY <1>1, <1>2, <1>3, <1>4, <1>5, Zenon

\* What one thread does when it moves on to the next label.
LEMMA Going ==
  ASSUME IInv, NEW w \in Workers, NEW l, Goto(w, l)
  PROVE  /\ op'[w].at = l /\ op'[w].id = op[w].id /\ op'[w].new = op[w].new
         /\ op'[w].idx = op[w].idx /\ op'[w].status = op[w].status
         /\ \A v \in Workers \ {w} : op'[v] = op[v]
BY SMT DEF IInv, Typed, Op, Goto

\* What _write_report leaves: the report itself, in one place.
LEMMA Written ==
  ASSUME IInv, NEW i \in Ids, NEW rep \in Report, WriteReport(i, rep)
  PROVE  /\ ReadReport(i)' = rep
         /\ live'[i] \in {rep, live[i]} /\ arch'[i] \in {rep, arch[i]}
         /\ \A j \in Ids \ {i} : live'[j] = live[j] /\ arch'[j] = arch[j]
<1>1. rep # NoReport
  BY ReportIsNotAbsent
<1>2. live \in [Ids -> Report \cup {NoReport}] /\ arch \in [Ids -> Report \cup {NoReport}]
  BY DEF IInv, Typed
<1>3. QED
  BY <1>1, <1>2, SMT DEF WriteReport, ReadReport

\* Files of other reports do not change: what is read of them does not either.
LEMMA OthersRead ==
  ASSUME NEW i \in Ids,
         \A j \in Ids \ {i} : live'[j] = live[j] /\ arch'[j] = arch[j]
  PROVE  \A j \in Ids \ {i} : ReadReport(j)' = ReadReport(j)
BY SMT DEF ReadReport

\* save_report: the JSON is written.
LEMMA SaveJsonContract ==
  ASSUME IInv, CInv, NEW w \in Workers, SaveJson(w) PROVE CInv'
<1> DEFINE i == op[w].id
           rep == op[w].new
<1>1. /\ op[w].at = "saveJson" /\ WriteReport(i, rep) /\ Goto(w, "saveIndex")
      /\ UNCHANGED <<index, pending, acked, ackedUpdates, issued, faults>>
  BY Zenon DEF SaveJson, history
<1>2. op[w].at \in Locked /\ op[w].at \in Writing /\ op[w].at \in SavingAt
  BY <1>1, SMT DEF Locked, Writing, SavingAt
<1>3. i \in Ids /\ rep \in Report
  BY <1>2, Zenon DEF IInv, LockInv
<1>4. rep = BuildReport(rep.tag) /\ rep.tag \notin pending
  BY <1>2, Zenon DEF CInv, SaverInv
<1>5. acked[i] = None
  <2>1. ReadReport(i) = NoReport
    BY <1>1, SMT DEF IInv, SaveInv, ReadReport
  <2>2. QED
    BY <1>3, <2>1, TagOfReport, ReportIsNotAbsent, Zenon
<1>6. /\ op'[w].at = "saveIndex" /\ op'[w].id = i /\ op'[w].new = rep
      /\ op'[w].idx = op[w].idx
      /\ \A v \in Workers \ {w} : op'[v] = op[v]
  BY <1>1, Going, Zenon
<1>7. /\ live'[i] \in {rep, live[i]} /\ arch'[i] \in {rep, arch[i]}
      /\ \A j \in Ids \ {i} : live'[j] = live[j] /\ arch'[j] = arch[j]
  BY <1>1, <1>3, Written, Zenon
<1>8. \A j \in Ids \ {i} : ReadReport(j)' = ReadReport(j)
  BY <1>3, <1>7, OthersRead, Zenon
<1> HIDE DEF i, rep
<1>9. FreshTags'
  BY <1>1, <1>4, <1>7, SMT DEF CInv, FreshTags
<1>10. IdInv'
  <2>1. op'[w].at \in SavingAt
    BY <1>6, SMT DEF SavingAt
  <2>2. \A v \in Workers : op'[v].at \in SavingAt =>
          op[v].at \in SavingAt /\ op'[v].idx = op[v].idx /\ op'[v].id = op[v].id
    BY <1>2, <1>6, Zenon DEF i
  <2>3. QED
    BY <1>1, <2>2, IdKept, Zenon
<1>11. \A j \in Ids : acked'[j] # None => ReadReport(j)'.life >= 1 + ackedUpdates'[j]
  BY <1>1, <1>5, <1>8, Zenon DEF CInv, LifeInv
<1>12. op'[w].at \notin {"savePng", "saveJson", "writeReport", "updateIndex"}
  BY <1>6, SMT
<1>13. op'[w].new = BuildReport(op'[w].new.tag) /\ op'[w].new.tag \notin pending'
  BY <1>1, <1>4, <1>6, Zenon
<1>14. \A v \in Workers \ {w} : op'[v].at = op[v].at
  BY <1>6, Zenon
<1>15. QED
  BY <1>2, <1>9, <1>10, <1>11, <1>12, <1>13, <1>14, HolderStep, SMT

\* update_status and set_github_link: the report is written, with one lifecycle
\* entry more than was read when the status changed.
LEMMA UpdateReportContract ==
  ASSUME IInv, CInv, NEW w \in Workers, UpdateReport(w) PROVE CInv'
<1>0. PICK i, rep : i = op[w].id /\ rep = op[w].new
  OBVIOUS
<1>1. /\ op[w].at = "writeReport" /\ WriteReport(i, rep) /\ Goto(w, "updateIndex")
      /\ UNCHANGED <<index, pending, acked, ackedUpdates, issued, faults>>
  BY <1>0, Zenon DEF UpdateReport, history
<1>2. op[w].at \in Locked /\ op[w].at \in Writing
  BY <1>1, SMT DEF Locked, Writing
<1>3. i \in Ids /\ rep \in Report
  BY <1>0, <1>2, Zenon DEF IInv, LockInv
<1>4. ReadReport(i) \in Report /\ rep.tag = ReadReport(i).tag
  BY <1>0, <1>1, <1>3, TagOfReport, Zenon DEF IInv, UpdateInv
<1>5. rep.life \in {ReadReport(i).life, ReadReport(i).life + 1}
      /\ (op[w].status => rep.life = ReadReport(i).life + 1)
  <2>1. CASE op[w].status
    <3>1. NewStatus(ReadReport(i), rep)
      BY <1>0, <1>1, <2>1, Zenon DEF CInv, UpdaterInv
    <3>2. QED
      BY <3>1, SMT DEF NewStatus, WithStatus
  <2>2. CASE ~op[w].status
    <3>1. NewLink(ReadReport(i), rep)
      BY <1>0, <1>1, <2>2, Zenon DEF CInv, UpdaterInv
    <3>2. QED
      BY <1>4, <2>2, <3>1, SMT DEF NewLink, Report
  <2>3. QED
    BY <2>1, <2>2
<1>6. /\ op'[w].at = "updateIndex" /\ op'[w].id = i /\ op'[w].status = op[w].status
      /\ \A v \in Workers \ {w} : op'[v] = op[v]
  BY <1>0, <1>1, Going, Zenon
<1>7. /\ live'[i] \in {rep, live[i]} /\ arch'[i] \in {rep, arch[i]}
      /\ ReadReport(i)' = rep
      /\ \A j \in Ids \ {i} : live'[j] = live[j] /\ arch'[j] = arch[j]
  BY <1>1, <1>3, Written, Zenon
<1>8. \A j \in Ids \ {i} : ReadReport(j)' = ReadReport(j)
  BY <1>3, <1>7, OthersRead, Zenon
<1>9. rep.tag \notin pending
  BY <1>3, <1>4, Zenon DEF CInv, FreshTags, ReadReport
<1>10. ackedUpdates[i] \in Nat /\ ReadReport(i).life \in Nat
  BY <1>3, <1>4, SMT DEF IInv, Typed, Report
<1>11. FreshTags'
  BY <1>1, <1>7, <1>9, SMT DEF CInv, FreshTags
<1>12. op'[w].at \notin SavingAt \cup {"savePng", "saveJson", "saveIndex", "writeReport"}
  BY <1>6, SMT DEF SavingAt
<1>13. IdInv'
  <2>1. \A v \in Workers : op'[v].at \in SavingAt =>
          op[v].at \in SavingAt /\ op'[v].idx = op[v].idx /\ op'[v].id = op[v].id
    BY <1>6, <1>12, Zenon
  <2>2. QED
    BY <1>1, <2>1, IdKept, Zenon
<1>14. ASSUME NEW j \in Ids, acked'[j] # None
       PROVE  /\ ReadReport(j)'.life >= 1 + ackedUpdates'[j]
              /\ op'[w].at = "updateIndex" /\ op'[w].id = j /\ op'[w].status =>
                   ReadReport(j)'.life >= 2 + ackedUpdates'[j]
  <2>1. ReadReport(j).life >= 1 + ackedUpdates[j]
    BY <1>1, <1>14, Zenon DEF CInv, LifeInv
  <2>2. CASE j = i
    <3>1. ReadReport(j)' = rep
      BY <1>7, <2>2
    <3>2. QED
      BY <1>1, <1>5, <1>6, <1>10, <2>1, <2>2, <3>1, SMT
  <2>3. CASE j # i
    BY <1>1, <1>6, <1>8, <2>1, <2>3, Zenon
  <2>4. QED
    BY <2>2, <2>3
<1>15. \A v \in Workers \ {w} : op'[v].at = op[v].at
  BY <1>6, Zenon
<1>16. QED
  BY <1>2, <1>11, <1>12, <1>13, <1>14, <1>15, HolderStep, SMT

\* delete_report: one file goes; nobody expects the report any more.
LEMMA UnlinkContract ==
  ASSUME IInv, CInv, NEW w \in Workers, Unlink(w) PROVE CInv'
<1> DEFINE i == op[w].id
<1>1. /\ op[w].at = "unlink" /\ UnlinkFirst(i)
      /\ UNCHANGED <<index, pending, acked, ackedUpdates, issued, faults>>
  BY Zenon DEF Unlink, history
<1>2. op[w].at \in Locked
  BY <1>1, SMT DEF Locked
<1>3. i \in Ids /\ acked[i] = None
  BY <1>1, <1>2, Zenon DEF IInv, LockInv, DeleteInv
<1>4. \A v \in Workers : 
        op'[v] = op[v] \/ (op'[v].at = "lookSecond" /\ op[v].at = "lookSecond")
  <2>1. \A b : Looking(i, b).at = "lookSecond"
    BY SMT DEF Looking
  <2>2. \A v \in Workers : op'[v] = IF op[v].at = "lookSecond" /\ op[v].id = i
                                    THEN Looking(i, FALSE) ELSE op[v]
    BY Zenon DEF Unlink
  <2>3. QED
    BY <2>1, <2>2, Zenon
<1>5. \A v \in Workers : op'[v].at = op[v].at
  BY <1>4, Zenon
<1>6. /\ live'[i] \in {NoReport, live[i]} /\ arch'[i] \in {NoReport, arch[i]}
      /\ \A j \in Ids \ {i} : live'[j] = live[j] /\ arch'[j] = arch[j]
  BY <1>1, SMT DEF UnlinkFirst, IInv, Typed
<1>7. \A j \in Ids \ {i} : ReadReport(j)' = ReadReport(j)
  BY <1>3, <1>6, OthersRead, Zenon
<1> HIDE DEF i
<1>8. FreshTags'
  <2>1. NoReport.tag \notin pending
    BY FileStorageAssumption, SMT DEF NoReport, IInv, Typed
  <2>2. QED
    BY <1>1, <1>6, <2>1, SMT DEF CInv, FreshTags
<1>9. op'[w].at \notin SavingAt \cup {"savePng", "saveJson", "saveIndex", "writeReport", "updateIndex"}
  BY <1>1, <1>5, SMT DEF SavingAt
<1>10. IdInv'
  <2>1. "lookSecond" \notin SavingAt
    BY SMT DEF SavingAt
  <2>2. \A v \in Workers : op'[v].at \in SavingAt =>
          op[v].at \in SavingAt /\ op'[v].idx = op[v].idx /\ op'[v].id = op[v].id
    BY <1>4, <2>1, Zenon
  <2>3. QED
    BY <1>1, <2>2, IdKept, Zenon
<1>11. \A j \in Ids : acked'[j] # None => ReadReport(j)'.life >= 1 + ackedUpdates'[j]
  BY <1>1, <1>3, <1>7, Zenon DEF CInv, LifeInv
<1>12. QED
  BY <1>2, <1>5, <1>8, <1>9, <1>10, <1>11, HolderStep, SMT

\* archive_report: the JSON moves.
LEMMA ArchiveJsonContract ==
  ASSUME IInv, CInv, NEW w \in Workers, ArchiveJson(w) PROVE CInv'
<1> DEFINE i == op[w].id
<1>1. /\ op[w].at = "archive" /\ live[i] # NoReport
      /\ arch' = [arch EXCEPT ![i] = live[i]] /\ live' = [live EXCEPT ![i] = NoReport]
      /\ UNCHANGED <<index, op, pending, acked, ackedUpdates, issued, faults>>
  BY Zenon DEF ArchiveJson, history
<1>2. op[w].at \in Locked
  BY <1>1, SMT DEF Locked
<1>3. i \in Ids
  BY <1>2, Zenon DEF IInv, LockInv
<1>4. /\ live'[i] = NoReport /\ arch'[i] = live[i]
      /\ \A j \in Ids \ {i} : live'[j] = live[j] /\ arch'[j] = arch[j]
  BY <1>1, <1>3, SMT DEF IInv, Typed
<1>5. \A j \in Ids : ReadReport(j)' = ReadReport(j)
  BY <1>1, <1>4, SMT DEF ReadReport
<1> HIDE DEF i
<1>6. FreshTags'
  <2>1. NoReport.tag \notin pending
    BY FileStorageAssumption, SMT DEF NoReport, IInv, Typed
  <2>2. QED
    BY <1>1, <1>3, <1>4, <2>1, SMT DEF CInv, FreshTags
<1>7. op'[w].at \notin SavingAt \cup {"savePng", "saveJson", "saveIndex", "writeReport", "updateIndex"}
  BY <1>1, SMT DEF SavingAt
<1>8. IdInv'
  BY <1>1, IdKept, Zenon
<1>9. \A j \in Ids : acked'[j] # None => ReadReport(j)'.life >= 1 + ackedUpdates'[j]
  BY <1>1, <1>5, Zenon DEF CInv, LifeInv
<1>10. QED
  BY <1>1, <1>2, <1>6, <1>7, <1>8, <1>9, HolderStep, SMT

\* save_report returns the id: it is now one of those handed out, and below the
\* counter of the index that is written.
LEMMA SaveIndexContract ==
  ASSUME IInv, CInv, NEW w \in Workers, SaveIndex(w) PROVE CInv'
<1>0. PICK i, rep, idx : i = op[w].id /\ rep = op[w].new /\ idx = op[w].idx
  OBVIOUS
<1>1. /\ op[w].at = "saveIndex" /\ Become(w, Idle)
      /\ index' = [present |-> TRUE, next |-> idx.next + 1,
                   rows |-> idx.rows \cup {BuildIndexEntry(i, rep)}]
      /\ acked' = [acked EXCEPT ![i] = rep.tag]
      /\ ackedUpdates' = [ackedUpdates EXCEPT ![i] = 0]
      /\ issued' = issued \cup {i}
      /\ UNCHANGED <<live, arch, pending, faults>>
  BY <1>0, Zenon DEF SaveIndex, disk
<1>2. op[w].at \in Locked /\ op[w].at \in Writing /\ op[w].at \in SavingAt
  BY <1>1, SMT DEF Locked, Writing, SavingAt
<1>3. i \in Ids /\ i \in Nat
  <2>1. i \in Ids
    BY <1>0, <1>2, Zenon DEF IInv, LockInv
  <2>2. QED
    BY <2>1, FileStorageAssumption, SMT
<1>4. live[i] = rep /\ rep.life = 1 /\ rep # NoReport
  <2>1. live[i] = rep
    BY <1>0, <1>1, Zenon DEF IInv, SaveInv
  <2>2. rep = BuildReport(rep.tag) /\ rep \in Report
    BY <1>0, <1>2, Zenon DEF CInv, SaverInv, IInv, LockInv
  <2>3. rep.life = 1
    BY <2>2, SMT DEF BuildReport
  <2>4. QED
    BY <2>1, <2>2, <2>3, ReportIsNotAbsent, Zenon
<1>5. op'[w].at = "idle" /\ \A v \in Workers \ {w} : op'[v] = op[v]
  BY <1>1, SMT DEF Become, Idle, Doing, IInv, Typed
<1>6. \A v \in Workers : op'[v].at \notin SavingAt
  <2>1. \A v \in Workers \ {w} : op'[v].at \notin Locked
    BY <1>2, <1>5, Zenon DEF IInv, LockInv
  <2>2. QED
    BY <1>5, <2>1, SMT DEF Locked, SavingAt
<1>7. IdInv'
  <2> SUFFICES ASSUME faults = 0 PROVE index'.present /\ \A j \in issued' : j < index'.next
    BY <1>1, <1>6, Zenon DEF IdInv
  <2>1. idx.next = i /\ \A j \in issued : j < i
    BY <1>0, <1>2, Zenon DEF CInv, IdInv
  <2>2. issued \subseteq Nat
    BY FileStorageAssumption, SMT DEF IInv, Typed
  <2>3. QED
    BY <1>1, <1>3, <2>1, <2>2, SMT
<1>8. FreshTags'
  BY <1>1, Zenon DEF CInv, FreshTags
<1>9. ASSUME NEW j \in Ids, acked'[j] # None
      PROVE  ReadReport(j)'.life >= 1 + ackedUpdates'[j]
  <2>1. ReadReport(j)' = ReadReport(j)
    BY <1>1, Zenon DEF ReadReport
  <2>2. CASE j = i
    <3>1. ReadReport(j) = rep
      BY <1>4, <2>2, Zenon DEF ReadReport
    <3>2. ackedUpdates'[j] = 0
      BY <1>1, <1>3, <2>2, SMT DEF IInv, Typed
    <3>3. QED
      BY <1>4, <2>1, <3>1, <3>2, SMT
  <2>3. CASE j # i
    <3>1. acked'[j] = acked[j] /\ ackedUpdates'[j] = ackedUpdates[j]
      BY <1>1, <2>3, SMT DEF IInv, Typed
    <3>2. QED
      BY <1>9, <2>1, <3>1, Zenon DEF CInv, LifeInv
  <2>4. QED
    BY <2>2, <2>3
<1>10. op'[w].at \notin {"savePng", "saveJson", "saveIndex", "writeReport", "updateIndex"}
  BY <1>5, SMT
<1>11. \A v \in Workers \ {w} : op'[v].at = op[v].at
  BY <1>5, Zenon
<1>12. QED
  BY <1>2, <1>7, <1>8, <1>9, <1>10, <1>11, HolderStep, SMT

\* update_status and set_github_link return: the update is now counted, and
\* the log has its entry already.
LEMMA UpdateIndexContract ==
  ASSUME IInv, CInv, NEW w \in Workers, UpdateIndex(w) PROVE CInv'
<1>0. PICK i, b, o : i = op[w].id /\ b = op[w].status /\ o = Closing(op[w].todo)
  OBVIOUS
<1>1. /\ op[w].at = "updateIndex" /\ Become(w, o)
      /\ index' = UpdateIndexEntry(ReadIndex, i, op[w].new, b)
      /\ ackedUpdates' = IF b THEN [ackedUpdates EXCEPT ![i] = @ + 1] ELSE ackedUpdates
      /\ UNCHANGED <<live, arch, pending, acked, issued, faults>>
  BY <1>0, Zenon DEF UpdateIndex, disk
<1>2. op[w].at \in Locked
  BY <1>1, SMT DEF Locked
<1>3. i \in Ids
  BY <1>0, <1>2, Zenon DEF IInv, LockInv
<1>4. o.at \notin SavingAt \cup {"savePng", "saveJson", "saveIndex", "writeReport", "updateIndex"}
  BY <1>0, SMT DEF Closing, Idle, Doing, SavingAt
<1>5. op'[w] = o /\ \A v \in Workers \ {w} : op'[v] = op[v]
  BY <1>1, SMT DEF Become, IInv, Typed
<1>6. index'.present /\ index'.next = ReadIndex.next
  <2>1. ReadIndex \in Index
    BY IndexTyped, Zenon DEF IInv
  <2>2. ReadIndex.present
    BY SMT DEF ReadIndex, RebuildIndex
  <2>3. QED
    BY <1>1, <2>1, <2>2, SMT DEF UpdateIndexEntry, Index
<1>7. IdInv'
  BY <1>1, <1>4, <1>6, IdStep, Zenon DEF CInv
<1>8. FreshTags'
  BY <1>1, Zenon DEF CInv, FreshTags
<1>9. ASSUME NEW j \in Ids, acked'[j] # None
      PROVE  ReadReport(j)'.life >= 1 + ackedUpdates'[j]
  <2>1. ReadReport(j)' = ReadReport(j)
    BY <1>1, Zenon DEF ReadReport
  <2>2. ReadReport(j).life >= 1 + ackedUpdates[j]
    BY <1>1, <1>9, Zenon DEF CInv, LifeInv
  <2>3. CASE j = i /\ b
    <3>1. ReadReport(j).life >= 2 + ackedUpdates[j]
      BY <1>0, <1>1, <1>9, <2>3, Zenon DEF CInv, LifeInv
    <3>2. ackedUpdates'[j] = ackedUpdates[j] + 1 /\ ackedUpdates[j] \in Nat
      BY <1>1, <2>3, SMT DEF IInv, Typed
    <3>3. ReadReport(j) \in Report
      BY <1>1, <1>9, TagOfReport, Zenon
    <3>4. QED
      BY <2>1, <3>1, <3>2, <3>3, SMT DEF Report
  <2>4. CASE ~(j = i /\ b)
    <3>1. ackedUpdates'[j] = ackedUpdates[j]
      BY <1>1, <2>4, SMT DEF IInv, Typed
    <3>2. QED
      BY <2>1, <2>2, <3>1, Zenon
  <2>5. QED
    BY <2>3, <2>4
<1>10. \A v \in Workers \ {w} : op'[v].at = op[v].at
  BY <1>5, Zenon
<1>11. QED
  BY <1>2, <1>4, <1>5, <1>7, <1>8, <1>9, <1>10, HolderStep, SMT

\* The process stops: no thread is between two writes any more.
LEMMA CrashContract == ASSUME IInv, CInv, Crash PROVE CInv'
<1>1. /\ UNCHANGED <<live, arch, index, pending, acked, ackedUpdates, issued, faults>>
      /\ op' = [w \in Workers |-> Idle]
  BY Zenon DEF Crash, disk, history
<1>2. \A w \in Workers : op'[w].at \notin SavingAt \cup {"savePng", "saveJson", "writeReport", "updateIndex"}
  BY <1>1, SMT DEF Idle, Doing, SavingAt
<1>3. FreshTags' /\ SaverInv' /\ UpdaterInv'
  BY <1>1, <1>2, SMT DEF CInv, FreshTags, SaverInv, UpdaterInv
<1>4. LifeInv'
  <2>1. \A i \in Ids : ReadReport(i)' = ReadReport(i)
    BY <1>1, Zenon DEF ReadReport
  <2>2. \A w \in Workers : op'[w].at # "updateIndex"
    BY <1>2, SMT
  <2>3. QED
    BY <1>1, <2>1, <2>2, Zenon DEF CInv, LifeInv
<1>5. IdInv'
  BY <1>1, <1>2, SMT DEF CInv, IdInv
<1>6. QED
  BY <1>3, <1>4, <1>5, Zenon DEF CInv

\* Once the index was lost nothing is said of the ids; all the rest is about
\* files the fault leaves alone.
LEMMA IndexFaultContract == ASSUME IInv, CInv, IndexFault PROVE CInv'
<1>1. /\ UNCHANGED <<live, arch, op, pending, acked, ackedUpdates>>
      /\ faults' = faults + 1 /\ faults \in Nat
  BY Zenon DEF IndexFault, disk, history, IInv, Typed
<1>2. IdInv'
  BY <1>1, SMT DEF IdInv
<1>3. \A i \in Ids : ReadReport(i)' = ReadReport(i)
  BY <1>1, Zenon DEF ReadReport
<1>4. FreshTags' /\ SaverInv'
  BY <1>1, Zenon DEF CInv, FreshTags, SaverInv
<1>5. LifeInv'
  BY <1>1, <1>3, Zenon DEF CInv, LifeInv
<1>6. UpdaterInv'
  <2>1. \A i : ReadReport(i)' = ReadReport(i)
    BY <1>1, Zenon DEF ReadReport
  <2>2. \A w \in Workers : ReadReport(op[w].id)' = ReadReport(op[w].id)
    BY <1>1, <2>1, Zenon
  <2>3. QED
    BY <1>1, <2>2, Zenon DEF CInv, UpdaterInv
<1>7. QED
  BY <1>2, <1>4, <1>5, <1>6, Zenon DEF CInv

\* Every step keeps it.
LEMMA NextKeepsCInv == IInv /\ CInv /\ [Next]_vars => CInv'
<1> SUFFICES ASSUME IInv, CInv, [Next]_vars PROVE CInv'
  OBVIOUS
<1>1. CASE Backup \/ UNCHANGED vars
  <2>1. UNCHANGED <<live, arch, op, pending, acked, ackedUpdates, issued, faults, index>>
    BY <1>1, Zenon DEF Backup, vars, disk, history
  <2>2. \A i : ReadReport(i)' = ReadReport(i)
    BY <2>1, Zenon DEF ReadReport
  <2>3. \A w \in Workers : ReadReport(op[w].id)' = ReadReport(op[w].id)
    BY <2>1, <2>2, Zenon
  <2>4. UpdaterInv' /\ LifeInv'
    BY <2>1, <2>2, <2>3, Zenon DEF CInv, UpdaterInv, LifeInv
  <2>5. FreshTags' /\ SaverInv' /\ IdInv'
    BY <2>1, Zenon DEF CInv, FreshTags, SaverInv, IdInv
  <2>6. QED
    BY <2>4, <2>5, Zenon DEF CInv
<1>2. ASSUME NEW w \in Workers, Call(w) \/ Step(w) PROVE CInv'
  BY <1>2, DullKeeps, SaveBeginContract, UpdateBeginContract, SavePngContract,
     SaveJsonContract, UpdateReportContract, UnlinkContract, ArchiveJsonContract,
     SaveIndexContract, UpdateIndexContract, Zenon DEF Call, Step
<1>3. QED
  BY <1>1, <1>2, CrashContract, IndexFaultContract, Zenon DEF Next

-----------------------------------------------------------------------------
\* In every reachable state, with the invariant of FileStorageProofs.
THEOREM CInvariant == Spec => [](IInv /\ CInv)
<1>1. Init => CInv
  BY InitIInv, InitCInv
<1>2. IInv /\ CInv /\ [Next]_vars => CInv'
  BY NextKeepsCInv
<1>3. QED
  BY <1>1, <1>2, IInvariant, PTL DEF Spec

\* Every report whose save returned has in its lifecycle log its creation and
\* every status update that returned: update_status reads and writes the
\* report under one hold of the lock.
THEOREM UpdatesKept == Spec => []NoLostUpdate
<1>1. IInv /\ CInv => NoLostUpdate
  <2> SUFFICES ASSUME IInv, CInv, NEW i \in Ids, acked[i] # None
               PROVE  ReadReport(i) # NoReport /\ ReadReport(i).life >= 1 + ackedUpdates[i]
    BY Zenon DEF NoLostUpdate
  <2>1. ReadReport(i) # NoReport
    BY TagOfReport, ReportIsNotAbsent, Zenon
  <2>2. QED
    BY <2>1, Zenon DEF CInv, LifeInv
<1>2. QED
  BY <1>1, CInvariant, PTL

\* Unless index.json was lost, _next_id never comes to an id that some save
\* returned before, not even after the report was deleted.
THEOREM IdsHandedOutOnce == Spec => []NoIdReuse
<1>1. IInv /\ CInv => NoIdReuse
  <2> SUFFICES ASSUME IInv, CInv, faults = 0, NEW w \in Workers,
                      op[w].at \in {"savePng", "saveJson", "saveIndex"}
               PROVE  op[w].id \notin issued
    BY Zenon DEF NoIdReuse
  <2>1. \A i \in issued : i < op[w].id
    BY Zenon DEF CInv, IdInv, SavingAt
  <2>2. issued \subseteq Nat
    BY FileStorageAssumption, SMT DEF IInv, Typed
  <2>3. ASSUME op[w].id \in issued PROVE FALSE
    <3>1. op[w].id < op[w].id /\ op[w].id \in Nat
      BY <2>1, <2>2, <2>3, Zenon
    <3>2. QED
      BY <3>1, SMT
  <2>4. QED
    BY <2>3
<1>2. QED
  BY <1>1, CInvariant, PTL

-----------------------------------------------------------------------------
\* The reports of the contract as FileStorage keeps them.
Reports == [i \in Ids |-> Stored(i)]

\* As long as its JSON files do not change, a report is the same.
LEMMA StoredKept ==
  ASSUME NEW i, live'[i] = live[i], arch'[i] = arch[i]
  PROVE  Stored(i)' = Stored(i)
BY Zenon DEF Stored, ReadReport

\* Steps that touch no JSON are not seen by the contract.
LEMMA QuietStutters ==
  ASSUME UNCHANGED <<live, arch>> PROVE UNCHANGED Reports
BY StoredKept, Zenon DEF Reports

\* A report of the contract exists when one is read, and carries its fields.
LEMMA StoredIs ==
  ASSUME IInv, NEW i \in Ids
  PROVE  /\ Stored(i) # NoReport <=> ReadReport(i) # NoReport
         /\ ReadReport(i) # NoReport =>
              Stored(i) = [tag |-> ReadReport(i).tag, status |-> ReadReport(i).status,
                           life |-> ReadReport(i).life, link |-> ReadReport(i).link,
                           archived |-> live[i] = NoReport]
         /\ Stored(i).tag = ReadReport(i).tag
<1>1. ReadReport(i) \in Report \cup {NoReport}
  BY TagOfReport, Zenon
<1>2. ReadReport(i) # NoReport => ReadReport(i).tag # None
  BY <1>1, FileStorageAssumption, SMT DEF Report, NoReport
<1>3. NoReport.tag = None
  BY TagOfReport, Zenon
<1>4. ReadReport(i) # NoReport =>
        /\ Stored(i) = [tag |-> ReadReport(i).tag, status |-> ReadReport(i).status,
                        life |-> ReadReport(i).life, link |-> ReadReport(i).link,
                        archived |-> live[i] = NoReport]
        /\ Stored(i).tag = ReadReport(i).tag
  BY SMT DEF Stored
<1>5. ReadReport(i) = NoReport => Stored(i) = NoReport
  BY Zenon DEF Stored
<1>6. QED
  BY <1>2, <1>3, <1>4, <1>5, Zenon

\* A step that changes one report is a change of the map at that id.
LEMMA OneChanged ==
  ASSUME NEW i \in Ids, \A j \in Ids \ {i} : live'[j] = live[j] /\ arch'[j] = arch[j]
  PROVE  Reports' = [Reports EXCEPT ![i] = Stored(i)']
<1>1. \A j \in Ids \ {i} : Stored(j)' = Stored(j)
  BY StoredKept, Zenon
<1>2. QED
  BY <1>1, Zenon DEF Reports

\* The JSON of a save: the contract's save_report.
LEMMA SaveJsonImplements ==
  ASSUME IInv, CInv, NEW w \in Workers, SaveJson(w)
  PROVE  \E i \in Ids, s \in Submissions : Contract!Save(i, s)
<1>0. PICK i, rep : i = op[w].id /\ rep = op[w].new
  OBVIOUS
<1>1. op[w].at = "saveJson" /\ WriteReport(i, rep)
  BY <1>0, Zenon DEF SaveJson
<1>2. op[w].at \in Locked /\ op[w].at \in Writing /\ op[w].at \in SavingAt
  BY <1>1, SMT DEF Locked, Writing, SavingAt
<1>3. i \in Ids /\ rep \in Report
  BY <1>0, <1>2, Zenon DEF IInv, LockInv
<1>4. rep = BuildReport(rep.tag) /\ rep.tag \in Submissions
  BY <1>0, <1>2, <1>3, SMT DEF CInv, SaverInv, Report
<1>5. live[i] = NoReport /\ arch[i] = NoReport
  BY <1>0, <1>1, SMT DEF IInv, SaveInv
<1>6. \A j \in Ids : rep.tag \notin {live[j].tag, arch[j].tag}
  BY <1>0, <1>1, SMT DEF CInv, SaverInv
<1>7. Stored(i) = NoReport /\ \A j \in Ids : Stored(j).tag # rep.tag
  <2>1. ReadReport(i) = NoReport
    BY <1>5, Zenon DEF ReadReport
  <2>2. \A j \in Ids : ReadReport(j).tag # rep.tag
    <3>1. \A j \in Ids : live[j].tag # rep.tag /\ arch[j].tag # rep.tag
      BY <1>6, Zenon
    <3>2. QED
      BY <3>1, Zenon DEF ReadReport
  <2>3. QED
    BY <1>3, <2>1, <2>2, StoredIs, Zenon
<1>8. live'[i] = rep /\ rep # NoReport
  BY <1>1, <1>3, <1>5, ReportIsNotAbsent, SMT DEF WriteReport, IInv, Typed
<1>9. Stored(i)' = [tag |-> rep.tag, status |-> "open", life |-> 1, link |-> None,
                    archived |-> FALSE]
  <2>1. ReadReport(i)' = rep
    BY <1>8, Zenon DEF ReadReport
  <2>2. rep.status = "open" /\ rep.life = 1 /\ rep.link = None
    BY <1>4, SMT DEF BuildReport
  <2>3. (live'[i] = NoReport) = FALSE
    BY <1>8, Zenon
  <2>4. QED
    BY <1>8, <2>1, <2>2, <2>3, Zenon DEF Stored
<1>10. Reports' = [Reports EXCEPT ![i] = Stored(i)']
  BY <1>1, <1>3, Written, OneChanged, Zenon
<1>11. Contract!Save(i, rep.tag)
  BY <1>3, <1>7, <1>9, <1>10, SMT DEF Contract!Save, Contract!Exists, Contract!NoReport,
     NoReport, Reports
<1>12. QED
  BY <1>3, <1>4, <1>11, Zenon

\* The rewritten JSON of an update: the contract's update_status of one report
\* or its set_github_link.
LEMMA UpdateReportImplements ==
  ASSUME IInv, CInv, NEW w \in Workers, UpdateReport(w)
  PROVE  \/ \E S \in SUBSET Ids, st \in Status : Contract!UpdateStatus(S, st)
         \/ \E i \in Ids, l \in Links : Contract!SetGithubLink(i, l)
<1>0. PICK i, rep : i = op[w].id /\ rep = op[w].new
  OBVIOUS
<1>1. op[w].at = "writeReport" /\ WriteReport(i, rep)
  BY <1>0, Zenon DEF UpdateReport
<1>2. op[w].at \in Locked /\ op[w].at \in Writing
  BY <1>1, SMT DEF Locked, Writing
<1>3. i \in Ids /\ rep \in Report
  BY <1>0, <1>2, Zenon DEF IInv, LockInv
<1> DEFINE old == ReadReport(i)
<1>4. old # NoReport /\ old \in Report
  BY <1>0, <1>1, <1>3, TagOfReport, Zenon DEF IInv, UpdateInv
<1>5. rep # NoReport
  BY <1>3, ReportIsNotAbsent
<1>a. PICK arcd : arcd = (live[i] = NoReport)
  OBVIOUS
<1>6. Stored(i) # NoReport /\
      Stored(i) = [tag |-> old.tag, status |-> old.status, life |-> old.life,
                   link |-> old.link, archived |-> arcd]
  BY <1>3, <1>4, <1>a, StoredIs, Zenon
<1>7. Stored(i)' = [tag |-> rep.tag, status |-> rep.status, life |-> rep.life,
                    link |-> rep.link, archived |-> arcd]
  <2>1. ReadReport(i)' = rep
    BY <1>1, <1>3, Written, Zenon
  <2>2. (live'[i] = NoReport) <=> (live[i] = NoReport)
    BY <1>1, <1>3, <1>4, <1>5, SMT DEF WriteReport, ReadReport, IInv, Typed
  <2>3. (live'[i] = NoReport) = arcd
    BY <1>a, <2>2, Zenon
  <2>4. QED
    BY <1>5, <2>1, <2>3, Zenon DEF Stored
<1>8. Reports' = [Reports EXCEPT ![i] = Stored(i)']
  BY <1>1, <1>3, Written, OneChanged, Zenon
<1>9. \A j \in Ids : Reports[j] = Stored(j)
  BY Zenon DEF Reports
<1> HIDE DEF old
<1>10. CASE op[w].status
  <2>1. PICK st \in Status : rep = WithStatus(old, st)
    BY <1>0, <1>1, <1>10, Zenon DEF CInv, UpdaterInv, NewStatus, old
  <2>2. Stored(i)' = [Stored(i) EXCEPT !.status = st, !.life = @ + 1]
    <3>1. rep.tag = old.tag /\ rep.status = st /\ rep.life = old.life + 1
          /\ rep.link = old.link
      BY <2>1, SMT DEF WithStatus
    <3>2. Stored(i)' = [tag |-> old.tag, status |-> st, life |-> old.life + 1,
                        link |-> old.link, archived |-> arcd]
      BY <1>7, <3>1, Zenon
    <3>3. PICK r, q : r = Stored(i) /\ q = [r EXCEPT !.status = st]
      OBVIOUS
    <3>4. q = [tag |-> old.tag, status |-> st, life |-> old.life,
               link |-> old.link, archived |-> arcd]
      BY <1>6, <3>3, SMT
    <3>5. [q EXCEPT !.life = @ + 1] =
            [tag |-> old.tag, status |-> st, life |-> old.life + 1,
             link |-> old.link, archived |-> arcd]
      BY <3>4, SMT
    <3>6. [r EXCEPT !.status = st, !.life = @ + 1] = [q EXCEPT !.life = @ + 1]
      BY <3>3, Zenon
    <3>7. QED
      BY <3>2, <3>3, <3>5, <3>6, Zenon
  <2>3. Reports' = [j \in Ids |-> IF j \in {i}
                                  THEN [Reports[j] EXCEPT !.status = st, !.life = @ + 1]
                                  ELSE Reports[j]]
    BY <1>3, <1>8, <1>9, <2>2, Zenon DEF Reports
  <2>4. Contract!UpdateStatus({i}, st)
    BY <1>3, <1>6, <1>9, <2>3, Zenon DEF Contract!UpdateStatus, Contract!Exists,
       Contract!NoReport, NoReport, Reports
  <2>5. QED
    BY <1>3, <2>4, Zenon
<1>11. CASE ~op[w].status
  <2>1. PICK l \in Links : rep = [old EXCEPT !.link = l]
    BY <1>0, <1>1, <1>11, Zenon DEF CInv, UpdaterInv, NewLink, old
  <2>2. Stored(i)' = [Stored(i) EXCEPT !.link = l]
    <3>1. rep.tag = old.tag /\ rep.status = old.status /\ rep.life = old.life
          /\ rep.link = l
      BY <1>4, <2>1, SMT DEF Report
    <3>2. QED
      BY <1>6, <1>7, <3>1, SMT
  <2>3. Reports' = [Reports EXCEPT ![i] = [Reports[i] EXCEPT !.link = l]]
    BY <1>3, <1>8, <1>9, <2>2, Zenon
  <2>4. Contract!SetGithubLink(i, l)
    BY <1>3, <1>6, <1>9, <2>3, Zenon DEF Contract!SetGithubLink, Contract!Exists,
       Contract!NoReport, NoReport, Reports
  <2>5. QED
    BY <1>3, <2>4, Zenon
<1>12. QED
  BY <1>10, <1>11

\* One file unlinked: the contract's delete_report when it is the JSON, a
\* stutter when it is a screenshot.
LEMMA UnlinkImplements ==
  ASSUME IInv, CInv, NEW w \in Workers, Unlink(w)
  PROVE  (\E i \in Ids : Contract!Delete(i)) \/ UNCHANGED Reports
<1>0. PICK i : i = op[w].id
  OBVIOUS
<1>1. op[w].at = "unlink" /\ UnlinkFirst(i)
  BY <1>0, Zenon DEF Unlink
<1>2. op[w].at \in Locked
  BY <1>1, SMT DEF Locked
<1>3. i \in Ids
  BY <1>0, <1>2, Zenon DEF IInv, LockInv
<1>4. CASE UNCHANGED <<live, arch>>
  BY <1>4, QuietStutters
<1>5. CASE ~UNCHANGED <<live, arch>>
  <2>1. /\ live'[i] = NoReport /\ arch'[i] = NoReport
        /\ ReadReport(i) # NoReport
        /\ \A j \in Ids \ {i} : live'[j] = live[j] /\ arch'[j] = arch[j]
    BY <1>1, <1>3, <1>5, SMT DEF UnlinkFirst, ReadReport, IInv, Typed, OnePlace
  <2>2. Stored(i)' = NoReport
    BY <2>1, Zenon DEF Stored, ReadReport
  <2>3. Reports' = [Reports EXCEPT ![i] = NoReport]
    BY <1>3, <2>1, <2>2, OneChanged, Zenon
  <2>4. Reports[i] # NoReport
    BY <1>3, <2>1, StoredIs, Zenon DEF Reports
  <2>5. Contract!Delete(i)
    BY <2>3, <2>4, Zenon DEF Contract!Delete, Contract!Exists, Contract!NoReport,
       NoReport, Reports
  <2>6. QED
    BY <1>3, <2>5
<1>6. QED
  BY <1>4, <1>5

\* The JSON moved: the contract's archival of one report, without an entry in
\* its lifecycle log.
LEMMA ArchiveJsonImplements ==
  ASSUME IInv, CInv, NEW w \in Workers, ArchiveJson(w)
  PROVE  \E S \in SUBSET Ids : Contract!Archive(S)
<1>0. PICK i : i = op[w].id
  OBVIOUS
<1>1. /\ op[w].at = "archive" /\ live[i] # NoReport
      /\ arch' = [arch EXCEPT ![i] = live[i]] /\ live' = [live EXCEPT ![i] = NoReport]
  BY <1>0, Zenon DEF ArchiveJson
<1>2. op[w].at \in Locked
  BY <1>1, SMT DEF Locked
<1>3. i \in Ids
  BY <1>0, <1>2, Zenon DEF IInv, LockInv
<1>4. /\ live'[i] = NoReport /\ arch'[i] = live[i]
      /\ \A j \in Ids \ {i} : live'[j] = live[j] /\ arch'[j] = arch[j]
  BY <1>1, <1>3, SMT DEF IInv, Typed
<1> DEFINE rep == live[i]
<1>a. PICK no, yes : no = FALSE /\ yes = TRUE
  OBVIOUS
<1>5. ReadReport(i) = rep /\ ReadReport(i)' = rep /\ rep # NoReport /\ rep \in Report
  BY <1>1, <1>3, <1>4, TagOfReport, Zenon DEF ReadReport
<1>6. Stored(i) = [tag |-> rep.tag, status |-> rep.status, life |-> rep.life,
                   link |-> rep.link, archived |-> no]
  <2>1. (live[i] = NoReport) = no
    BY <1>1, <1>a, Zenon
  <2>2. QED
    BY <1>5, <2>1, Zenon DEF Stored
<1>7. Stored(i)' = [tag |-> rep.tag, status |-> rep.status, life |-> rep.life,
                    link |-> rep.link, archived |-> yes]
  <2>1. (live'[i] = NoReport) = yes
    BY <1>4, <1>a, Zenon
  <2>2. QED
    BY <1>5, <2>1, Zenon DEF Stored
<1>8. Reports[i] = Stored(i) /\ Stored(i) # NoReport /\ ~Stored(i).archived
  <2>1. Stored(i).archived = no
    BY <1>6, SMT
  <2>2. QED
    BY <1>3, <1>5, <1>a, <2>1, StoredIs, Zenon DEF Reports
<1>9. Stored(i)' = [Stored(i) EXCEPT !.archived = TRUE, !.life = @ + 0]
  <2>1. rep.life + 0 = rep.life
    BY <1>5, SMT DEF Report
  <2> HIDE DEF rep
  <2>2. Stored(i)' = [tag |-> rep.tag, status |-> rep.status, life |-> rep.life + 0,
                      link |-> rep.link, archived |-> yes]
    BY <1>7, <2>1, Zenon
  <2>3. PICK r, q : r = Stored(i) /\ q = [r EXCEPT !.archived = yes]
    OBVIOUS
  <2>4. q = [tag |-> rep.tag, status |-> rep.status, life |-> rep.life,
             link |-> rep.link, archived |-> yes]
    BY <1>6, <2>3, SMT
  <2>5. [q EXCEPT !.life = @ + 0] =
          [tag |-> rep.tag, status |-> rep.status, life |-> rep.life + 0,
           link |-> rep.link, archived |-> yes]
    BY <2>4, SMT
  <2>6. [r EXCEPT !.archived = yes, !.life = @ + 0] = [q EXCEPT !.life = @ + 0]
    BY <2>3, Zenon
  <2>7. QED
    BY <1>a, <2>2, <2>3, <2>5, <2>6, Zenon
<1>10. Reports' = [j \in Ids |->
         IF j \in {i} THEN [Reports[j] EXCEPT !.archived = TRUE, !.life = @ + 0]
         ELSE Reports[j]]
  <2>1. Reports' = [Reports EXCEPT ![i] = Stored(i)']
    BY <1>3, <1>4, OneChanged, Zenon
  <2>2. QED
    BY <1>3, <1>8, <1>9, <2>1, Zenon DEF Reports
<1>11. Contract!Archived({i})
  <2>1. 0 \in {0, 1}
    OBVIOUS
  <2>2. QED
    BY <1>3, <1>8, <1>10, <2>1, Zenon DEF Contract!Archived, Contract!Exists,
       Contract!NoReport, NoReport, Reports
<1>12. Contract!Archive({i})
  BY <1>8, <1>11, Zenon DEF Contract!Archive, Reports
<1>13. QED
  BY <1>3, <1>12, Zenon

\* Every step is a step of the contract or is not seen by it.
LEMMA StepImplements ==
  ASSUME IInv, CInv, [Next]_vars PROVE [Contract!Next]_Reports
<1>1. ASSUME NEW w \in Workers, Call(w) \/ Step(w)
      PROVE  [Contract!Next]_Reports
  <2>1. CASE SaveJson(w)
    BY <2>1, SaveJsonImplements, Zenon DEF Contract!Next, Contract!Shared
  <2>2. CASE UpdateReport(w)
    BY <2>2, UpdateReportImplements, Zenon DEF Contract!Next, Contract!Shared,
       Contract!Status, Status
  <2>3. CASE Unlink(w)
    BY <2>3, UnlinkImplements, Zenon DEF Contract!Next, Contract!Shared
  <2>4. CASE ArchiveJson(w)
    BY <2>4, ArchiveJsonImplements, Zenon DEF Contract!Next
  <2>5. CASE ~(SaveJson(w) \/ UpdateReport(w) \/ Unlink(w) \/ ArchiveJson(w))
    <3>1. UNCHANGED <<live, arch>>
      BY <1>1, <2>5, Zenon DEF Call, Step, SaveBegin, UpdateBegin, LinkBegin,
         BulkCloseBegin, DeleteBegin, ArchiveBegin, BulkArchiveBegin, LookFirst,
         SavePng, SaveIndex, UpdateIndex, CloseNext, DeleteIndex, ArchivePng,
         ArchiveIndex, LookSecond, Fail, disk
    <3>2. QED
      BY <3>1, QuietStutters
  <2>6. QED
    BY <2>1, <2>2, <2>3, <2>4, <2>5
<1>2. CASE Crash \/ Backup \/ IndexFault \/ UNCHANGED vars
  <2>1. UNCHANGED <<live, arch>>
    BY <1>2, Zenon DEF Crash, Backup, IndexFault, vars, disk
  <2>2. QED
    BY <2>1, QuietStutters
<1>3. QED
  BY <1>1, <1>2, Zenon DEF Next

\* FileStorage implements the storage contract, also when the process stops
\* between two writes, a write fails or the index is lost: a report exists from
\* the write of its JSON to its unlinking.
THEOREM FilesImplementContract == Spec => ImplementsContract
<1>1. Init => Contract!Init
  <2> SUFFICES ASSUME Init PROVE Contract!Init
    OBVIOUS
  <2>1. \A i \in Ids : Stored(i) = NoReport
    BY Zenon DEF Init, Stored, ReadReport
  <2>2. QED
    BY <2>1, Zenon DEF Contract!Init, Contract!NoReport, NoReport
<1>2. IInv /\ CInv /\ [Next]_vars => [Contract!Next]_Reports
  BY StepImplements
<1>3. QED
  BY <1>1, <1>2, CInvariant, PTL DEF Spec, ImplementsContract, Contract!Spec, Reports

-----------------------------------------------------------------------------
(* What GET /reports lists, which comes from index.json, is what there is.  *)

\* A bound on the numbers of the reports on disk, so that there is a greatest.
Bounded == \E n \in Nat : \A i \in Ids : live[i] # NoReport \/ arch[i] # NoReport => i <= n

OneRowEach(rows) == \A r, q \in rows : r.id = q.id => r = q
Below(rows, n) == \A r \in rows : r.id < n

\* The index has one row per report, all below its counter, and a save's index
\* in memory has all of them below the id it took.
RowsInv ==
  /\ OneRowEach(index.rows) /\ Below(index.rows, index.next)
  /\ \A w \in Workers : op[w].at \in SavingAt =>
       /\ OneRowEach(op[w].idx.rows) /\ Below(op[w].idx.rows, op[w].id)
       /\ op[w].idx.next = op[w].id

\* The acknowledged live reports have a row.
AckedIn(rows) == \A i \in Ids :
  acked[i] # None /\ live[i] # NoReport => \E r \in rows : r.id = i

ListedInv == faults = 0 =>
  /\ AckedIn(ReadIndex.rows)
  /\ \A w \in Workers : op[w].at \in SavingAt => AckedIn(op[w].idx.rows)

\* The rows are exact but for report k (0 is no report).
ExactBut(rows, k) ==
  /\ \A r \in rows : r.id # k =>
       live[r.id] # NoReport /\ r = BuildIndexEntry(r.id, live[r.id])
  /\ \A i \in Ids : i # k /\ live[i] # NoReport =>
       BuildIndexEntry(i, live[i]) \in rows

\* The row of report i, once the field passed is written into it, is as the
\* report is.
Fixable(rows, i, rep, status) == \A r \in rows :
  r.id = i => UpdateRow(r, rep, status) = BuildIndexEntry(i, rep)

\* What a call between two writes keeps exact.
ExactOp(o) ==
  /\ o.at \in {"savePng", "saveJson"} => ExactBut(o.idx.rows, 0)
  /\ o.at = "saveIndex" => ExactBut(o.idx.rows, o.id)
  /\ o.at = "writeReport" => ExactBut(ReadIndex.rows, 0)
  /\ o.at = "updateIndex" =>
       /\ ReadReport(o.id) = o.new
       /\ ExactBut(ReadIndex.rows, o.id)
       /\ (\E r \in ReadIndex.rows : r.id = o.id) <=> live[o.id] # NoReport
       /\ Fixable(ReadIndex.rows, o.id, o.new, o.status)
  /\ o.at \in {"unlink", "archive"} => ExactBut(ReadIndex.rows, o.id)

ExactInv == crashes = 0 /\ faults = 0 =>
  /\ Free => ExactBut(ReadIndex.rows, 0)
  /\ \A w \in Workers : ExactOp(op[w])

ListInv == Bounded /\ RowsInv /\ ListedInv /\ ExactInv

-----------------------------------------------------------------------------
\* A bounded nonempty set of numbers has a greatest one.
LEMMA Greatest ==
  ASSUME NEW S, S \subseteq Nat, S # {}, NEW n \in Nat, \A i \in S : i <= n
  PROVE  \E m \in S : \A i \in S : i <= m
<1> DEFINE U == {k \in Nat : \A i \in S : i <= k}
<1>1. U \subseteq Nat /\ U # {}
  OBVIOUS
<1>2. PICK x \in U : \A y \in U : ~(<<y, x>> \in OpToRel(<, Nat))
  BY <1>1, WFMin, NatLessThanWellFounded, Zenon
<1>3. x \in Nat /\ \A y \in U : ~(y < x)
  BY <1>1, <1>2 DEF OpToRel
<1>4. x \in S
  <2> SUFFICES ASSUME x \notin S PROVE FALSE
    OBVIOUS
  <2>1. \A i \in S : i \in Nat /\ i <= x - 1
    BY <1>3
  <2>2. x - 1 \in Nat
    <3>1. PICK e \in S : TRUE
      OBVIOUS
    <3>2. e \in Nat /\ e <= x - 1
      BY <2>1, <3>1
    <3>3. QED
      BY <1>3, <3>2
  <2>3. x - 1 \in U
    BY <2>1, <2>2
  <2>4. QED
    BY <1>3, <2>3
<1>5. QED
  BY <1>4

\* The rebuilt index has one row per report, below its counter.
LEMMA RebuiltRight ==
  ASSUME IInv, Bounded
  PROVE  OneRowEach(RebuiltRows) /\ Below(RebuiltRows, RebuiltNext)
<1> DEFINE S == {i \in Ids : live[i] # NoReport \/ arch[i] # NoReport}
<1>1. \A r \in RebuiltRows : r.id \in S /\ r = BuildIndexEntry(r.id, live[r.id])
  <2> SUFFICES ASSUME NEW i \in Ids, live[i] # NoReport
               PROVE  LET r == BuildIndexEntry(i, live[i]) IN
                      r.id \in S /\ r = BuildIndexEntry(r.id, live[r.id])
    BY Zenon DEF RebuiltRows
  <2>1. BuildIndexEntry(i, live[i]).id = i
    BY SMT DEF BuildIndexEntry
  <2>2. QED
    BY <2>1, Zenon
<1>2. OneRowEach(RebuiltRows)
  BY <1>1, Zenon DEF OneRowEach
<1>3. S \subseteq Nat
  BY FileStorageAssumption
<1>4. PICK n \in Nat : \A i \in S : i <= n
  BY DEF Bounded
<1>5. Below(RebuiltRows, RebuiltNext)
  <2> SUFFICES ASSUME NEW r \in RebuiltRows PROVE r.id < RebuiltNext
    BY DEF Below
  <2>1. r.id \in S
    BY <1>1
  <2> HIDE DEF S
  <2>2. PICK m \in S : \A i \in S : i <= m
    BY <1>3, <1>4, <2>1, Greatest, Zenon
  <2> DEFINE c == CHOOSE i \in Last(S) : TRUE
  <2>3. m \in Last(S)
    BY <2>2, Zenon DEF Last
  <2>4. c \in Last(S)
    BY <2>3, Zenon
  <2>5. c \in S /\ r.id <= c
    BY <2>1, <2>4, Zenon DEF Last
  <2>6. RebuiltNext = 1 + c
    <3>1. RebuiltNext = IF Last(S) = {} THEN 1 ELSE 1 + c
      BY Zenon DEF RebuiltNext, S
    <3>2. QED
      BY <2>3, <3>1, Zenon
  <2> HIDE DEF c
  <2>7. c \in Nat /\ r.id \in Nat
    BY <1>3, <2>1, <2>5, Zenon
  <2>8. QED
    BY <2>5, <2>6, <2>7, SMT
<1>6. QED
  BY <1>2, <1>5

\* So has the index that is read.
LEMMA ReadRight ==
  ASSUME IInv, Bounded, RowsInv
  PROVE  /\ OneRowEach(ReadIndex.rows) /\ Below(ReadIndex.rows, ReadIndex.next)
         /\ ReadIndex \in Index /\ ReadIndex.present
         /\ \A r \in ReadIndex.rows : r.id \in Ids /\ r.id \in Nat
<1>1. ReadIndex \in Index
  BY IndexTyped, Zenon DEF IInv
<1>2. \A r \in ReadIndex.rows : r.id \in Ids /\ r.id \in Nat
  <2>1. ReadIndex.rows \subseteq Row
    BY <1>1, SMT DEF Index
  <2>2. \A r \in Row : r.id \in Ids
    BY SMT DEF Row
  <2>3. QED
    BY <2>1, <2>2, FileStorageAssumption
<1>3. CASE index.present
  <2>1. ReadIndex = index
    BY <1>3, Zenon DEF ReadIndex
  <2>2. QED
    BY <1>1, <1>2, <1>3, <2>1, Zenon DEF RowsInv
<1>4. CASE ~index.present
  <2>1. /\ ReadIndex.present
        /\ ReadIndex.rows = RebuiltRows /\ ReadIndex.next = RebuiltNext
    BY <1>4, SMT DEF ReadIndex, RebuildIndex
  <2>2. QED
    BY <1>1, <1>2, <2>1, RebuiltRight, Zenon
<1>5. QED
  BY <1>3, <1>4

\* The fields of a row.
LEMMA RowOf == ASSUME NEW i, NEW rep
               PROVE  BuildIndexEntry(i, rep).id = i
BY SMT DEF BuildIndexEntry

\* The rebuilt rows are exact.
AreExact(rows) ==
  /\ \A k : ExactBut(rows, k)
  /\ \A i \in Ids : live[i] # NoReport <=> \E r \in rows : r.id = i

\* The index rebuilt from the files is exact.
LEMMA RebuiltExact == AreExact(RebuiltRows)
<1> SUFFICES /\ \A k : ExactBut(RebuiltRows, k)
             /\ \A i \in Ids : live[i] # NoReport <=> \E r \in RebuiltRows : r.id = i
  BY DEF AreExact
<1>1. \A r \in RebuiltRows : \E i \in Ids : live[i] # NoReport /\ r = BuildIndexEntry(i, live[i])
  BY Zenon DEF RebuiltRows
<1>2. \A i \in Ids : live[i] # NoReport => BuildIndexEntry(i, live[i]) \in RebuiltRows
  BY Zenon DEF RebuiltRows
<1>3. \A r \in RebuiltRows :
        r.id \in Ids /\ live[r.id] # NoReport /\ r = BuildIndexEntry(r.id, live[r.id])
  <2> SUFFICES ASSUME NEW r \in RebuiltRows
               PROVE  r.id \in Ids /\ live[r.id] # NoReport /\ r = BuildIndexEntry(r.id, live[r.id])
    OBVIOUS
  <2>1. PICK i \in Ids : live[i] # NoReport /\ r = BuildIndexEntry(i, live[i])
    BY <1>1
  <2>2. r.id = i
    BY <2>1, RowOf, Zenon
  <2>3. QED
    BY <2>1, <2>2, Zenon
<1>4. \A k : ExactBut(RebuiltRows, k)
  BY <1>2, <1>3, Zenon DEF ExactBut
<1>5. QED
  BY <1>2, <1>3, <1>4, RowOf, Zenon

\* What is exact is exact but for any report.
LEMMA ExactWeaker ==
  ASSUME IInv, NEW rows, rows \subseteq Row, ExactBut(rows, 0)
  PROVE  \A k : ExactBut(rows, k)
<1>1. \A i \in Ids : i # 0
  BY FileStorageAssumption
<1>2. \A r \in rows : r.id \in Ids
  BY SMT DEF Row
<1>3. QED
  BY <1>1, <1>2, Zenon DEF ExactBut

-----------------------------------------------------------------------------
\* Nothing that is read changes when neither reports nor index are written.
LEMMA SameRead ==
  ASSUME UNCHANGED <<live, arch, index>>
  PROVE  /\ ReadIndex' = ReadIndex
         /\ \A rows, k : ExactBut(rows, k)' <=> ExactBut(rows, k)
         /\ \A i : ReadReport(i)' = ReadReport(i)
         /\ Bounded' <=> Bounded
<1>1. \A rows, k : ExactBut(rows, k)' <=> ExactBut(rows, k)
  BY Zenon DEF ExactBut
<1>2. ReadIndex' = ReadIndex
  BY Zenon DEF ReadIndex, RebuildIndex, RebuiltRows, RebuiltNext
<1>3. (\A i : ReadReport(i)' = ReadReport(i)) /\ (Bounded' <=> Bounded)
  BY Zenon DEF ReadReport, Bounded
<1>4. QED
  BY <1>1, <1>2, <1>3

\* What one thread's state promises keeps holding when nothing is written.
LEMMA SameOp ==
  ASSUME UNCHANGED <<live, arch, index>>, NEW w \in Workers, NEW o, op'[w] = o, ExactOp(o)
  PROVE  ExactOp(op[w])'
<1>1. ReadReport(op[w].id)' = ReadReport(o.id)
  BY Zenon DEF ReadReport
<1>2. /\ ExactBut(op[w].idx.rows, 0)' <=> ExactBut(o.idx.rows, 0)
      /\ ExactBut(op[w].idx.rows, op[w].id)' <=> ExactBut(o.idx.rows, o.id)
      /\ ExactBut(ReadIndex.rows, 0)' <=> ExactBut(ReadIndex.rows, 0)
      /\ ExactBut(ReadIndex.rows, op[w].id)' <=> ExactBut(ReadIndex.rows, o.id)
      /\ ReadIndex' = ReadIndex
  <2>1. ReadIndex' = ReadIndex
    BY SameRead
  <2>2. QED
    BY <2>1, Zenon DEF ExactBut
<1>3. QED
  BY <1>1, <1>2, Zenon DEF ExactOp

\* What a save's index in memory has to satisfy.
SaveIdx(o) ==
  /\ OneRowEach(o.idx.rows) /\ Below(o.idx.rows, o.id) /\ o.idx.next = o.id
  /\ faults = 0 => AckedIn(o.idx.rows)

\* A step of one thread that writes neither reports nor the index.
LEMMA SameFiles ==
  ASSUME IInv, ListInv, NEW w \in Workers, NEW o, Become(w, o),
         UNCHANGED <<live, arch, index, faults>>,
         \A i \in Ids : acked'[i] \in {acked[i], None},
         o.at \in SavingAt => SaveIdx(o),
         crashes' = 0 /\ faults = 0 =>
           /\ crashes = 0 /\ ExactOp(o)
           /\ Free' => ExactBut(ReadIndex.rows, 0)
  PROVE  ListInv'
<1>1. op'[w] = o /\ \A v \in Workers \ {w} : op'[v] = op[v]
  BY SMT DEF IInv, Typed, Become
<1>2. ReadIndex' = ReadIndex /\ (Bounded' <=> Bounded)
      /\ \A rows, k : ExactBut(rows, k)' <=> ExactBut(rows, k)
  BY SameRead
<1>3. \A rows : AckedIn(rows) => AckedIn(rows)'
  BY Zenon DEF AckedIn
<1>4. RowsInv'
  BY <1>1, Zenon DEF ListInv, RowsInv, SaveIdx
<1>5. ListedInv'
  <2> SUFFICES ASSUME faults = 0
               PROVE  /\ AckedIn(ReadIndex.rows)'
                      /\ \A v \in Workers : op'[v].at \in SavingAt => AckedIn(op[v].idx.rows)'
    BY Zenon DEF ListedInv
  <2>1. AckedIn(ReadIndex.rows)'
    BY <1>2, Zenon DEF ListInv, ListedInv, AckedIn
  <2>2. ASSUME NEW v \in Workers, op'[v].at \in SavingAt PROVE AckedIn(op[v].idx.rows)'
    <3>1. PICK rows : rows = op'[v].idx.rows
      OBVIOUS
    <3>2. AckedIn(rows)
      BY <1>1, <2>2, <3>1, Zenon DEF ListInv, ListedInv, SaveIdx
    <3>3. QED
      BY <1>3, <3>1, <3>2, Zenon DEF AckedIn
  <2>3. QED
    BY <2>1, <2>2
<1>6. ExactInv'
  <2> SUFFICES ASSUME crashes' = 0, faults = 0
               PROVE  /\ Free' => ExactBut(ReadIndex.rows, 0)'
                      /\ \A v \in Workers : ExactOp(op[v])'
    BY Zenon DEF ExactInv
  <2>1. Free' => ExactBut(ReadIndex.rows, 0)'
    BY <1>2, Zenon DEF ExactBut
  <2>2. \A v \in Workers : ExactOp(op[v])'
    BY <1>1, SameOp, Zenon DEF ListInv, ExactInv
  <2>3. QED
    BY <2>1, <2>2
<1>7. QED
  BY <1>2, <1>4, <1>5, <1>6, Zenon DEF ListInv

\* A call that finds the lock free finds an exact listing.
LEMMA CallsExact ==
  ASSUME IInv, ListInv, Free, crashes = 0, faults = 0, NEW o,
         o.at \notin SavingAt \cup {"savePng", "saveJson", "saveIndex", "updateIndex"}
  PROVE  ExactOp(o) /\ ExactBut(ReadIndex.rows, 0)
<1>1. ExactBut(ReadIndex.rows, 0)
  BY Zenon DEF ListInv, ExactInv
<1>2. ReadIndex.rows \subseteq Row
  <2>1. ReadIndex \in Index
    BY IndexTyped, Zenon DEF IInv
  <2>2. QED
    BY <2>1, SMT DEF Index
<1>3. \A k : ExactBut(ReadIndex.rows, k)
  BY <1>1, <1>2, ExactWeaker, Zenon
<1>4. o.at \notin {"savePng", "saveJson"} /\ o.at # "saveIndex" /\ o.at # "updateIndex"
  BY SMT
<1>5. QED
  BY <1>1, <1>3, <1>4, Zenon DEF ExactOp

\* Calls that begin under the lock, other than a save.
LEMMA BeginListing ==
  ASSUME IInv, ListInv, NEW w \in Workers,
         \/ UpdateBegin(w) \/ LinkBegin(w) \/ CloseNext(w) \/ DeleteBegin(w)
         \/ ArchiveBegin(w) \/ BulkArchiveBegin(w)
  PROVE  ListInv'
<1> DEFINE Fit(o) == o.at \notin SavingAt \cup {"savePng", "saveJson", "saveIndex", "updateIndex"}
<1>1. \A i, rep, b, S : Fit(Updating(i, rep, b, S))
  BY SMT DEF Updating, SavingAt
<1>2. \A i, S : Fit(Doing("unlink", i, S)) /\ Fit(Doing("archive", i, S)) /\ Fit(Closing(S))
  BY SMT DEF Doing, Closing, Idle, SavingAt
<1>3. \E o : Become(w, o) /\ Fit(o)
  <2>1. CASE UpdateBegin(w)
    BY <1>1, <2>1, Zenon DEF UpdateBegin
  <2>2. CASE LinkBegin(w)
    BY <1>1, <2>2, Zenon DEF LinkBegin
  <2>3. CASE CloseNext(w)
    BY <1>1, <1>2, <2>3, Zenon DEF CloseNext
  <2>4. CASE DeleteBegin(w)
    BY <1>2, <2>4, Zenon DEF DeleteBegin
  <2>5. CASE ArchiveBegin(w) \/ BulkArchiveBegin(w)
    BY <1>2, <2>5, Zenon DEF ArchiveBegin, BulkArchiveBegin, ArchiveFirst
  <2>6. QED
    BY <2>1, <2>2, <2>3, <2>4, <2>5
<1>4. PICK o : Become(w, o) /\ Fit(o)
  BY <1>3
<1>5. Free /\ UNCHANGED <<live, arch, index, faults, crashes>>
  BY Zenon DEF UpdateBegin, LinkBegin, CloseNext, DeleteBegin, ArchiveBegin,
     BulkArchiveBegin, disk
<1>6. \A i \in Ids : acked'[i] \in {acked[i], None}
  <2>1. CASE DeleteBegin(w)
    BY <2>1, SMT DEF DeleteBegin, IInv, Typed
  <2>2. CASE acked' = acked
    BY <2>2
  <2>3. QED
    BY <2>1, <2>2, Zenon DEF UpdateBegin, LinkBegin, CloseNext, ArchiveBegin,
       BulkArchiveBegin, history
<1>7. o.at \notin SavingAt
  BY <1>4
<1>8. QED
  BY <1>4, <1>5, <1>6, <1>7, CallsExact, SameFiles, Zenon

\* Steps without the lock, and failed writes.
LEMMA FreeListing ==
  ASSUME IInv, ListInv, NEW w \in Workers,
         BulkCloseBegin(w) \/ LookFirst(w) \/ LookSecond(w) \/ Fail(w)
  PROVE  ListInv'
<1> DEFINE Fit(o) == o.at \in {"idle", "closing", "lookSecond"}
<1>1. (\A S : Fit(Closing(S))) /\ (\A i, b : Fit(Looking(i, b))) /\ Fit(Idle)
  BY SMT DEF Doing, Closing, Idle, Looking
<1>2. \E o : Become(w, o) /\ Fit(o)
  BY <1>1, Zenon DEF BulkCloseBegin, LookFirst, LookSecond, Fail
<1>3. PICK o : Become(w, o) /\ Fit(o)
  BY <1>2
<1>4. UNCHANGED <<live, arch, index, faults, acked>>
      /\ (crashes' = 0 => crashes = 0 /\ UNCHANGED holder)
  <2>1. CASE Fail(w)
    BY <2>1, SMT DEF Fail, disk, history, IInv, Typed
  <2>2. QED
    BY <2>1, Zenon DEF BulkCloseBegin, LookFirst, LookSecond, disk, history
<1>5. o.at \notin SavingAt /\ ExactOp(o)
  BY <1>3, SMT DEF SavingAt, ExactOp
<1>6. crashes' = 0 /\ faults = 0 => (Free' => ExactBut(ReadIndex.rows, 0))
  BY <1>4, Zenon DEF ListInv, ExactInv, Free
<1>7. QED
  BY <1>3, <1>4, <1>5, <1>6, SameFiles, Zenon

\* The screenshots of a save and of an archival.
LEMMA PngListing ==
  ASSUME IInv, ListInv, NEW w \in Workers, SavePng(w) \/ ArchivePng(w)
  PROVE  ListInv'
<1>1. /\ UNCHANGED <<live, arch, index, faults, crashes, acked, holder>>
      /\ op[w].at \in {"savePng", "archive"}
  BY Zenon DEF SavePng, ArchivePng, history
<1>2. ~Free'
  <2>1. op[w].at \in Locked
    BY <1>1, SMT DEF Locked
  <2>2. QED
    BY <1>1, <2>1, FileStorageAssumption, Zenon DEF IInv, LockInv, Free
<1>3. CASE SavePng(w)
  <2> DEFINE o == [op[w] EXCEPT !.at = "saveJson"]
  <2>1. Become(w, o)
    BY <1>3, SMT DEF SavePng, Goto, Become
  <2>2. op[w] \in Op /\ op[w].at = "savePng"
    BY <1>3, Zenon DEF SavePng, IInv, Typed
  <2>3. o.at = "saveJson" /\ o.id = op[w].id /\ o.idx = op[w].idx
    BY <2>2, SMT DEF Op
  <2> HIDE DEF o
  <2>4. op[w].at \in SavingAt
    BY <2>2, SMT DEF SavingAt
  <2>5. SaveIdx(o)
    BY <2>3, <2>4, Zenon DEF ListInv, RowsInv, ListedInv, SaveIdx
  <2>6. crashes = 0 /\ faults = 0 => ExactOp(o)
    <3> SUFFICES ASSUME crashes = 0, faults = 0 PROVE ExactOp(o)
      OBVIOUS
    <3>1. ExactBut(op[w].idx.rows, 0)
      BY <2>2, SMT DEF ListInv, ExactInv, ExactOp
    <3>2. QED
      BY <2>3, <3>1, SMT DEF ExactOp
  <2>7. QED
    BY <1>1, <1>2, <2>1, <2>5, <2>6, SameFiles, Zenon
<1>4. CASE ArchivePng(w)
  <2>1. Become(w, op[w])
    BY <1>4, SMT DEF ArchivePng, IInv, Typed, Become
  <2>2. op[w].at \notin SavingAt
    BY <1>4, SMT DEF ArchivePng, SavingAt
  <2>3. crashes = 0 /\ faults = 0 => ExactOp(op[w])
    BY Zenon DEF ListInv, ExactInv
  <2>4. QED
    BY <1>1, <1>2, <2>1, <2>2, <2>3, SameFiles, Zenon
<1>5. QED
  BY <1>3, <1>4

\* A save begins with a copy of the index that is read.
LEMMA SaveBeginListing ==
  ASSUME IInv, ListInv, NEW w \in Workers, SaveBegin(w) PROVE ListInv'
<1>1. PICK s \in pending, i \in First(FreeIds(ReadIndex)) :
        Become(w, Saving(i, BuildReport(s), [ReadIndex EXCEPT !.next = i]))
  BY Zenon DEF SaveBegin
<1>2. Free /\ holder' = w /\ UNCHANGED <<live, arch, index, acked, crashes, faults>>
  BY Zenon DEF SaveBegin, disk, history
<1>3. i \in Ids /\ i >= ReadIndex.next /\ i \in Nat
  BY FileStorageAssumption, SMT DEF First, FreeIds
<1>4. /\ OneRowEach(ReadIndex.rows) /\ Below(ReadIndex.rows, ReadIndex.next)
      /\ ReadIndex \in Index
      /\ \A r \in ReadIndex.rows : r.id \in Nat
  BY ReadRight, Zenon DEF ListInv
<1>5. PICK o : o = Saving(i, BuildReport(s), [ReadIndex EXCEPT !.next = i])
  OBVIOUS
<1>6. o.at = "savePng" /\ o.id = i /\ o.idx.rows = ReadIndex.rows /\ o.idx.next = i
  BY <1>4, <1>5, SMT DEF Saving, Index
<1>7. SaveIdx(o)
  <2>1. ReadIndex.next \in Nat
    BY <1>4, SMT DEF Index
  <2>2. Below(ReadIndex.rows, i)
    BY <1>3, <1>4, <2>1, SMT DEF Below
  <2>3. faults = 0 => AckedIn(ReadIndex.rows)
    BY Zenon DEF ListInv, ListedInv
  <2>4. QED
    BY <1>4, <1>6, <2>2, <2>3, Zenon DEF SaveIdx
<1>8. crashes = 0 /\ faults = 0 => ExactOp(o)
  <2> SUFFICES ASSUME crashes = 0, faults = 0 PROVE ExactOp(o)
    OBVIOUS
  <2>1. ExactBut(ReadIndex.rows, 0)
    BY <1>2, Zenon DEF ListInv, ExactInv
  <2>2. QED
    BY <1>6, <2>1, SMT DEF ExactOp
<1>9. ~Free'
  BY <1>2, FileStorageAssumption, Zenon DEF Free
<1>10. QED
  BY <1>1, <1>2, <1>5, <1>7, <1>8, <1>9, SameFiles, Zenon

-----------------------------------------------------------------------------
\* A thread outside the locked steps promises nothing.
LEMMA UnlockedExact == ASSUME NEW o, o.at \notin Locked PROVE ExactOp(o)
BY SMT DEF Locked, ExactOp

\* The end of a call: the index is written, and its rows are exact.
LEMMA IndexWritten ==
  ASSUME IInv, IInv', ListInv, NEW w \in Workers, NEW o, NEW rows, op[w].at \in Locked,
         Become(w, o), UNCHANGED <<live, arch, crashes, faults>>,
         index'.present, index'.rows = rows,
         o.at \notin SavingAt \cup {"savePng", "saveJson", "saveIndex", "writeReport", "updateIndex"},
         OneRowEach(rows), Below(rows, index'.next),
         faults = 0 => \A i \in Ids : acked'[i] # None /\ live[i] # NoReport =>
                         \E r \in rows : r.id = i,
         crashes = 0 /\ faults = 0 => ExactBut(rows, 0)
  PROVE  ListInv'
<1>1. op'[w] = o /\ \A v \in Workers \ {w} : op'[v] = op[v] /\ op'[v].at \notin Locked
  BY SMT DEF IInv, Typed, Become, LockInv
<1>2. \A v \in Workers : op'[v].at \notin SavingAt
  BY <1>1, SMT DEF Locked, SavingAt
<1>3. ReadIndex' = index' /\ rows \subseteq Row
  BY SMT DEF ReadIndex, IInv, Typed, Index
<1>4. Bounded'
  BY Zenon DEF ListInv, Bounded
<1>5. RowsInv'
  BY <1>2, Zenon DEF RowsInv
<1>6. ListedInv'
  BY <1>2, <1>3, Zenon DEF ListedInv, AckedIn
<1>7. ExactInv'
  <2> SUFFICES ASSUME crashes = 0, faults = 0
               PROVE  ExactBut(ReadIndex.rows, 0)' /\ \A v \in Workers : ExactOp(op[v])'
    BY Zenon DEF ExactInv
  <2>1. \A k : ExactBut(rows, k)
    BY <1>3, ExactWeaker, Zenon
  <2>2. \A k : ExactBut(rows, k)'
    <3>1. \A k : ExactBut(rows, k)' <=> ExactBut(rows, k)
      BY Zenon DEF ExactBut
    <3>2. QED
      BY <2>1, <3>1, Zenon
  <2>3. \A k : ExactBut(ReadIndex.rows, k)'
    BY <1>3, <2>2, Zenon DEF ExactBut
  <2>4. ExactOp(op[w])'
    <3>1. ExactBut(ReadIndex.rows, op[w].id)'
      <4>1. PICK k : k = op'[w].id
        OBVIOUS
      <4>2. QED
        BY <2>3, <4>1, Zenon DEF ExactBut
    <3>2. op'[w].at \notin {"savePng", "saveJson", "saveIndex", "writeReport", "updateIndex"}
      BY <1>1, SMT
    <3>3. QED
      BY <3>1, <3>2, SMT DEF ExactOp
  <2>5. ASSUME NEW v \in Workers \ {w} PROVE ExactOp(op[v])'
    BY <1>1, <2>5, SMT DEF Locked, ExactOp
  <2>6. QED
    BY <2>3, <2>4, <2>5, Zenon
<1>8. QED
  BY <1>4, <1>5, <1>6, <1>7, Zenon DEF ListInv

\* save_report returns: the row of the new report joins exact rows that have
\* none for its id.
LEMMA SaveIndexListing ==
  ASSUME IInv, CInv, IInv', ListInv, NEW w \in Workers, SaveIndex(w) PROVE ListInv'
<1>0. PICK i, rep, idx, row : /\ i = op[w].id /\ rep = op[w].new /\ idx = op[w].idx
                              /\ row = BuildIndexEntry(i, rep)
  OBVIOUS
<1>1. /\ op[w].at = "saveIndex" /\ Become(w, Idle)
      /\ index' = [present |-> TRUE, next |-> idx.next + 1, rows |-> idx.rows \cup {row}]
      /\ acked' = [acked EXCEPT ![i] = rep.tag]
      /\ UNCHANGED <<live, arch, crashes, faults>>
  BY <1>0, Zenon DEF SaveIndex, disk
<1>2. op[w].at \in Locked /\ op[w].at \in SavingAt
  BY <1>1, SMT DEF Locked, SavingAt
<1>3. i \in Ids /\ i \in Nat /\ i # 0
  <2>1. i \in Ids
    BY <1>0, <1>2, Zenon DEF IInv, LockInv
  <2>2. QED
    BY <2>1, FileStorageAssumption, SMT
<1>4. live[i] = rep /\ rep # NoReport
  <2>1. rep \in Report
    <3>1. op[w].at \in Writing
      BY <1>1, SMT DEF Writing
    <3>2. QED
      BY <1>0, <3>1, Zenon DEF IInv, LockInv
  <2>2. QED
    BY <1>0, <1>1, <2>1, ReportIsNotAbsent, Zenon DEF IInv, SaveInv
<1>5. /\ OneRowEach(idx.rows) /\ Below(idx.rows, i) /\ idx.next = i
      /\ \A r \in idx.rows : r.id \in Nat /\ r.id # i
  <2>1. OneRowEach(idx.rows) /\ Below(idx.rows, i) /\ idx.next = i
    BY <1>0, <1>2, Zenon DEF ListInv, RowsInv
  <2>2. \A r \in idx.rows : r.id \in Nat
    <3>1. idx.rows \subseteq Row
      BY <1>0, SMT DEF IInv, Typed, Op, Index
    <3>2. \A r \in Row : r.id \in Ids
      BY SMT DEF Row
    <3>3. QED
      BY <3>1, <3>2, FileStorageAssumption
  <2>3. \A r \in idx.rows : r.id < i
    BY <2>1 DEF Below
  <2>4. QED
    BY <1>3, <2>1, <2>2, <2>3
<1>6. row.id = i /\ row = BuildIndexEntry(i, live[i])
  BY <1>0, <1>4, RowOf, Zenon
<1> DEFINE rows == idx.rows \cup {row}
<1>7. OneRowEach(rows)
  BY <1>5, <1>6, Zenon DEF OneRowEach
<1>8. Below(rows, index'.next)
  <2>1. index'.next = i + 1
    BY <1>1, <1>5, SMT
  <2>2. \A r \in idx.rows : r.id < i
    BY <1>5 DEF Below
  <2>3. QED
    BY <1>3, <1>5, <1>6, <2>1, <2>2, SMT DEF Below
<1>9. faults = 0 => \A j \in Ids : acked'[j] # None /\ live[j] # NoReport =>
                      \E r \in rows : r.id = j
  <2> SUFFICES ASSUME faults = 0, NEW j \in Ids, acked'[j] # None, live[j] # NoReport
               PROVE  \E r \in rows : r.id = j
    OBVIOUS
  <2>1. CASE j = i
    BY <1>6, <2>1
  <2>2. CASE j # i
    <3>1. acked[j] # None
      BY <1>1, <2>2, SMT DEF IInv, Typed
    <3>2. \E r \in idx.rows : r.id = j
      BY <1>0, <1>2, <3>1, Zenon DEF ListInv, ListedInv, AckedIn
    <3>3. QED
      BY <3>2
  <2>3. QED
    BY <2>1, <2>2
<1>10. crashes = 0 /\ faults = 0 => ExactBut(rows, 0)
  <2> SUFFICES ASSUME crashes = 0, faults = 0 PROVE ExactBut(rows, 0)
    OBVIOUS
  <2>1. ExactBut(idx.rows, i)
    BY <1>0, <1>1, Zenon DEF ListInv, ExactInv, ExactOp
  <2>2. QED
    BY <1>4, <1>5, <1>6, <2>1, Zenon DEF ExactBut
<1>11. index'.present /\ index'.rows = rows
  BY <1>1, SMT
<1>12. Idle.at \notin SavingAt \cup {"savePng", "saveJson", "saveIndex", "writeReport", "updateIndex"}
  BY SMT DEF Idle, Doing, SavingAt
<1> HIDE DEF rows
<1>13. QED
  BY <1>1, <1>2, <1>7, <1>8, <1>9, <1>10, <1>11, <1>12, IndexWritten, Zenon

\* delete_report and archive_report end: the row goes, the live file is gone.
LEMMA DropRowListing ==
  ASSUME IInv, IInv', ListInv, NEW w \in Workers, DeleteIndex(w) \/ ArchiveIndex(w)
  PROVE  ListInv'
<1>0. PICK i, rows : i = op[w].id /\ rows = {r \in ReadIndex.rows : r.id # i}
  OBVIOUS
<1>1. /\ op[w].at \in {"unlink", "archive"} /\ live[i] = NoReport
      /\ index' = DropRow(ReadIndex, i)
      /\ UNCHANGED <<live, arch, acked, crashes, faults>>
  BY <1>0, Zenon DEF DeleteIndex, ArchiveIndex, AnyFile, HasLiveFile, disk, history
<1>2. op[w].at \in Locked
  BY <1>1, SMT DEF Locked
<1>3. i \in Ids
  BY <1>0, <1>2, Zenon DEF IInv, LockInv
<1>4. /\ OneRowEach(ReadIndex.rows) /\ Below(ReadIndex.rows, ReadIndex.next)
      /\ ReadIndex \in Index /\ ReadIndex.present
  BY ReadRight, Zenon DEF ListInv
<1>5. index'.present /\ index'.rows = rows /\ index'.next = ReadIndex.next
  BY <1>0, <1>1, <1>4, SMT DEF DropRow, Index
<1>6. OneRowEach(rows) /\ Below(rows, index'.next)
  BY <1>0, <1>4, <1>5, Zenon DEF OneRowEach, Below
<1>7. faults = 0 => \A j \in Ids : acked'[j] # None /\ live[j] # NoReport =>
                      \E r \in rows : r.id = j
  BY <1>0, <1>1, Zenon DEF ListInv, ListedInv, AckedIn
<1>8. crashes = 0 /\ faults = 0 => ExactBut(rows, 0)
  <2> SUFFICES ASSUME crashes = 0, faults = 0 PROVE ExactBut(rows, 0)
    OBVIOUS
  <2>1. ExactBut(ReadIndex.rows, i)
    BY <1>0, <1>1, Zenon DEF ListInv, ExactInv, ExactOp
  <2>2. QED
    <3>1. \A j, r : BuildIndexEntry(j, r).id = j
      BY RowOf
    <3>2. QED
      BY <1>0, <1>1, <2>1, <3>1, Zenon DEF ExactBut
<1>9. PICK o : /\ Become(w, o)
               /\ o.at \notin SavingAt \cup {"savePng", "saveJson", "saveIndex", "writeReport", "updateIndex"}
  <2> DEFINE Fit(o) == o.at \notin SavingAt \cup {"savePng", "saveJson", "saveIndex", "writeReport", "updateIndex"}
  <2>1. Fit(Idle) /\ \A j, S : Fit(Doing("archive", j, S))
    BY SMT DEF Idle, Doing, SavingAt
  <2>2. QED
    BY <2>1, Zenon DEF DeleteIndex, ArchiveIndex, ArchiveFirst
<1>10. QED
  BY <1>1, <1>2, <1>5, <1>6, <1>7, <1>8, <1>9, IndexWritten, Zenon

\* update_status and set_github_link return: the row of the report shows it as
\* it was written.
LEMMA UpdateIndexListing ==
  ASSUME IInv, IInv', ListInv, NEW w \in Workers, UpdateIndex(w) PROVE ListInv'
<1>0. PICK i, rep, b, o, rows :
        /\ i = op[w].id /\ rep = op[w].new /\ b = op[w].status
        /\ o = Closing(op[w].todo)
        /\ rows = {IF r.id = i THEN UpdateRow(r, rep, b) ELSE r : r \in ReadIndex.rows}
  OBVIOUS
<1>1. /\ op[w].at = "updateIndex" /\ Become(w, o)
      /\ index' = UpdateIndexEntry(ReadIndex, i, rep, b)
      /\ UNCHANGED <<live, arch, acked, crashes, faults>>
  BY <1>0, Zenon DEF UpdateIndex, disk
<1>2. op[w].at \in Locked
  BY <1>1, SMT DEF Locked
<1>3. i \in Ids
  BY <1>0, <1>2, Zenon DEF IInv, LockInv
<1>4. /\ OneRowEach(ReadIndex.rows) /\ Below(ReadIndex.rows, ReadIndex.next)
      /\ ReadIndex \in Index /\ ReadIndex.present
  BY ReadRight, Zenon DEF ListInv
<1>5. index'.present /\ index'.rows = rows /\ index'.next = ReadIndex.next
  BY <1>0, <1>1, <1>4, SMT DEF UpdateIndexEntry, Index
<1>6. \A r \in ReadIndex.rows : UpdateRow(r, rep, b).id = r.id
  <2>1. ReadIndex.rows \subseteq Row
    BY <1>4, SMT DEF Index
  <2>2. rep \in Report
    <3>1. op[w].at \in Writing
      BY <1>1, SMT DEF Writing
    <3>2. op[w].new \in Report
      BY <3>1, Zenon DEF IInv, LockInv
    <3>3. QED
      BY <1>0, <3>2, Zenon
  <2>3. QED
    BY <2>1, <2>2, RowUpdated
<1>7. \A q \in rows : \E r \in ReadIndex.rows :
        q.id = r.id /\ q = IF r.id = i THEN UpdateRow(r, rep, b) ELSE r
  <2>1. \A q \in rows : \E r \in ReadIndex.rows : q = IF r.id = i THEN UpdateRow(r, rep, b) ELSE r
    BY <1>0
  <2>2. \A r \in ReadIndex.rows : (IF r.id = i THEN UpdateRow(r, rep, b) ELSE r).id = r.id
    BY <1>6
  <2>3. QED
    BY <2>1, <2>2, Zenon
<1>8. \A r \in ReadIndex.rows : \E q \in rows :
        q.id = r.id /\ q = IF r.id = i THEN UpdateRow(r, rep, b) ELSE r
  BY <1>0, <1>6, Zenon
<1>9. OneRowEach(rows) /\ Below(rows, index'.next)
  <2>1. ASSUME NEW q \in rows, NEW p \in rows, q.id = p.id PROVE q = p
    <3>1. PICK r \in ReadIndex.rows : q.id = r.id /\ q = IF r.id = i THEN UpdateRow(r, rep, b) ELSE r
      BY <1>7
    <3>2. PICK t \in ReadIndex.rows : p.id = t.id /\ p = IF t.id = i THEN UpdateRow(t, rep, b) ELSE t
      BY <1>7
    <3>3. r = t
      BY <1>4, <2>1, <3>1, <3>2, Zenon DEF OneRowEach
    <3>4. QED
      BY <3>1, <3>2, <3>3, Zenon
  <2>2. ASSUME NEW q \in rows PROVE q.id < index'.next
    BY <1>4, <1>5, <1>7, <2>2, Zenon DEF Below
  <2>3. QED
    BY <2>1, <2>2, Zenon DEF OneRowEach, Below
<1>10. faults = 0 => \A j \in Ids : acked'[j] # None /\ live[j] # NoReport =>
                      \E r \in rows : r.id = j
  <2> SUFFICES ASSUME faults = 0, NEW j \in Ids, acked'[j] # None, live[j] # NoReport
               PROVE  \E q \in rows : q.id = j
    OBVIOUS
  <2>1. PICK r \in ReadIndex.rows : r.id = j
    BY <1>1, Zenon DEF ListInv, ListedInv, AckedIn
  <2>2. PICK q \in rows : q.id = r.id
    BY <1>8, Zenon
  <2>3. QED
    BY <2>1, <2>2, Zenon
<1>11. crashes = 0 /\ faults = 0 => ExactBut(rows, 0)
  <2> SUFFICES ASSUME crashes = 0, faults = 0 PROVE ExactBut(rows, 0)
    OBVIOUS
  <2>1. /\ ReadReport(i) = rep /\ ExactBut(ReadIndex.rows, i)
        /\ (\E r \in ReadIndex.rows : r.id = i) <=> live[i] # NoReport
        /\ Fixable(ReadIndex.rows, i, rep, b)
    BY <1>0, <1>1, Zenon DEF ListInv, ExactInv, ExactOp
  <2>2. live[i] # NoReport =>
          \A r \in ReadIndex.rows : r.id = i => UpdateRow(r, rep, b) = BuildIndexEntry(i, live[i])
    BY <2>1, Zenon DEF ReadReport, Fixable
  <2>3. ASSUME NEW q \in rows, q.id # 0
        PROVE  live[q.id] # NoReport /\ q = BuildIndexEntry(q.id, live[q.id])
    <3>1. PICK r \in ReadIndex.rows : q.id = r.id /\ q = IF r.id = i THEN UpdateRow(r, rep, b) ELSE r
      BY <1>7
    <3>2. CASE r.id = i
      BY <2>1, <2>2, <3>1, <3>2, Zenon
    <3>3. CASE r.id # i
      BY <2>1, <3>1, <3>3, Zenon DEF ExactBut
    <3>4. QED
      BY <3>2, <3>3
  <2>4. ASSUME NEW j \in Ids, live[j] # NoReport
        PROVE  BuildIndexEntry(j, live[j]) \in rows
    <3>1. CASE j = i
      <4>1. PICK r \in ReadIndex.rows : r.id = i
        BY <2>1, <2>4, <3>1, Zenon
      <4>2. UpdateRow(r, rep, b) \in rows
        BY <1>8, <4>1, Zenon
      <4>3. QED
        BY <2>2, <2>4, <3>1, <4>1, <4>2, Zenon
    <3>2. CASE j # i
      <4>1. BuildIndexEntry(j, live[j]) \in ReadIndex.rows
        BY <2>1, <2>4, <3>2, Zenon DEF ExactBut
      <4>2. BuildIndexEntry(j, live[j]).id # i
        BY <3>2, RowOf, Zenon
      <4>3. QED
        BY <1>8, <4>1, <4>2, Zenon
    <3>3. QED
      BY <3>1, <3>2
  <2>5. QED
    BY <2>3, <2>4, Zenon DEF ExactBut
<1>12. o.at \notin SavingAt \cup {"savePng", "saveJson", "saveIndex", "writeReport", "updateIndex"}
  BY <1>0, SMT DEF Closing, Idle, Doing, SavingAt
<1>13. QED
  BY <1>1, <1>2, <1>5, <1>9, <1>10, <1>11, <1>12, IndexWritten, Zenon

-----------------------------------------------------------------------------
\* What was exact elsewhere still is when the file of one report changes.
LEMMA ExactElsewhere ==
  ASSUME IInv, NEW i \in Ids, NEW rows, rows \subseteq Row,
         \A j \in Ids \ {i} : live'[j] = live[j],
         ExactBut(rows, 0) \/ ExactBut(rows, i)
  PROVE  ExactBut(rows, i)'
<1>1. ExactBut(rows, i)
  BY ExactWeaker, Zenon
<1>2. \A r \in rows : r.id \in Ids
  BY SMT DEF Row
<1>3. QED
  BY <1>1, <1>2, Zenon DEF ExactBut

\* So is the index that is read, rebuilt or not.
LEMMA ReadElsewhere ==
  ASSUME IInv, NEW i \in Ids, index' = index,
         \A j \in Ids \ {i} : live'[j] = live[j],
         ExactBut(ReadIndex.rows, 0) \/ ExactBut(ReadIndex.rows, i)
  PROVE  ExactBut(ReadIndex.rows, i)'
<1>1. CASE index.present
  <2>1. ReadIndex = index /\ ReadIndex' = index /\ index.rows \subseteq Row
    BY <1>1, SMT DEF ReadIndex, IInv, Typed, Index
  <2>2. PICK rows : rows = index.rows
    OBVIOUS
  <2>3. ExactBut(rows, i)'
    BY <2>1, <2>2, ExactElsewhere, Zenon
  <2>4. QED
    BY <2>1, <2>2, <2>3, Zenon DEF ExactBut
<1>2. CASE ~index.present
  <2>1. AreExact(RebuiltRows)'
    BY RebuiltExact, PTL
  <2>2. ReadIndex'.rows = RebuiltRows'
    BY <1>2, SMT DEF ReadIndex, RebuildIndex
  <2>3. QED
    BY <2>1, <2>2, Zenon DEF AreExact, ExactBut
<1>3. QED
  BY <1>1, <1>2

\* A write to a report file by the holder of the lock.
LEMMA JsonWritten ==
  ASSUME IInv, ListInv, NEW w \in Workers, NEW i \in Ids, op[w].at \in Locked,
         UNCHANGED <<index, acked, crashes, faults, holder>>,
         \A v \in Workers \ {w} : op'[v].at = op[v].at,
         op'[w].at \in SavingAt =>
           op[w].at \in SavingAt /\ op'[w].idx = op[w].idx /\ op'[w].id = op[w].id,
         \A j \in Ids \ {i} : live'[j] = live[j] /\ arch'[j] = arch[j],
         acked[i] = None \/ live'[i] = NoReport \/ live[i] # NoReport,
         crashes = 0 /\ faults = 0 => ExactOp(op[w])'
  PROVE  ListInv'
<1>1. \A v \in Workers \ {w} : op'[v].at \notin Locked
  BY Zenon DEF IInv, LockInv
<1>2. \A v \in Workers \ {w} : op'[v].at \notin SavingAt
  BY <1>1, SMT DEF Locked, SavingAt
<1>3. ~Free'
  BY FileStorageAssumption, Zenon DEF IInv, LockInv, Free
<1>4. Bounded'
  <2>1. PICK n \in Nat : \A j \in Ids : live[j] # NoReport \/ arch[j] # NoReport => j <= n
    BY Zenon DEF ListInv, Bounded
  <2>2. Ids \subseteq Nat
    BY FileStorageAssumption
  <2>3. n + i \in Nat /\ \A j \in Ids :
          live'[j] # NoReport \/ arch'[j] # NoReport => j <= n + i
    BY <2>1, <2>2, SMT
  <2>4. QED
    BY <2>3, Zenon DEF Bounded
<1>5. RowsInv'
  BY <1>2, Zenon DEF ListInv, RowsInv
<1>6. \A rows : AckedIn(rows) => AckedIn(rows)'
  BY Zenon DEF AckedIn
<1>7. ListedInv'
  <2> SUFFICES ASSUME faults = 0
               PROVE  /\ AckedIn(ReadIndex.rows)'
                      /\ \A v \in Workers : op'[v].at \in SavingAt => AckedIn(op[v].idx.rows)'
    BY Zenon DEF ListedInv
  <2>1. ASSUME index.present PROVE AckedIn(ReadIndex.rows)'
    <3>1. PICK rows : rows = index.rows
      OBVIOUS
    <3>2. ReadIndex.rows = rows /\ ReadIndex'.rows = rows
      BY <2>1, <3>1, Zenon DEF ReadIndex
    <3>3. AckedIn(rows)
      BY <3>2, Zenon DEF ListInv, ListedInv
    <3>4. QED
      BY <1>6, <3>2, <3>3, Zenon DEF AckedIn
  <2>2. ASSUME ~index.present PROVE AckedIn(ReadIndex.rows)'
    <3>1. AreExact(RebuiltRows)'
      BY RebuiltExact, PTL
    <3>2. ReadIndex'.rows = RebuiltRows'
      BY <2>2, SMT DEF ReadIndex, RebuildIndex
    <3>3. QED
      BY <3>1, <3>2, Zenon DEF AreExact, AckedIn
  <2>3. ASSUME NEW v \in Workers, op'[v].at \in SavingAt PROVE AckedIn(op[v].idx.rows)'
    <3>1. v = w
      BY <1>2, <2>3, Zenon
    <3>2. PICK rows : rows = op'[v].idx.rows
      OBVIOUS
    <3>3. AckedIn(rows)
      BY <2>3, <3>1, <3>2, Zenon DEF ListInv, ListedInv
    <3>4. QED
      BY <1>6, <3>2, <3>3, Zenon DEF AckedIn
  <2>4. AckedIn(ReadIndex.rows)'
    BY <2>1, <2>2
  <2>5. QED
    BY <2>3, <2>4
<1>8. ExactInv'
  <2>1. ASSUME NEW v \in Workers \ {w} PROVE ExactOp(op[v])'
    BY <1>1, <2>1, SMT DEF Locked, ExactOp
  <2>2. QED
    BY <1>3, <2>1, Zenon DEF ExactInv
<1>9. QED
  BY <1>4, <1>5, <1>7, <1>8, Zenon DEF ListInv

\* save_report writes the JSON: the rows it holds lack that report only.
LEMMA SaveJsonListing ==
  ASSUME IInv, CInv, ListInv, NEW w \in Workers, SaveJson(w) PROVE ListInv'
<1>0. PICK i, rep, rows : i = op[w].id /\ rep = op[w].new /\ rows = op[w].idx.rows
  OBVIOUS
<1>1. /\ op[w].at = "saveJson" /\ WriteReport(i, rep) /\ Goto(w, "saveIndex")
      /\ UNCHANGED <<index, acked, crashes, faults, holder>>
  BY <1>0, Zenon DEF SaveJson, history
<1>2. op[w].at \in Locked /\ op[w].at \in Writing /\ op[w].at \in SavingAt
  BY <1>1, SMT DEF Locked, Writing, SavingAt
<1>3. i \in Ids /\ rep \in Report
  BY <1>0, <1>2, Zenon DEF IInv, LockInv
<1>4. acked[i] = None
  <2>1. ReadReport(i) = NoReport
    BY <1>0, <1>1, SMT DEF IInv, SaveInv, ReadReport
  <2>2. QED
    BY <1>3, <2>1, TagOfReport, ReportIsNotAbsent, Zenon
<1>5. /\ op'[w].at = "saveIndex" /\ op'[w].id = op[w].id /\ op'[w].idx = op[w].idx
      /\ \A v \in Workers \ {w} : op'[v] = op[v]
  BY <1>1, Going, Zenon
<1>6. \A j \in Ids \ {i} : live'[j] = live[j] /\ arch'[j] = arch[j]
  BY <1>1, <1>3, Written, Zenon
<1>7. crashes = 0 /\ faults = 0 => ExactOp(op[w])'
  <2> SUFFICES ASSUME crashes = 0, faults = 0 PROVE ExactOp(op[w])'
    OBVIOUS
  <2>1. ExactBut(rows, 0)
    BY <1>0, <1>1, SMT DEF ListInv, ExactInv, ExactOp
  <2>2. rows \subseteq Row
    BY <1>0, SMT DEF IInv, Typed, Op, Index
  <2>3. ExactBut(rows, i)'
    BY <1>3, <1>6, <2>1, <2>2, ExactElsewhere, Zenon
  <2>4. ExactBut(op[w].idx.rows, op[w].id)'
    BY <1>0, <1>5, <2>3, Zenon DEF ExactBut
  <2>5. QED
    BY <1>5, <2>4, SMT DEF ExactOp
<1>8. \A v \in Workers \ {w} : op'[v].at = op[v].at
  BY <1>5, Zenon
<1>9. QED
  BY <1>1, <1>2, <1>3, <1>4, <1>5, <1>6, <1>7, <1>8, JsonWritten, Zenon

\* A row that was exact, or is already, becomes so when the field is written.
LEMMA ExactRowUpdated ==
  ASSUME NEW i, NEW old \in Report, NEW rep \in Report, NEW status \in BOOLEAN,
         IF status THEN rep.link = old.link ELSE rep.status = old.status
  PROVE  UpdateRow(BuildIndexEntry(i, old), rep, status) = BuildIndexEntry(i, rep)
<1>1. CASE status
  BY <1>1, SMT DEF UpdateRow, BuildIndexEntry
<1>2. CASE ~status
  BY <1>2, SMT DEF UpdateRow, BuildIndexEntry
<1>3. QED
  BY <1>1, <1>2

\* An update writes the report: its row may be out of date until the index is
\* written, and there is one if and only if the report is live.
LEMMA UpdateReportListing ==
  ASSUME IInv, CInv, ListInv, NEW w \in Workers, UpdateReport(w) PROVE ListInv'
<1>0. PICK i, rep : i = op[w].id /\ rep = op[w].new
  OBVIOUS
<1>1. /\ op[w].at = "writeReport" /\ WriteReport(i, rep) /\ Goto(w, "updateIndex")
      /\ UNCHANGED <<index, acked, crashes, faults, holder>>
  BY <1>0, Zenon DEF UpdateReport, history
<1>2. op[w].at \in Locked /\ op[w].at \in Writing
  BY <1>1, SMT DEF Locked, Writing
<1>3. i \in Ids /\ rep \in Report /\ i # 0
  <2>1. i \in Ids /\ rep \in Report
    BY <1>0, <1>2, Zenon DEF IInv, LockInv
  <2>2. QED
    BY <2>1, FileStorageAssumption
<1>4. ReadReport(i) # NoReport /\ rep # NoReport
  BY <1>0, <1>1, <1>3, ReportIsNotAbsent, Zenon DEF IInv, UpdateInv
<1>5. /\ op'[w].at = "updateIndex" /\ op'[w].id = op[w].id /\ op'[w].new = op[w].new
      /\ \A v \in Workers \ {w} : op'[v] = op[v]
  BY <1>1, Going, Zenon
<1>6. /\ ReadReport(i)' = rep
      /\ \A j \in Ids \ {i} : live'[j] = live[j] /\ arch'[j] = arch[j]
  BY <1>1, <1>3, Written, Zenon
<1>7. live'[i] # NoReport <=> live[i] # NoReport
  BY <1>1, <1>3, <1>4, SMT DEF WriteReport, ReadReport, IInv, Typed
<1>8. crashes = 0 /\ faults = 0 => ExactOp(op[w])'
  <2> SUFFICES ASSUME crashes = 0, faults = 0 PROVE ExactOp(op[w])'
    OBVIOUS
  <2>1. ExactBut(ReadIndex.rows, 0)
    BY <1>1, SMT DEF ListInv, ExactInv, ExactOp
  <2>2. ExactBut(ReadIndex.rows, i)'
    BY <1>1, <1>3, <1>6, <2>1, ReadElsewhere, Zenon
  <2>3. (\E r \in ReadIndex'.rows : r.id = i) <=> live'[i] # NoReport
    <3>1. CASE index.present
      <4>1. ReadIndex' = ReadIndex
        BY <1>1, <3>1, Zenon DEF ReadIndex
      <4>2. (\E r \in ReadIndex.rows : r.id = i) <=> live[i] # NoReport
        BY <1>3, <2>1, RowOf, Zenon DEF ExactBut
      <4>3. QED
        BY <1>7, <4>1, <4>2, Zenon
    <3>2. CASE ~index.present
      <4>1. AreExact(RebuiltRows)'
        BY RebuiltExact, PTL
      <4>2. ReadIndex'.rows = RebuiltRows'
        BY <1>1, <3>2, SMT DEF ReadIndex, RebuildIndex
      <4>3. QED
        BY <1>3, <4>1, <4>2, Zenon DEF AreExact
    <3>3. QED
      BY <3>1, <3>2
  <2>4. op'[w].id = i /\ op'[w].new = rep /\ op'[w].status = op[w].status
    BY <1>0, <1>1, <1>5, Going, Zenon
  <2>7. Fixable(ReadIndex'.rows, i, rep, op[w].status)
    <3>1. PICK b \in BOOLEAN : b = op[w].status
      BY SMT DEF IInv, Typed, Op
    <3>2. PICK old \in Report : old = ReadReport(i)
      BY <1>3, <1>4, SMT DEF ReadReport, IInv, Typed
    <3>3. IF b THEN rep.link = old.link ELSE rep.status = old.status
      <4>1. IF b THEN NewStatus(old, rep) ELSE NewLink(old, rep)
        BY <1>0, <1>1, <3>1, <3>2, Zenon DEF CInv, UpdaterInv
      <4>2. CASE b
        <5>1. PICK st \in Status : rep = WithStatus(old, st)
          BY <4>1, <4>2, Zenon DEF NewStatus
        <5>2. rep.link = old.link
          BY <5>1, SMT DEF WithStatus
        <5>3. QED
          BY <4>2, <5>2
      <4>3. CASE ~b
        <5>1. PICK l \in Links : rep = [old EXCEPT !.link = l]
          BY <4>1, <4>3, Zenon DEF NewLink
        <5>2. rep.status = old.status
          BY <3>2, <5>1, SMT DEF Report
        <5>3. QED
          BY <4>3, <5>2
      <4>4. QED
        BY <4>2, <4>3
    <3>4. CASE index.present
      <4>1. ReadIndex' = ReadIndex
        BY <1>1, <3>4, Zenon DEF ReadIndex
      <4>2. \A r \in ReadIndex.rows : r.id = i => r = BuildIndexEntry(i, old)
        BY <1>3, <2>1, <3>2, Zenon DEF ExactBut, ReadReport
      <4>3. UpdateRow(BuildIndexEntry(i, old), rep, b) = BuildIndexEntry(i, rep)
        BY <1>3, <3>3, ExactRowUpdated
      <4>4. QED
        BY <3>1, <4>1, <4>2, <4>3, Zenon DEF Fixable
    <3>5. CASE ~index.present
      <4>1. AreExact(RebuiltRows)'
        BY RebuiltExact, PTL
      <4>2. ReadIndex'.rows = RebuiltRows'
        BY <1>1, <3>5, SMT DEF ReadIndex, RebuildIndex
      <4>3. \A r \in ReadIndex'.rows : r.id = i => r = BuildIndexEntry(i, rep)
        BY <1>3, <1>6, <4>1, <4>2, Zenon DEF AreExact, ExactBut, ReadReport
      <4>4. UpdateRow(BuildIndexEntry(i, rep), rep, b) = BuildIndexEntry(i, rep)
        BY <1>3, ExactRowUpdated
      <4>5. QED
        BY <3>1, <4>3, <4>4, Zenon DEF Fixable
    <3>6. QED
      BY <3>4, <3>5
  <2>5. /\ ReadReport(op[w].id)' = op'[w].new
        /\ ExactBut(ReadIndex.rows, op[w].id)'
        /\ (\E r \in ReadIndex'.rows : r.id = op'[w].id) <=> live'[op'[w].id] # NoReport
        /\ Fixable(ReadIndex'.rows, op'[w].id, op'[w].new, op'[w].status)
    BY <1>6, <2>2, <2>3, <2>4, <2>7, Zenon DEF ReadReport, ExactBut
  <2>6. QED
    BY <1>5, <2>5, SMT DEF ExactOp
<1>9. op'[w].at \notin SavingAt
  BY <1>5, SMT DEF SavingAt
<1>10. acked[i] = None \/ live'[i] = NoReport \/ live[i] # NoReport
  BY <1>7
<1>11. \A v \in Workers \ {w} : op'[v].at = op[v].at
  BY <1>5, Zenon
<1>12. QED
  BY <1>1, <1>2, <1>3, <1>6, <1>8, <1>9, <1>10, <1>11, JsonWritten, Zenon

\* A file is unlinked, a JSON moved: the row of that report has outlived it.
LEMMA FileGoneListing ==
  ASSUME IInv, ListInv, NEW w \in Workers, Unlink(w) \/ ArchiveJson(w) PROVE ListInv'
<1>0. PICK i : i = op[w].id
  OBVIOUS
<1>1. /\ op[w].at \in {"unlink", "archive"}
      /\ UNCHANGED <<index, acked, crashes, faults, holder>>
  BY Zenon DEF Unlink, ArchiveJson, history
<1>2. op[w].at \in Locked
  BY <1>1, SMT DEF Locked
<1>3. i \in Ids
  BY <1>0, <1>2, Zenon DEF IInv, LockInv
<1>4. /\ live'[i] \in {live[i], NoReport}
      /\ \A j \in Ids \ {i} : live'[j] = live[j] /\ arch'[j] = arch[j]
  <2>1. CASE Unlink(w)
    BY <1>0, <1>3, <2>1, SMT DEF Unlink, UnlinkFirst, IInv, Typed
  <2>2. CASE ArchiveJson(w)
    BY <1>0, <1>3, <2>2, SMT DEF ArchiveJson, IInv, Typed
  <2>3. QED
    BY <2>1, <2>2
<1>5. op'[w].at = op[w].at /\ op'[w].id = op[w].id
      /\ \A v \in Workers \ {w} : op'[v].at = op[v].at
  <2>1. CASE Unlink(w)
    <3>1. \A b : Looking(i, b).at = "lookSecond" /\ Looking(i, b).id = i
      BY SMT DEF Looking
    <3>2. \A v \in Workers : op'[v] = IF op[v].at = "lookSecond" /\ op[v].id = i
                                      THEN Looking(i, FALSE) ELSE op[v]
      BY <1>0, <2>1, Zenon DEF Unlink
    <3>3. QED
      BY <3>1, <3>2, Zenon
  <2>2. CASE ArchiveJson(w)
    BY <2>2, Zenon DEF ArchiveJson
  <2>3. QED
    BY <2>1, <2>2
<1>6. crashes = 0 /\ faults = 0 => ExactOp(op[w])'
  <2> SUFFICES ASSUME crashes = 0, faults = 0 PROVE ExactOp(op[w])'
    OBVIOUS
  <2>1. ExactBut(ReadIndex.rows, i)
    BY <1>0, <1>1, Zenon DEF ListInv, ExactInv, ExactOp
  <2>2. ExactBut(ReadIndex.rows, i)'
    BY <1>1, <1>3, <1>4, <2>1, ReadElsewhere, Zenon
  <2>3. ExactBut(ReadIndex.rows, op[w].id)'
    BY <1>0, <1>5, <2>2, Zenon DEF ExactBut
  <2>4. op'[w].at \in {"unlink", "archive"}
    BY <1>1, <1>5
  <2>5. QED
    BY <2>3, <2>4, SMT DEF ExactOp
<1>7. op'[w].at \notin SavingAt
  BY <1>1, <1>5, SMT DEF SavingAt
<1>8. acked[i] = None \/ live'[i] = NoReport \/ live[i] # NoReport
  BY <1>4, Zenon
<1>9. QED
  BY <1>1, <1>2, <1>3, <1>4, <1>5, <1>6, <1>7, <1>8, JsonWritten, Zenon

-----------------------------------------------------------------------------
\* A directory without files lists nothing.
LEMMA InitListInv == Init => ListInv
<1> SUFFICES ASSUME Init PROVE ListInv
  OBVIOUS
<1>1. /\ \A i \in Ids : live[i] = NoReport /\ arch[i] = NoReport
      /\ index.rows = {} /\ ~index.present
      /\ \A w \in Workers : op[w].at = "idle"
      /\ \A i \in Ids : acked[i] = None
  BY SMT DEF Init, NoIndex, Idle, Doing
<1>2. Bounded
  <2>1. 0 \in Nat
    OBVIOUS
  <2>2. QED
    BY <1>1, <2>1, Zenon DEF Bounded
<1>3. \A w \in Workers : op[w].at \notin SavingAt /\ op[w].at \notin Locked
  BY <1>1, SMT DEF SavingAt, Locked
<1>4. RowsInv /\ ListedInv
  BY <1>1, <1>3, Zenon DEF RowsInv, ListedInv, OneRowEach, Below, AckedIn
<1>5. ExactInv
  <2>1. ReadIndex.rows = RebuiltRows
    BY <1>1, SMT DEF ReadIndex, RebuildIndex
  <2>2. QED
    BY <1>3, <2>1, RebuiltExact, UnlockedExact, Zenon DEF ExactInv, AreExact
<1>6. QED
  BY <1>2, <1>4, <1>5 DEF ListInv

\* The process stops; nothing is written.
LEMMA CrashListing == ASSUME IInv, ListInv, Crash PROVE ListInv'
<1>1. /\ UNCHANGED <<live, arch, index, acked, faults>>
      /\ crashes' # 0 /\ op' = [w \in Workers |-> Idle]
  BY SMT DEF Crash, disk, history, IInv, Typed
<1>2. \A w \in Workers : op'[w].at \notin SavingAt
  BY <1>1, SMT DEF Idle, Doing, SavingAt
<1>3. ReadIndex' = ReadIndex /\ (Bounded' <=> Bounded)
  BY <1>1, SameRead, Zenon
<1>4. ListedInv'
  BY <1>1, <1>2, <1>3, Zenon DEF ListInv, ListedInv, AckedIn
<1>5. Bounded' /\ RowsInv' /\ ExactInv'
  BY <1>1, <1>2, <1>3, Zenon DEF ListInv, RowsInv, ExactInv
<1>6. QED
  BY <1>4, <1>5 DEF ListInv

\* An index that is lost has no rows, and a copy those of an index that was.
LEMMA IndexFaultListing == ASSUME IInv, CopyInv, ListInv, IndexFault PROVE ListInv'
<1>1. UNCHANGED <<live, arch, op>> /\ faults' # 0
  BY SMT DEF IndexFault, disk, IInv, Typed
<1>3. OneRowEach(index'.rows) /\ Below(index'.rows, index'.next)
  <2>1. CASE index' = NoIndex
    BY <2>1, SMT DEF NoIndex, OneRowEach, Below
  <2>2. CASE index' = backup
    BY <2>2, Zenon DEF CopyInv, OneRowEach, Below
  <2>3. QED
    BY <2>1, <2>2, Zenon DEF IndexFault
<1>4. Bounded' /\ RowsInv' /\ ListedInv' /\ ExactInv'
  BY <1>1, <1>3, Zenon DEF ListInv, Bounded, RowsInv, ListedInv, ExactInv
<1>5. QED
  BY <1>4 DEF ListInv

\* A copy that is made has one row per report, below its counter.
LEMMA CopyKept == IInv /\ ListInv /\ CopyInv /\ [Next]_vars => CopyInv'
<1> SUFFICES ASSUME IInv, ListInv, CopyInv, [Next]_vars PROVE CopyInv'
  OBVIOUS
<1>1. CASE backup' = backup
  BY <1>1, Zenon DEF CopyInv
<1>2. CASE backup' = index
  BY <1>2, Zenon DEF CopyInv, ListInv, RowsInv, OneRowEach, Below, IInv, Typed
<1>3. CASE backup' = NoIndex
  BY <1>3, SMT DEF CopyInv, NoIndex, Index
<1>4. QED
  BY <1>1, <1>2, <1>3, CopyMade

\* Every step keeps it.
LEMMA NextKeepsListInv == IInv /\ CopyInv /\ CInv /\ ListInv /\ [Next]_vars => ListInv'
<1> SUFFICES ASSUME IInv, CopyInv, CInv, ListInv, [Next]_vars PROVE ListInv'
  OBVIOUS
<1>1. IInv'
  BY NextKeepsIInv DEF CopyInv
<1>2. ASSUME NEW w \in Workers, Call(w) \/ Step(w) PROVE ListInv'
  BY <1>1, <1>2, BeginListing, FreeListing, PngListing, SaveBeginListing,
     SaveIndexListing, DropRowListing, UpdateIndexListing, SaveJsonListing,
     UpdateReportListing, FileGoneListing, Zenon DEF Call, Step
<1>3. CASE Backup \/ UNCHANGED vars
  <2>1. UNCHANGED <<live, arch, index, op, acked, crashes, faults, holder>>
    BY <1>3, Zenon DEF Backup, vars, disk, history
  <2>2. ReadIndex' = ReadIndex /\ (Bounded' <=> Bounded)
    BY <2>1, SameRead, Zenon
  <2>3. RowsInv' /\ ListedInv'
    BY <2>1, <2>2, Zenon DEF ListInv, RowsInv, ListedInv, AckedIn
  <2>4. \A w \in Workers : ExactOp(op[w]) => ExactOp(op[w])'
    BY <2>1, SameOp, Zenon
  <2>5. ExactInv'
    BY <2>1, <2>2, <2>4, Zenon DEF ListInv, ExactInv, ExactBut, Free
  <2>6. QED
    BY <2>2, <2>3, <2>5, Zenon DEF ListInv
<1>4. QED
  BY <1>2, <1>3, CrashListing, IndexFaultListing, Zenon DEF Next

\* What GET /reports lists is what there is: one row per report; every live
\* report whose save returned, unless the index was lost; and exactly the live
\* reports as they are, when no call is under way and nothing went wrong.
THEOREM ListsWhatIsThere == Spec => []ListingRight
<1>1. Init => CopyInv /\ ListInv
  BY InitCopy, InitListInv
<1>2. IInv /\ CInv /\ CopyInv /\ ListInv /\ [Next]_vars => (CopyInv /\ ListInv)'
  BY NextKeepsListInv, CopyKept
<1>3. IInv /\ ListInv => ListingRight
  <2> SUFFICES ASSUME IInv, ListInv PROVE ListingRight
    OBVIOUS
  <2>1. OneRowPerReport
    BY ReadRight, Zenon DEF ListInv, OneRowEach, OneRowPerReport
  <2>2. AckedListed
    BY Zenon DEF ListInv, ListedInv, AckedIn, AckedListed
  <2>3. ListingExact
    <3> SUFFICES ASSUME crashes = 0, faults = 0, Free
                 PROVE  /\ \A r \in ReadIndex.rows :
                             live[r.id] # NoReport /\ r = BuildIndexEntry(r.id, live[r.id])
                        /\ \A i \in Ids :
                             live[i] # NoReport => BuildIndexEntry(i, live[i]) \in ReadIndex.rows
      BY Zenon DEF ListingExact
    <3>1. ExactBut(ReadIndex.rows, 0)
      BY Zenon DEF ListInv, ExactInv
    <3>2. \A r \in ReadIndex.rows : r.id \in Ids
      BY ReadRight, Zenon DEF ListInv
    <3>3. \A i \in Ids : i # 0
      BY FileStorageAssumption
    <3>4. QED
      BY <3>1, <3>2, <3>3, Zenon DEF ExactBut
  <2>4. QED
    BY <2>1, <2>2, <2>3 DEF ListingRight
<1>4. QED
  BY <1>1, <1>2, <1>3, CInvariant, PTL DEF Spec
=============================================================================
