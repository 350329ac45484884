-------------------------- MODULE SqlStorageProofs --------------------------
(***************************************************************************)
(* The SQL storage, for any ids, payloads, threads, failures and crashes    *)
(* and for both databases: ids are not handed out again, files follow rows, *)
(* lookups find what is there, a sequence keeps what was acknowledged, and  *)
(* the loose contract of the storage backends is implemented.               *)
(***************************************************************************)
EXTENDS SqlStorage, TLAPS

\* A row is there; a lemma below says that this is Exists.
There(i) == rows[i].tag # None

Saving == {"savePng", "saveCommit"}
Writing == Saving \cup {"cleanup"}
Unlinking == {"unlinkLive", "unlinkArch", "unlinkStored"}
Archiving == {"archive", "bulkArchive", "move"}

\* What a call under way holds in memory.
HeldInv == \A w \in Workers :
  /\ op[w].at \in Writing \cup Unlinking \cup {"update", "link", "delete", "look"} =>
       op[w].id \in Ids
  /\ op[w].at \in Writing => op[w].val \in Submissions
  /\ op[w].at = "update" => op[w].val \in Status
  /\ op[w].at = "link" => op[w].val \in Links

\* SQLite: who saves is the database's only writer.
OneWriter == idSource = "row" => \A w \in Workers : op[w].at \in Saving => writer = w

\* The counter is past every id that was returned, and the id of a save in
\* its transaction was not.
CounterInv ==
  /\ \A i \in issued : i <= counter
  /\ \A w \in Workers : op[w].at \in Saving =>
       /\ op[w].id \notin issued
       /\ idSource = "row" => op[w].id = counter + 1
       /\ idSource = "sequence" => op[w].id <= counter

\* A sequence gives each save, failed or not, an id of its own.
SequenceIds == idSource = "sequence" => \A w \in Workers : op[w].at \in Writing =>
  /\ op[w].id \notin issued /\ op[w].id <= counter
  /\ \A v \in Workers : op[v].at \in Writing /\ op[v].id = op[w].id => v = w

\* Rows, archived files, and what archival and deletion work on have ids that
\* some save returned.
IssuedInv ==
  /\ \A i \in Ids : There(i) \/ arch[i] # None => i \in issued
  /\ \A w \in Workers : /\ op[w].at \in Archiving => op[w].todo \subseteq issued
                        /\ op[w].at \in Unlinking \cup {"delete"} => op[w].id \in issued

\* A deletion unlinks when the row is gone, and what it unlinked stays away.
GoneInv == \A w \in Workers : op[w].at \in Unlinking =>
  /\ ~There(op[w].id)
  /\ op[w].at # "unlinkLive" => live[op[w].id] = None
  /\ op[w].at = "unlinkStored" => arch[op[w].id] = None

\* The files of a row are its own, and before the commit the save has written
\* its file, which on SQLite the clean-up of a failed save may have removed.
ShotInv ==
  /\ \A i \in Ids : /\ live[i] = None \/ arch[i] = None
                    /\ There(i) => {live[i], arch[i]} \subseteq {rows[i].tag, None}
  /\ \A w \in Workers : op[w].at = "saveCommit" =>
       \/ live[op[w].id] = op[w].val
       \/ live[op[w].id] = None /\ idSource = "row"

AckedInv == \A i \in Ids : acked[i] # None =>
  /\ There(i) /\ rows[i].tag = acked[i]
  /\ idSource = "sequence" => acked[i] \in {live[i], arch[i]}

\* Who will bring the files of a report in line.
LiveFollows == crashes = 0 => \A i \in Ids : live[i] # None =>
  There(i) \/ \E w \in Workers :
    op[w].id = i /\ op[w].at \in IF i \in issued THEN {"unlinkLive"} ELSE {"saveCommit", "cleanup"}
ArchFollows == crashes = 0 => \A i \in Ids : arch[i] # None =>
  There(i) \/ \E w \in Workers : op[w].id = i /\ op[w].at \in {"unlinkLive", "unlinkArch"}
MoveFollows == crashes = 0 => \A i \in Ids : There(i) /\ rows[i].archived /\ live[i] # None =>
  \E w \in Workers : op[w].at = "move" /\ i \in op[w].todo

LookInv == \A w \in Workers : op[w].at = "look" /\ op[w].had =>
  There(op[w].id) /\ arch[op[w].id] # None

\* Each submission is saved once.
TagInv ==
  /\ \A i \in Ids : There(i) => rows[i].tag \notin pending
  /\ \A w \in Workers : op[w].at \in Saving =>
       /\ op[w].val \notin pending
       /\ \A i \in Ids : rows[i].tag # op[w].val
       /\ \A v \in Workers : op[v].at \in Saving /\ op[v].val = op[w].val => v = w

IInv == /\ TypeOK /\ HeldInv /\ OneWriter /\ CounterInv /\ SequenceIds /\ IssuedInv
        /\ GoneInv /\ ShotInv /\ AckedInv /\ LiveFollows /\ ArchFollows /\ MoveFollows
        /\ LookInv /\ TagInv
-----------------------------------------------------------------------------
(* Rows and calls.                                                         *)

Rows == [Ids -> Row \cup {NoRow}]

\* A row is there when it has a payload.
LEMMA ThereExists ==
  ASSUME rows \in Rows, NEW i \in Ids
  PROVE  /\ There(i) <=> Exists(i)
         /\ There(i) => rows[i] \in Row
<1>1. CASE rows[i] = NoRow
  BY <1>1 DEF There, Exists, NoRow
<1>2. CASE rows[i] \in Row
  <2>1. rows[i].tag \in Submissions
    BY <1>2 DEF Row
  <2>2. rows[i].tag # None
    BY <2>1, SqlStorageAssumption
  <2>3. rows[i] # NoRow
    BY <2>2 DEF NoRow
  <2>. QED BY <1>2, <2>2, <2>3 DEF There, Exists
<1>. QED BY <1>1, <1>2 DEF Rows

\* Only w does something else.
Turns(w) == /\ op' \in [Workers -> Op]
            /\ \A v \in Workers \ {w} : op'[v] = op[v]

\* What Become and Goto do to the worker's call, and to no other.
LEMMA BecomeTurns ==
  ASSUME op \in [Workers -> Op], NEW w \in Workers, NEW o \in Op, Become(w, o)
  PROVE  Turns(w) /\ op'[w] = o
BY DEF Become, Turns

LEMMA GotoTurns ==
  ASSUME op \in [Workers -> Op], NEW w \in Workers, NEW label \in Labels, Goto(w, label)
  PROVE  /\ Turns(w) /\ op'[w].at = label /\ op'[w].id = op[w].id
         /\ op'[w].val = op[w].val /\ op'[w].todo = op[w].todo
BY DEF Goto, Turns, Op

\* The calls under way are records of the type.
LEMMA DoingOp ==
  ASSUME NEW label \in Labels, NEW i \in Ids \cup {None}, NEW seen \in Row \cup {NoRow},
         NEW val \in Submissions \cup Status \cup Links \cup {None}
  PROVE  /\ Doing(label, i, seen, val) \in Op
         /\ Doing(label, i, seen, val).at = label /\ Doing(label, i, seen, val).id = i
         /\ Doing(label, i, seen, val).val = val /\ Doing(label, i, seen, val).seen = seen
BY DEF Doing, Op

LEMMA IdleOp == Idle \in Op /\ Idle.at = "idle"
BY DoingOp DEF Idle, Labels

LEMMA BulkOp ==
  ASSUME NEW label \in Labels, NEW S \in SUBSET Ids
  PROVE  Bulk(label, S) \in Op /\ Bulk(label, S).at = label /\ Bulk(label, S).todo = S
BY DEF Bulk, Idle, Doing, Op

\* Calls that are not between steps that touch a file.
Still == {"idle", "update", "link", "delete", "archive", "bulkClose", "bulkArchive", "look"}

\* A step that leaves the files alone and rows in place.
LEMMA CallStep ==
  ASSUME IInv, NEW w \in Workers, Turns(w),
         op[w].at \in Still, op'[w].at \in Still, rows' \in Rows,
         \A i \in Ids : /\ rows'[i].tag = rows[i].tag
                        /\ There(i) => rows'[i].archived = rows[i].archived,
         UNCHANGED <<idSource, shots, counter, writer, pending, history, crashes>>,
         op'[w].at \in {"update", "link", "delete", "look"} => op'[w].id \in Ids,
         op'[w].at = "update" => op'[w].val \in Status,
         op'[w].at = "link" => op'[w].val \in Links,
         op'[w].at = "delete" => op'[w].id \in issued,
         op'[w].at \in Archiving => op'[w].todo \subseteq issued,
         op'[w].at = "look" /\ op'[w].had =>
           There(op'[w].id) /\ arch[op'[w].id] # None
  PROVE IInv'
<1>1. /\ op[w].at \in Still /\ op'[w].at \in Still /\ Turns(w) /\ rows' \in Rows
      /\ \A i \in Ids : /\ rows'[i].tag = rows[i].tag
                        /\ There(i) => rows'[i].archived = rows[i].archived
  OBVIOUS
<1>2. UNCHANGED <<idSource, live, arch, counter, writer, pending, acked, issued, crashes>>
  BY DEF shots, history
<1>TypeOK. TypeOK'
  BY <1>1, <1>2 DEF IInv, TypeOK, Rows, Turns, Still
<1>HeldInv. HeldInv'
  BY <1>1, <1>2 DEF IInv, HeldInv, Writing, Saving, Unlinking, Turns, Still
<1>OneWriter. OneWriter'
  BY <1>1, <1>2 DEF IInv, OneWriter, Saving, Turns, Still
<1>CounterInv. CounterInv'
  BY <1>1, <1>2 DEF IInv, CounterInv, Saving, Turns, Still
<1>SequenceIds. SequenceIds'
  BY <1>1, <1>2 DEF IInv, SequenceIds, Writing, Saving, Turns, Still
<1>IssuedInv. IssuedInv'
  BY <1>1, <1>2 DEF IInv, IssuedInv, There, Archiving, Unlinking, Turns, Still
<1>GoneInv. GoneInv'
  BY <1>1, <1>2 DEF IInv, GoneInv, HeldInv, There, Unlinking, Writing, Saving, Turns,
     Still
<1>ShotInv. ShotInv'
  BY <1>1, <1>2 DEF IInv, ShotInv, There, Turns, Still
<1>AckedInv. AckedInv'
  BY <1>1, <1>2 DEF IInv, AckedInv, There, Turns, Still
<1>LiveFollows. LiveFollows'
  BY <1>1, <1>2 DEF IInv, LiveFollows, There, Turns, Still
<1>ArchFollows. ArchFollows'
  BY <1>1, <1>2 DEF IInv, ArchFollows, There, Turns, Still
<1>MoveFollows. MoveFollows'
  BY <1>1, <1>2 DEF IInv, MoveFollows, There, Turns, Still
<1>LookInv. LookInv'
  BY <1>1, <1>2 DEF IInv, LookInv, HeldInv, There, Unlinking, Writing, Saving, Turns,
     Still
<1>TagInv. TagInv'
  BY <1>1, <1>2 DEF IInv, TagInv, There, Saving, Turns, Still
<1>. QED BY <1>TypeOK, <1>HeldInv, <1>OneWriter, <1>CounterInv, <1>SequenceIds,
            <1>IssuedInv, <1>GoneInv, <1>ShotInv, <1>AckedInv, <1>LiveFollows,
            <1>ArchFollows, <1>MoveFollows, <1>LookInv, <1>TagInv DEF IInv

\* What holds of a row that is read.
LEMMA Read ==
  ASSUME IInv, NEW i \in Ids, Exists(i)
  PROVE  There(i) /\ rows[i] \in Row /\ i \in issued
<1>1. There(i) /\ rows[i] \in Row
  BY ThereExists DEF IInv, TypeOK, Rows
<1>. QED BY <1>1 DEF IInv, IssuedInv

\* Ids and the counter are numbers.
LEMMA Numbers ==
  ASSUME IInv
  PROVE  /\ counter \in Nat /\ issued \subseteq Nat
         /\ \A w \in Workers : op[w].at \in Writing => op[w].id \in Ids /\ op[w].id \in Nat
BY SqlStorageAssumption DEF IInv, TypeOK, HeldInv

\* Reading changes nothing but what the call holds.
LEMMA BeginStep ==
  ASSUME IInv, NEW w \in Workers, op[w].at = "idle", UNCHANGED idSource,
         UpdateBegin(w) \/ LinkBegin(w) \/ DeleteBegin(w) \/ ArchiveBegin(w)
         \/ BulkCloseBegin(w) \/ BulkArchiveBegin(w)
  PROVE  IInv'
<1>. USE DEF Still, Archiving
<1>1. op \in [Workers -> Op] /\ rows \in Rows /\ Updates \subseteq Status
  BY SqlStorageAssumption DEF IInv, TypeOK, Rows, Status
<1>2. CASE UpdateBegin(w)
  <2>1. PICK i \in Ids, st \in Updates : Exists(i) /\ Become(w, Doing("update", i, rows[i], st))
    BY <1>2 DEF UpdateBegin
  <2>2. Turns(w) /\ op'[w] = Doing("update", i, rows[i], st) /\ op'[w].at = "update"
        /\ op'[w].id = i /\ op'[w].val = st
    BY <1>1, <2>1, Read, DoingOp, BecomeTurns DEF Labels
  <2>. QED BY <1>1, <1>2, <2>2, CallStep DEF UpdateBegin
<1>3. CASE LinkBegin(w)
  <2>1. PICK i \in Ids, l \in Links : Exists(i) /\ Become(w, Doing("link", i, rows[i], l))
    BY <1>3 DEF LinkBegin
  <2>2. Turns(w) /\ op'[w].at = "link" /\ op'[w].id = i /\ op'[w].val = l
    BY <1>1, <2>1, Read, DoingOp, BecomeTurns DEF Labels
  <2>. QED BY <1>1, <1>3, <2>2, CallStep DEF LinkBegin
<1>4. CASE DeleteBegin(w)
  <2>1. PICK i \in Ids : Exists(i) /\ Become(w, Doing("delete", i, NoRow, None))
    BY <1>4 DEF DeleteBegin
  <2>2. Turns(w) /\ op'[w].at = "delete" /\ op'[w].id = i /\ i \in issued
    BY <1>1, <2>1, Read, DoingOp, BecomeTurns DEF Labels
  <2>. QED BY <1>1, <1>4, <2>2, CallStep DEF DeleteBegin
<1>5. CASE ArchiveBegin(w)
  <2>1. PICK i \in Ids : Exists(i) /\ Become(w, [Bulk("archive", {i}) EXCEPT !.id = i])
    BY <1>5 DEF ArchiveBegin
  <2>2. Bulk("archive", {i}) \in Op /\ Bulk("archive", {i}).at = "archive" /\ Bulk("archive", {i}).todo = {i}
    BY BulkOp DEF Labels
  <2>. PICK b \in Op : b = Bulk("archive", {i}) /\ b.at = "archive" /\ b.todo = {i}
    BY <2>2
  <2>3. PICK o : o = [b EXCEPT !.id = i]
    OBVIOUS
  <2>9. o \in Op /\ o.at = "archive" /\ o.todo = {i}
    BY <2>3 DEF Op
  <2>4. Turns(w) /\ op'[w].at = "archive" /\ op'[w].todo = {i} /\ i \in issued
    BY <1>1, <2>1, <2>3, <2>9, Read, BecomeTurns
  <2>. QED BY <1>1, <1>5, <2>4, CallStep DEF ArchiveBegin
<1>6. CASE BulkCloseBegin(w)
  <2>. DEFINE S == {i \in Ids : Exists(i) /\ rows[i].status = "fixed"}
  <2>1. Turns(w) /\ op'[w].at = "bulkClose"
    BY <1>1, <1>6, BulkOp, BecomeTurns DEF BulkCloseBegin, Labels
  <2>. QED BY <1>1, <1>6, <2>1, CallStep DEF BulkCloseBegin
<1>7. CASE BulkArchiveBegin(w)
  <2>. DEFINE S == {i \in Ids : Exists(i) /\ rows[i].status = "closed" /\ ~rows[i].archived}
  <2>1. S \in SUBSET Ids /\ S \subseteq issued /\ Become(w, Bulk("bulkArchive", S))
    BY <1>7, Read DEF BulkArchiveBegin
  <2>. HIDE DEF S
  <2>2. Turns(w) /\ op'[w].at = "bulkArchive" /\ op'[w].todo = S
    BY <1>1, <2>1, BulkOp, BecomeTurns DEF Labels
  <2>. QED BY <1>1, <1>7, <2>1, <2>2, CallStep DEF BulkArchiveBegin
<1>. QED BY <1>2, <1>3, <1>4, <1>5, <1>6, <1>7

\* A lookup that misses the live file notes whether the archived one is there.
LEMMA LookStep ==
  ASSUME IInv, NEW w \in Workers, Look(w), UNCHANGED idSource PROVE IInv'
<1>1. op \in [Workers -> Op] /\ rows \in Rows
  BY DEF IInv, TypeOK, Rows
<1>2. PICK i \in Ids : live[i] = None /\
        Become(w, Looking(i, Exists(i) /\ \E k \in {1, 2} : ShotIn(k, i) # None))
  BY DEF Look, ShotIn
<1>3. PICK had \in BOOLEAN : had = (Exists(i) /\ \E k \in {1, 2} : ShotIn(k, i) # None)
  BY Zenon
<1>4. had => Exists(i) /\ arch[i] # None
  <2>1. had => Exists(i) /\ \E k \in {1, 2} : ShotIn(k, i) # None
    BY <1>3, Zenon
  <2>. QED BY <1>2, <2>1 DEF ShotIn
<1>5. Looking(i, had) \in Op /\ Looking(i, had).at = "look" /\ Looking(i, had).id = i
      /\ Looking(i, had).had = had
  BY DEF Looking, Doing, Op, Labels
<1>6. Become(w, Looking(i, had))
  BY <1>2, <1>3, Zenon
<1>7. Turns(w) /\ op'[w].at = "look" /\ op'[w].id = i /\ op'[w].had = had
  BY <1>1, <1>5, <1>6, BecomeTurns
<1>8. op'[w].had => There(op'[w].id) /\ arch[op'[w].id] # None
  BY <1>4, <1>7, Read
<1>. QED BY <1>1, <1>7, <1>8, CallStep DEF Look, Still, Archiving

\* What a finished call leaves, and the writes of the calls that touch no file.
LEMMA EndStep ==
  ASSUME IInv, NEW w \in Workers, op[w].at \in Still, Become(w, Idle), rows' \in Rows,
         \A i \in Ids : /\ rows'[i].tag = rows[i].tag
                        /\ There(i) => rows'[i].archived = rows[i].archived,
         UNCHANGED <<idSource, shots, counter, writer, pending, history, crashes>>
  PROVE  IInv'
<1>1. Turns(w) /\ op'[w].at = "idle"
  BY IdleOp, BecomeTurns DEF IInv, TypeOK
<1>. QED BY <1>1, CallStep DEF Still, Archiving

\* A new status with its entry, or the entry alone.
LEMMA StatusRow ==
  ASSUME NEW r \in Row, NEW st \in Status, NEW entry \in Entry
  PROVE  LET q == [r EXCEPT !.status = st, !.log = Append(@, entry)]
         IN  q \in Row /\ q.tag = r.tag /\ q.archived = r.archived
<1>1. Append(r.log, entry) \in Seq(Entry)
  BY DEF Row
<1>. QED BY <1>1 DEF Row

\* A new status: payload and archival of no row change.
LEMMA UpdateCommitStep ==
  ASSUME IInv, NEW w \in Workers, UpdateCommit(w), UNCHANGED idSource PROVE IInv'
<1>. DEFINE i == op[w].id
            st == op[w].val
            new == IF op[w].seen.status = st THEN rows[i].status ELSE st
<1>1. op[w].at = "update" /\ i \in Ids /\ st \in Status /\ Exists(i) /\ rows \in Rows
  BY DEF UpdateCommit, WriteStatus, IInv, TypeOK, HeldInv, Rows
<1>2. There(i) /\ rows[i] \in Row /\ new \in Status /\ st \in Entry
  BY <1>1, Read DEF Row, Entry
<1>3. PICK r \in Row : r = rows[i]
  BY <1>2
<1>4. PICK q \in Row : q = [r EXCEPT !.status = new, !.log = Append(@, st)]
                       /\ q.tag = r.tag /\ q.archived = r.archived
  BY <1>2, StatusRow
<1>5. rows' = [rows EXCEPT ![i] = q]
  BY <1>1, <1>3, <1>4 DEF UpdateCommit, WriteStatus, Rows
<1>6. rows' \in Rows /\ \A j \in Ids : rows'[j].tag = rows[j].tag /\ rows'[j].archived = rows[j].archived
  BY <1>1, <1>3, <1>4, <1>5 DEF Rows
<1>. QED BY <1>1, <1>6, EndStep DEF UpdateCommit, Still

\* A link, or nothing: payload and archival of no row change.
LEMMA LinkCommitStep ==
  ASSUME IInv, NEW w \in Workers, LinkCommit(w), UNCHANGED idSource PROVE IInv'
<1>. DEFINE i == op[w].id
            l == op[w].val
<1>1. op[w].at = "link" /\ i \in Ids /\ l \in Links /\ rows \in Rows
  BY DEF LinkCommit, IInv, TypeOK, HeldInv, Rows
<1>2. CASE UNCHANGED rows
  BY <1>1, <1>2, EndStep DEF LinkCommit, Still
<1>3. CASE Exists(i) /\ rows' = [rows EXCEPT ![i].link = l]
  <2>1. rows[i] \in Row
    BY <1>1, <1>3, Read
  <2>2. rows' \in Rows /\ \A j \in Ids : rows'[j].tag = rows[j].tag /\ rows'[j].archived = rows[j].archived
    BY <1>1, <1>3, <2>1 DEF Rows, Row
  <2>. QED BY <1>1, <2>2, EndStep DEF LinkCommit, Still
<1>. QED BY <1>2, <1>3 DEF LinkCommit

\* Closing all that are fixed: payload and archival of no row change.
LEMMA BulkCloseCommitStep ==
  ASSUME IInv, NEW w \in Workers, BulkCloseCommit(w), UNCHANGED idSource PROVE IInv'
<1>. DEFINE S == op[w].todo
<1>1. op[w].at = "bulkClose" /\ S \in SUBSET Ids /\ rows \in Rows /\ (\A i \in S : Exists(i))
      /\ rows' = [i \in Ids |-> IF i \in S THEN [rows[i] EXCEPT !.status = "closed", !.log = Append(@, "closed")]
                                ELSE rows[i]]
  BY DEF BulkCloseCommit, SetAll, IInv, TypeOK, Rows, Op
<1>2. ASSUME NEW i \in S
      PROVE  rows'[i] \in Row /\ rows'[i].tag = rows[i].tag /\ rows'[i].archived = rows[i].archived
  <2>1. i \in Ids /\ rows[i] \in Row
    BY <1>1, Read
  <2>2. PICK r \in Row : r = rows[i]
    BY <2>1
  <2>3. PICK q \in Row : q = [r EXCEPT !.status = "closed", !.log = Append(@, "closed")]
                         /\ q.tag = r.tag /\ q.archived = r.archived
    BY StatusRow DEF Entry, Status
  <2>. QED BY <1>1, <2>1, <2>2, <2>3
<1>3. \A i \in Ids \ S : rows'[i] = rows[i]
  BY <1>1
<1>4. rows' \in Rows /\ \A j \in Ids : rows'[j].tag = rows[j].tag /\ rows'[j].archived = rows[j].archived
  BY <1>1, <1>2, <1>3 DEF Rows
<1>. QED BY <1>1, <1>4, EndStep DEF BulkCloseCommit, Still

\* A transaction that is rolled back, a lookup that ends.
LEMMA RollbackStep ==
  ASSUME IInv, NEW w \in Workers, Rollback(w) \/ LookAgain(w), UNCHANGED idSource PROVE IInv'
<1>1. rows' = rows /\ rows \in Rows
  BY DEF Rollback, LookAgain, IInv, TypeOK, Rows
<1>. QED BY <1>1, EndStep DEF Rollback, LookAgain, Still

-----------------------------------------------------------------------------
(* Saves.                                                                  *)

\* A new id: past all that were returned, and on a sequence past all others.
LEMMA SaveBeginStep ==
  ASSUME IInv, NEW w \in Workers, SaveBegin(w), UNCHANGED idSource PROVE IInv'
<1>. PICK s \in pending, i \in NextIdValue :
        pending' = pending \ {s} /\ Become(w, Doing("savePng", i, NoRow, s))
        /\ counter' = IF idSource = "row" THEN counter ELSE i
  BY DEF SaveBegin
<1>1. /\ op[w].at = "idle" /\ s \in Submissions /\ i \in Ids /\ i = counter + 1
      /\ counter \in Nat /\ idSource \in {"row", "sequence"}
      /\ idSource = "row" => counter' = counter /\ writer = None /\ writer' = w
      /\ idSource = "sequence" => counter' = i /\ writer' = None
      /\ pending' = pending \ {s}
      /\ UNCHANGED <<idSource, rows, live, arch, acked, issued, crashes>>
  BY SqlStorageAssumption DEF SaveBegin, MayWrite, NextIdValue, IInv, TypeOK, shots,
     history
<1>2. Turns(w) /\ op'[w].at = "savePng" /\ op'[w].id = i /\ op'[w].val = s
  <2>1. PICK o \in Op : /\ o = Doing("savePng", i, NoRow, s)
                        /\ o.at = "savePng" /\ o.id = i /\ o.val = s
    BY <1>1, DoingOp DEF Labels
  <2>. QED BY <2>1, BecomeTurns DEF IInv, TypeOK
<1>TypeOK. TypeOK'
  BY <1>1, <1>2, Numbers, SqlStorageAssumption DEF IInv, TypeOK, Turns
<1>HeldInv. HeldInv'
  BY <1>1, <1>2, Numbers, SqlStorageAssumption DEF IInv, HeldInv, Writing, Saving,
     Unlinking, Turns
<1>OneWriter. OneWriter'
  BY <1>1, <1>2, Numbers, SqlStorageAssumption DEF IInv, OneWriter, Saving, Turns
<1>CounterInv. CounterInv'
  BY <1>1, <1>2, Numbers, SqlStorageAssumption DEF IInv, CounterInv, Saving, Writing,
     Turns
<1>SequenceIds. SequenceIds'
  <2>1. SUFFICES ASSUME idSource = "sequence", NEW v \in Workers, op'[v].at \in Writing
                 PROVE  /\ op'[v].id \notin issued /\ op'[v].id <= i
                        /\ \A u \in Workers : op'[u].at \in Writing /\ op'[u].id = op'[v].id => u = v
    BY <1>1 DEF SequenceIds
  <2>2. \A u \in Workers \ {w} : op'[u].at \in Writing =>
          op'[u] = op[u] /\ op[u].id \in Nat /\ op[u].id <= counter /\ op[u].id \notin issued
    BY <1>2, <2>1, Numbers DEF IInv, SequenceIds, Turns
  <2>3. i \notin issued
    BY <1>1, Numbers DEF IInv, CounterInv
  <2>4. CASE v = w
    BY <1>1, <1>2, <2>2, <2>3, <2>4
  <2>5. CASE v # w
    <3>1. op[v].at \in Writing /\ op'[v] = op[v]
      BY <1>2, <2>1, <2>5 DEF Turns
    <3>2. \A u \in Workers \ {w} : op[u].at \in Writing /\ op[u].id = op[v].id => u = v
      BY <2>1, <3>1 DEF IInv, SequenceIds
    <3>. QED BY <1>1, <1>2, <2>2, <2>5, <3>1, <3>2 DEF Turns
  <2>. QED BY <2>4, <2>5
<1>IssuedInv. IssuedInv'
  BY <1>1, <1>2, Numbers, SqlStorageAssumption DEF IInv, IssuedInv, There, Archiving,
     Unlinking, Turns
<1>GoneInv. GoneInv'
  BY <1>1, <1>2 DEF IInv, GoneInv, HeldInv, There,
     Unlinking, Writing, Saving, Turns
<1>ShotInv. ShotInv'
  BY <1>1, <1>2, Numbers, SqlStorageAssumption DEF IInv, ShotInv, There, Turns
<1>AckedInv. AckedInv'
  BY <1>1, <1>2 DEF IInv, AckedInv, There, Turns
<1>LiveFollows. LiveFollows'
  <2>1. SUFFICES ASSUME crashes = 0, NEW j \in Ids, live[j] # None, ~There(j)
                 PROVE  \E v \in Workers : op'[v].id = j /\ op'[v].at \in
                          IF j \in issued THEN {"unlinkLive"} ELSE {"saveCommit", "cleanup"}
    BY <1>1 DEF LiveFollows, There
  <2>2. PICK v \in Workers : op[v].id = j /\ op[v].at \in
               IF j \in issued THEN {"unlinkLive"} ELSE {"saveCommit", "cleanup"}
    BY <2>1 DEF IInv, LiveFollows
  <2>. QED BY <1>1, <1>2, <2>2 DEF Turns
<1>ArchFollows. ArchFollows'
  BY <1>1, <1>2 DEF IInv, ArchFollows, There, Turns
<1>MoveFollows. MoveFollows'
  BY <1>1, <1>2 DEF IInv, MoveFollows, There, Turns
<1>LookInv. LookInv'
  BY <1>1, <1>2 DEF IInv, LookInv, HeldInv, There,
     Unlinking, Writing, Saving, Turns
<1>TagInv. TagInv'
  BY <1>1, <1>2, Numbers, SqlStorageAssumption DEF IInv, TagInv, There, Saving, Turns
<1>. QED BY <1>TypeOK, <1>HeldInv, <1>OneWriter, <1>CounterInv, <1>SequenceIds,
            <1>IssuedInv, <1>GoneInv, <1>ShotInv, <1>AckedInv, <1>LiveFollows,
            <1>ArchFollows, <1>MoveFollows, <1>LookInv, <1>TagInv DEF IInv

\* Nobody else's screenshot has the id of a save under way.
LEMMA SavePngStep ==
  ASSUME IInv, NEW w \in Workers, SavePng(w), UNCHANGED idSource PROVE IInv'
<1>. DEFINE i == op[w].id
            s == op[w].val
<1>1. /\ op[w].at = "savePng" /\ i \in Ids /\ s \in Submissions /\ i \notin issued
      /\ live' = [live EXCEPT ![i] = s] /\ live \in [Ids -> Submissions \cup {None}]
      /\ UNCHANGED <<idSource, rows, arch, counter, writer, pending, acked, issued, crashes>>
  BY DEF SavePng, IInv, TypeOK, HeldInv, CounterInv, Writing, Saving, history
<1>2. Turns(w) /\ op'[w].at = "saveCommit" /\ op'[w].id = i /\ op'[w].val = s
  BY GotoTurns DEF SavePng, IInv, TypeOK, Labels
<1>TypeOK. TypeOK'
  BY <1>1, <1>2 DEF IInv, TypeOK, Turns
<1>HeldInv. HeldInv'
  BY <1>1, <1>2 DEF IInv, HeldInv, Writing, Saving, Unlinking, Turns
<1>OneWriter. OneWriter'
  BY <1>1, <1>2 DEF IInv, OneWriter, Saving, Turns
<1>CounterInv. CounterInv'
  BY <1>1, <1>2 DEF IInv, CounterInv, Saving, Turns
<1>SequenceIds. SequenceIds'
  BY <1>1, <1>2 DEF IInv, SequenceIds, Writing, Saving, Turns
<1>IssuedInv. IssuedInv'
  BY <1>1, <1>2 DEF IInv, IssuedInv, There, Archiving, Unlinking, Turns
<1>GoneInv. GoneInv'
  BY <1>1, <1>2 DEF IInv, GoneInv, HeldInv, There, Unlinking, Writing, Saving,
     IssuedInv, Turns
<1>ShotInv. ShotInv'
  <2>1. ~There(i) /\ arch[i] = None
    BY <1>1 DEF IInv, IssuedInv
  <2>2. ASSUME NEW j \in Ids
        PROVE  /\ live'[j] = None \/ arch[j] = None
               /\ There(j) => {live'[j], arch[j]} \subseteq {rows[j].tag, None}
    BY <1>1, <2>1 DEF IInv, ShotInv, There
  <2>3. ASSUME NEW v \in Workers, op'[v].at = "saveCommit"
        PROVE  \/ live'[op'[v].id] = op'[v].val
               \/ live'[op'[v].id] = None /\ idSource = "row"
    <3>1. CASE v = w
      BY <1>1, <1>2, <2>3, <3>1
    <3>2. CASE v # w
      <4>1. op'[v] = op[v] /\ op[v].at = "saveCommit" /\ op[v].id \in Ids
        BY <1>2, <2>3, <3>2 DEF IInv, HeldInv, Writing, Saving, Turns
      <4>2. idSource \in {"row", "sequence"}
        BY SqlStorageAssumption DEF IInv, TypeOK
      <4>3. op[v].id # i
        BY <1>1, <3>2, <4>1, <4>2 DEF IInv, OneWriter, SequenceIds, Saving, Writing
      <4>4. live'[op[v].id] = live[op[v].id]
        BY <1>1, <4>1, <4>3
      <4>. QED BY <4>1, <4>4 DEF IInv, ShotInv
    <3>. QED BY <3>1, <3>2
  <2>. QED BY <1>1, <2>2, <2>3 DEF ShotInv, There
<1>AckedInv. AckedInv'
  BY <1>1, <1>2 DEF IInv, AckedInv, There, IssuedInv, Turns
<1>LiveFollows. LiveFollows'
  BY <1>1, <1>2 DEF IInv, LiveFollows, There, Turns
<1>ArchFollows. ArchFollows'
  BY <1>1, <1>2 DEF IInv, ArchFollows, There, Turns
<1>MoveFollows. MoveFollows'
  BY <1>1, <1>2 DEF IInv, MoveFollows, There, IssuedInv, Turns
<1>LookInv. LookInv'
  BY <1>1, <1>2 DEF IInv, LookInv, HeldInv, There, Unlinking, Writing, Saving, Turns
<1>TagInv. TagInv'
  BY <1>1, <1>2 DEF IInv, TagInv, There, Saving, Turns
<1>. QED BY <1>TypeOK, <1>HeldInv, <1>OneWriter, <1>CounterInv, <1>SequenceIds,
            <1>IssuedInv, <1>GoneInv, <1>ShotInv, <1>AckedInv, <1>LiveFollows,
            <1>ArchFollows, <1>MoveFollows, <1>LookInv, <1>TagInv DEF IInv

\* The row appears where neither row nor archived file was.
LEMMA SaveCommitStep ==
  ASSUME IInv, NEW w \in Workers, SaveCommit(w), UNCHANGED idSource PROVE IInv'
<1>. DEFINE i == op[w].id
            s == op[w].val
<1>1. /\ op[w].at = "saveCommit" /\ i \in Ids /\ s \in Submissions /\ s # None /\ i \notin issued
      /\ idSource \in {"row", "sequence"}
      /\ idSource = "row" => counter' = i /\ writer' = None /\ writer = w /\ i = counter + 1
      /\ idSource = "sequence" => counter' = counter /\ writer' = writer /\ i <= counter
      /\ acked' = [acked EXCEPT ![i] = s] /\ issued' = issued \cup {i}
      /\ UNCHANGED <<idSource, live, arch, pending, crashes>>
  BY SqlStorageAssumption DEF SaveCommit, IInv, TypeOK, HeldInv, CounterInv,
     OneWriter, Writing, Saving, shots
<1>2. Turns(w) /\ op'[w].at = "idle"
  BY IdleOp, BecomeTurns DEF SaveCommit, IInv, TypeOK
<1>3. /\ rows' \in Rows /\ rows'[i].tag = s /\ ~rows'[i].archived
      /\ \A j \in Ids \ {i} : rows'[j] = rows[j]
  BY <1>1 DEF SaveCommit, IInv, TypeOK, Rows, Row, NewRow, Status, Entry
<1>TypeOK. TypeOK'
  BY <1>1, <1>2, <1>3, Numbers, SqlStorageAssumption DEF IInv, TypeOK, Rows, Turns
<1>HeldInv. HeldInv'
  BY <1>1, <1>2, <1>3, Numbers, SqlStorageAssumption DEF IInv, HeldInv, Writing,
     Saving, Unlinking, Turns
<1>OneWriter. OneWriter'
  BY <1>1, <1>2, <1>3, Numbers, SqlStorageAssumption DEF IInv, OneWriter, Saving, Turns
<1>CounterInv. CounterInv'
  BY <1>1, <1>2, <1>3, Numbers, SqlStorageAssumption DEF IInv, CounterInv, Saving,
     OneWriter, SequenceIds, Writing, Turns
<1>SequenceIds. SequenceIds'
  BY <1>1, <1>2, <1>3, Numbers, SqlStorageAssumption DEF IInv, SequenceIds, Writing,
     Saving, Turns
<1>IssuedInv. IssuedInv'
  BY <1>1, <1>2, <1>3, Numbers, SqlStorageAssumption DEF IInv, IssuedInv, There,
     Archiving, Unlinking, Turns
<1>GoneInv. GoneInv'
  BY <1>1, <1>2, <1>3 DEF IInv, GoneInv, HeldInv,
     There, Unlinking, Writing, Saving, IssuedInv, Turns
<1>ShotInv. ShotInv'
  BY <1>1, <1>2, <1>3, Numbers, SqlStorageAssumption DEF IInv, ShotInv, There,
     IssuedInv, Turns
<1>AckedInv. AckedInv'
  BY <1>1, <1>2, <1>3 DEF IInv, AckedInv, There,
     ShotInv, IssuedInv, Turns
<1>LiveFollows. LiveFollows'
  BY <1>1, <1>2, <1>3 DEF IInv, LiveFollows, There, Turns
<1>ArchFollows. ArchFollows'
  BY <1>1, <1>2, <1>3 DEF IInv, ArchFollows, There, Turns
<1>MoveFollows. MoveFollows'
  BY <1>1, <1>2, <1>3 DEF IInv, MoveFollows, There, Turns
<1>LookInv. LookInv'
  BY <1>1, <1>2, <1>3 DEF IInv, LookInv, HeldInv,
     There, Unlinking, Writing, Saving, Turns
<1>TagInv. TagInv'
  BY <1>1, <1>2, <1>3, Numbers, SqlStorageAssumption DEF IInv, TagInv, There, Saving,
     Turns
<1>. QED BY <1>TypeOK, <1>HeldInv, <1>OneWriter, <1>CounterInv, <1>SequenceIds,
            <1>IssuedInv, <1>GoneInv, <1>ShotInv, <1>AckedInv, <1>LiveFollows,
            <1>ArchFollows, <1>MoveFollows, <1>LookInv, <1>TagInv DEF IInv

\* A failed save still owes the removal of its screenshot.
LEMMA SaveFailStep ==
  ASSUME IInv, NEW w \in Workers, SaveFail(w), UNCHANGED idSource PROVE IInv'
<1>1. /\ op[w].at \in Saving /\ idSource \in {"row", "sequence"}
      /\ idSource = "row" => writer' = None /\ writer = w
      /\ idSource = "sequence" => writer' = writer
      /\ UNCHANGED <<idSource, rows, live, arch, counter, pending, acked, issued, crashes>>
  BY SqlStorageAssumption DEF SaveFail, IInv, TypeOK, OneWriter, Saving, shots, history
<1>2. Turns(w) /\ op'[w].at = "cleanup" /\ op'[w].id = op[w].id /\ op'[w].val = op[w].val
  BY GotoTurns DEF SaveFail, IInv, TypeOK, Labels
<1>TypeOK. TypeOK'
  BY <1>1, <1>2 DEF IInv, TypeOK, Turns
<1>HeldInv. HeldInv'
  BY <1>1, <1>2 DEF IInv, HeldInv, Writing, Saving, Unlinking, Turns
<1>OneWriter. OneWriter'
  BY <1>1, <1>2 DEF IInv, OneWriter, Saving, Turns
<1>CounterInv. CounterInv'
  BY <1>1, <1>2 DEF IInv, CounterInv, Saving, Turns
<1>SequenceIds. SequenceIds'
  BY <1>1, <1>2 DEF IInv, SequenceIds, Writing, Saving, Turns
<1>IssuedInv. IssuedInv'
  BY <1>1, <1>2 DEF IInv, IssuedInv, There, Archiving, Unlinking, Turns
<1>GoneInv. GoneInv'
  BY <1>1, <1>2 DEF IInv, GoneInv, HeldInv, There, Unlinking, Writing, Saving, Turns
<1>ShotInv. ShotInv'
  BY <1>1, <1>2 DEF IInv, ShotInv, There, Turns
<1>AckedInv. AckedInv'
  BY <1>1, <1>2 DEF IInv, AckedInv, There, Turns
<1>LiveFollows. LiveFollows'
  BY <1>1, <1>2 DEF IInv, LiveFollows, There, Saving, Turns
<1>ArchFollows. ArchFollows'
  BY <1>1, <1>2 DEF IInv, ArchFollows, There, Saving, Turns
<1>MoveFollows. MoveFollows'
  BY <1>1, <1>2 DEF IInv, MoveFollows, There, Saving, Turns
<1>LookInv. LookInv'
  BY <1>1, <1>2 DEF IInv, LookInv, HeldInv, There, Unlinking, Writing, Saving, Turns
<1>TagInv. TagInv'
  BY <1>1, <1>2 DEF IInv, TagInv, There, Saving, Turns
<1>. QED BY <1>TypeOK, <1>HeldInv, <1>OneWriter, <1>CounterInv, <1>SequenceIds,
            <1>IssuedInv, <1>GoneInv, <1>ShotInv, <1>AckedInv, <1>LiveFollows,
            <1>ArchFollows, <1>MoveFollows, <1>LookInv, <1>TagInv DEF IInv

\* The clean-up of a failed save: on a sequence the file is its own.
LEMMA SaveCleanupStep ==
  ASSUME IInv, NEW w \in Workers, SaveCleanup(w), UNCHANGED idSource PROVE IInv'
<1>1. /\ op[w].at = "cleanup" /\ op[w].id \in Ids
      /\ live' = [live EXCEPT ![op[w].id] = None] /\ live \in [Ids -> Submissions \cup {None}]
      /\ idSource \in {"row", "sequence"}
      /\ UNCHANGED <<idSource, rows, arch, counter, writer, pending, acked, issued, crashes>>
  BY SqlStorageAssumption DEF SaveCleanup, UnlinkLiveFile, IInv, TypeOK, HeldInv,
     Writing, history
<1>2. Turns(w) /\ op'[w].at = "idle"
  BY IdleOp, BecomeTurns DEF SaveCleanup, IInv, TypeOK
<1>TypeOK. TypeOK'
  BY <1>1, <1>2 DEF IInv, TypeOK, Turns
<1>HeldInv. HeldInv'
  BY <1>1, <1>2 DEF IInv, HeldInv, Writing, Saving, Unlinking, Turns
<1>OneWriter. OneWriter'
  BY <1>1, <1>2 DEF IInv, OneWriter, Saving, Turns
<1>CounterInv. CounterInv'
  BY <1>1, <1>2 DEF IInv, CounterInv, Saving, Turns
<1>SequenceIds. SequenceIds'
  BY <1>1, <1>2 DEF IInv, SequenceIds, Writing, Saving, Turns
<1>IssuedInv. IssuedInv'
  BY <1>1, <1>2 DEF IInv, IssuedInv, There, Archiving, Unlinking, Turns
<1>GoneInv. GoneInv'
  BY <1>1, <1>2 DEF IInv, GoneInv, HeldInv, There, Unlinking, Writing, Saving, Turns
<1>ShotInv. ShotInv'
  BY <1>1, <1>2 DEF IInv, ShotInv, There, SequenceIds, HeldInv, Saving, Writing, Turns
<1>AckedInv. AckedInv'
  BY <1>1, <1>2 DEF IInv, AckedInv, There, SequenceIds, IssuedInv, Writing, Turns
<1>LiveFollows. LiveFollows'
  BY <1>1, <1>2 DEF IInv, LiveFollows, There, Turns
<1>ArchFollows. ArchFollows'
  BY <1>1, <1>2 DEF IInv, ArchFollows, There, Turns
<1>MoveFollows. MoveFollows'
  BY <1>1, <1>2 DEF IInv, MoveFollows, There, Turns
<1>LookInv. LookInv'
  BY <1>1, <1>2 DEF IInv, LookInv, HeldInv, There, Unlinking, Writing, Saving, Turns
<1>TagInv. TagInv'
  BY <1>1, <1>2 DEF IInv, TagInv, There, Saving, Turns
<1>. QED BY <1>TypeOK, <1>HeldInv, <1>OneWriter, <1>CounterInv, <1>SequenceIds,
            <1>IssuedInv, <1>GoneInv, <1>ShotInv, <1>AckedInv, <1>LiveFollows,
            <1>ArchFollows, <1>MoveFollows, <1>LookInv, <1>TagInv DEF IInv

-----------------------------------------------------------------------------
(* Deletion, archival and the end of the process.                          *)

\* The row goes, and its files have somebody who removes them.
LEMMA DeleteCommitStep ==
  ASSUME IInv, NEW w \in Workers, DeleteCommit(w), UNCHANGED idSource PROVE IInv'
<1>. DEFINE i == op[w].id
<1>1. /\ op[w].at = "delete" /\ i \in Ids /\ i \in issued
      /\ acked' = [acked EXCEPT ![i] = None] /\ acked \in [Ids -> Submissions \cup {None}]
      /\ UNCHANGED <<idSource, live, arch, counter, writer, pending, issued, crashes>>
  BY DEF DeleteCommit, IInv, TypeOK, HeldInv, IssuedInv, shots
<1>2. /\ rows' \in Rows /\ rows'[i].tag = None
      /\ \A j \in Ids \ {i} : rows'[j] = rows[j]
  BY <1>1 DEF DeleteCommit, IInv, TypeOK, Rows, NoRow, There
<1>3. /\ Doing("unlinkLive", i, NoRow, None) \in Op /\ Looking(i, FALSE) \in Op
      /\ Doing("unlinkLive", i, NoRow, None).at = "unlinkLive"
      /\ Doing("unlinkLive", i, NoRow, None).id = i
      /\ Looking(i, FALSE).at = "look" /\ Looking(i, FALSE).id = i /\ ~Looking(i, FALSE).had
  BY <1>1 DEF Looking, Doing, Op, Labels
<1>4. /\ op' \in [Workers -> Op] /\ op'[w].at = "unlinkLive" /\ op'[w].id = i
      /\ \A v \in Workers \ {w} :
           \/ op'[v] = op[v] /\ ~(op[v].at = "look" /\ op[v].id = i)
           \/ op'[v].at = "look" /\ op'[v].id = i /\ ~op'[v].had /\ op[v].at = "look" /\ op[v].id = i
  BY <1>1, <1>3 DEF DeleteCommit, IInv, TypeOK
<1>TypeOK. TypeOK'
  BY <1>1, <1>2, <1>4, SqlStorageAssumption DEF IInv, TypeOK, Rows, There
<1>HeldInv. HeldInv'
  BY <1>1, <1>2, <1>4, SqlStorageAssumption DEF IInv, HeldInv, Writing, Saving,
     Unlinking, There
<1>OneWriter. OneWriter'
  BY <1>1, <1>2, <1>4, SqlStorageAssumption DEF IInv, OneWriter, Saving, There
<1>CounterInv. CounterInv'
  BY <1>1, <1>2, <1>4, SqlStorageAssumption DEF IInv, CounterInv, Saving, There
<1>SequenceIds. SequenceIds'
  BY <1>1, <1>2, <1>4, SqlStorageAssumption DEF IInv, SequenceIds, Writing, Saving,
     There
<1>IssuedInv. IssuedInv'
  BY <1>1, <1>2, <1>4, SqlStorageAssumption DEF IInv, IssuedInv, There, Archiving,
     Unlinking
<1>GoneInv. GoneInv'
  BY <1>1, <1>2, <1>4 DEF IInv, GoneInv, HeldInv, There,
     Unlinking, Writing, Saving
<1>ShotInv. ShotInv'
  BY <1>1, <1>2, <1>4, SqlStorageAssumption DEF IInv, ShotInv, There
<1>AckedInv. AckedInv'
  BY <1>1, <1>2, <1>4 DEF IInv, AckedInv, There
<1>LiveFollows. LiveFollows'
  <2>1. SUFFICES ASSUME crashes = 0, NEW j \in Ids, live[j] # None, rows'[j].tag = None
                 PROVE  \E v \in Workers : op'[v].id = j /\ op'[v].at \in
                          IF j \in issued THEN {"unlinkLive"} ELSE {"saveCommit", "cleanup"}
    BY <1>1 DEF LiveFollows, There
  <2>2. CASE j = i
    BY <1>1, <1>4, <2>2
  <2>3. CASE j # i
    <3>1. PICK v \in Workers : op[v].id = j /\ op[v].at \in
                 IF j \in issued THEN {"unlinkLive"} ELSE {"saveCommit", "cleanup"}
      BY <1>2, <2>1, <2>3 DEF IInv, LiveFollows, There
    <3>2. v # w /\ op'[v] = op[v]
      BY <1>1, <1>4, <3>1
    <3>. QED BY <3>1, <3>2
  <2>. QED BY <2>2, <2>3
<1>ArchFollows. ArchFollows'
  BY <1>1, <1>2, <1>4 DEF IInv, ArchFollows, There
<1>MoveFollows. MoveFollows'
  BY <1>1, <1>2, <1>4 DEF IInv, MoveFollows, There, Archiving
<1>LookInv. LookInv'
  <2>1. SUFFICES ASSUME NEW v \in Workers, op'[v].at = "look", op'[v].had
                 PROVE  rows'[op'[v].id].tag # None /\ arch[op'[v].id] # None
    BY <1>1 DEF LookInv, There
  <2>2. v # w /\ op'[v] = op[v] /\ op[v].id # i
    BY <1>1, <1>4, <2>1
  <2>3. op[v].id \in Ids /\ rows[op[v].id].tag # None /\ arch[op[v].id] # None
    BY <2>1, <2>2 DEF IInv, LookInv, HeldInv, There
  <2>. QED BY <1>2, <2>2, <2>3
<1>TagInv. TagInv'
  BY <1>1, <1>2, <1>4, SqlStorageAssumption DEF IInv, TagInv, There, Saving, HeldInv,
     Writing
<1>. QED BY <1>TypeOK, <1>HeldInv, <1>OneWriter, <1>CounterInv, <1>SequenceIds,
            <1>IssuedInv, <1>GoneInv, <1>ShotInv, <1>AckedInv, <1>LiveFollows,
            <1>ArchFollows, <1>MoveFollows, <1>LookInv, <1>TagInv DEF IInv

\* What a deletion unlinks belongs to no row.
LEMMA UnlinkLiveStep ==
  ASSUME IInv, NEW w \in Workers, UnlinkLive(w) \/ UnlinkStored(w), UNCHANGED idSource PROVE IInv'
<1>. DEFINE i == op[w].id
<1>1. /\ op[w].at \in {"unlinkLive", "unlinkStored"} /\ i \in Ids /\ i \in issued /\ ~There(i)
      /\ live' = [live EXCEPT ![i] = None] /\ live \in [Ids -> Submissions \cup {None}]
      /\ op[w].at = "unlinkStored" => arch[i] = None
      /\ idSource \in {"row", "sequence"}
      /\ UNCHANGED <<idSource, rows, arch, counter, writer, pending, acked, issued, crashes>>
  BY SqlStorageAssumption DEF UnlinkLive, UnlinkStored, UnlinkLiveFile, IInv, TypeOK,
     HeldInv, IssuedInv, GoneInv, Unlinking, history
<1>2. /\ Turns(w)
      /\ op[w].at = "unlinkLive" => op'[w].at = "unlinkArch" /\ op'[w].id = i
      /\ op[w].at = "unlinkStored" => op'[w].at = "idle"
  BY IdleOp, BecomeTurns, GotoTurns DEF UnlinkLive, UnlinkStored, IInv, TypeOK, Labels
<1>TypeOK. TypeOK'
  BY <1>1, <1>2 DEF IInv, TypeOK, Turns
<1>HeldInv. HeldInv'
  BY <1>1, <1>2 DEF IInv, HeldInv, Writing, Saving, Unlinking, Turns
<1>OneWriter. OneWriter'
  BY <1>1, <1>2 DEF IInv, OneWriter, Saving, Turns
<1>CounterInv. CounterInv'
  BY <1>1, <1>2 DEF IInv, CounterInv, Saving, Turns
<1>SequenceIds. SequenceIds'
  BY <1>1, <1>2 DEF IInv, SequenceIds, Writing, Saving, Turns
<1>IssuedInv. IssuedInv'
  BY <1>1, <1>2 DEF IInv, IssuedInv, There, Archiving, Unlinking, Turns
<1>GoneInv. GoneInv'
  BY <1>1, <1>2 DEF IInv, GoneInv, HeldInv, There, Unlinking, Writing, Saving, Turns
<1>ShotInv. ShotInv'
  BY <1>1, <1>2 DEF IInv, ShotInv, There, CounterInv, Saving, HeldInv, Writing, Turns
<1>AckedInv. AckedInv'
  BY <1>1, <1>2 DEF IInv, AckedInv, There, IssuedInv, Turns
<1>LiveFollows. LiveFollows'
  BY <1>1, <1>2 DEF IInv, LiveFollows, There, Turns
<1>ArchFollows. ArchFollows'
  BY <1>1, <1>2 DEF IInv, ArchFollows, There, Turns
<1>MoveFollows. MoveFollows'
  BY <1>1, <1>2 DEF IInv, MoveFollows, There, Turns
<1>LookInv. LookInv'
  BY <1>1, <1>2 DEF IInv, LookInv, HeldInv, There, Unlinking, Writing, Saving, Turns
<1>TagInv. TagInv'
  BY <1>1, <1>2 DEF IInv, TagInv, There, Saving, Turns
<1>. QED BY <1>TypeOK, <1>HeldInv, <1>OneWriter, <1>CounterInv, <1>SequenceIds,
            <1>IssuedInv, <1>GoneInv, <1>ShotInv, <1>AckedInv, <1>LiveFollows,
            <1>ArchFollows, <1>MoveFollows, <1>LookInv, <1>TagInv DEF IInv

LEMMA UnlinkArchStep ==
  ASSUME IInv, NEW w \in Workers, UnlinkArch(w), UNCHANGED idSource PROVE IInv'
<1>. DEFINE i == op[w].id
<1>1. /\ op[w].at = "unlinkArch" /\ i \in Ids /\ i \in issued /\ ~There(i) /\ live[i] = None
      /\ arch' = [arch EXCEPT ![i] = None] /\ arch \in [Ids -> Submissions \cup {None}]
      /\ UNCHANGED <<idSource, rows, live, counter, writer, pending, acked, issued, crashes>>
  BY DEF UnlinkArch, IInv, TypeOK, HeldInv, IssuedInv, GoneInv, Unlinking, history
<1>2. Turns(w) /\ op'[w].at = "unlinkStored" /\ op'[w].id = i
  BY GotoTurns DEF UnlinkArch, IInv, TypeOK, Labels
<1>TypeOK. TypeOK'
  BY <1>1, <1>2 DEF IInv, TypeOK, Turns
<1>HeldInv. HeldInv'
  BY <1>1, <1>2 DEF IInv, HeldInv, Writing, Saving, Unlinking, Turns
<1>OneWriter. OneWriter'
  BY <1>1, <1>2 DEF IInv, OneWriter, Saving, Turns
<1>CounterInv. CounterInv'
  BY <1>1, <1>2 DEF IInv, CounterInv, Saving, Turns
<1>SequenceIds. SequenceIds'
  BY <1>1, <1>2 DEF IInv, SequenceIds, Writing, Saving, Turns
<1>IssuedInv. IssuedInv'
  BY <1>1, <1>2 DEF IInv, IssuedInv, There, Archiving, Unlinking, Turns
<1>GoneInv. GoneInv'
  BY <1>1, <1>2 DEF IInv, GoneInv, HeldInv, There, Unlinking, Writing, Saving, Turns
<1>ShotInv. ShotInv'
  BY <1>1, <1>2 DEF IInv, ShotInv, There, Turns
<1>AckedInv. AckedInv'
  BY <1>1, <1>2 DEF IInv, AckedInv, There, Turns
<1>LiveFollows. LiveFollows'
  BY <1>1, <1>2 DEF IInv, LiveFollows, There, Turns
<1>ArchFollows. ArchFollows'
  BY <1>1, <1>2 DEF IInv, ArchFollows, There, Turns
<1>MoveFollows. MoveFollows'
  BY <1>1, <1>2 DEF IInv, MoveFollows, There, Turns
<1>LookInv. LookInv'
  BY <1>1, <1>2 DEF IInv, LookInv, HeldInv, There, Unlinking, Writing, Saving, Turns
<1>TagInv. TagInv'
  BY <1>1, <1>2 DEF IInv, TagInv, There, Saving, Turns
<1>. QED BY <1>TypeOK, <1>HeldInv, <1>OneWriter, <1>CounterInv, <1>SequenceIds,
            <1>IssuedInv, <1>GoneInv, <1>ShotInv, <1>AckedInv, <1>LiveFollows,
            <1>ArchFollows, <1>MoveFollows, <1>LookInv, <1>TagInv DEF IInv

\* A row that is archived is a row with the same payload.
LEMMA ArchivedRow ==
  ASSUME NEW r \in Row
  PROVE  LET q == [r EXCEPT !.archived = TRUE, !.log = Append(@, "archived")]
         IN  q \in Row /\ q.tag = r.tag
<1>1. Append(r.log, "archived") \in Seq(Entry)
  BY DEF Row, Entry
<1>2. PICK yes \in BOOLEAN : yes = TRUE
  OBVIOUS
<1>3. [r EXCEPT !.archived = yes, !.log = Append(@, "archived")] \in Row
  BY <1>1 DEF Row
<1>. QED BY <1>2, <1>3 DEF Row

\* Rows become archived, and their files have somebody who moves them.
LEMMA ArchiveCommitStep ==
  ASSUME IInv, NEW w \in Workers, ArchiveCommit(w), UNCHANGED idSource PROVE IInv'
<1>. PICK S \in SUBSET Ids : S = op[w].todo
  BY DEF IInv, TypeOK, Op
<1>0. /\ rows \in Rows /\ \A i \in S : Exists(i)
      /\ rows' = [i \in Ids |-> IF i \in S THEN [rows[i] EXCEPT !.archived = TRUE, !.log = Append(@, "archived")]
                                ELSE rows[i]]
  BY DEF ArchiveCommit, ArchiveAll, IInv, TypeOK, Rows
<1>1. /\ op[w].at \in {"archive", "bulkArchive"} /\ S \subseteq issued
      /\ UNCHANGED <<idSource, live, arch, counter, writer, pending, acked, issued, crashes>>
  BY DEF ArchiveCommit, IInv, IssuedInv, Archiving, shots, history
<1>2. Turns(w) /\ op'[w].at = "move" /\ op'[w].todo = S
  <2>1. Become(w, Bulk("move", S))
    BY DEF ArchiveCommit
  <2>. QED BY <2>1, BulkOp, BecomeTurns DEF IInv, TypeOK, Labels
<1>3. ASSUME NEW i \in S
      PROVE  rows'[i] \in Row /\ rows'[i].tag = rows[i].tag
  <2>1. i \in Ids /\ rows[i] \in Row
    BY <1>0, Read
  <2>2. PICK r \in Row : r = rows[i]
    BY <2>1
  <2>3. PICK q \in Row : q = [r EXCEPT !.archived = TRUE, !.log = Append(@, "archived")] /\ q.tag = r.tag
    BY ArchivedRow
  <2>. QED BY <1>0, <2>1, <2>2, <2>3
<1>4. /\ rows' \in Rows /\ \A j \in Ids : rows'[j].tag = rows[j].tag
      /\ \A j \in Ids \ S : rows'[j] = rows[j]
  BY <1>0, <1>3 DEF Rows
<1>TypeOK. TypeOK'
  BY <1>1, <1>2, <1>4 DEF IInv, TypeOK, Rows, Turns
<1>HeldInv. HeldInv'
  BY <1>1, <1>2, <1>4 DEF IInv, HeldInv, Writing, Saving, Unlinking, Turns
<1>OneWriter. OneWriter'
  BY <1>1, <1>2, <1>4 DEF IInv, OneWriter, Saving, Turns
<1>CounterInv. CounterInv'
  BY <1>1, <1>2, <1>4 DEF IInv, CounterInv, Saving, Turns
<1>SequenceIds. SequenceIds'
  BY <1>1, <1>2, <1>4 DEF IInv, SequenceIds, Writing, Saving, Archiving, Turns
<1>IssuedInv. IssuedInv'
  BY <1>1, <1>2, <1>4 DEF IInv, IssuedInv, There, Archiving, Unlinking, Turns
<1>GoneInv. GoneInv'
  BY <1>1, <1>2, <1>4 DEF IInv, GoneInv, HeldInv, There, Unlinking, Writing, Saving,
     Turns
<1>ShotInv. ShotInv'
  BY <1>1, <1>2, <1>4 DEF IInv, ShotInv, There, Turns
<1>AckedInv. AckedInv'
  BY <1>1, <1>2, <1>4 DEF IInv, AckedInv, There, Turns
<1>LiveFollows. LiveFollows'
  BY <1>1, <1>2, <1>4 DEF IInv, LiveFollows, There, Turns
<1>ArchFollows. ArchFollows'
  BY <1>1, <1>2, <1>4 DEF IInv, ArchFollows, There, Turns
<1>MoveFollows. MoveFollows'
  BY <1>1, <1>2, <1>4 DEF IInv, MoveFollows, There, Turns
<1>LookInv. LookInv'
  BY <1>1, <1>2, <1>4 DEF IInv, LookInv, HeldInv, There, Unlinking, Writing, Saving,
     Archiving, Turns
<1>TagInv. TagInv'
  BY <1>1, <1>2, <1>4 DEF IInv, TagInv, There, Saving, Turns
<1>. QED BY <1>TypeOK, <1>HeldInv, <1>OneWriter, <1>CounterInv, <1>SequenceIds,
            <1>IssuedInv, <1>GoneInv, <1>ShotInv, <1>AckedInv, <1>LiveFollows,
            <1>ArchFollows, <1>MoveFollows, <1>LookInv, <1>TagInv DEF IInv

\* A file goes from the live to the archive directory in one step.
LEMMA MoveStep ==
  ASSUME IInv, NEW w \in Workers, Move(w), UNCHANGED idSource PROVE IInv'
<1>. PICK i \in op[w].todo :
        /\ op[w].at = "move"
        /\ IF live[i] = None THEN UNCHANGED shots ELSE MoveFile(i)
        /\ Become(w, IF op[w].todo \ {i} = {} THEN Idle ELSE Bulk("move", op[w].todo \ {i}))
        /\ UNCHANGED <<rows, counter, writer, pending, history, crashes>>
  BY DEF Move
<1>1. /\ op[w].at = "move" /\ op[w].todo \in SUBSET Ids /\ i \in op[w].todo /\ i \in Ids /\ i \in issued
      /\ op[w].todo \subseteq issued
      /\ live \in [Ids -> Submissions \cup {None}] /\ arch \in [Ids -> Submissions \cup {None}]
      /\ UNCHANGED <<idSource, rows, counter, writer, pending, acked, issued, crashes>>
  BY DEF IInv, TypeOK, IssuedInv, Archiving, Op, history
<1>2. /\ Turns(w) /\ op'[w].at \in {"idle", "move"}
      /\ op'[w].at = "move" => op'[w].todo = op[w].todo \ {i}
      /\ \A j \in op[w].todo \ {i} : op'[w].at = "move"
  <2>1. CASE op[w].todo \ {i} = {}
    BY <1>1, <2>1, IdleOp, BecomeTurns DEF IInv, TypeOK
  <2>2. CASE op[w].todo \ {i} # {}
    BY <1>1, <2>2, BulkOp, BecomeTurns DEF IInv, TypeOK, Labels
  <2>. QED BY <2>1, <2>2
<1>3. /\ live' \in [Ids -> Submissions \cup {None}] /\ arch' \in [Ids -> Submissions \cup {None}]
      /\ \A j \in Ids \ {i} : live'[j] = live[j] /\ arch'[j] = arch[j]
      /\ live'[i] = None
      /\ live[i] = None => arch'[i] = arch[i]
      /\ live[i] # None => arch'[i] = live[i]
  BY <1>1 DEF MoveFile, shots
<1>TypeOK. TypeOK'
  BY <1>1, <1>2, <1>3 DEF IInv, TypeOK, Turns
<1>HeldInv. HeldInv'
  BY <1>1, <1>2, <1>3 DEF IInv, HeldInv, Writing, Saving, Unlinking, Turns
<1>OneWriter. OneWriter'
  BY <1>1, <1>2, <1>3 DEF IInv, OneWriter, Saving, Turns
<1>CounterInv. CounterInv'
  BY <1>1, <1>2, <1>3 DEF IInv, CounterInv, Saving, Turns
<1>SequenceIds. SequenceIds'
  BY <1>1, <1>2, <1>3 DEF IInv, SequenceIds, Writing, Saving, Turns
<1>IssuedInv. IssuedInv'
  BY <1>1, <1>2, <1>3 DEF IInv, IssuedInv, There, Archiving, Unlinking, Turns
<1>GoneInv. GoneInv'
  BY <1>1, <1>2, <1>3 DEF IInv, GoneInv, HeldInv, There, Unlinking, Writing, Saving,
     Turns
<1>ShotInv. ShotInv'
  BY <1>1, <1>2, <1>3 DEF IInv, ShotInv, There, CounterInv, Saving, HeldInv, Writing,
     Turns
<1>AckedInv. AckedInv'
  BY <1>1, <1>2, <1>3 DEF IInv, AckedInv, There, ShotInv, TypeOK, Turns
<1>LiveFollows. LiveFollows'
  BY <1>1, <1>2, <1>3 DEF IInv, LiveFollows, There, Turns
<1>ArchFollows. ArchFollows'
  BY <1>1, <1>2, <1>3 DEF IInv, ArchFollows, There, LiveFollows, Turns
<1>MoveFollows. MoveFollows'
  BY <1>1, <1>2, <1>3 DEF IInv, MoveFollows, There, Turns
<1>LookInv. LookInv'
  BY <1>1, <1>2, <1>3 DEF IInv, LookInv, HeldInv, There, Unlinking, Writing, Saving,
     Turns
<1>TagInv. TagInv'
  BY <1>1, <1>2, <1>3 DEF IInv, TagInv, There, Saving, Turns
<1>. QED BY <1>TypeOK, <1>HeldInv, <1>OneWriter, <1>CounterInv, <1>SequenceIds,
            <1>IssuedInv, <1>GoneInv, <1>ShotInv, <1>AckedInv, <1>LiveFollows,
            <1>ArchFollows, <1>MoveFollows, <1>LookInv, <1>TagInv DEF IInv

\* A crash ends all calls; files and rows stay.
LEMMA CrashStep ==
  ASSUME IInv, Crash, UNCHANGED idSource PROVE IInv'
<1>1. /\ crashes \in Nat /\ crashes' = crashes + 1 /\ writer' = None
      /\ op' \in [Workers -> Op] /\ \A w \in Workers : op'[w].at = "idle"
      /\ UNCHANGED <<idSource, rows, live, arch, counter, pending, acked, issued>>
  BY IdleOp DEF Crash, IInv, TypeOK, shots, history
<1>TypeOK. TypeOK'
  BY <1>1 DEF IInv, TypeOK, Archiving
<1>HeldInv. HeldInv'
  BY <1>1 DEF IInv, HeldInv, Writing, Saving, Unlinking, Archiving
<1>OneWriter. OneWriter'
  BY <1>1 DEF IInv, OneWriter, Saving, Archiving
<1>CounterInv. CounterInv'
  BY <1>1 DEF IInv, CounterInv, Saving, Archiving
<1>SequenceIds. SequenceIds'
  BY <1>1 DEF IInv, SequenceIds, Writing, Saving, Archiving
<1>IssuedInv. IssuedInv'
  BY <1>1 DEF IInv, IssuedInv, There, Archiving, Unlinking
<1>GoneInv. GoneInv'
  BY <1>1 DEF IInv, GoneInv, HeldInv, There, Unlinking, Writing, Saving, Archiving
<1>ShotInv. ShotInv'
  BY <1>1 DEF IInv, ShotInv, There, Archiving
<1>AckedInv. AckedInv'
  BY <1>1 DEF IInv, AckedInv, There, Archiving
<1>LiveFollows. LiveFollows'
  BY <1>1 DEF IInv, LiveFollows, There, Archiving
<1>ArchFollows. ArchFollows'
  BY <1>1 DEF IInv, ArchFollows, There, Archiving
<1>MoveFollows. MoveFollows'
  BY <1>1 DEF IInv, MoveFollows, There, Archiving
<1>LookInv. LookInv'
  BY <1>1 DEF IInv, LookInv, HeldInv, There, Unlinking, Writing, Saving, Archiving
<1>TagInv. TagInv'
  BY <1>1 DEF IInv, TagInv, There, Saving, Archiving
<1>. QED BY <1>TypeOK, <1>HeldInv, <1>OneWriter, <1>CounterInv, <1>SequenceIds,
            <1>IssuedInv, <1>GoneInv, <1>ShotInv, <1>AckedInv, <1>LiveFollows,
            <1>ArchFollows, <1>MoveFollows, <1>LookInv, <1>TagInv DEF IInv

-----------------------------------------------------------------------------
(* The invariant.                                                          *)

\* The invariant holds at first, and every step keeps it.
LEMMA InitIInv == Init => IInv
<1>. SUFFICES ASSUME Init PROVE IInv
  OBVIOUS
<1>1. /\ idSource \in IdSources /\ rows = [i \in Ids |-> NoRow] /\ crashes = 0
      /\ live = [i \in Ids |-> None] /\ arch = [i \in Ids |-> None]
      /\ counter = 0 /\ writer = None /\ pending = Submissions
      /\ acked = [i \in Ids |-> None] /\ issued = {}
      /\ op \in [Workers -> Op] /\ \A w \in Workers : op[w].at = "idle"
  BY IdleOp DEF Init
<1>2. \A i \in Ids : rows[i].tag = None
  BY <1>1 DEF NoRow
<1>3. TypeOK
  BY <1>1 DEF TypeOK
<1>4. HeldInv /\ OneWriter /\ CounterInv /\ SequenceIds
  BY <1>1 DEF HeldInv, OneWriter, CounterInv, SequenceIds, Writing, Saving, Unlinking
<1>5. IssuedInv /\ GoneInv /\ ShotInv /\ AckedInv
  BY <1>1, <1>2 DEF IssuedInv, GoneInv, ShotInv, AckedInv, There, Archiving, Unlinking
<1>6. LiveFollows /\ ArchFollows /\ MoveFollows
  BY <1>1, <1>2 DEF LiveFollows, ArchFollows, MoveFollows, There
<1>7. LookInv /\ TagInv
  BY <1>1, <1>2 DEF LookInv, TagInv, There, Saving
<1>. QED BY <1>3, <1>4, <1>5, <1>6, <1>7 DEF IInv

LEMMA NextIInv == ASSUME IInv, Next PROVE IInv'
<1>1. ASSUME NEW w \in Workers, Call(w), UNCHANGED idSource PROVE IInv'
  <2>1. CASE SaveBegin(w)
    BY <1>1, <2>1, SaveBeginStep
  <2>2. CASE Look(w)
    BY <1>1, <2>2, LookStep
  <2>3. CASE \/ UpdateBegin(w) \/ LinkBegin(w) \/ DeleteBegin(w)
             \/ ArchiveBegin(w) \/ BulkCloseBegin(w) \/ BulkArchiveBegin(w)
    <3>1. op[w].at = "idle"
      BY <2>3 DEF UpdateBegin, LinkBegin, DeleteBegin, ArchiveBegin, BulkCloseBegin,
         BulkArchiveBegin
    <3>. QED BY <1>1, <2>3, <3>1, BeginStep
  <2>. QED BY <1>1, <2>1, <2>2, <2>3 DEF Call
<1>2. ASSUME NEW w \in Workers, Step(w), UNCHANGED idSource PROVE IInv'
  BY <1>2, SavePngStep, SaveCommitStep, SaveFailStep, SaveCleanupStep, UpdateCommitStep,
     LinkCommitStep, DeleteCommitStep, UnlinkLiveStep, UnlinkArchStep,
     ArchiveCommitStep,
     BulkCloseCommitStep, MoveStep, RollbackStep DEF Step
<1>. QED BY <1>1, <1>2, CrashStep DEF Next

LEMMA StutterIInv == ASSUME IInv, UNCHANGED vars PROVE IInv'
<1>1. UNCHANGED <<idSource, rows, live, arch, counter, writer, op, pending, acked, issued, crashes>>
  BY DEF vars, shots, history
<1>2. TypeOK' /\ HeldInv' /\ OneWriter' /\ CounterInv' /\ SequenceIds'
  BY <1>1 DEF IInv, TypeOK, HeldInv, OneWriter, CounterInv, SequenceIds
<1>3. IssuedInv' /\ GoneInv' /\ ShotInv' /\ AckedInv'
  BY <1>1 DEF IInv, IssuedInv, GoneInv, ShotInv, AckedInv, There
<1>4. LiveFollows' /\ ArchFollows' /\ MoveFollows' /\ LookInv' /\ TagInv'
  BY <1>1 DEF IInv, LiveFollows, ArchFollows, MoveFollows, LookInv, TagInv, There
<1>. QED BY <1>2, <1>3, <1>4 DEF IInv

\* The inductive invariant.
THEOREM RowsInvariant == Spec => []IInv
<1>1. IInv /\ [Next]_vars => IInv'
  BY NextIInv, StutterIInv
<1>. QED BY InitIInv, <1>1, PTL DEF Spec

\* Every variable has its type.
THEOREM RowsTyped == Spec => []TypeOK
<1>1. IInv => TypeOK
  BY DEF IInv
<1>. QED BY <1>1, RowsInvariant, PTL

\* On PostgreSQL what save_report returned an id for has its row and its
\* screenshot until its deletion commits, through failed saves and crashes.
THEOREM SequenceKeeps == Spec => []KeptWithSequence
<1>1. IInv => KeptWithSequence
  BY DEF IInv, AckedInv, KeptWithSequence, AckedKept
<1>. QED BY <1>1, RowsInvariant, PTL

\* On both databases a save under way has an id no save has returned.
THEOREM IdsUsedOnce == Spec => []NoIdReuse
<1>1. IInv => NoIdReuse
  BY DEF IInv, CounterInv, NoIdReuse, Saving
<1>. QED BY <1>1, RowsInvariant, PTL

\* Without a crash the files of a report are its own, are where its row says,
\* and go when it goes; a lookup finds the file that archival moves meanwhile.
THEOREM FilesAreSound == Spec => []FilesSound
<1>1. IInv => FilesSound
  <2>. SUFFICES ASSUME IInv PROVE FilesSound
    OBVIOUS
  <2>1. rows \in Rows /\ \A i \in Ids : There(i) <=> Exists(i)
    BY ThereExists DEF IInv, TypeOK, Rows
  <2>2. ShotBelongsToRow
    BY <2>1 DEF IInv, ShotInv, ShotBelongsToRow
  <2>3. crashes = 0 => NoOrphans
    <3>. SUFFICES ASSUME crashes = 0, NEW i \in Ids, ~There(i), live[i] # None \/ arch[i] # None
                  PROVE  Busy(i)
      BY <2>1 DEF NoOrphans
    <3>1. CASE live[i] # None
      BY <3>1 DEF IInv, LiveFollows, Busy
    <3>2. CASE arch[i] # None
      BY <3>2 DEF IInv, ArchFollows, Busy
    <3>. QED BY <3>1, <3>2
  <2>4. crashes = 0 => ArchivedShotMoved
    BY <2>1 DEF IInv, ShotInv, MoveFollows, ArchivedShotMoved
  <2>5. ScreenshotFound
    <3>1. \A w \in Workers : op[w].at = "look" /\ op[w].had => arch[op[w].id] # None
      BY DEF IInv, LookInv
    <3>. QED BY <3>1 DEF ScreenshotFound, ShotIn
  <2>. QED BY <2>2, <2>3, <2>4, <2>5 DEF FilesSound, FilesFollowRows
<1>. QED BY <1>1, RowsInvariant, PTL

-----------------------------------------------------------------------------
(* The storage contract.                                                   *)

Reports == [i \in Ids |-> Stored(i)]

\* What the contract sees of a row.
Shown(r) == [tag |-> r.tag, status |-> r.status, life |-> Len(r.log), link |-> r.link,
             archived |-> r.archived]

\* Rows as they are stored, and what a change of some of them is to the contract.
LEMMA StoredIs ==
  ASSUME rows \in Rows, NEW i \in Ids
  PROVE  /\ Reports[i] = Stored(i)
         /\ Exists(i) => Stored(i) = Shown(rows[i]) /\ Stored(i) # NoRow
         /\ ~Exists(i) => Stored(i) = NoRow
         /\ Stored(i).tag = rows[i].tag
<1>1. Exists(i) => rows[i].tag # None
  BY ThereExists DEF There
<1>2. NoRow.tag = None /\ Shown(rows[i]).tag = rows[i].tag
  BY DEF NoRow, Shown
<1>3. Exists(i) => Stored(i) = Shown(rows[i])
  BY Zenon DEF Stored, Shown
<1>4. ~Exists(i) => Stored(i) = NoRow /\ rows[i] = NoRow
  BY Zenon DEF Stored, Exists
<1>. QED BY <1>1, <1>2, <1>3, <1>4, Zenon DEF Reports

\* Steps that write no row are not seen by the contract.
LEMMA RowsKept ==
  ASSUME UNCHANGED rows PROVE UNCHANGED Reports
BY Zenon DEF Reports, Stored, Exists

\* A step that changes some rows is seen at their ids alone.
LEMMA StoredNext ==
  ASSUME NEW S \in SUBSET Ids, \A j \in Ids \ S : rows'[j] = rows[j]
  PROVE  /\ Reports' = [j \in Ids |-> IF j \in S THEN Stored(j)' ELSE Reports[j]]
         /\ \A i \in S : rows'[i] # NoRow => Stored(i)' = Shown(rows'[i])
         /\ \A i \in S : rows'[i] = NoRow => Stored(i)' = NoRow
<1>1. \A j \in Ids \ S : Stored(j)' = Reports[j]
  BY Zenon DEF Stored, Exists, Reports
<1>2. Reports' = [j \in Ids |-> IF j \in S THEN Stored(j)' ELSE Reports[j]]
  BY <1>1, Zenon DEF Reports
<1>3. \A i \in S : rows'[i] # NoRow => Stored(i)' = Shown(rows'[i])
  BY Zenon DEF Stored, Exists, Shown
<1>4. \A i \in S : rows'[i] = NoRow => Stored(i)' = NoRow
  BY Zenon DEF Stored, Exists
<1>. QED BY <1>2, <1>3, <1>4

\* A row has a payload, so it is not the absence of one.
LEMMA RowIsThere == ASSUME NEW r \in Row PROVE r # NoRow /\ r.tag \in Submissions
<1>1. r.tag \in Submissions /\ NoRow.tag = None
  BY DEF Row, NoRow
<1>. QED BY <1>1, SqlStorageAssumption

\* A status with its entry, and an archival with its entry, as the contract sees them.
LEMMA ShownStatus ==
  ASSUME NEW r \in Row, NEW st \in Status, NEW entry \in Entry, NEW q,
         q = [r EXCEPT !.status = st, !.log = Append(@, entry)]
  PROVE  Shown(q) = [Shown(r) EXCEPT !.status = st, !.life = @ + 1]
<1>1. q.tag = r.tag /\ q.status = st /\ q.log = Append(r.log, entry) /\ q.link = r.link
  BY DEF Row
<1>2. q.archived = r.archived
  BY DEF Row
<1>3. Len(q.log) = Len(r.log) + 1
  BY <1>1 DEF Row
<1>4. PICK s, a, l, k, t : s = r.status /\ a = r.archived /\ l = Len(r.log) /\ k = r.link /\ t = r.tag
  OBVIOUS
<1>5. Shown(r) = [tag |-> t, status |-> s, life |-> l, link |-> k, archived |-> a]
  BY <1>4, Zenon DEF Shown
<1>6. Shown(q) = [tag |-> t, status |-> st, life |-> l + 1, link |-> k, archived |-> a]
  BY <1>1, <1>2, <1>3, <1>4, Zenon DEF Shown
<1>7. PICK m : m = [Shown(r) EXCEPT !.status = st]
  OBVIOUS
<1>8. m = [tag |-> t, status |-> st, life |-> l, link |-> k, archived |-> a]
  BY <1>5, <1>7
<1>9. [m EXCEPT !.life = @ + 1] = Shown(q)
  BY <1>6, <1>8
<1>. QED BY <1>7, <1>9

LEMMA ShownArchived ==
  ASSUME NEW r \in Row, NEW q,
         q = [r EXCEPT !.archived = TRUE, !.log = Append(@, "archived")]
  PROVE  Shown(q) = [Shown(r) EXCEPT !.archived = TRUE, !.life = @ + 1]
<1>0. PICK yes : yes = TRUE
  OBVIOUS
<1>1. q = [r EXCEPT !.archived = yes, !.log = Append(@, "archived")]
  BY <1>0, Zenon
<1>2. q.tag = r.tag /\ q.status = r.status /\ q.log = Append(r.log, "archived")
      /\ q.link = r.link /\ q.archived = yes
  BY <1>1 DEF Row
<1>3. Len(q.log) = Len(r.log) + 1
  BY <1>2 DEF Row, Entry
<1>4. PICK s, a, l, k, t : s = r.status /\ a = r.archived /\ l = Len(r.log) /\ k = r.link /\ t = r.tag
  OBVIOUS
<1>5. Shown(r) = [tag |-> t, status |-> s, life |-> l, link |-> k, archived |-> a]
  BY <1>4, Zenon DEF Shown
<1>6. Shown(q) = [tag |-> t, status |-> s, life |-> l + 1, link |-> k, archived |-> yes]
  BY <1>2, <1>3, <1>4, Zenon DEF Shown
<1>7. PICK m : m = [Shown(r) EXCEPT !.archived = yes]
  OBVIOUS
<1>8. m = [tag |-> t, status |-> s, life |-> l, link |-> k, archived |-> yes]
  BY <1>5, <1>7
<1>9. [m EXCEPT !.life = @ + 1] = Shown(q)
  BY <1>6, <1>8
<1>. QED BY <1>0, <1>7, <1>9, Zenon

\* The commit of a save is the contract's save_report.
LEMMA SaveImplements ==
  ASSUME IInv, NEW w \in Workers, SaveCommit(w)
  PROVE  \E i \in Ids, s \in Submissions : Contract!Save(i, s)
<1>. PICK i, s : i = op[w].id /\ s = op[w].val
  OBVIOUS
<1>1. /\ i \in Ids /\ s \in Submissions /\ i \notin issued /\ rows \in Rows
      /\ \A j \in Ids : rows[j].tag # s
      /\ rows' = [rows EXCEPT ![i] = NewRow(s)]
  BY DEF SaveCommit, IInv, TypeOK, HeldInv, CounterInv, TagInv, Writing, Saving, Rows
<1>2. NewRow(s) \in Row /\ rows'[i] = NewRow(s) /\ \A j \in Ids \ {i} : rows'[j] = rows[j]
  BY <1>1 DEF NewRow, Row, Rows, Status, Entry
<1>3. ~Exists(i)
  BY <1>1, Read
<1>4. Reports[i] = NoRow /\ \A j \in Ids : Reports[j].tag # s
  BY <1>1, <1>3, StoredIs
<1>5. rows' \in Rows /\ rows'[i] # NoRow
  BY <1>1, <1>2, RowIsThere DEF Rows
<1>6. Stored(i)' = [tag |-> s, status |-> "open", life |-> 1, link |-> None, archived |-> FALSE]
  <2>1. Stored(i)' = Shown(NewRow(s))
    BY <1>1, <1>2, <1>5, StoredNext
  <2>2. PICK no : no = FALSE
    OBVIOUS
  <2>3. PICK log : log = <<"created">>
    OBVIOUS
  <2>4. NewRow(s) = [tag |-> s, status |-> "open", link |-> None, archived |-> no, log |-> log]
    BY <2>2, <2>3, Zenon DEF NewRow
  <2>5. Shown(NewRow(s)) = [tag |-> s, status |-> "open", life |-> Len(log), link |-> None, archived |-> no]
    BY <2>4 DEF Shown
  <2>6. Len(log) = 1
    BY <2>3
  <2>. QED BY <2>1, <2>2, <2>5, <2>6, Zenon
<1>7. Reports' = [Reports EXCEPT ![i] = Stored(i)']
  <2>1. Reports' = [j \in Ids |-> IF j \in {i} THEN Stored(j)' ELSE Reports[j]]
    BY <1>1, <1>2, <1>5, StoredNext
  <2>. QED BY <2>1, Zenon DEF Reports
<1>8. Contract!Save(i, s)
  BY <1>4, <1>6, <1>7, Zenon DEF Contract!Save, Contract!Exists, Contract!NoReport,
     NoRow, Reports
<1>. QED BY <1>1, <1>8, Zenon

\* The commit of a status, of one or several reports, is the contract's update.
LEMMA UpdateImplements ==
  ASSUME IInv, NEW w \in Workers, UpdateCommit(w) \/ BulkCloseCommit(w)
  PROVE  \E S \in SUBSET Ids, st \in Status : Contract!UpdateStatus(S, st)
<1>1. PICK S \in SUBSET Ids, st \in Status, entry \in Entry :
        /\ \A i \in S : Exists(i) /\ rows'[i] = [rows[i] EXCEPT !.status = st, !.log = Append(@, entry)]
        /\ \A i \in Ids \ S : rows'[i] = rows[i]
  <2>1. CASE UpdateCommit(w)
    <3>. DEFINE i == op[w].id
                st == op[w].val
                new == IF op[w].seen.status = st THEN rows[i].status ELSE st
    <3>1. i \in Ids /\ st \in Status /\ Exists(i) /\ rows \in Rows
      BY <2>1 DEF UpdateCommit, WriteStatus, IInv, TypeOK, HeldInv, Rows
    <3>2. rows[i] \in Row /\ new \in Status /\ st \in Entry
      BY <3>1, Read DEF Row, Entry
    <3>3. PICK r \in Row : r = rows[i]
      BY <3>2
    <3>4. rows' = [rows EXCEPT ![i] = [r EXCEPT !.status = new, !.log = Append(@, st)]]
      BY <2>1, <3>1, <3>3 DEF UpdateCommit, WriteStatus, Rows
    <3>5. rows'[i] = [rows[i] EXCEPT !.status = new, !.log = Append(@, st)]
      BY <3>1, <3>3, <3>4 DEF Rows
    <3>6. \A j \in Ids \ {i} : rows'[j] = rows[j]
      BY <3>1, <3>4 DEF Rows
    <3>. HIDE DEF new, i, st
    <3>7. PICK S \in SUBSET Ids : S = {i}
      BY <3>1
    <3>8. \A j \in S : Exists(j) /\ rows'[j] = [rows[j] EXCEPT !.status = new, !.log = Append(@, st)]
      BY <3>1, <3>5, <3>7, Zenon
    <3>9. \A j \in Ids \ S : rows'[j] = rows[j]
      BY <3>6, <3>7
    <3>. QED BY <3>2, <3>8, <3>9, Zenon
  <2>2. CASE BulkCloseCommit(w)
    <3>1. op[w].todo \in SUBSET Ids /\ "closed" \in Status /\ "closed" \in Entry
      BY DEF IInv, TypeOK, Op, Status, Entry
    <3>. QED BY <2>2, <3>1 DEF BulkCloseCommit, SetAll
  <2>. QED BY <2>1, <2>2
<1>2. ASSUME NEW i \in S
      PROVE  Stored(i)' = [Reports[i] EXCEPT !.status = st, !.life = @ + 1] /\ Reports[i] # NoRow
  <2>1. rows \in Rows /\ i \in Ids /\ Exists(i) /\ rows[i] \in Row
    BY <1>1, Read DEF IInv, TypeOK, Rows
  <2>2. PICK r \in Row : r = rows[i]
    BY <2>1
  <2>3. PICK q \in Row : q = [r EXCEPT !.status = st, !.log = Append(@, entry)]
    BY <1>1, StatusRow
  <2>4. rows'[i] = q /\ q # NoRow
    BY <1>1, <1>2, <2>2, <2>3, RowIsThere
  <2>5. Stored(i)' = Shown(q)
    BY <1>1, <1>2, <2>4, StoredNext
  <2>6. Reports[i] = Shown(r) /\ Reports[i] # NoRow
    BY <2>1, <2>2, StoredIs
  <2>7. Shown(q) = [Shown(r) EXCEPT !.status = st, !.life = @ + 1]
    BY <2>3, ShownStatus, Zenon
  <2>. QED BY <2>5, <2>6, <2>7, Zenon
<1>3. Reports' = [i \in Ids |-> IF i \in S THEN [Reports[i] EXCEPT !.status = st, !.life = @ + 1]
                                ELSE Reports[i]]
  <2>1. Reports' = [j \in Ids |-> IF j \in S THEN Stored(j)' ELSE Reports[j]]
    BY <1>1, StoredNext
  <2>. QED BY <1>2, <2>1, Zenon
<1>4. Contract!UpdateStatus(S, st)
  BY <1>2, <1>3, Zenon DEF Contract!UpdateStatus, Contract!Exists, Contract!NoReport,
     NoRow, Reports
<1>. QED BY <1>1, <1>4

\* The commit of an archival is the loose contract's.
LEMMA ArchiveImplements ==
  ASSUME IInv, NEW w \in Workers, ArchiveCommit(w)
  PROVE  \E S \in SUBSET Ids : Contract!Archived(S)
<1>. PICK S \in SUBSET Ids : S = op[w].todo
  BY DEF IInv, TypeOK, Op
<1>1. /\ \A i \in S : Exists(i) /\ rows'[i] = [rows[i] EXCEPT !.archived = TRUE, !.log = Append(@, "archived")]
      /\ \A i \in Ids \ S : rows'[i] = rows[i]
  BY DEF ArchiveCommit, ArchiveAll
<1>2. ASSUME NEW i \in S
      PROVE  Stored(i)' = [Reports[i] EXCEPT !.archived = TRUE, !.life = @ + 1] /\ Reports[i] # NoRow
  <2>1. rows \in Rows /\ i \in Ids /\ Exists(i) /\ rows[i] \in Row
    BY <1>1, Read DEF IInv, TypeOK, Rows
  <2>2. PICK r \in Row : r = rows[i]
    BY <2>1
  <2>3. PICK q \in Row : q = [r EXCEPT !.archived = TRUE, !.log = Append(@, "archived")]
    BY ArchivedRow
  <2>4. rows'[i] = q /\ q # NoRow
    BY <1>1, <1>2, <2>2, <2>3, RowIsThere
  <2>5. Stored(i)' = Shown(q)
    BY <1>1, <1>2, <2>4, StoredNext
  <2>6. Reports[i] = Shown(r) /\ Reports[i] # NoRow
    BY <2>1, <2>2, StoredIs
  <2>. QED BY <2>3, <2>5, <2>6, ShownArchived
<1>3. Reports' = [i \in Ids |-> IF i \in S THEN [Reports[i] EXCEPT !.archived = TRUE, !.life = @ + 1]
                                ELSE Reports[i]]
  <2>1. Reports' = [j \in Ids |-> IF j \in S THEN Stored(j)' ELSE Reports[j]]
    BY <1>1, StoredNext
  <2>. QED BY <1>2, <2>1, Zenon
<1>4. Contract!Archived(S)
  BY <1>2, <1>3, Zenon DEF Contract!Archived, Contract!Exists, Contract!NoReport,
     NoRow, Reports
<1>. QED BY <1>4

\* The commit of a link is the contract's set_github_link, or writes nothing.
LEMMA LinkImplements ==
  ASSUME IInv, NEW w \in Workers, LinkCommit(w)
  PROVE  UNCHANGED Reports \/ \E i \in Ids, l \in Links : Contract!SetGithubLink(i, l)
<1>. PICK i, l : i = op[w].id /\ l = op[w].val
  OBVIOUS
<1>1. /\ i \in Ids /\ l \in Links /\ rows \in Rows
      /\ UNCHANGED rows \/ (Exists(i) /\ rows' = [rows EXCEPT ![i].link = l])
  BY DEF LinkCommit, IInv, TypeOK, HeldInv, Rows
<1>2. CASE UNCHANGED rows
  BY <1>2, RowsKept
<1>3. CASE Exists(i) /\ rows' = [rows EXCEPT ![i].link = l]
  <2>1. PICK r \in Row : r = rows[i]
    BY <1>1, <1>3, Read
  <2>2. PICK q : q = [r EXCEPT !.link = l]
    OBVIOUS
  <2>3. q \in Row /\ q.tag = r.tag /\ q.status = r.status /\ q.log = r.log /\ q.link = l
        /\ q.archived = r.archived
    BY <1>1, <2>2 DEF Row
  <2>4. rows'[i] = q /\ q # NoRow /\ \A j \in Ids \ {i} : rows'[j] = rows[j]
    BY <1>1, <1>3, <2>1, <2>2, <2>3, RowIsThere DEF Rows
  <2>5. Reports' = [j \in Ids |-> IF j \in {i} THEN Stored(j)' ELSE Reports[j]] /\ Stored(i)' = Shown(q)
    BY <1>1, <2>4, StoredNext
  <2>6. Reports[i] = Shown(r) /\ Reports[i] # NoRow
    BY <1>1, <1>3, <2>1, StoredIs
  <2>7. Shown(q) = [Shown(r) EXCEPT !.link = l]
    <3>1. PICK s, a, n, k, t : s = r.status /\ a = r.archived /\ n = Len(r.log) /\ k = r.link /\ t = r.tag
      OBVIOUS
    <3>2. Shown(r) = [tag |-> t, status |-> s, life |-> n, link |-> k, archived |-> a]
      BY <3>1, Zenon DEF Shown
    <3>3. Shown(q) = [tag |-> t, status |-> s, life |-> n, link |-> l, archived |-> a]
      BY <2>3, <3>1, Zenon DEF Shown
    <3>. QED BY <3>2, <3>3
  <2>8. Reports' = [Reports EXCEPT ![i] = Shown(q)]
    BY <1>1, <2>5, Zenon DEF Reports
  <2>9. Contract!SetGithubLink(i, l)
    BY <2>6, <2>7, <2>8, Zenon DEF Contract!SetGithubLink, Contract!Exists,
       Contract!NoReport, NoRow, Reports
  <2>. QED BY <1>1, <2>9, Zenon
<1>. QED BY <1>1, <1>2, <1>3

\* The commit of a deletion is the contract's, unless the row is gone already.
LEMMA DeleteImplements ==
  ASSUME IInv, NEW w \in Workers, DeleteCommit(w)
  PROVE  UNCHANGED Reports \/ \E i \in Ids : Contract!Delete(i)
<1>. PICK i : i = op[w].id
  OBVIOUS
<1>1. i \in Ids /\ rows \in Rows /\ rows' = [rows EXCEPT ![i] = NoRow]
  BY DEF DeleteCommit, IInv, TypeOK, HeldInv, Rows
<1>2. CASE rows[i] = NoRow
  <2>1. UNCHANGED rows
    BY <1>1, <1>2 DEF Rows
  <2>. QED BY <2>1, RowsKept
<1>3. CASE Exists(i)
  <2>1. rows'[i] = NoRow /\ \A j \in Ids \ {i} : rows'[j] = rows[j]
    BY <1>1 DEF Rows
  <2>2. Reports' = [j \in Ids |-> IF j \in {i} THEN Stored(j)' ELSE Reports[j]] /\ Stored(i)' = NoRow
    BY <1>1, <2>1, StoredNext
  <2>3. Reports[i] # NoRow
    BY <1>1, <1>3, StoredIs
  <2>4. Reports' = [Reports EXCEPT ![i] = NoRow]
    BY <1>1, <2>2, Zenon DEF Reports
  <2>5. Contract!Delete(i)
    BY <2>3, <2>4, Zenon DEF Contract!Delete, Contract!Exists, Contract!NoReport,
       NoRow, Reports
  <2>. QED BY <1>1, <2>5
<1>. QED BY <1>2, <1>3 DEF Exists

LooseNext == Contract!Shared \/ \E S \in SUBSET Ids : Contract!Archived(S)

\* Every step is one of the contract or not seen by it.
LEMMA StepImplements ==
  ASSUME IInv, [Next]_vars PROVE [LooseNext]_Reports
<1>1. ASSUME NEW w \in Workers, Call(w) \/ Step(w)
      PROVE  [LooseNext]_Reports
  <2>1. CASE SaveCommit(w)
    BY <2>1, SaveImplements, Zenon DEF LooseNext, Contract!Shared
  <2>2. CASE UpdateCommit(w) \/ BulkCloseCommit(w)
    BY <2>2, UpdateImplements, Zenon DEF LooseNext, Contract!Shared, Contract!Status,
       Status
  <2>3. CASE LinkCommit(w)
    BY <2>3, LinkImplements, Zenon DEF LooseNext, Contract!Shared
  <2>4. CASE DeleteCommit(w)
    BY <2>4, DeleteImplements, Zenon DEF LooseNext, Contract!Shared
  <2>5. CASE ArchiveCommit(w)
    BY <2>5, ArchiveImplements, Zenon DEF LooseNext
  <2>6. CASE ~(\/ SaveCommit(w) \/ UpdateCommit(w) \/ BulkCloseCommit(w)
               \/ LinkCommit(w) \/ DeleteCommit(w) \/ ArchiveCommit(w))
    <3>1. UNCHANGED rows
      BY <1>1, <2>6, Zenon DEF Call, Step, SaveBegin, UpdateBegin, LinkBegin,
         DeleteBegin,
         ArchiveBegin, BulkCloseBegin, BulkArchiveBegin, Look, SavePng, SaveFail,
         SaveCleanup,
         UnlinkLive, UnlinkArch, UnlinkStored, Move, Rollback, LookAgain
    <3>. QED BY <3>1, RowsKept
  <2>. QED BY <2>1, <2>2, <2>3, <2>4, <2>5, <2>6
<1>2. CASE Crash \/ UNCHANGED vars
  <2>1. UNCHANGED rows
    BY <1>2, Zenon DEF Crash, vars
  <2>. QED BY <2>1, RowsKept
<1>. QED BY <1>1, <1>2, Zenon DEF Next

\* The SQL storage implements the loose contract on both databases, whatever
\* calls overlap and wherever the process stops: a report exists from commit to
\* commit, and no commit undoes another's.
THEOREM RowsImplementContract == Spec => ImplementsContract
<1>1. Init => Contract!Init
  <2>. SUFFICES ASSUME Init PROVE Contract!Init
    OBVIOUS
  <2>1. \A i \in Ids : Stored(i) = NoRow
    BY Zenon DEF Init, Stored, Exists
  <2>. QED BY <2>1, Zenon DEF Contract!Init, Contract!NoReport, NoRow
<1>2. IInv /\ [Next]_vars => [LooseNext]_Reports
  BY StepImplements
<1>. QED BY <1>1, <1>2, RowsInvariant, PTL DEF Spec, ImplementsContract,
            Contract!LooseSpec, Reports, LooseNext
=============================================================================
