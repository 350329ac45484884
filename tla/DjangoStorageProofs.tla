------------------------ MODULE DjangoStorageProofs ------------------------
(***************************************************************************)
(* The Django storage, for any workers, ids, payloads and time: types, a    *)
(* report's screenshot is its own, the log accounts for every update, and    *)
(* as long as saves take turns every step is one of the storage contract.   *)
(***************************************************************************)
EXTENDS DjangoStorage, FiniteSetTheorems, SequenceTheorems, WellFoundedInduction, TLAPS

BeforeFile == {"saveSelect", "saveWait", "saveFile"}
WithFile == {"saveUpdate", "saveInsert", "saveCommit"}
Saving(w) == op[w].at \in SaveLabels

\* What a worker carries fits what it is doing, with payloads p still to be
\* submitted, files d and time c.
Fits(o, p, d, c) ==
  /\ o.at \in SaveLabels => o.tag \in Submissions \ p
  /\ o.at \in {"saveFile"} \cup WithFile => o.id \in Ids
  /\ o.at \in WithFile => o.name \in Names /\ d[o.name] = o.tag
  /\ o.at \in {"updateCall", "update", "link", "delete"} => o.id \in Ids
  /\ o.at \in {"updateCall", "update"} => o.val \in Status
  /\ o.at = "link" => o.val \in Links
  /\ o.at = "unlink" => o.name \in Names
  /\ o.stamp <= c

OpInv == \A w \in Workers : Fits(op[w], pending, disk, clock)

\* A transaction that is about to change rows holds their locks, and they are as
\* it selected them.
Holds(l, r, w, i, st) == l[i] = w /\ r[i] # NoRow /\ r[i].status \in st
Ready(w, o, l, r) ==
  /\ o.at = "saveCommit" => l[o.id] = w
  /\ o.at \in {"update", "link", "delete"} => Holds(l, r, w, o.id, Status)
  /\ o.at = "bulkClose" => \A i \in o.todo : Holds(l, r, w, i, {"fixed"})
  /\ o.at = "bulkArchive" => \A i \in o.todo :
       Holds(l, r, w, i, {"closed"}) /\ ~r[i].archived

LockInv == \A w \in Workers : Ready(w, op[w], lock, rows)

\* A payload is in one place: submitted later, being saved, or in one row.
TagInv ==
  /\ \A i \in Ids : Exists(i) =>
       /\ rows[i].tag \notin pending
       /\ \A w \in Workers : Saving(w) => rows[i].tag # op[w].tag
       /\ \A j \in Ids : Exists(j) /\ rows[i].tag = rows[j].tag => i = j
  /\ \A v, w \in Workers : Saving(v) /\ Saving(w) /\ op[v].tag = op[w].tag => v = w

\* No file holds payload s, and its second choice of name is free.
NoFileOf(d, s) == \A n \in Names : d[n] # s /\ (n[2] = s => d[n] = None)

\* Nobody else has to do with the file that w is about to unlink.
Unwanted(w) == LET t == disk[op[w].name] IN
  /\ t # None /\ t \notin pending
  /\ \A i \in Ids : Exists(i) => rows[i].tag # t
  /\ \A v \in Workers : Saving(v) => op[v].tag # t
  /\ \A v \in Workers : op[v].at = "unlink" /\ op[v].name = op[w].name => v = w

FileInv ==
  /\ \A s \in pending : NoFileOf(disk, s)
  /\ \A w \in Workers : op[w].at \in BeforeFile => NoFileOf(disk, op[w].tag)
  /\ \A w \in Workers : op[w].at = "unlink" => Unwanted(w)

\* The log of a report counts its updates and is of the past.
LogInv == \A i \in Ids :
  /\ ~Exists(i) => ackedUpdates[i] = 0
  /\ Exists(i) =>
       /\ Len(rows[i].log) >= 1 + ackedUpdates[i]
       /\ rows[i].at <= clock
       /\ \A k \in DOMAIN rows[i].log : rows[i].log[k].at <= clock

\* The last entry that sets a status sets st.
Tells(log, st) == \E k \in DOMAIN log :
  /\ log[k].what # "archived"
  /\ \A j \in DOMAIN log : j > k => log[j].what = "archived"
  /\ st = IF log[k].what = "created" THEN "open" ELSE log[k].what

\* The log tells the status, and a bulk call closes nothing that changed after
\* it read the time.
AuditInv ==
  /\ ~overlapped /\ ~raced => \A i \in Ids : Exists(i) => Tells(rows[i].log, rows[i].status)
  /\ ~raced => \A w \in Workers : op[w].at \in {"closeCall", "bulkClose"} =>
       \A i \in Ids : Exists(i) /\ rows[i].status = "fixed" =>
         \A k \in DOMAIN rows[i].log : rows[i].log[k].at <= op[w].stamp

\* As long as saves take turns, rows are in the order of their ids, and the
\* save under way is ahead of them.
TurnInv == ~overlapped =>
  /\ \A v, w \in Workers : Saving(v) /\ Saving(w) => v = w
  /\ \A i, j \in Ids : Exists(i) /\ Exists(j) /\ i < j => rows[i].at < rows[j].at
  /\ \A w \in Workers, i \in Ids : Saving(w) /\ Exists(i) =>
       /\ rows[i].at < op[w].stamp
       /\ op[w].at \in {"saveFile"} \cup WithFile => i < op[w].id
  /\ \A w \in Workers : op[w].at = "saveWait" => op[w].found = Found

Inv == /\ TypeOK /\ OpInv /\ LockInv /\ TagInv /\ FileInv /\ ScreenshotIsOwn
       /\ LogInv /\ AuditInv /\ TurnInv

-----------------------------------------------------------------------------
(* The log.                                                                *)

\* Logged puts the entry behind those that are not later: behind all of them if
\* none is.
LEMMA LoggedSplits ==
  ASSUME NEW log \in Seq(Entry), NEW e \in Entry
  PROVE  LET new == Logged(log, e.what, e.at) IN
         /\ new \in Seq(Entry) /\ Len(new) = Len(log) + 1
         /\ \E n \in 0 .. Len(log) :
              /\ \A k \in 1 .. n : new[k] = log[k]
              /\ new[n + 1] = e
              /\ \A k \in n + 1 .. Len(log) : new[k + 1] = log[k]
              /\ (\A k \in 1 .. Len(log) : log[k].at <= e.at) => n = Len(log)
<1>. DEFINE past == {k \in DOMAIN log : log[k].at <= e.at}
            n == Cardinality(past)
            front == SubSeq(log, 1, n)
            back == SubSeq(log, n + 1, Len(log))
            new == front \o << e >> \o back
<1>1. Len(log) \in Nat /\ DOMAIN log = 1 .. Len(log) /\ \A k \in 1 .. Len(log) : log[k] \in Entry
  OBVIOUS
<1>2. IsFiniteSet(1 .. Len(log)) /\ Cardinality(1 .. Len(log)) = Len(log)
  <2>1. /\ IsFiniteSet(1 .. Len(log))
        /\ Cardinality(1 .. Len(log)) = IF 1 > Len(log) THEN 0 ELSE Len(log) - 1 + 1
    BY <1>1, FS_Interval
  <2>. QED BY <1>1, <2>1
<1>3. past \in SUBSET (1 .. Len(log))
  BY <1>1
<1>4. n \in 0 .. Len(log)
  <2>. HIDE DEF past
  <2>1. IsFiniteSet(past) /\ Cardinality(past) <= Cardinality(1 .. Len(log))
    BY <1>2, <1>3, FS_Subset
  <2>2. Cardinality(past) \in Nat
    BY <2>1, FS_CardinalityType
  <2>. QED BY <1>1, <1>2, <2>1, <2>2
<1>5. (\A k \in 1 .. Len(log) : log[k].at <= e.at) => n = Len(log)
  <2>. SUFFICES ASSUME \A k \in 1 .. Len(log) : log[k].at <= e.at PROVE past = 1 .. Len(log)
    BY <1>2
  <2>. QED BY <1>1
<1>6. Logged(log, e.what, e.at) = new
  <2>1. [what |-> e.what, at |-> e.at] = e
    BY DEF Entry
  <2>. QED BY <2>1 DEF Logged
<1>. HIDE DEF n
<1>7. /\ front \in Seq(Entry) /\ Len(front) = n
      /\ \A k \in 1 .. n : front[k] = log[k]
  <2>1. 1 \in 1 .. Len(log) + 1 /\ n \in 0 .. Len(log)
    BY <1>1, <1>4
  <2>2. /\ SubSeq(log, 1, n) \in Seq(Entry)
        /\ Len(SubSeq(log, 1, n)) = IF 1 <= n THEN n - 1 + 1 ELSE 0
        /\ \A k \in 1 .. n - 1 + 1 : SubSeq(log, 1, n)[k] = log[1 + k - 1]
    BY <2>1, SubSeqProperties
  <2>. QED BY <1>1, <1>4, <2>2
<1>8. /\ back \in Seq(Entry) /\ Len(back) = Len(log) - n
      /\ \A k \in 1 .. Len(log) - n : back[k] = log[n + k]
  <2>1. n + 1 \in 1 .. Len(log) + 1 /\ Len(log) \in n + 1 - 1 .. Len(log)
    BY <1>1, <1>4
  <2>2. /\ SubSeq(log, n + 1, Len(log)) \in Seq(Entry)
        /\ Len(SubSeq(log, n + 1, Len(log)))
             = IF n + 1 <= Len(log) THEN Len(log) - (n + 1) + 1 ELSE 0
        /\ \A k \in 1 .. Len(log) - (n + 1) + 1 :
             SubSeq(log, n + 1, Len(log))[k] = log[n + 1 + k - 1]
    BY <2>1, SubSeqProperties
  <2>3. Len(back) = Len(log) - n
    <3>1. Len(log) \in Nat /\ n \in Nat /\ n <= Len(log)
      BY <1>1, <1>4
    <3>2. Len(back) = IF n + 1 <= Len(log) THEN Len(log) - (n + 1) + 1 ELSE 0
      BY <2>2
    <3>. HIDE DEF back
    <3>. QED BY <3>1, <3>2
  <2>4. ASSUME NEW k \in 1 .. Len(log) - n PROVE back[k] = log[n + k]
    <3>1. k \in 1 .. Len(log) - (n + 1) + 1 /\ n + 1 + k - 1 = n + k
      BY <1>1, <1>4
    <3>2. SubSeq(log, n + 1, Len(log))[k] = log[n + 1 + k - 1]
      BY <2>2, <3>1
    <3>. QED BY <3>1, <3>2
  <2>. QED BY <2>2, <2>3, <2>4
<1>. HIDE DEF front, back
<1>9. /\ front \o << e >> \in Seq(Entry) /\ Len(front \o << e >>) = n + 1
      /\ \A k \in 1 .. n + 1 :
           (front \o << e >>)[k] = IF k <= n THEN front[k] ELSE << e >>[k - n]
  <2>1. << e >> \in Seq(Entry) /\ Len(<< e >>) = 1
    OBVIOUS
  <2>. QED BY <1>7, <2>1, ConcatProperties
<1>10. /\ new \in Seq(Entry) /\ Len(new) = Len(front \o << e >>) + Len(back)
       /\ \A k \in 1 .. Len(front \o << e >>) + Len(back) :
            new[k] = IF k <= Len(front \o << e >>) THEN (front \o << e >>)[k]
                     ELSE back[k - Len(front \o << e >>)]
  <2>. HIDE DEF Entry
  <2>. QED BY <1>8, <1>9, ConcatProperties
<1>. HIDE DEF new
<1>11. ASSUME NEW k \in 1 .. n PROVE new[k] = log[k]
  <2>1. /\ k \in 1 .. Len(front \o << e >>) + Len(back) /\ k <= Len(front \o << e >>)
        /\ k \in 1 .. n + 1 /\ k <= n
    BY <1>1, <1>4, <1>8, <1>9
  <2>2. (front \o << e >>)[k] = front[k]
    BY <1>9, <2>1
  <2>. QED BY <1>7, <1>10, <2>1, <2>2
<1>12. new[n + 1] = e
  <2>1. /\ n + 1 \in 1 .. Len(front \o << e >>) + Len(back) /\ n + 1 <= Len(front \o << e >>)
        /\ n + 1 \in 1 .. n + 1 /\ ~(n + 1 <= n) /\ n + 1 - n = 1
    BY <1>1, <1>4, <1>8, <1>9
  <2>2. (front \o << e >>)[n + 1] = << e >>[1]
    BY <1>9, <2>1
  <2>. QED BY <1>10, <2>1, <2>2
<1>13. ASSUME NEW k \in n + 1 .. Len(log) PROVE new[k + 1] = log[k]
  <2>0. k \in Int /\ n \in Int /\ Len(front \o << e >>) = n + 1 /\ Len(back) = Len(log) - n
        /\ n + 1 <= k /\ k <= Len(log) /\ n >= 0
    BY <1>1, <1>4, <1>8, <1>9
  <2>1. /\ k + 1 \in 1 .. Len(front \o << e >>) + Len(back)
        /\ ~(k + 1 <= Len(front \o << e >>))
        /\ k + 1 - Len(front \o << e >>) = k - n /\ k - n \in 1 .. Len(log) - n
        /\ n + (k - n) = k
    BY <1>1, <2>0
  <2>2. new[k + 1] = back[k - n]
    BY <1>10, <2>1
  <2>3. back[k - n] = log[n + (k - n)]
    BY <1>8, <2>1
  <2>. QED BY <2>1, <2>2, <2>3
<1>14. Len(new) = Len(log) + 1
  <2>1. Len(new) = Len(front \o << e >>) + Len(back)
    BY <1>10
  <2>2. n \in Int /\ Len(front \o << e >>) = n + 1 /\ Len(back) = Len(log) - n
    BY <1>1, <1>4, <1>8, <1>9
  <2>. QED BY <1>1, <2>1, <2>2
<1>15. \A k \in n + 1 .. Len(log) : new[k + 1] = log[k]
  BY <1>13
<1>16. \A k \in 1 .. n : new[k] = log[k]
  BY <1>11
<1>. HIDE DEF past
<1>17. \E m \in 0 .. Len(log) :
         /\ \A k \in 1 .. m : new[k] = log[k]
         /\ new[m + 1] = e
         /\ \A k \in m + 1 .. Len(log) : new[k + 1] = log[k]
         /\ (\A k \in 1 .. Len(log) : log[k].at <= e.at) => m = Len(log)
  BY <1>4, <1>5, <1>12, <1>15, <1>16, Zenon
<1>. QED BY <1>6, <1>10, <1>14, <1>17

\* An entry that is not earlier than the others is the last.
LEMMA LoggedLast ==
  ASSUME NEW log \in Seq(Entry), NEW e \in Entry, \A k \in DOMAIN log : log[k].at <= e.at,
         e.what # "archived"
  PROVE  Tells(Logged(log, e.what, e.at), IF e.what = "created" THEN "open" ELSE e.what)
<1>. DEFINE new == Logged(log, e.what, e.at)
<1>1. Len(log) \in Nat /\ DOMAIN log = 1 .. Len(log)
  OBVIOUS
<1>2. new \in Seq(Entry) /\ Len(new) = Len(log) + 1
  BY LoggedSplits
<1>5. PICK n \in 0 .. Len(log) :
        /\ new[n + 1] = e
        /\ (\A k \in 1 .. Len(log) : log[k].at <= e.at) => n = Len(log)
  BY LoggedSplits
<1>. HIDE DEF new
<1>6. n = Len(log)
  BY <1>1, <1>5
<1>3. new[Len(log) + 1] = e /\ DOMAIN new = 1 .. Len(log) + 1
  BY <1>1, <1>2, <1>5, <1>6
<1>4. Tells(new, IF e.what = "created" THEN "open" ELSE e.what)
  BY <1>1, <1>3 DEF Tells
<1>. QED BY <1>4 DEF new

\* An archival in the log does not change what it tells.
LEMMA LoggedArchived ==
  ASSUME NEW log \in Seq(Entry), NEW at \in Nat, NEW st, Tells(log, st)
  PROVE  Tells(Logged(log, "archived", at), st)
<1>. DEFINE e == [what |-> "archived", at |-> at]
            new == Logged(log, "archived", at)
<1>1. Len(log) \in Nat /\ DOMAIN log = 1 .. Len(log)
  OBVIOUS
<1>2. e \in Entry /\ e.what = "archived" /\ e.at = at
  BY DEF Entry
<1>3. new \in Seq(Entry) /\ Len(new) = Len(log) + 1
  BY <1>2, LoggedSplits
<1>4. PICK n \in 0 .. Len(log) :
        /\ \A k \in 1 .. n : new[k] = log[k]
        /\ new[n + 1] = e
        /\ \A k \in n + 1 .. Len(log) : new[k + 1] = log[k]
  BY <1>2, LoggedSplits
<1>5. PICK k \in 1 .. Len(log) :
        /\ log[k].what # "archived"
        /\ \A j \in 1 .. Len(log) : j > k => log[j].what = "archived"
        /\ st = IF log[k].what = "created" THEN "open" ELSE log[k].what
  BY <1>1 DEF Tells
<1>. HIDE DEF new, e
<1>6. DOMAIN new = 1 .. Len(log) + 1
  BY <1>3
<1>. DEFINE m == IF k <= n THEN k ELSE k + 1
<1>7. m \in 1 .. Len(log) + 1 /\ new[m] = log[k]
  BY <1>1, <1>4
<1>8. ASSUME NEW j \in 1 .. Len(log) + 1, j > m PROVE new[j].what = "archived"
  <2>1. CASE j <= n
    <3>1. j \in 1 .. n /\ j \in 1 .. Len(log) /\ j > k
      BY <1>1, <1>8, <2>1
    <3>. QED BY <1>4, <1>5, <3>1
  <2>2. CASE j = n + 1
    BY <1>2, <1>4, <2>2
  <2>3. CASE j > n + 1
    <3>1. j - 1 \in n + 1 .. Len(log) /\ j - 1 \in 1 .. Len(log) /\ j - 1 > k /\ j - 1 + 1 = j
      BY <1>1, <1>8, <2>3
    <3>2. new[j - 1 + 1] = log[j - 1]
      BY <1>4, <3>1
    <3>. QED BY <1>5, <3>1, <3>2
  <2>. QED BY <1>1, <2>1, <2>2, <2>3
<1>9. Tells(new, st)
  <2>. HIDE DEF m
  <2>. QED BY <1>5, <1>6, <1>7, <1>8 DEF Tells
<1>. QED BY <1>9 DEF new

\* What the log tells is what AuditTrail reads off its last entry.
LEMMA TellsLast ==
  ASSUME NEW log \in Seq(Entry), NEW st, Tells(log, st)
  PROVE  LET set == {k \in DOMAIN log : log[k].what # "archived"}
             last == log[CHOOSE k \in set : \A j \in set : j <= k].what
         IN  st = IF last = "created" THEN "open" ELSE last
<1>. DEFINE set == {k \in DOMAIN log : log[k].what # "archived"}
            c == CHOOSE k \in set : \A j \in set : j <= k
<1>1. Len(log) \in Nat /\ DOMAIN log = 1 .. Len(log)
  OBVIOUS
<1>2. PICK k \in DOMAIN log :
        /\ log[k].what # "archived"
        /\ \A j \in DOMAIN log : j > k => log[j].what = "archived"
        /\ st = IF log[k].what = "created" THEN "open" ELSE log[k].what
  BY DEF Tells
<1>3. k \in set /\ \A j \in set : j <= k
  BY <1>1, <1>2
<1>4. c \in set /\ \A j \in set : j <= c
  BY <1>3
<1>5. c = k
  <2>1. set \subseteq Nat
    BY <1>1
  <2>. HIDE DEF set, c
  <2>. QED BY <1>3, <1>4, <2>1
<1>. QED BY <1>2, <1>5

-----------------------------------------------------------------------------
(* Types.                                                                  *)

\* None is not a value of any other kind (the assumption on the constants, unfolded).
LEMMA NoneOutside == None \notin Nat /\ None \notin Ids /\ None \notin Submissions /\ None \notin Links
                     /\ None \notin Workers /\ Ids \subseteq Nat \ {0} /\ 1 \in Ids
                     /\ Updates \subseteq Status
BY DjangoStorageAssumption DEF Status

\* A row that is there is a report.
LEMMA RowTyped ==
  ASSUME TypeOK, NEW i \in Ids PROVE Exists(i) <=> rows[i] \in Row
BY NoneOutside DEF TypeOK, Exists, NoRow, Row

\* What a SELECT finds are times, and the next id is one of the model's.
LEMMA FoundTyped == ASSUME TypeOK PROVE Found \in Result /\ NoResult \in Result
<1>1. ASSUME NEW i \in Ids PROVE (IF Exists(i) THEN rows[i].at ELSE None) \in Nat \cup {None}
  BY RowTyped DEF Row
<1>. QED BY <1>1 DEF Found, Result, NoResult

\* Within the bound, the id a save takes is one of the ids.
LEMMA NextTyped == ASSUME NEW q, Room(q) PROVE NextIntAfter(q) \in Ids
<1>1. CASE First(q) = {}
  BY <1>1, NoneOutside DEF NextIntAfter
<1>2. CASE First(q) # {}
  <2>1. (CHOOSE i \in First(q) : TRUE) \in First(q)
    BY <1>2
  <2>. QED BY <1>2, <2>1 DEF NextIntAfter, Room
<1>. QED BY <1>1, <1>2

\* An idle worker's record has the type of a worker's record.
LEMMA IdleTyped == Idle \in Op /\ Idle.at = "idle" /\ Idle.stamp = 0
BY DEF Idle, Op, Result, NoResult

\* A worker whose transaction is over.
Over(o) == o \in Op /\ o.at \in {"idle", "refetch"} /\ o.stamp = 0

\* It is idle, or about to read a row again for its answer.
LEMMA OverTyped == Over(Idle) /\ \A i \in Ids : Over(Refetching(i))
BY IdleTyped DEF Over, Refetching, Op

\* The types of what one step changes.
LEMMA BecomeTyped ==
  ASSUME TypeOK, NEW w \in Workers, NEW o \in Op, Become(w, o)
  PROVE  op' \in [Workers -> Op] /\ op'[w] = o /\ \A v \in Workers \ {w} : op'[v] = op[v]
BY DEF TypeOK, Become

\* Locking and unlocking keep the locks' type.
LEMMA LockTyped ==
  ASSUME TypeOK, NEW w \in Workers, NEW S, Lock(w, S) \/ Unlock(w)
  PROVE  lock' \in [Ids -> Workers \cup {None}]
BY DEF TypeOK, Lock, Unlock

\* Step by step.  The history is left aside where a step leaves it alone.
LEMMA Typed ==
  ASSUME TypeOK, op' \in [Workers -> Op], lock' \in [Ids -> Workers \cup {None}],
         rows' \in [Ids -> Row \cup {NoRow}], disk' \in [Names -> Submissions \cup {None}],
         clock' \in Nat, pending' \subseteq Submissions, UNCHANGED history
  PROVE  TypeOK'
BY DEF TypeOK, history

\* A call reads the time, which passes, and carries it.
LEMMA CallTyped ==
  ASSUME TypeOK, NEW w \in Workers, NEW o \in Op, Call(w, o)
  PROVE  /\ clock' \in Nat /\ clock' = clock + 1 /\ op' \in [Workers -> Op]
         /\ op'[w] = [o EXCEPT !.stamp = clock + 1] /\ \A v \in Workers \ {w} : op'[v] = op[v]
<1>1. [o EXCEPT !.stamp = clock + 1] \in Op
  BY DEF TypeOK, Op
<1>2. Become(w, [o EXCEPT !.stamp = clock + 1])
  BY DEF Call
<1>. QED BY <1>1, <1>2, BecomeTyped DEF TypeOK, Call

-----------------------------------------------------------------------------
(* Steps of one worker that leave the files, the submissions and what rows   *)
(* are there alone.                                                         *)

\* What worker w may carry next.
Carries(w, o) ==
  /\ o.at \in SaveLabels => Saving(w) /\ o.tag = op[w].tag /\ o.stamp = op[w].stamp
  /\ o.at \in BeforeFile => op[w].at \in BeforeFile
  /\ o.at \in {"saveFile"} \cup WithFile =>
       o.id \in Ids /\ (~overlapped => \A i \in Ids : Exists(i) => i < o.id)
  /\ o.at \in WithFile => op[w].at \in WithFile \cup {"saveFile"} /\ o.name \in Names
       /\ disk[o.name] = o.tag
  /\ o.at \in {"updateCall", "update", "link", "delete"} => o.id \in Ids
  /\ o.at \in {"updateCall", "update"} => o.val \in Status
  /\ o.at = "link" => o.val \in Links
  /\ o.at # "unlink"
  /\ o.at = "saveWait" /\ ~overlapped => o.found = Found
  /\ o.at \in {"closeCall", "bulkClose"} /\ ~raced =>
       \A i \in Ids : Exists(i) /\ rows[i].status = "fixed" =>
         \A k \in DOMAIN rows[i].log : rows[i].log[k].at <= o.stamp

\* The rows whose locks l it must have then.
Owns(w, o, l) ==
  /\ o.at = "saveCommit" => l[o.id] = w
  /\ o.at \in {"update", "link", "delete"} => l[o.id] = w /\ Exists(o.id)
  /\ o.at = "bulkClose" => \A i \in o.todo : l[i] = w /\ Exists(i) /\ rows[i].status = "fixed"
  /\ o.at = "bulkArchive" => \A i \in o.todo :
       l[i] = w /\ Exists(i) /\ rows[i].status = "closed" /\ ~rows[i].archived

\* The same rows are there, with the payload, the time and the file they had.
SameRow(r, q) == (r # NoRow <=> q # NoRow)
                 /\ (q # NoRow => r.tag = q.tag /\ r.at = q.at /\ r.shot = q.shot)

Moves(w, o) ==
  /\ op' = [op EXCEPT ![w] = o]
  /\ disk' = disk /\ pending' = pending /\ overlapped' = overlapped
  /\ clock' \in Nat /\ clock' >= clock /\ o.stamp <= clock'
  /\ \A i \in Ids : SameRow(rows'[i], rows[i])
  /\ \A v \in Workers \ {w}, i \in Ids : lock[i] = v => lock'[i] = v /\ rows'[i] = rows[i]
  /\ Carries(w, o)
  /\ Owns(w, o, lock') /\ (rows' = rows \/ Over(o))

\* A step that changes only what one worker is doing keeps every part of the
\* invariant that is about workers.
LEMMA MovesStep ==
  ASSUME Inv, TypeOK', NEW w \in Workers, NEW o \in Op, Moves(w, o)
  PROVE  OpInv' /\ LockInv' /\ TagInv' /\ FileInv' /\ ScreenshotIsOwn' /\ TurnInv'
<1>1. op'[w] = o /\ \A v \in Workers \ {w} : op'[v] = op[v]
  BY DEF Inv, TypeOK, Moves
<1>2. /\ disk' = disk /\ pending' = pending /\ overlapped' = overlapped
      /\ clock \in Nat /\ clock' \in Nat /\ clock' >= clock /\ o.stamp <= clock'
  BY DEF Inv, TypeOK, Moves
<1>3. \A i \in Ids : /\ rows'[i] # NoRow <=> rows[i] # NoRow
                     /\ rows[i] # NoRow => /\ rows'[i].tag = rows[i].tag
                                           /\ rows'[i].at = rows[i].at
                                           /\ rows'[i].shot = rows[i].shot
  BY DEF Moves, SameRow
<1>4. \A v \in Workers \ {w}, i \in Ids : lock[i] = v => lock'[i] = v /\ rows'[i] = rows[i]
  BY DEF Moves
<1>5. Carries(w, o) /\ Owns(w, o, lock') /\ (rows' = rows \/ Over(o))
  BY DEF Moves
<1>6. \A v \in Workers : op'[v].at \in SaveLabels =>
        /\ op[v].at \in SaveLabels /\ op'[v].tag = op[v].tag /\ op'[v].stamp = op[v].stamp
        /\ op'[v].at \in BeforeFile => op[v].at \in BeforeFile
  BY <1>1, <1>5 DEF Carries, Saving
<1>7. \A v \in Workers : op'[v].at = "unlink" => v # w /\ op'[v] = op[v]
  BY <1>1, <1>5 DEF Carries
<1>8. OpInv'
  <2>1. ASSUME NEW v \in Workers
        PROVE  /\ op'[v].at \in SaveLabels => op'[v].tag \in Submissions \ pending
               /\ op'[v].at \in {"saveFile"} \cup WithFile => op'[v].id \in Ids
               /\ op'[v].at \in WithFile => op'[v].name \in Names /\ disk[op'[v].name] = op'[v].tag
               /\ op'[v].at \in {"updateCall", "update", "link", "delete"} => op'[v].id \in Ids
               /\ op'[v].at \in {"updateCall", "update"} => op'[v].val \in Status
               /\ op'[v].at = "link" => op'[v].val \in Links
               /\ op'[v].at = "unlink" => op'[v].name \in Names
               /\ op'[v].stamp <= clock'
    <3>1. CASE v = w
      BY <1>1, <1>2, <1>5, <3>1 DEF Carries, Inv, OpInv, Fits, Saving
    <3>2. CASE v # w
      <4>1. op[v].stamp \in Nat
        BY DEF Inv, TypeOK, Op
      <4>. QED BY <1>1, <1>2, <3>2, <4>1 DEF Inv, OpInv, Fits, Saving
    <3>. QED BY <3>1, <3>2
  <2>. QED BY <1>2, <2>1 DEF OpInv, Fits, Saving
<1>9. LockInv'
  <2>1. ASSUME NEW v \in Workers
        PROVE  /\ op'[v].at = "saveCommit" => lock'[op'[v].id] = v
               /\ op'[v].at \in {"update", "link", "delete"} => Holds(lock', rows', v, op'[v].id, Status)
               /\ op'[v].at = "bulkClose" => \A i \in op'[v].todo : Holds(lock', rows', v, i, {"fixed"})
               /\ op'[v].at = "bulkArchive" => \A i \in op'[v].todo :
                    Holds(lock', rows', v, i, {"closed"}) /\ ~rows'[i].archived
    <3>0. \A u \in Workers : op[u].todo \in SUBSET Ids
      BY DEF Inv, TypeOK, Op
    <3>1. CASE v = w /\ rows' = rows
      <4>1. \A i \in Ids : Exists(i) => rows[i].status \in Status
        BY RowTyped DEF Inv, Row
      <4>2. o.at \in {"update", "link", "delete"} => o.id \in Ids
        BY <1>5 DEF Carries
      <4>. QED BY <1>1, <1>5, <3>1, <4>1, <4>2 DEF Owns, Holds, Exists
    <3>2. CASE v = w /\ Over(o)
      BY <1>1, <3>2 DEF Over
    <3>3. CASE v # w
      <4>1. op'[v] = op[v]
        BY <1>1, <3>3
      <4>2. /\ op[v].at = "saveCommit" => op[v].id \in Ids /\ lock[op[v].id] = v
            /\ op[v].at \in {"update", "link", "delete"} => op[v].id \in Ids
        BY DEF Inv, OpInv, Fits, LockInv, Ready, WithFile
      <4>3. \A i \in Ids : \A st : Holds(lock, rows, v, i, st) =>
               lock'[i] = v /\ rows'[i] = rows[i] /\ Holds(lock', rows', v, i, st)
        BY <1>4, <3>3 DEF Holds
      <4>4. /\ op[v].at \in {"update", "link", "delete"} => Holds(lock, rows, v, op[v].id, Status)
            /\ op[v].at = "bulkClose" => \A i \in op[v].todo : Holds(lock, rows, v, i, {"fixed"})
            /\ op[v].at = "bulkArchive" => \A i \in op[v].todo :
                 Holds(lock, rows, v, i, {"closed"}) /\ ~rows[i].archived
        BY DEF Inv, LockInv, Ready
      <4>5. op[v].at = "saveCommit" => lock'[op[v].id] = v
        BY <1>4, <3>3, <4>2
      <4>6. op[v].at \in {"update", "link", "delete"} => Holds(lock', rows', v, op[v].id, Status)
        BY <4>2, <4>3, <4>4
      <4>7. \A i \in op[v].todo : i \in Ids
        BY <3>0
      <4>. QED BY <4>1, <4>3, <4>4, <4>5, <4>6, <4>7
    <3>. QED BY <1>5, <3>1, <3>2, <3>3
  <2>. QED BY <2>1 DEF LockInv, Ready
<1>10. TagInv'
  <2>1. \A i \in Ids : rows[i] # NoRow =>
          /\ rows[i].tag \notin pending
          /\ \A v \in Workers : op[v].at \in SaveLabels => rows[i].tag # op[v].tag
          /\ \A j \in Ids : rows[j] # NoRow /\ rows[i].tag = rows[j].tag => i = j
    BY DEF Inv, TagInv, Exists, Saving
  <2>2. \A u, v \in Workers : op[u].at \in SaveLabels /\ op[v].at \in SaveLabels
          /\ op[u].tag = op[v].tag => u = v
    BY DEF Inv, TagInv, Saving
  <2>3. \A i \in Ids : rows'[i] # NoRow =>
          /\ rows'[i].tag \notin pending'
          /\ \A v \in Workers : op'[v].at \in SaveLabels => rows'[i].tag # op'[v].tag
          /\ \A j \in Ids : rows'[j] # NoRow /\ rows'[i].tag = rows'[j].tag => i = j
    BY <1>2, <1>3, <1>6, <2>1
  <2>4. \A u, v \in Workers : op'[u].at \in SaveLabels /\ op'[v].at \in SaveLabels
          /\ op'[u].tag = op'[v].tag => u = v
    BY <1>6, <2>2
  <2>. QED BY <2>3, <2>4 DEF TagInv, Exists, Saving
<1>11. FileInv'
  <2>2. \A s \in pending' : NoFileOf(disk', s)
    BY <1>2 DEF Inv, FileInv
  <2>3. ASSUME NEW v \in Workers, op'[v].at \in BeforeFile PROVE NoFileOf(disk, op[v].tag) /\ op'[v].tag = op[v].tag
    BY <1>6, <2>3 DEF Inv, FileInv, BeforeFile, SaveLabels
  <2>4. ASSUME NEW v \in Workers, op'[v].at \in BeforeFile PROVE NoFileOf(disk', op'[v].tag)
    BY <1>2, <2>3, <2>4
  <2>5. ASSUME NEW v \in Workers, op'[v].at = "unlink" PROVE Unwanted(v)'
    <3>1. op'[v] = op[v] /\ Unwanted(v)
      BY <1>7, <2>5 DEF Inv, FileInv
    <3>2. PICK t : t = disk[op[v].name]
      OBVIOUS
    <3>3. /\ t # None /\ t \notin pending /\ \A i \in Ids : rows[i] # NoRow => rows[i].tag # t
          /\ \A u \in Workers : op[u].at \in SaveLabels => op[u].tag # t
          /\ \A u \in Workers : op[u].at = "unlink" /\ op[u].name = op[v].name => u = v
      BY <3>1, <3>2 DEF Unwanted, Exists, Saving
    <3>4. /\ \A i \in Ids : rows'[i] # NoRow => rows'[i].tag # t
          /\ \A u \in Workers : op'[u].at \in SaveLabels => op'[u].tag # t
          /\ \A u \in Workers : op'[u].at = "unlink" /\ op'[u].name = op'[v].name => u = v
      BY <1>3, <1>6, <1>7, <3>1, <3>3
    <3>. QED BY <1>2, <3>1, <3>2, <3>3, <3>4 DEF Unwanted, Exists, Saving
  <2>. QED BY <2>2, <2>4, <2>5 DEF FileInv
<1>12. ScreenshotIsOwn'
  BY <1>2, <1>3 DEF Inv, ScreenshotIsOwn, Exists
<1>13. TurnInv'
  <2>. SUFFICES ASSUME ~overlapped PROVE
         /\ \A u, v \in Workers : op'[u].at \in SaveLabels /\ op'[v].at \in SaveLabels => u = v
         /\ \A i, j \in Ids : rows'[i] # NoRow /\ rows'[j] # NoRow /\ i < j => rows'[i].at < rows'[j].at
         /\ \A v \in Workers, i \in Ids : op'[v].at \in SaveLabels /\ rows'[i] # NoRow =>
              /\ rows'[i].at < op'[v].stamp
              /\ op'[v].at \in {"saveFile"} \cup WithFile => i < op'[v].id
         /\ \A v \in Workers : op'[v].at = "saveWait" => op'[v].found = Found'
    BY <1>2 DEF TurnInv, Exists, Saving
  <2>1. /\ \A u, v \in Workers : op[u].at \in SaveLabels /\ op[v].at \in SaveLabels => u = v
        /\ \A i, j \in Ids : rows[i] # NoRow /\ rows[j] # NoRow /\ i < j => rows[i].at < rows[j].at
        /\ \A v \in Workers, i \in Ids : op[v].at \in SaveLabels /\ rows[i] # NoRow =>
             /\ rows[i].at < op[v].stamp
             /\ op[v].at \in {"saveFile"} \cup WithFile => i < op[v].id
        /\ \A v \in Workers : op[v].at = "saveWait" => op[v].found = Found
    BY DEF Inv, TurnInv, Exists, Saving
  <2>2. \A u, v \in Workers : op'[u].at \in SaveLabels /\ op'[v].at \in SaveLabels => u = v
    BY <1>6, <2>1
  <2>3. \A i, j \in Ids : rows'[i] # NoRow /\ rows'[j] # NoRow /\ i < j => rows'[i].at < rows'[j].at
    BY <1>3, <2>1
  <2>4. ASSUME NEW v \in Workers, NEW i \in Ids, op'[v].at \in SaveLabels, rows'[i] # NoRow
        PROVE  /\ rows'[i].at < op'[v].stamp
               /\ op'[v].at \in {"saveFile"} \cup WithFile => i < op'[v].id
    <3>1. rows[i] # NoRow /\ rows'[i].at = rows[i].at
      BY <1>3, <2>4
    <3>2. op[v].at \in SaveLabels /\ op'[v].stamp = op[v].stamp
      BY <1>6, <2>4
    <3>3. rows'[i].at < op'[v].stamp
      BY <2>1, <3>1, <3>2
    <3>4. CASE v = w
      BY <1>1, <1>5, <3>1, <3>3, <3>4 DEF Carries, Exists
    <3>5. CASE v # w
      <4>1. op'[v] = op[v]
        BY <1>1, <3>5
      <4>. QED BY <2>1, <2>4, <3>1, <3>3, <4>1
    <3>. QED BY <3>4, <3>5
  <2>5. ASSUME NEW v \in Workers, op'[v].at = "saveWait" PROVE op'[v].found = Found'
    <3>1. Found' = Found
      <4>1. \A i \in Ids : (IF rows'[i] # NoRow THEN rows'[i].at ELSE None)
                           = (IF rows[i] # NoRow THEN rows[i].at ELSE None)
        BY <1>3
      <4>. QED BY <4>1 DEF Found, Exists
    <3>2. CASE v = w
      BY <1>1, <1>5, <2>5, <3>1, <3>2 DEF Carries
    <3>3. CASE v # w
      BY <1>1, <2>1, <2>5, <3>1, <3>3
    <3>. QED BY <3>2, <3>3
  <2>6. \A v \in Workers, i \in Ids : op'[v].at \in SaveLabels /\ rows'[i] # NoRow =>
          /\ rows'[i].at < op'[v].stamp
          /\ op'[v].at \in {"saveFile"} \cup WithFile => i < op'[v].id
    BY <2>4
  <2>. QED BY <2>2, <2>3, <2>5, <2>6
<1>. QED BY <1>8, <1>9, <1>10, <1>11, <1>12, <1>13

\* Without a change to the rows the logs stay as they are.
LEMMA QuietStep ==
  ASSUME Inv, NEW w \in Workers, NEW o \in Op, Moves(w, o),
         lock' \in [Ids -> Workers \cup {None}], UNCHANGED <<rows, history>>
  PROVE  Inv'
<1>1. op'[w] = o /\ (\A v \in Workers \ {w} : op'[v] = op[v]) /\ op' \in [Workers -> Op]
  BY DEF Inv, TypeOK, Moves
<1>2. /\ rows' = rows /\ disk' = disk /\ pending' = pending /\ raced' = raced
      /\ overlapped' = overlapped /\ ackedUpdates' = ackedUpdates /\ acked' = acked
      /\ clock \in Nat /\ clock' \in Nat /\ clock' >= clock
  BY DEF Inv, TypeOK, Moves, history
<1>3. TypeOK'
  BY <1>1, <1>2, Typed DEF Inv, TypeOK, history
<1>4. LogInv'
  <2>1. ASSUME NEW i \in Ids, Exists(i)
        PROVE  rows[i].at <= clock' /\ \A k \in DOMAIN rows[i].log : rows[i].log[k].at <= clock'
    <3>1. rows[i].log \in Seq(Entry) /\ rows[i].at \in Nat
      BY <2>1, RowTyped DEF Inv, Row
    <3>2. \A k \in DOMAIN rows[i].log : rows[i].log[k] \in Entry
      BY <3>1
    <3>. QED BY <1>2, <2>1, <3>1, <3>2 DEF Inv, LogInv, Entry
  <2>. QED BY <1>2, <2>1 DEF Inv, LogInv, Exists
<1>5. AuditInv'
  <2>1. ASSUME ~raced, NEW v \in Workers, op'[v].at \in {"closeCall", "bulkClose"},
               NEW i \in Ids, Exists(i), rows[i].status = "fixed",
               NEW k \in DOMAIN rows[i].log
        PROVE  rows[i].log[k].at <= op'[v].stamp
    <3>1. CASE v = w
      BY <1>1, <2>1, <3>1 DEF Moves, Carries
    <3>2. CASE v # w
      BY <1>1, <2>1, <3>2 DEF Inv, AuditInv
    <3>. QED BY <3>1, <3>2
  <2>. QED BY <1>2, <2>1 DEF Inv, AuditInv, Exists
<1>. QED BY <1>3, <1>4, <1>5, MovesStep DEF Inv

\* A nonempty set of natural numbers has a least element.
LEMMA Least ==
  ASSUME NEW S, S \subseteq Nat, S # {}
  PROVE  \E x \in S : \A y \in S : x <= y
<1>1. PICK x \in S : \A y \in S : ~(<<y, x>> \in OpToRel(<, Nat))
  BY WFMin, NatLessThanWellFounded, Zenon
<1>2. \A y \in S : ~(y < x)
  BY <1>1 DEF OpToRel
<1>. QED BY <1>2

\* In turn, the row with the latest time has the greatest id.
LEMMA NextIsFresh ==
  ASSUME Inv, ~overlapped, NEW j \in Ids, Exists(j) PROVE j < NextIntAfter(Found)
<1>1. \A i \in Ids : Exists(i) => rows[i].at \in Nat /\ rows[i].at <= clock
  BY RowTyped DEF Inv, LogInv, Row
<1>2. clock \in Nat /\ Ids \subseteq Nat
  BY NoneOutside DEF Inv, TypeOK
<1>3. \A i \in Ids : Found[i] # None <=> Exists(i)
  BY <1>1, NoneOutside DEF Found, Exists
<1>4. PICK last \in Ids : Exists(last) /\ \A i \in Ids : Exists(i) => rows[i].at <= rows[last].at
  <2>. DEFINE ages == {clock - rows[i].at : i \in {k \in Ids : Exists(k)}}
  <2>1. ages \subseteq Nat /\ ages # {}
    BY <1>1, <1>2
  <2>. HIDE DEF ages
  <2>2. PICK x \in ages : \A y \in ages : x <= y
    BY <2>1, Least
  <2>3. PICK last \in Ids : Exists(last) /\ x = clock - rows[last].at
    BY <2>2 DEF ages
  <2>4. ASSUME NEW i \in Ids, Exists(i) PROVE rows[i].at <= rows[last].at
    <3>1. clock - rows[i].at \in ages
      BY <2>4 DEF ages
    <3>2. clock - rows[last].at <= clock - rows[i].at
      BY <2>2, <2>3, <3>1
    <3>. QED BY <1>1, <1>2, <2>3, <2>4, <3>2
  <2>. QED BY <2>3, <2>4
<1>5. \A i \in Ids : Exists(i) => Found[i] = rows[i].at
  BY DEF Found
<1>6. last \in First(Found)
  BY <1>3, <1>4, <1>5 DEF First
<1>. DEFINE f == CHOOSE i \in First(Found) : TRUE
<1>7. f \in First(Found) /\ NextIntAfter(Found) = f + 1
  BY <1>6 DEF NextIntAfter
<1>. HIDE DEF f
<1>8. f \in Ids /\ Exists(f) /\ rows[j].at <= rows[f].at
  BY <1>3, <1>5, <1>7 DEF First
<1>9. ~(f < j)
  <2>1. f < j => rows[f].at < rows[j].at
    BY <1>8 DEF Inv, TurnInv
  <2>. QED BY <1>1, <1>8, <2>1
<1>. QED BY <1>2, <1>7, <1>8, <1>9

\* Taking free locks, and giving one's own back, leaves the others theirs.
LEMMA LockKeeps ==
  ASSUME TypeOK, NEW w \in Workers, NEW S, Free(S), Lock(w, S)
  PROVE  /\ \A v \in Workers \ {w}, i \in Ids : lock[i] = v => lock'[i] = v
         /\ \A i \in Ids : i \in S => lock'[i] = w
         /\ lock' \in [Ids -> Workers \cup {None}]
BY NoneOutside DEF TypeOK, Free, Lock

\* The end of one transaction leaves the locks of the others.
LEMMA UnlockKeeps ==
  ASSUME TypeOK, NEW w \in Workers, Unlock(w)
  PROVE  /\ \A v \in Workers \ {w}, i \in Ids : lock[i] = v => lock'[i] = v
         /\ lock' \in [Ids -> Workers \cup {None}]
BY DEF TypeOK, Unlock

\* A worker's next state in a step that touches no row.
LEMMA QuietMoves ==
  ASSUME Inv, NEW w \in Workers, NEW o \in Op, op' = [op EXCEPT ![w] = o],
         UNCHANGED <<rows, disk, pending, history>>,
         clock' \in Nat, clock' >= clock, o.stamp <= clock',
         lock' \in [Ids -> Workers \cup {None}],
         \A v \in Workers \ {w}, i \in Ids : lock[i] = v => lock'[i] = v,
         Carries(w, o), Owns(w, o, lock')
  PROVE  Inv'
<1>1. \A i \in Ids : SameRow(rows'[i], rows[i])
  BY DEF SameRow
<1>2. Moves(w, o)
  BY <1>1 DEF Moves, history
<1>. QED BY <1>2, QuietStep

\* Nothing is asked of a worker whose transaction is over.
LEMMA OverCarries ==
  ASSUME NEW w \in Workers, NEW o, Over(o) PROVE Carries(w, o) /\ Owns(w, o, lock')
BY DEF Over, Carries, Owns, SaveLabels, BeforeFile, WithFile

\* A call that reads the time and begins.
LEMMA CallStep ==
  ASSUME Inv, NEW w \in Workers, NEW o \in Op, Call(w, o),
         UNCHANGED <<rows, disk, lock, pending, history>>,
         o.at \in {"updateCall", "closeCall", "archiveCall"},
         o.at = "updateCall" => o.id \in Ids /\ o.val \in Status
  PROVE  Inv'
<1>. DEFINE p == [o EXCEPT !.stamp = clock + 1]
<1>1. p \in Op /\ p.at = o.at /\ p.id = o.id /\ p.val = o.val /\ p.stamp = clock + 1
  BY DEF Op, Inv, TypeOK
<1>2. op' = [op EXCEPT ![w] = p] /\ clock' = clock + 1 /\ clock \in Nat
  BY DEF Call, Become, Inv, TypeOK
<1>. HIDE DEF p
<1>3. \A i \in Ids : Exists(i) =>
        \A k \in DOMAIN rows[i].log : rows[i].log[k].at <= clock /\ rows[i].log[k].at \in Nat
  <2>1. ASSUME NEW i \in Ids, Exists(i), NEW k \in DOMAIN rows[i].log PROVE rows[i].log[k].at \in Nat
    <3>1. rows[i].log \in Seq(Entry)
      BY <2>1, RowTyped DEF Inv, Row
    <3>2. rows[i].log[k] \in Entry
      BY <2>1, <3>1
    <3>. QED BY <3>2 DEF Entry
  <2>. QED BY <2>1 DEF Inv, LogInv
<1>7. ASSUME NEW i \in Ids, Exists(i), NEW k \in DOMAIN rows[i].log
      PROVE  rows[i].log[k].at <= p.stamp
  BY <1>1, <1>2, <1>3, <1>7
<1>4. Carries(w, p)
  <2>1. p.at \in {"updateCall", "closeCall", "archiveCall"}
    BY <1>1
  <2>2. p.at = "updateCall" => p.id \in Ids /\ p.val \in Status
    BY <1>1
  <2>3. \A i \in Ids : Exists(i) => \A k \in DOMAIN rows[i].log : rows[i].log[k].at <= p.stamp
    BY <1>7
  <2>4. /\ p.at \notin SaveLabels /\ p.at \notin BeforeFile /\ p.at \notin WithFile
        /\ p.at \notin {"saveFile"} \cup WithFile /\ p.at # "unlink" /\ p.at # "link"
        /\ p.at # "saveWait"
    BY <2>1 DEF SaveLabels, BeforeFile, WithFile
  <2>5. p.at \in {"updateCall", "update", "link", "delete"} => p.at = "updateCall"
    BY <2>1
  <2>. QED BY <2>2, <2>3, <2>4, <2>5 DEF Carries
<1>5. Owns(w, p, lock')
  BY <1>1 DEF Owns
<1>6. lock' \in [Ids -> Workers \cup {None}] /\ \A v \in Workers \ {w}, i \in Ids : lock[i] = v => lock'[i] = v
  BY DEF Inv, TypeOK
<1>8. clock' \in Nat /\ clock' >= clock /\ p.stamp <= clock'
  BY <1>1, <1>2
<1>9. UNCHANGED <<rows, disk, pending, history>>
  OBVIOUS
<1>. QED BY <1>1, <1>2, <1>4, <1>5, <1>6, <1>8, <1>9, QuietMoves

\* An exclusive SELECT or a write of a row that takes locks, and goes on as o.
LEMMA LockStep ==
  ASSUME Inv, NEW w \in Workers, NEW o \in Op, NEW S, Become(w, o), Free(S), Lock(w, S),
         UNCHANGED <<rows, disk, clock, pending, history>>,
         o.stamp <= clock, Carries(w, o), Owns(w, o, lock')
  PROVE  Inv'
<1>1. clock' \in Nat /\ clock' >= clock /\ o.stamp <= clock'
  BY DEF Inv, TypeOK
<1>2. op' = [op EXCEPT ![w] = o]
  BY DEF Become
<1>3. /\ \A v \in Workers \ {w}, i \in Ids : lock[i] = v => lock'[i] = v
      /\ lock' \in [Ids -> Workers \cup {None}]
  BY LockKeeps DEF Inv
<1>. QED BY <1>1, <1>2, <1>3, QuietMoves

\* A worker goes on and takes no lock, or gives up.
LEMMA StayStep ==
  ASSUME Inv, NEW w \in Workers, NEW o \in Op, Become(w, o), UNCHANGED lock \/ Unlock(w),
         UNCHANGED <<rows, disk, clock, pending, history>>,
         o.stamp <= clock, Carries(w, o), Owns(w, o, lock')
  PROVE  Inv'
<1>1. clock' \in Nat /\ clock' >= clock /\ o.stamp <= clock'
  BY DEF Inv, TypeOK
<1>2. op' = [op EXCEPT ![w] = o]
  BY DEF Become
<1>3. /\ \A v \in Workers \ {w}, i \in Ids : lock[i] = v => lock'[i] = v
      /\ lock' \in [Ids -> Workers \cup {None}]
  <2>1. CASE UNCHANGED lock
    BY <2>1 DEF Inv, TypeOK
  <2>2. CASE Unlock(w)
    BY <2>2, UnlockKeeps DEF Inv
  <2>. QED BY <2>1, <2>2
<1>. QED BY <1>1, <1>2, <1>3, QuietMoves

\* A transaction that ends without a trace.
LEMMA AbortStep ==
  ASSUME Inv, NEW w \in Workers, Become(w, Idle), UNCHANGED lock \/ Unlock(w),
         UNCHANGED <<rows, disk, clock, pending, history>>
  PROVE  Inv'
<1>1. Idle.stamp <= clock
  BY IdleTyped DEF Inv, TypeOK
<1>. QED BY <1>1, IdleTyped, OverTyped, OverCarries, StayStep

-----------------------------------------------------------------------------
(* The steps that touch no row.                                             *)

\* The latest row is locked, and the id after it is taken.
LEMMA LockedStep ==
  ASSUME Inv, NEW w \in Workers, NEW q, op[w].at \in {"saveSelect", "saveWait"},
         ~overlapped => q = Found, Locked(w, q), Free(First(q)),
         UNCHANGED <<rows, disk, clock, pending, history>>
  PROVE  Inv'
<1>. DEFINE o == [op[w] EXCEPT !.at = "saveFile", !.id = NextIntAfter(q), !.found = NoResult]
<1>1. op[w] \in Op /\ NoResult \in Result /\ NextIntAfter(q) \in Ids
  BY FoundTyped, NextTyped DEF Inv, TypeOK, Locked
<1>2. /\ o \in Op /\ o.at = "saveFile" /\ o.id = NextIntAfter(q)
      /\ o.tag = op[w].tag /\ o.stamp = op[w].stamp
  BY <1>1 DEF Op, SaveLabels
<1>3. Become(w, o) /\ Lock(w, First(q))
  BY DEF Locked
<1>. HIDE DEF o
<1>4. ~overlapped => \A i \in Ids : Exists(i) => i < o.id
  BY <1>2, NextIsFresh
<1>5. Carries(w, o)
  BY <1>1, <1>2, <1>4 DEF Carries, Saving, SaveLabels, BeforeFile, WithFile
<1>6. Owns(w, o, lock') /\ o.stamp <= clock
  BY <1>2 DEF Owns, Inv, OpInv, Fits
<1>. QED BY <1>2, <1>3, <1>5, <1>6, LockStep

\* save_report looks for the latest row.
LEMMA SelectStep == ASSUME Inv, NEW w \in Workers, SaveSelect(w) PROVE Inv'
<1>1. op[w].at = "saveSelect" /\ UNCHANGED <<rows, disk, clock, pending, history>>
  BY DEF SaveSelect
<1>2. CASE Free(First(Found)) /\ Locked(w, Found)
  BY <1>1, <1>2, LockedStep
<1>3. CASE Become(w, [op[w] EXCEPT !.at = "saveWait", !.found = Found]) /\ UNCHANGED lock
  <2>. DEFINE o == [op[w] EXCEPT !.at = "saveWait", !.found = Found]
  <2>1. op[w] \in Op /\ Found \in Result
    BY FoundTyped DEF Inv, TypeOK
  <2>2. /\ o \in Op /\ o.at = "saveWait" /\ o.found = Found
        /\ o.tag = op[w].tag /\ o.stamp = op[w].stamp
    BY <2>1 DEF Op, SaveLabels
  <2>. HIDE DEF o
  <2>3. Carries(w, o)
    BY <1>1, <2>2 DEF Carries, Saving, SaveLabels, BeforeFile, WithFile
  <2>4. Owns(w, o, lock') /\ o.stamp <= clock
    BY <2>2 DEF Owns, Inv, OpInv, Fits
  <2>5. Become(w, o)
    BY <1>3 DEF o
  <2>. QED BY <1>1, <1>3, <2>2, <2>3, <2>4, <2>5, StayStep
<1>. QED BY <1>2, <1>3 DEF SaveSelect

\* The step of a save that waited for a row keeps the invariant.
LEMMA WaitedStep == ASSUME Inv, NEW w \in Workers, SaveSelectWaited(w) PROVE Inv'
<1>1. /\ op[w].at = "saveWait" /\ Free(First(op[w].found)) /\ Locked(w, op[w].found)
      /\ UNCHANGED <<rows, disk, clock, pending, history>>
  BY DEF SaveSelectWaited
<1>2. ~overlapped => op[w].found = Found
  BY <1>1 DEF Inv, TurnInv
<1>. QED BY <1>1, <1>2, LockedStep

\* A save whose file is written goes on to label at, with the same report.
LEMMA WriteCarries ==
  ASSUME Inv, NEW w \in Workers, op[w].at \in WithFile, NEW at \in WithFile
  PROVE  LET o == [op[w] EXCEPT !.at = at] IN
         /\ o \in Op /\ o.at = at /\ o.id = op[w].id /\ o.stamp <= clock /\ Carries(w, o)
<1>. DEFINE o == [op[w] EXCEPT !.at = at]
<1>1. op[w] \in Op /\ at \in SaveLabels /\ op[w].at \in SaveLabels
  BY DEF Inv, TypeOK, WithFile, SaveLabels
<1>2. /\ o \in Op /\ o.at = at /\ o.id = op[w].id /\ o.name = op[w].name
      /\ o.tag = op[w].tag /\ o.stamp = op[w].stamp
  BY <1>1 DEF Op
<1>. HIDE DEF o
<1>3. /\ op[w].id \in Ids /\ op[w].name \in Names /\ disk[op[w].name] = op[w].tag
      /\ op[w].stamp <= clock
  BY DEF Inv, OpInv, Fits
<1>4. ~overlapped => \A i \in Ids : Exists(i) => i < op[w].id
  BY <1>1 DEF Inv, TurnInv, Saving
<1>5. Carries(w, o)
  BY <1>1, <1>2, <1>3, <1>4 DEF Carries, Saving, BeforeFile, WithFile
<1>. QED BY <1>2, <1>3, <1>5 DEF o

\* The UPDATE that a save tries first, and the INSERT after it.
LEMMA UpdateRowStep == ASSUME Inv, NEW w \in Workers, SaveUpdate(w) PROVE Inv'
<1>1. op[w].at = "saveUpdate" /\ UNCHANGED <<rows, disk, clock, pending, history>>
  BY DEF SaveUpdate
<1>2. op[w].at \in WithFile /\ op[w].id \in Ids
  BY <1>1 DEF Inv, OpInv, Fits, WithFile
<1>3. CASE Free({op[w].id}) /\ Lock(w, {op[w].id}) /\ Become(w, [op[w] EXCEPT !.at = "saveCommit"])
  <2>. DEFINE o == [op[w] EXCEPT !.at = "saveCommit"]
  <2>1. o \in Op /\ o.at = "saveCommit" /\ o.id = op[w].id /\ o.stamp <= clock /\ Carries(w, o)
    BY <1>2, WriteCarries DEF WithFile
  <2>2. Become(w, o)
    BY <1>3
  <2>. HIDE DEF o
  <2>3. lock'[op[w].id] = w
    BY <1>2, <1>3, LockKeeps DEF Inv
  <2>4. Owns(w, o, lock')
    BY <2>1, <2>3 DEF Owns
  <2>. QED BY <1>1, <1>3, <2>1, <2>2, <2>4, LockStep
<1>4. CASE Become(w, [op[w] EXCEPT !.at = "saveInsert"]) /\ UNCHANGED lock
  <2>. DEFINE o == [op[w] EXCEPT !.at = "saveInsert"]
  <2>1. o \in Op /\ o.at = "saveInsert" /\ o.stamp <= clock /\ Carries(w, o)
    BY <1>2, WriteCarries DEF WithFile
  <2>2. Become(w, o)
    BY <1>4
  <2>. HIDE DEF o
  <2>3. Owns(w, o, lock')
    BY <2>1 DEF Owns
  <2>. QED BY <1>1, <1>4, <2>1, <2>2, <2>3, StayStep
<1>. QED BY <1>3, <1>4 DEF SaveUpdate

\* The INSERT of a new row, or its failure, keeps the invariant.
LEMMA InsertRowStep == ASSUME Inv, NEW w \in Workers, SaveInsert(w) PROVE Inv'
<1>1. op[w].at = "saveInsert" /\ UNCHANGED <<rows, disk, clock, pending, history>>
      /\ Free({op[w].id})
  BY DEF SaveInsert
<1>2. op[w].at \in WithFile /\ op[w].id \in Ids
  BY <1>1 DEF Inv, OpInv, Fits, WithFile
<1>3. CASE Become(w, [op[w] EXCEPT !.at = "saveCommit"]) /\ Lock(w, {op[w].id})
  <2>. DEFINE o == [op[w] EXCEPT !.at = "saveCommit"]
  <2>1. o \in Op /\ o.at = "saveCommit" /\ o.id = op[w].id /\ o.stamp <= clock /\ Carries(w, o)
    BY <1>2, WriteCarries DEF WithFile
  <2>2. Become(w, o)
    BY <1>3
  <2>. HIDE DEF o
  <2>3. lock'[op[w].id] = w
    BY <1>1, <1>2, <1>3, LockKeeps DEF Inv
  <2>4. Owns(w, o, lock')
    BY <2>1, <2>3 DEF Owns
  <2>. QED BY <1>1, <1>3, <2>1, <2>2, <2>4, LockStep
<1>4. CASE Become(w, Idle) /\ Unlock(w)
  BY <1>1, <1>4, AbortStep
<1>. QED BY <1>3, <1>4 DEF SaveInsert

\* A transaction with the row of one report selected for update.
LEMMA PickStep ==
  ASSUME Inv, NEW w \in Workers, NEW i \in Ids, NEW o \in Op, Exists(i), Free({i}), Lock(w, {i}),
         Become(w, o), UNCHANGED <<rows, disk, clock, pending, history>>,
         o.at \in {"update", "link", "delete"}, o.id = i, o.stamp <= clock,
         o.at = "update" => o.val \in Status, o.at = "link" => o.val \in Links
  PROVE  Inv'
<1>1. Carries(w, o)
  BY DEF Carries, SaveLabels, BeforeFile, WithFile
<1>2. lock'[i] = w
  BY LockKeeps DEF Inv
<1>3. Owns(w, o, lock')
  BY <1>2 DEF Owns
<1>. QED BY <1>1, <1>3, LockStep

\* Selecting the row of a status update keeps the invariant.
LEMMA UpdateBeginStep == ASSUME Inv, NEW w \in Workers, UpdateBegin(w) PROVE Inv'
<1>1. op[w].at = "updateCall" /\ UNCHANGED <<rows, disk, clock, pending, history>>
  BY DEF UpdateBegin
<1>2. op[w].id \in Ids /\ op[w].val \in Status /\ op[w].stamp <= clock /\ op[w] \in Op
  BY <1>1 DEF Inv, OpInv, Fits, TypeOK
<1>3. CASE /\ Exists(op[w].id) /\ Free({op[w].id}) /\ Lock(w, {op[w].id})
           /\ Become(w, [op[w] EXCEPT !.at = "update"])
  <2>. DEFINE o == [op[w] EXCEPT !.at = "update"]
  <2>1. o \in Op /\ o.at = "update" /\ o.id = op[w].id /\ o.val = op[w].val /\ o.stamp = op[w].stamp
    BY <1>2 DEF Op, TxLabels
  <2>2. Become(w, o)
    BY <1>3
  <2>. HIDE DEF o
  <2>. QED BY <1>1, <1>2, <1>3, <2>1, <2>2, PickStep
<1>4. CASE Become(w, Idle) /\ UNCHANGED lock
  BY <1>1, <1>4, AbortStep
<1>. QED BY <1>3, <1>4 DEF UpdateBegin

\* Selecting the row to link keeps the invariant.
LEMMA LinkBeginStep == ASSUME Inv, NEW w \in Workers, LinkBegin(w) PROVE Inv'
<1>1. PICK i \in Ids, l \in Links : PickRow(w, i, "link", l)
  BY DEF LinkBegin
<1>. DEFINE o == [Idle EXCEPT !.at = "link", !.id = i, !.val = l]
<1>2. o \in Op /\ o.at = "link" /\ o.id = i /\ o.val = l /\ o.stamp = 0
  BY IdleTyped DEF Op, TxLabels
<1>3. Exists(i) /\ Free({i}) /\ Lock(w, {i}) /\ Become(w, o)
  BY <1>1 DEF PickRow
<1>. HIDE DEF o
<1>4. UNCHANGED <<rows, disk, clock, pending, history>> /\ o.stamp <= clock
  BY <1>2 DEF LinkBegin, Inv, TypeOK
<1>. QED BY <1>2, <1>3, <1>4, PickStep

\* Selecting the row to delete keeps the invariant.
LEMMA DeleteBeginStep == ASSUME Inv, NEW w \in Workers, DeleteBegin(w) PROVE Inv'
<1>1. PICK i \in Ids : PickRow(w, i, "delete", None)
  BY DEF DeleteBegin
<1>. DEFINE o == [Idle EXCEPT !.at = "delete", !.id = i, !.val = None]
<1>2. o \in Op /\ o.at = "delete" /\ o.id = i /\ o.stamp = 0
  BY IdleTyped DEF Op, TxLabels
<1>3. Exists(i) /\ Free({i}) /\ Lock(w, {i}) /\ Become(w, o)
  BY <1>1 DEF PickRow
<1>. HIDE DEF o
<1>4. UNCHANGED <<rows, disk, clock, pending, history>> /\ o.stamp <= clock
  BY <1>2 DEF DeleteBegin, Inv, TypeOK
<1>. QED BY <1>2, <1>3, <1>4, PickStep

\* The calls that read the time first.
LEMMA UpdateCallStep == ASSUME Inv, NEW w \in Workers, UpdateCall(w) PROVE Inv'
<1>1. PICK i \in Ids, st \in Updates :
        Call(w, [Idle EXCEPT !.at = "updateCall", !.id = i, !.val = st])
  BY DEF UpdateCall
<1>. DEFINE o == [Idle EXCEPT !.at = "updateCall", !.id = i, !.val = st]
<1>2. o \in Op /\ o.at = "updateCall" /\ o.id = i /\ o.val = st /\ st \in Status
  BY IdleTyped, NoneOutside DEF Op, TxLabels
<1>3. Call(w, o) /\ UNCHANGED <<rows, disk, lock, pending, history>>
  BY <1>1 DEF UpdateCall
<1>. HIDE DEF o
<1>. QED BY <1>2, <1>3, CallStep

\* A bulk call that reads the time keeps the invariant.
LEMMA BulkCallStep == ASSUME Inv, NEW w \in Workers, BulkCall(w) PROVE Inv'
<1>1. PICK label \in {"closeCall", "archiveCall"} : Call(w, [Idle EXCEPT !.at = label])
  BY DEF BulkCall
<1>. DEFINE o == [Idle EXCEPT !.at = label]
<1>2. o \in Op /\ o.at = label
  BY IdleTyped DEF Op, TxLabels, BulkLabels
<1>3. Call(w, o) /\ UNCHANGED <<rows, disk, lock, pending, history>>
  BY <1>1 DEF BulkCall
<1>. HIDE DEF o
<1>. QED BY <1>2, <1>3, CallStep

\* A bulk call selects its rows.
LEMMA BulkBeginStep == ASSUME Inv, NEW w \in Workers, BulkBegin(w) PROVE Inv'
<1>0. UNCHANGED <<rows, disk, clock, pending, history>>
  BY DEF BulkBegin
<1>1. PICK S, label :
        /\ BulkSelect(w, S, label) /\ S \in SUBSET Ids
        /\ \/ op[w].at = "closeCall" /\ label = "bulkClose" /\ S = FixedRows
           \/ op[w].at = "archiveCall" /\ label = "bulkArchive" /\ S = ClosedRows
  BY DEF BulkBegin, FixedRows, ClosedRows
<1>2. Free(S) /\ Lock(w, S)
  BY <1>1 DEF BulkSelect
<1>3. CASE S = {}
  <2>1. Become(w, Idle) /\ Idle.stamp <= clock
    BY <1>1, <1>3, IdleTyped DEF BulkSelect, Inv, TypeOK
  <2>. QED BY <1>0, <1>2, <2>1, IdleTyped, OverTyped, OverCarries, LockStep
<1>4. CASE S # {}
  <2>. DEFINE o == [op[w] EXCEPT !.at = label, !.todo = S]
  <2>1. op[w] \in Op
    BY DEF Inv, TypeOK
  <2>2. o \in Op /\ o.at = label /\ o.todo = S /\ o.stamp = op[w].stamp /\ Become(w, o)
    BY <1>1, <1>4, <2>1 DEF Op, TxLabels, BulkLabels, BulkSelect
  <2>. HIDE DEF o
  <2>3. o.stamp <= clock
    BY <2>2 DEF Inv, OpInv, Fits
  <2>4. label = "bulkClose" /\ ~raced => \A i \in Ids : Exists(i) /\ rows[i].status = "fixed" =>
          \A k \in DOMAIN rows[i].log : rows[i].log[k].at <= o.stamp
    BY <1>1, <2>2 DEF Inv, AuditInv
  <2>5. Carries(w, o)
    BY <1>1, <2>2, <2>4 DEF Carries, SaveLabels, BeforeFile, WithFile
  <2>6. \A i \in S : lock'[i] = w
    BY <1>1, <1>2, LockKeeps DEF Inv
  <2>7. Owns(w, o, lock')
    BY <1>1, <2>2, <2>6 DEF Owns, FixedRows, ClosedRows
  <2>. QED BY <1>0, <1>2, <2>2, <2>3, <2>5, <2>7, LockStep
<1>. QED BY <1>3, <1>4

-----------------------------------------------------------------------------
(* The steps that commit a change of rows.                                  *)

\* A transaction that changed rows it had locked is over.
LEMMA CommitStep ==
  ASSUME Inv, NEW w \in Workers, NEW o, Over(o), Become(w, o), Unlock(w),
         disk' = disk, clock' = clock, pending' = pending, acked' = acked,
         overlapped' = overlapped, raced' \in BOOLEAN,
         ackedUpdates' \in [Ids -> Nat], rows' \in [Ids -> Row \cup {NoRow}],
         \A i \in Ids : SameRow(rows'[i], rows[i]),
         \A i \in Ids : rows'[i] # rows[i] => lock[i] = w,
         LogInv', AuditInv'
  PROVE  Inv'
<1>1. op' \in [Workers -> Op] /\ op' = [op EXCEPT ![w] = o]
  BY DEF Inv, TypeOK, Become, Over
<1>2. /\ lock' \in [Ids -> Workers \cup {None}]
      /\ \A v \in Workers \ {w}, i \in Ids : lock[i] = v => lock'[i] = v
  BY UnlockKeeps DEF Inv
<1>3. TypeOK'
  BY <1>1, <1>2 DEF Inv, TypeOK
<1>4. \A v \in Workers \ {w}, i \in Ids : lock[i] = v => lock'[i] = v /\ rows'[i] = rows[i]
  BY <1>2
<1>5. clock \in Nat /\ clock' \in Nat /\ clock' >= clock /\ o.stamp <= clock'
  BY DEF Inv, TypeOK, Over
<1>6. Moves(w, o)
  BY <1>1, <1>4, <1>5, OverCarries DEF Moves
<1>. QED BY <1>3, <1>6, MovesStep DEF Inv, Over

\* A longer log is still of the past.
LEMMA LoggedPast ==
  ASSUME NEW log \in Seq(Entry), NEW e \in Entry, NEW t \in Nat, e.at <= t,
         \A k \in DOMAIN log : log[k].at <= t
  PROVE  LET new == Logged(log, e.what, e.at) IN
         /\ new \in Seq(Entry) /\ Len(new) = Len(log) + 1 /\ Len(log) \in Nat
         /\ \A k \in DOMAIN new : new[k].at <= t
<1>. DEFINE new == Logged(log, e.what, e.at)
<1>1. Len(log) \in Nat /\ DOMAIN log = 1 .. Len(log)
  OBVIOUS
<1>2. new \in Seq(Entry) /\ Len(new) = Len(log) + 1
  BY LoggedSplits
<1>3. PICK n \in 0 .. Len(log) : /\ \A k \in 1 .. n : new[k] = log[k]
                                 /\ new[n + 1] = e
                                 /\ \A k \in n + 1 .. Len(log) : new[k + 1] = log[k]
  BY LoggedSplits
<1>. HIDE DEF new
<1>4. ASSUME NEW k \in DOMAIN new PROVE new[k].at <= t
  <2>1. k \in 1 .. Len(log) + 1
    BY <1>2
  <2>2. CASE k <= n
    BY <1>1, <1>3, <2>1, <2>2
  <2>3. CASE k = n + 1
    BY <1>3, <2>3
  <2>4. CASE k > n + 1
    <3>1. k - 1 \in n + 1 .. Len(log) /\ k - 1 + 1 = k /\ k - 1 \in DOMAIN log
      BY <1>1, <2>1, <2>4
    <3>2. new[k] = log[k - 1]
      BY <1>3, <3>1
    <3>. QED BY <3>1, <3>2
  <2>. QED BY <1>1, <2>1, <2>2, <2>3, <2>4
<1>. QED BY <1>1, <1>2, <1>4 DEF new

\* What is known of a report's log.
LEMMA LogKnown ==
  ASSUME Inv, NEW i \in Ids, Exists(i)
  PROVE  /\ rows[i] \in Row /\ rows[i].log \in Seq(Entry) /\ Len(rows[i].log) \in Nat
         /\ Len(rows[i].log) >= 1 + ackedUpdates[i] /\ ackedUpdates[i] \in Nat
         /\ clock \in Nat /\ \A k \in DOMAIN rows[i].log : rows[i].log[k].at <= clock
<1>1. rows[i] \in Row
  BY RowTyped DEF Inv
<1>2. rows[i].log \in Seq(Entry)
  BY <1>1 DEF Row
<1>3. Len(rows[i].log) \in Nat
  BY <1>2
<1>. QED BY <1>1, <1>2, <1>3 DEF Inv, TypeOK, LogInv

\* Row r is report q with the status st and an entry e more in its log.
IsAmended(r, q, st, e) ==
  /\ r \in Row /\ r.status = st /\ r.log = Logged(q.log, e.what, e.at)
  /\ r.tag = q.tag /\ r.at = q.at /\ r.shot = q.shot

\* A row whose status and log are written is a report, and its log one longer.
LEMMA AmendedRow ==
  ASSUME Inv, NEW i \in Ids, Exists(i), NEW st \in Status, NEW e \in Entry, e.at <= clock
  PROVE  /\ Logged(rows[i].log, e.what, e.at) \in Seq(Entry)
         /\ IsAmended([rows[i] EXCEPT !.status = st, !.log = Logged(rows[i].log, e.what, e.at)],
                      rows[i], st, e)
         /\ rows[i].status = st =>
              IsAmended([rows[i] EXCEPT !.archived = TRUE, !.log = Logged(rows[i].log, e.what, e.at)],
                        rows[i], st, e)
<1>. DEFINE new == Logged(rows[i].log, e.what, e.at)
<1>1. /\ rows[i] \in Row /\ rows[i].log \in Seq(Entry) /\ clock \in Nat
      /\ \A k \in DOMAIN rows[i].log : rows[i].log[k].at <= clock
  BY LogKnown
<1>2. new \in Seq(Entry)
  BY <1>1, LoggedPast
<1>. HIDE DEF new
<1>3. IsAmended([rows[i] EXCEPT !.status = st, !.log = new], rows[i], st, e)
  <2>. DEFINE r == [rows[i] EXCEPT !.status = st, !.log = new]
  <2>1. r \in Row /\ r.status = st /\ r.log = new
        /\ r.tag = rows[i].tag /\ r.at = rows[i].at /\ r.shot = rows[i].shot
    BY <1>1, <1>2 DEF Row
  <2>. HIDE DEF r
  <2>. QED BY <2>1 DEF IsAmended, new, r
<1>4. rows[i].status = st =>
        IsAmended([rows[i] EXCEPT !.archived = TRUE, !.log = new], rows[i], st, e)
  <2>. DEFINE r == [rows[i] EXCEPT !.archived = TRUE, !.log = new]
  <2>1. r \in Row /\ r.status = rows[i].status /\ r.log = new
        /\ r.tag = rows[i].tag /\ r.at = rows[i].at /\ r.shot = rows[i].shot
    BY <1>1, <1>2 DEF Row
  <2>. HIDE DEF r
  <2>. QED BY <2>1 DEF IsAmended, new, r
<1>. QED BY <1>2, <1>3, <1>4 DEF new

\* An amended row is there, and its log is of the past.
LEMMA AmendedKnown ==
  ASSUME Inv, NEW i \in Ids, Exists(i), NEW st, NEW e \in Entry, e.at <= clock,
         NEW r, IsAmended(r, rows[i], st, e)
  PROVE  /\ r \in Row /\ r # NoRow /\ SameRow(r, rows[i]) /\ r.status = st
         /\ r.log = Logged(rows[i].log, e.what, e.at)
         /\ Len(r.log) = Len(rows[i].log) + 1
         /\ \A k \in DOMAIN r.log : r.log[k].at <= clock
<1>1. /\ rows[i] \in Row /\ rows[i].log \in Seq(Entry) /\ clock \in Nat
      /\ \A k \in DOMAIN rows[i].log : rows[i].log[k].at <= clock
  BY LogKnown
<1>2. /\ Len(Logged(rows[i].log, e.what, e.at)) = Len(rows[i].log) + 1
      /\ \A k \in DOMAIN Logged(rows[i].log, e.what, e.at) :
           Logged(rows[i].log, e.what, e.at)[k].at <= clock
  BY <1>1, LoggedPast
<1>3. /\ r \in Row /\ r.status = st /\ r.log = Logged(rows[i].log, e.what, e.at)
      /\ r.tag = rows[i].tag /\ r.at = rows[i].at /\ r.shot = rows[i].shot
  BY DEF IsAmended
<1>4. r # NoRow /\ rows[i] # NoRow
  BY <1>1, <1>3, NoneOutside DEF Row, NoRow
<1>5. SameRow(r, rows[i])
  BY <1>3, <1>4 DEF SameRow
<1>. QED BY <1>2, <1>3, <1>4, <1>5

\* The transaction of w writes an entry e and the status st to the rows S ...
Amends(w, S, st, e) ==
  /\ rows' = [i \in Ids |-> rows'[i]]
  /\ \A i \in S : Exists(i) /\ lock[i] = w /\ IsAmended(rows'[i], rows[i], st, e)
  /\ \A i \in Ids \ S : rows'[i] = rows[i]

\* ... as an update of each at most ...
Counts(S) ==
  /\ ackedUpdates' \in [Ids -> Nat]
  /\ \A i \in S : ackedUpdates'[i] <= ackedUpdates[i] + 1
  /\ \A i \in Ids \ S : ackedUpdates'[i] = ackedUpdates[i]

\* ... which the logs tell, while no bulk call overlaps.
Accounts(w, S, st, e) ==
  /\ raced' \in BOOLEAN /\ (raced => raced')
  /\ ~overlapped /\ ~raced' => \A i \in S : Tells(Logged(rows[i].log, e.what, e.at), st)
  /\ st = "fixed" /\ ~raced' =>
       \A v \in Workers \ {w} : op[v].at \notin {"closeCall", "bulkClose"}

Ends(w) ==
  /\ \E o : Over(o) /\ Become(w, o)
  /\ Unlock(w) /\ disk' = disk /\ clock' = clock /\ pending' = pending
  /\ acked' = acked /\ overlapped' = overlapped

\* A transaction that amends the rows S it had locked.
LEMMA AmendStep ==
  ASSUME Inv, NEW w \in Workers, NEW S \in SUBSET Ids, NEW st, NEW e \in Entry, e.at <= clock,
         Amends(w, S, st, e), Counts(S), Accounts(w, S, st, e), Ends(w)
  PROVE  Inv'
<1>0. clock' = clock /\ overlapped' = overlapped /\ (raced => raced')
  BY DEF Ends, Accounts
<1>1. ASSUME NEW i \in S
      PROVE  /\ Exists(i) /\ lock[i] = w
             /\ rows'[i] \in Row /\ rows'[i] # NoRow /\ SameRow(rows'[i], rows[i])
             /\ rows'[i].status = st /\ rows'[i].log = Logged(rows[i].log, e.what, e.at)
             /\ Len(rows'[i].log) = Len(rows[i].log) + 1
             /\ \A k \in DOMAIN rows'[i].log : rows'[i].log[k].at <= clock
  <2>1. Exists(i) /\ lock[i] = w /\ IsAmended(rows'[i], rows[i], st, e)
    BY DEF Amends
  <2>2. PICK r : r = rows'[i]
    OBVIOUS
  <2>3. IsAmended(r, rows[i], st, e)
    BY <2>1, <2>2
  <2>4. /\ r \in Row /\ r # NoRow /\ SameRow(r, rows[i]) /\ r.status = st
        /\ r.log = Logged(rows[i].log, e.what, e.at)
        /\ Len(r.log) = Len(rows[i].log) + 1
        /\ \A k \in DOMAIN r.log : r.log[k].at <= clock
    BY <2>1, <2>3, AmendedKnown
  <2>. QED BY <2>1, <2>2, <2>4
<1>2. \A i \in Ids \ S : rows'[i] = rows[i]
  BY DEF Amends
<1>3. rows' \in [Ids -> Row \cup {NoRow}]
  <2>1. \A i \in Ids : rows'[i] \in Row \cup {NoRow}
    BY <1>1, <1>2 DEF Inv, TypeOK
  <2>. QED BY <2>1 DEF Amends
<1>4. \A i \in Ids : SameRow(rows'[i], rows[i])
  BY <1>1, <1>2 DEF SameRow
<1>5. \A i \in Ids : rows'[i] # rows[i] => lock[i] = w
  BY <1>1, <1>2
<1>6. LogInv'
  <2>1. ASSUME NEW i \in Ids
        PROVE  /\ rows'[i] = NoRow => ackedUpdates'[i] = 0
               /\ rows'[i] # NoRow =>
                    /\ Len(rows'[i].log) >= 1 + ackedUpdates'[i]
                    /\ rows'[i].at <= clock
                    /\ \A k \in DOMAIN rows'[i].log : rows'[i].log[k].at <= clock
    <3>1. CASE i \in S
      <4>1. /\ Len(rows[i].log) \in Nat /\ ackedUpdates[i] \in Nat /\ ackedUpdates'[i] \in Nat
            /\ Len(rows[i].log) >= 1 + ackedUpdates[i]
        BY <1>1, <3>1, LogKnown DEF Counts
      <4>2. Len(rows'[i].log) = Len(rows[i].log) + 1 /\ ackedUpdates'[i] <= ackedUpdates[i] + 1
        BY <1>1, <3>1 DEF Counts
      <4>3. Len(rows'[i].log) >= 1 + ackedUpdates'[i]
        BY <4>1, <4>2
      <4>4. rows'[i].at = rows[i].at /\ rows[i].at <= clock
        BY <1>1, <3>1 DEF SameRow, Inv, LogInv, Exists
      <4>5. rows'[i] # NoRow /\ \A k \in DOMAIN rows'[i].log : rows'[i].log[k].at <= clock
        BY <1>1, <3>1
      <4>. QED BY <4>3, <4>4, <4>5
    <3>2. CASE i \notin S
      BY <1>2, <3>2 DEF Inv, LogInv, Exists, Counts
    <3>. QED BY <3>1, <3>2
  <2>. QED BY <1>0, <2>1 DEF LogInv, Exists
<1>7. AuditInv'
  <2>1. ASSUME ~overlapped, ~raced', NEW i \in Ids, rows'[i] # NoRow
        PROVE  Tells(rows'[i].log, rows'[i].status)
    <3>1. CASE i \in S
      BY <1>1, <2>1, <3>1 DEF Accounts
    <3>2. CASE i \notin S
      BY <1>0, <1>2, <2>1, <3>2 DEF Inv, AuditInv, Exists
    <3>. QED BY <3>1, <3>2
  <2>2. ASSUME ~raced', NEW v \in Workers, op'[v].at \in {"closeCall", "bulkClose"},
               NEW i \in Ids, rows'[i] # NoRow, rows'[i].status = "fixed",
               NEW k \in DOMAIN rows'[i].log
        PROVE  rows'[i].log[k].at <= op'[v].stamp
    <3>1. v # w /\ op'[v] = op[v]
      BY <2>2 DEF Become, Inv, TypeOK, Ends, Over
    <3>2. CASE i \in S
      BY <1>1, <2>2, <3>1, <3>2 DEF Accounts
    <3>3. CASE i \notin S
      BY <1>0, <1>2, <2>2, <3>1, <3>3 DEF Inv, AuditInv, Exists
    <3>. QED BY <3>2, <3>3
  <2>3. \A i \in Ids : ~overlapped /\ ~raced' /\ rows'[i] # NoRow => Tells(rows'[i].log, rows'[i].status)
    BY <2>1
  <2>4. \A v \in Workers, i \in Ids : ~raced' /\ op'[v].at \in {"closeCall", "bulkClose"}
          /\ rows'[i] # NoRow /\ rows'[i].status = "fixed" =>
          \A k \in DOMAIN rows'[i].log : rows'[i].log[k].at <= op'[v].stamp
    BY <2>2
  <2>. QED BY <1>0, <2>3, <2>4 DEF AuditInv, Exists
<1>. QED BY <1>3, <1>4, <1>5, <1>6, <1>7, CommitStep DEF Ends, Accounts, Counts

\* update_status writes the status and the entry.
LEMMA UpdateCommitStep == ASSUME Inv, NEW w \in Workers, UpdateCommit(w) PROVE Inv'
<1>. DEFINE i == op[w].id
            e == [what |-> op[w].val, at |-> clock]
<1>1. op[w].at = "update" /\ i \in Ids /\ op[w].val \in Status /\ clock \in Nat
  BY DEF UpdateCommit, Inv, OpInv, Fits, TypeOK
<1>2. Exists(i) /\ lock[i] = w /\ rows[i] \in Row
  <2>1. Holds(lock, rows, w, i, Status)
    BY <1>1 DEF Inv, LockInv, Ready
  <2>. QED BY <1>1, <2>1, RowTyped DEF Holds, Exists, Inv
<1>3. e \in Entry /\ e.what = op[w].val /\ e.at = clock /\ e.at <= clock
  BY <1>1 DEF Entry
<1>4. e.what # "archived" /\ (IF e.what = "created" THEN "open" ELSE e.what) = op[w].val
  BY <1>1, <1>3 DEF Status
<1>6. Tells(Logged(rows[i].log, e.what, e.at), op[w].val)
  <2>1. rows[i].log \in Seq(Entry) /\ \A k \in DOMAIN rows[i].log : rows[i].log[k].at <= e.at
    BY <1>1, <1>2, <1>3, LogKnown
  <2>2. Tells(Logged(rows[i].log, e.what, e.at), IF e.what = "created" THEN "open" ELSE e.what)
    BY <1>3, <1>4, <2>1, LoggedLast
  <2>. QED BY <1>4, <2>2
<1>7. Amends(w, {i}, op[w].val, e)
  <2>. DEFINE r == [rows[i] EXCEPT !.status = op[w].val, !.log = Logged(rows[i].log, e.what, e.at)]
  <2>1. rows' = [rows EXCEPT ![i] = r]
    BY <1>1, <1>2, <1>3 DEF UpdateCommit, TimeOfEntry, Inv, TypeOK, Row
  <2>2. IsAmended(r, rows[i], op[w].val, e)
    BY <1>1, <1>2, <1>3, AmendedRow
  <2>3. rows \in [Ids -> Row \cup {NoRow}]
    BY DEF Inv, TypeOK
  <2>. HIDE DEF e, r
  <2>4. /\ rows' = [j \in Ids |-> rows'[j]] /\ rows'[i] = r
        /\ \A j \in Ids \ {i} : rows'[j] = rows[j]
    BY <1>1, <2>1, <2>3
  <2>. QED BY <1>2, <2>2, <2>4 DEF Amends
<1>8. Counts({i})
  <2>1. /\ ackedUpdates' \in [Ids -> Nat] /\ ackedUpdates'[i] = ackedUpdates[i] + 1
        /\ ackedUpdates[i] \in Nat
        /\ \A j \in Ids \ {i} : ackedUpdates'[j] = ackedUpdates[j]
    BY <1>1 DEF UpdateCommit, Inv, TypeOK
  <2>. QED BY <2>1 DEF Counts
<1>9. Accounts(w, {i}, op[w].val, e)
  <2>1. raced' = (raced \/ \E v \in Workers : op[v].at \in BulkLabels)
    BY DEF UpdateCommit
  <2>2. raced' \in BOOLEAN /\ (raced => raced')
    BY <2>1 DEF Inv, TypeOK
  <2>3. ~raced' => \A v \in Workers \ {w} : op[v].at \notin {"closeCall", "bulkClose"}
    BY <2>1 DEF BulkLabels
  <2>. HIDE DEF e, i
  <2>. QED BY <1>6, <2>2, <2>3 DEF Accounts
<1>10. Ends(w)
  BY <1>1, OverTyped DEF UpdateCommit, Ends
<1>. QED BY <1>1, <1>3, <1>7, <1>8, <1>9, <1>10, AmendStep

\* bulk_close_fixed writes the statuses and the entries.
LEMMA BulkCloseStep == ASSUME Inv, NEW w \in Workers, BulkCloseCommit(w) PROVE Inv'
<1>. DEFINE S == op[w].todo
            e == [what |-> "closed", at |-> op[w].stamp]
<1>1. op[w].at = "bulkClose" /\ S \in SUBSET Ids /\ op[w].stamp \in Nat /\ op[w].stamp <= clock
  BY DEF BulkCloseCommit, Inv, OpInv, Fits, TypeOK, Op
<1>2. \A i \in S : Exists(i) /\ lock[i] = w /\ rows[i] \in Row /\ rows[i].status = "fixed"
  <2>1. \A i \in S : Holds(lock, rows, w, i, {"fixed"})
    BY <1>1 DEF Inv, LockInv, Ready
  <2>. QED BY <1>1, <2>1, RowTyped DEF Holds, Exists, Inv
<1>3. /\ e \in Entry /\ e.what = "closed" /\ e.at = op[w].stamp /\ "closed" \in Status
      /\ e.what # "archived" /\ (IF e.what = "created" THEN "open" ELSE e.what) = "closed"
      /\ e.at <= clock
  BY <1>1 DEF Entry, Status
<1>6. ASSUME ~raced, NEW i \in S PROVE Tells(Logged(rows[i].log, e.what, e.at), "closed")
  <2>1. rows[i].log \in Seq(Entry)
    BY <1>1, <1>2, LogKnown
  <2>2. \A k \in DOMAIN rows[i].log : rows[i].log[k].at <= e.at
    BY <1>1, <1>2, <1>3, <1>6 DEF Inv, AuditInv
  <2>3. Tells(Logged(rows[i].log, e.what, e.at), IF e.what = "created" THEN "open" ELSE e.what)
    BY <1>3, <2>1, <2>2, LoggedLast
  <2>. QED BY <1>3, <2>3
<1>7. Amends(w, S, "closed", e)
  <2>2. rows' = [j \in Ids |-> IF j \in S
          THEN [rows[j] EXCEPT !.status = "closed", !.log = Logged(@, "closed", op[w].stamp)]
          ELSE rows[j]]
    BY DEF BulkCloseCommit
  <2>3. rows' = [j \in Ids |-> rows'[j]] /\ \A j \in Ids \ S : rows'[j] = rows[j]
    BY <2>2
  <2>4. ASSUME NEW j \in S
        PROVE Exists(j) /\ lock[j] = w /\ IsAmended(rows'[j], rows[j], "closed", e)
    <3>1. j \in Ids /\ Exists(j) /\ lock[j] = w
      BY <1>1, <1>2
    <3>2. rows'[j] = [rows[j] EXCEPT !.status = "closed", !.log = Logged(rows[j].log, e.what, e.at)]
      BY <1>2, <1>3, <2>2, <3>1 DEF Row
    <3>3. IsAmended([rows[j] EXCEPT !.status = "closed", !.log = Logged(rows[j].log, e.what, e.at)],
                    rows[j], "closed", e)
      BY <1>3, <3>1, AmendedRow
    <3>. QED BY <3>1, <3>2, <3>3
  <2>. QED BY <2>3, <2>4 DEF Amends
<1>8. Counts(S)
  <2>1. ackedUpdates' = [j \in Ids |-> IF j \in S THEN ackedUpdates[j] + 1 ELSE ackedUpdates[j]]
    BY DEF BulkCloseCommit
  <2>2. \A j \in Ids : ackedUpdates[j] \in Nat
    BY DEF Inv, TypeOK
  <2>. QED BY <1>1, <2>1, <2>2 DEF Counts
<1>9. Accounts(w, S, "closed", e)
  <2>1. raced' = raced /\ raced \in BOOLEAN
    BY DEF BulkCloseCommit, Inv, TypeOK
  <2>. HIDE DEF S, e
  <2>. QED BY <1>6, <2>1 DEF Accounts
<1>10. Ends(w)
  BY OverTyped DEF BulkCloseCommit, Ends
<1>. QED BY <1>1, <1>3, <1>7, <1>8, <1>9, <1>10, AmendStep

\* bulk_archive_closed stamps the rows and writes the entries.
LEMMA BulkArchiveStep == ASSUME Inv, NEW w \in Workers, BulkArchiveCommit(w) PROVE Inv'
<1>. DEFINE S == op[w].todo
            e == [what |-> "archived", at |-> op[w].stamp]
<1>1. op[w].at = "bulkArchive" /\ S \in SUBSET Ids /\ op[w].stamp \in Nat /\ op[w].stamp <= clock
  BY DEF BulkArchiveCommit, Inv, OpInv, Fits, TypeOK, Op
<1>2. \A i \in S : Exists(i) /\ lock[i] = w /\ rows[i] \in Row /\ rows[i].status = "closed"
  <2>1. \A i \in S : Holds(lock, rows, w, i, {"closed"})
    BY <1>1 DEF Inv, LockInv, Ready
  <2>. QED BY <1>1, <2>1, RowTyped DEF Holds, Exists, Inv
<1>3. /\ e \in Entry /\ e.what = "archived" /\ e.at = op[w].stamp /\ "closed" \in Status
      /\ e.at <= clock
  BY <1>1 DEF Entry, Status
<1>6. ASSUME ~overlapped, ~raced, NEW i \in S PROVE Tells(Logged(rows[i].log, e.what, e.at), "closed")
  <2>1. rows[i].log \in Seq(Entry)
    BY <1>1, <1>2, LogKnown
  <2>2. Tells(rows[i].log, "closed")
    BY <1>1, <1>2, <1>6 DEF Inv, AuditInv
  <2>. QED BY <1>1, <1>3, <2>1, <2>2, LoggedArchived
<1>7. Amends(w, S, "closed", e)
  <2>2. rows' = [j \in Ids |-> IF j \in S
          THEN [rows[j] EXCEPT !.archived = TRUE, !.log = Logged(@, "archived", op[w].stamp)]
          ELSE rows[j]]
    BY DEF BulkArchiveCommit
  <2>3. rows' = [j \in Ids |-> rows'[j]] /\ \A j \in Ids \ S : rows'[j] = rows[j]
    BY <2>2
  <2>4. ASSUME NEW j \in S
        PROVE Exists(j) /\ lock[j] = w /\ IsAmended(rows'[j], rows[j], "closed", e)
    <3>1. j \in Ids /\ Exists(j) /\ lock[j] = w
      BY <1>1, <1>2
    <3>2. rows'[j] = [rows[j] EXCEPT !.archived = TRUE, !.log = Logged(rows[j].log, e.what, e.at)]
      BY <1>2, <1>3, <2>2, <3>1 DEF Row
    <3>3. IsAmended([rows[j] EXCEPT !.archived = TRUE, !.log = Logged(rows[j].log, e.what, e.at)],
                    rows[j], "closed", e)
      BY <1>2, <1>3, <3>1, AmendedRow
    <3>. QED BY <3>1, <3>2, <3>3
  <2>. QED BY <2>3, <2>4 DEF Amends
<1>8. Counts(S)
  <2>1. ackedUpdates' = ackedUpdates /\ ackedUpdates \in [Ids -> Nat]
    BY DEF BulkArchiveCommit, Inv, TypeOK, history
  <2>2. \A j \in S : ackedUpdates[j] \in Nat
    BY <1>1, <2>1
  <2>3. \A j \in S : ackedUpdates'[j] <= ackedUpdates[j] + 1
    BY <2>1, <2>2
  <2>. QED BY <2>1, <2>3 DEF Counts
<1>9. Accounts(w, S, "closed", e)
  <2>1. raced' = raced /\ raced \in BOOLEAN
    BY DEF BulkArchiveCommit, Inv, TypeOK, history
  <2>. HIDE DEF S, e
  <2>. QED BY <1>6, <2>1 DEF Accounts
<1>10. Ends(w)
  BY OverTyped DEF BulkArchiveCommit, Ends, history
<1>. QED BY <1>1, <1>3, <1>7, <1>8, <1>9, <1>10, AmendStep

\* set_github_link writes the link.
LEMMA LinkCommitStep == ASSUME Inv, NEW w \in Workers, LinkCommit(w) PROVE Inv'
<1>. DEFINE i == op[w].id
            r == [rows[i] EXCEPT !.link = op[w].val]
<1>1. op[w].at = "link" /\ i \in Ids /\ op[w].val \in Links
  BY DEF LinkCommit, Inv, OpInv, Fits
<1>2. Exists(i) /\ lock[i] = w /\ rows[i] \in Row
  <2>1. Holds(lock, rows, w, i, Status)
    BY <1>1 DEF Inv, LockInv, Ready
  <2>. QED BY <1>1, <2>1, RowTyped DEF Holds, Exists, Inv
<1>3. /\ r \in Row /\ r # NoRow /\ r.status = rows[i].status /\ r.log = rows[i].log
      /\ r.tag = rows[i].tag /\ r.at = rows[i].at /\ r.shot = rows[i].shot
  <2>1. /\ r \in Row /\ r.status = rows[i].status /\ r.log = rows[i].log
        /\ r.tag = rows[i].tag /\ r.at = rows[i].at /\ r.shot = rows[i].shot
    BY <1>1, <1>2 DEF Row
  <2>. HIDE DEF r
  <2>. QED BY <2>1, NoneOutside DEF Row, NoRow
<1>4. rows' = [rows EXCEPT ![i] = r]
  BY DEF LinkCommit
<1>. HIDE DEF r
<1>5. /\ rows' \in [Ids -> Row \cup {NoRow}] /\ rows'[i] = r
      /\ \A j \in Ids \ {i} : rows'[j] = rows[j]
  BY <1>1, <1>3, <1>4 DEF Inv, TypeOK
<1>6. \A j \in Ids : SameRow(rows'[j], rows[j]) /\ (rows'[j] # rows[j] => lock[j] = w)
  BY <1>2, <1>3, <1>5 DEF SameRow, Exists
<1>7. /\ Become(w, Refetching(i)) /\ Over(Refetching(i)) /\ Unlock(w)
      /\ disk' = disk /\ clock' = clock /\ pending' = pending
      /\ acked' = acked /\ ackedUpdates' = ackedUpdates /\ overlapped' = overlapped
      /\ raced' = raced /\ raced \in BOOLEAN /\ ackedUpdates \in [Ids -> Nat]
  BY <1>1, OverTyped DEF LinkCommit, history, Inv, TypeOK
<1>8. \A j \in Ids : /\ rows'[j] # NoRow <=> rows[j] # NoRow
                     /\ rows[j] # NoRow => /\ rows'[j].status = rows[j].status
                                           /\ rows'[j].log = rows[j].log
                                           /\ rows'[j].at = rows[j].at
  BY <1>2, <1>3, <1>5 DEF Exists
<1>9. LogInv'
  BY <1>7, <1>8 DEF Inv, LogInv, Exists
<1>10. AuditInv'
  <2>1. op'[w].at \in {"idle", "refetch"} /\ \A v \in Workers \ {w} : op'[v] = op[v]
    BY <1>7 DEF Become, Inv, TypeOK, Over
  <2>. QED BY <1>7, <1>8, <2>1 DEF Inv, AuditInv, Exists
<1>. QED BY <1>5, <1>6, <1>7, <1>9, <1>10, CommitStep

-----------------------------------------------------------------------------
(* The steps in which a payload or a file changes its place.                *)

\* What stays true of rows that stay as they are.
LEMMA RowsStay ==
  ASSUME Inv, rows' = rows, ackedUpdates' = ackedUpdates, clock' >= clock, clock' \in Nat,
         raced' = raced, overlapped => overlapped',
         \A v \in Workers : op'[v].at \in {"closeCall", "bulkClose"} => op'[v] = op[v]
  PROVE  LogInv' /\ AuditInv'
<1>1. LogInv'
  <2>1. ASSUME NEW i \in Ids, Exists(i)
        PROVE  rows[i].at <= clock' /\ \A k \in DOMAIN rows[i].log : rows[i].log[k].at <= clock'
    <3>1. rows[i].log \in Seq(Entry) /\ rows[i].at \in Nat /\ clock \in Nat
      BY <2>1, RowTyped DEF Inv, Row, TypeOK
    <3>2. \A k \in DOMAIN rows[i].log : rows[i].log[k] \in Entry
      BY <3>1
    <3>4. \A k \in DOMAIN rows[i].log : rows[i].log[k].at \in Nat
      BY <3>2 DEF Entry
    <3>3. rows[i].at <= clock /\ \A k \in DOMAIN rows[i].log : rows[i].log[k].at <= clock
      BY <2>1 DEF Inv, LogInv
    <3>. QED BY <3>1, <3>3, <3>4
  <2>. QED BY <2>1 DEF Inv, LogInv, Exists
<1>2. AuditInv'
  <2>1. \A v \in Workers : op'[v].at \in {"closeCall", "bulkClose"} =>
          op[v].at \in {"closeCall", "bulkClose"} /\ op'[v].stamp = op[v].stamp
    OBVIOUS
  <2>. QED BY <2>1 DEF Inv, AuditInv, Exists
<1>. QED BY <1>1, <1>2

\* A worker that does no more than it did still has its locks.
LEMMA LocksStay ==
  ASSUME Inv, rows' = rows, lock' = lock,
         \A v \in Workers : op'[v].at \in {"saveCommit", "update", "link", "delete",
                                           "bulkClose", "bulkArchive"} => op'[v] = op[v]
  PROVE  LockInv'
<1>1. ASSUME NEW v \in Workers PROVE Ready(v, op'[v], lock', rows')
  <2>1. Ready(v, op[v], lock, rows)
    BY DEF Inv, LockInv
  <2>2. CASE op'[v] = op[v]
    BY <2>1, <2>2
  <2>3. CASE op'[v] # op[v]
    BY <2>3 DEF Ready
  <2>. QED BY <2>2, <2>3
<1>. QED BY <1>1 DEF LockInv

\* The others keep their locks and the rows they have locked.
LEMMA OthersReady ==
  ASSUME Inv, NEW w \in Workers, op'[w].at \in {"idle", "unlink"},
         \A v \in Workers \ {w} : /\ op'[v].at = op[v].at /\ op'[v].id = op[v].id
                                  /\ op'[v].todo = op[v].todo,
         \A v \in Workers \ {w}, j \in Ids : lock[j] = v => lock'[j] = v /\ rows'[j] = rows[j]
  PROVE  LockInv'
<1>1. ASSUME NEW v \in Workers PROVE Ready(v, op'[v], lock', rows')
  <2>1. CASE v = w
    BY <2>1 DEF Ready
  <2>2. CASE v # w
    <3>1. /\ op[v].todo \in SUBSET Ids
          /\ op[v].at \in {"saveCommit", "update", "link", "delete"} => op[v].id \in Ids
      BY DEF Inv, TypeOK, Op, OpInv, Fits, WithFile
    <3>2. Ready(v, op[v], lock, rows)
      BY DEF Inv, LockInv
    <3>3. \A j \in Ids : \A st : Holds(lock, rows, v, j, st) =>
            Holds(lock', rows', v, j, st) /\ rows'[j] = rows[j]
      BY <2>2 DEF Holds
    <3>4. op[v].at = "saveCommit" => lock'[op[v].id] = v
      BY <2>2, <3>1, <3>2 DEF Ready
    <3>5. op[v].at \in {"update", "link", "delete"} => Holds(lock', rows', v, op[v].id, Status)
      BY <3>1, <3>2, <3>3 DEF Ready
    <3>6. /\ op[v].at = "bulkClose" => \A j \in op[v].todo : Holds(lock', rows', v, j, {"fixed"})
          /\ op[v].at = "bulkArchive" => \A j \in op[v].todo :
               Holds(lock', rows', v, j, {"closed"}) /\ ~rows'[j].archived
      BY <3>1, <3>2, <3>3 DEF Ready
    <3>. QED BY <2>2, <3>4, <3>5, <3>6 DEF Ready
  <2>. QED BY <2>1, <2>2
<1>. QED BY <1>1 DEF LockInv

\* A submission is read and its save begins.
LEMMA SaveStartStep == ASSUME Inv, NEW w \in Workers, SaveStart(w) PROVE Inv'
<1>1. PICK s \in pending : /\ pending' = pending \ {s}
                           /\ Call(w, [Idle EXCEPT !.at = "saveSelect", !.tag = s])
  BY DEF SaveStart
<1>. DEFINE o == [Idle EXCEPT !.at = "saveSelect", !.tag = s]
            p == [o EXCEPT !.stamp = clock + 1]
<1>2. /\ op[w].at = "idle" /\ rows' = rows /\ disk' = disk /\ lock' = lock /\ raced' = raced
      /\ acked' = acked /\ ackedUpdates' = ackedUpdates /\ pending \subseteq Submissions
      /\ overlapped' = (overlapped \/ \E v \in Workers : op[v].at \in SaveLabels)
  BY DEF SaveStart, Inv, TypeOK
<1>3. o \in Op
  BY <1>2, IdleTyped DEF Op, SaveLabels
<1>4. /\ clock' \in Nat /\ clock' = clock + 1 /\ op' \in [Workers -> Op]
      /\ op'[w] = p /\ \A v \in Workers \ {w} : op'[v] = op[v]
  BY <1>1, <1>3, CallTyped DEF Inv
<1>5. p.at = "saveSelect" /\ p.tag = s /\ p.stamp = clock + 1
  BY <1>3 DEF Op, Idle
<1>. HIDE DEF o, p
<1>6. clock \in Nat /\ clock' >= clock /\ s \in Submissions /\ s # None
  BY <1>2, <1>4, NoneOutside DEF Inv, TypeOK
<1>7. TypeOK'
  BY <1>1, <1>2, <1>4 DEF Inv, TypeOK
<1>8. OpInv'
  <2>1. ASSUME NEW v \in Workers PROVE Fits(op'[v], pending', disk', clock')
    <3>1. CASE v = w
      BY <1>1, <1>4, <1>5, <1>6, <3>1 DEF Fits, WithFile
    <3>2. CASE v # w
      <4>1. op[v].stamp \in Nat /\ Fits(op[v], pending, disk, clock)
        BY DEF Inv, TypeOK, Op, OpInv
      <4>. QED BY <1>1, <1>2, <1>4, <1>6, <3>2, <4>1 DEF Fits
    <3>. QED BY <3>1, <3>2
  <2>. QED BY <2>1 DEF OpInv
<1>9. LockInv'
  <2>1. \A v \in Workers : op'[v].at \in {"saveCommit", "update", "link", "delete",
                                          "bulkClose", "bulkArchive"} => op'[v] = op[v]
    BY <1>4, <1>5
  <2>. QED BY <1>2, <2>1, LocksStay
<1>10. TagInv'
  <2>1. \A i \in Ids : rows[i] # NoRow => rows[i].tag \notin pending
    BY DEF Inv, TagInv, Exists
  <2>2. \A v \in Workers : op[v].at \in SaveLabels => op[v].tag \notin pending
    BY DEF Inv, OpInv, Fits
  <2>. QED BY <1>1, <1>2, <1>4, <1>5, <2>1, <2>2 DEF Inv, TagInv, Exists, Saving
<1>11. FileInv'
  <2>1. \A t \in pending' : NoFileOf(disk', t)
    BY <1>1, <1>2 DEF Inv, FileInv
  <2>2. ASSUME NEW v \in Workers, op'[v].at \in BeforeFile PROVE NoFileOf(disk', op'[v].tag)
    <3>1. CASE v = w
      <4>1. NoFileOf(disk, s)
        BY DEF Inv, FileInv
      <4>. QED BY <1>2, <1>4, <1>5, <3>1, <4>1
    <3>2. CASE v # w
      BY <1>2, <1>4, <2>2, <3>2 DEF Inv, FileInv
    <3>. QED BY <3>1, <3>2
  <2>3. ASSUME NEW v \in Workers, op'[v].at = "unlink" PROVE Unwanted(v)'
    <3>1. op'[v] = op[v] /\ Unwanted(v)
      BY <1>4, <1>5, <2>3 DEF Inv, FileInv
    <3>. QED BY <1>1, <1>2, <1>4, <1>5, <3>1 DEF Unwanted, Exists, Saving
  <2>. QED BY <2>1, <2>2, <2>3 DEF FileInv
<1>12. ScreenshotIsOwn'
  BY <1>2 DEF Inv, ScreenshotIsOwn, Exists
<1>13. LogInv' /\ AuditInv'
  <2>1. \A v \in Workers : op'[v].at \in {"closeCall", "bulkClose"} => op'[v] = op[v]
    BY <1>4, <1>5
  <2>2. overlapped => overlapped'
    BY <1>2
  <2>. QED BY <1>2, <1>4, <1>6, <2>1, <2>2, RowsStay
<1>14. TurnInv'
  <2>. SUFFICES ASSUME ~overlapped' PROVE TurnInv'
    BY DEF TurnInv
  <2>1. ~overlapped /\ \A v \in Workers : op[v].at \notin SaveLabels
    BY <1>2
  <2>2. \A v \in Workers : op'[v].at \in SaveLabels => v = w
    BY <1>4, <2>1
  <2>3. \A i, j \in Ids : rows[i] # NoRow /\ rows[j] # NoRow /\ i < j => rows[i].at < rows[j].at
    BY <2>1 DEF Inv, TurnInv, Exists
  <2>4. \A i \in Ids : rows[i] # NoRow => rows[i].at < clock + 1
    <3>1. \A i \in Ids : rows[i] # NoRow => rows[i].at \in Nat /\ rows[i].at <= clock
      BY RowTyped DEF Inv, LogInv, Exists, Row
    <3>. QED BY <1>6, <3>1
  <2>5. \A v \in Workers, i \in Ids : op'[v].at \in SaveLabels /\ rows[i] # NoRow =>
          /\ rows[i].at < op'[v].stamp
          /\ op'[v].at \notin {"saveFile"} \cup WithFile /\ op'[v].at # "saveWait"
    BY <1>4, <1>5, <2>2, <2>4 DEF WithFile
  <2>6. \A v \in Workers : op'[v].at # "saveWait"
    BY <1>4, <1>5, <2>2 DEF SaveLabels
  <2>. QED BY <1>2, <2>2, <2>3, <2>5, <2>6 DEF TurnInv, Exists, Saving
<1>. QED BY <1>7, <1>8, <1>9, <1>10, <1>11, <1>12, <1>13, <1>14 DEF Inv

\* A file is created under a name that no file has.
LEMMA SaveFileStep == ASSUME Inv, NEW w \in Workers, SaveFile(w) PROVE Inv'
<1>. DEFINE s == op[w].tag
            n == AvailableName(op[w].id, s)
            p == [op[w] EXCEPT !.at = "saveUpdate", !.name = n]
<1>1. /\ op[w].at = "saveFile" /\ disk' = [disk EXCEPT ![n] = s] /\ Become(w, p)
      /\ rows' = rows /\ lock' = lock /\ clock' = clock /\ pending' = pending
      /\ acked' = acked /\ ackedUpdates' = ackedUpdates /\ overlapped' = overlapped
      /\ raced' = raced /\ clock \in Nat
  BY DEF SaveFile, history, Inv, TypeOK
<1>2. /\ s \in Submissions \ pending /\ op[w].id \in Ids /\ op[w] \in Op /\ s # None
      /\ op[w].stamp <= clock
  BY <1>1, NoneOutside DEF Inv, OpInv, Fits, TypeOK, SaveLabels
<1>3. n \in Names /\ disk[n] = None /\ n[2] \in {None, s}
  <2>1. NoFileOf(disk, s)
    BY <1>1 DEF Inv, FileInv, BeforeFile
  <2>2. disk[<<op[w].id, s>>] = None
    BY <1>2, <2>1 DEF NoFileOf, Names
  <2>. QED BY <1>2, <2>2 DEF AvailableName, Names
<1>4. /\ p \in Op /\ p.at = "saveUpdate" /\ p.name = n /\ p.tag = s
      /\ p.id = op[w].id /\ p.stamp = op[w].stamp
  BY <1>2, <1>3 DEF Op, SaveLabels
<1>. HIDE DEF p
<1>5. op' \in [Workers -> Op] /\ op'[w] = p /\ \A v \in Workers \ {w} : op'[v] = op[v]
  BY <1>1, <1>4, BecomeTyped DEF Inv
<1>. HIDE DEF n
<1>6. /\ disk' \in [Names -> Submissions \cup {None}] /\ disk'[n] = s
      /\ \A m \in Names \ {n} : disk'[m] = disk[m]
  BY <1>1, <1>2, <1>3 DEF Inv, TypeOK
<1>7. TypeOK'
  BY <1>1, <1>5, <1>6 DEF Inv, TypeOK
<1>8. \A m \in Names : disk[m] # None => disk'[m] = disk[m]
  BY <1>3, <1>6
<1>9. \A v \in Workers : op'[v].at \in SaveLabels => op[v].at \in SaveLabels /\ op'[v].tag = op[v].tag
  BY <1>1, <1>4, <1>5 DEF SaveLabels
<1>10. OpInv'
  <2>1. ASSUME NEW v \in Workers PROVE Fits(op'[v], pending', disk', clock')
    <3>1. CASE v = w
      BY <1>1, <1>2, <1>3, <1>4, <1>5, <1>6, <3>1 DEF Fits
    <3>2. CASE v # w
      <4>1. Fits(op[v], pending, disk, clock)
        BY DEF Inv, OpInv
      <4>2. op[v].at \in WithFile => op[v].name \in Names /\ disk'[op[v].name] = op[v].tag
        <5>1. op[v].at \in WithFile => op[v].name \in Names /\ disk[op[v].name] = op[v].tag
                                       /\ op[v].tag \in Submissions
          BY <4>1 DEF Fits, WithFile, SaveLabels
        <5>. QED BY <1>8, <5>1, NoneOutside
      <4>. QED BY <1>1, <1>5, <3>2, <4>1, <4>2 DEF Fits
    <3>. QED BY <3>1, <3>2
  <2>. QED BY <2>1 DEF OpInv
<1>11. LockInv'
  <2>1. \A v \in Workers : op'[v].at \in {"saveCommit", "update", "link", "delete",
                                          "bulkClose", "bulkArchive"} => op'[v] = op[v]
    BY <1>4, <1>5
  <2>. QED BY <1>1, <2>1, LocksStay
<1>12. TagInv'
  BY <1>1, <1>9 DEF Inv, TagInv, Exists, Saving
<1>13. FileInv'
  <2>1. ASSUME NEW t \in Submissions, t # s, NoFileOf(disk, t) PROVE NoFileOf(disk', t)
    BY <1>3, <1>6, <2>1, NoneOutside DEF NoFileOf
  <2>2. \A t \in pending' : NoFileOf(disk', t)
    BY <1>1, <1>2, <2>1 DEF Inv, FileInv, TypeOK
  <2>3. ASSUME NEW v \in Workers, op'[v].at \in BeforeFile PROVE NoFileOf(disk', op'[v].tag)
    <3>1. v # w /\ op'[v] = op[v]
      BY <1>4, <1>5, <2>3 DEF BeforeFile
    <3>2. op[v].at \in SaveLabels /\ op[w].at \in SaveLabels
      BY <1>1, <2>3, <3>1 DEF BeforeFile, SaveLabels
    <3>3. op[v].tag # s /\ op[v].tag \in Submissions
      BY <3>1, <3>2 DEF Inv, TagInv, Saving, OpInv, Fits
    <3>. QED BY <2>1, <2>3, <3>1, <3>3 DEF Inv, FileInv
  <2>4. ASSUME NEW v \in Workers, op'[v].at = "unlink" PROVE Unwanted(v)'
    <3>1. op'[v] = op[v] /\ Unwanted(v)
      BY <1>4, <1>5, <2>4 DEF Inv, FileInv
    <3>2. disk'[op[v].name] = disk[op[v].name]
      <4>1. op[v].name \in Names
        BY <2>4, <3>1 DEF Inv, OpInv, Fits
      <4>. QED BY <1>8, <3>1, <4>1 DEF Unwanted
    <3>3. \A u \in Workers : op'[u].at = "unlink" => op'[u] = op[u]
      BY <1>4, <1>5
    <3>. QED BY <1>1, <1>9, <3>1, <3>2, <3>3 DEF Unwanted, Exists, Saving
  <2>. QED BY <2>2, <2>3, <2>4 DEF FileInv
<1>14. ScreenshotIsOwn'
  <2>1. ASSUME NEW i \in Ids, rows[i] # NoRow PROVE disk'[rows[i].shot] = rows[i].tag
    <3>1. rows[i] \in Row
      BY <2>1, RowTyped DEF Inv, Exists
    <3>2. rows[i].shot \in Names /\ rows[i].tag # None
      BY <3>1, NoneOutside DEF Row
    <3>3. disk[rows[i].shot] = rows[i].tag
      BY <2>1 DEF Inv, ScreenshotIsOwn, Exists
    <3>. QED BY <1>8, <3>2, <3>3
  <2>. QED BY <1>1, <2>1 DEF ScreenshotIsOwn, Exists
<1>15. LogInv' /\ AuditInv'
  <2>1. \A v \in Workers : op'[v].at \in {"closeCall", "bulkClose"} => op'[v] = op[v]
    BY <1>4, <1>5
  <2>. QED BY <1>1, <2>1, RowsStay
<1>16. TurnInv'
  <2>. SUFFICES ASSUME ~overlapped PROVE TurnInv'
    BY <1>1 DEF TurnInv
  <2>1. Found' = Found
    BY <1>1 DEF Found, Exists
  <2>2. \A v \in Workers : op'[v].at = "saveWait" => op'[v].found = Found
    BY <1>4, <1>5 DEF Inv, TurnInv
  <2>3. \A v \in Workers, i \in Ids : op'[v].at \in SaveLabels /\ rows[i] # NoRow =>
          /\ rows[i].at < op'[v].stamp
          /\ op'[v].at \in {"saveFile"} \cup WithFile => i < op'[v].id
    <3>1. \A v \in Workers, i \in Ids : op[v].at \in SaveLabels /\ rows[i] # NoRow =>
          /\ rows[i].at < op[v].stamp
          /\ op[v].at \in {"saveFile"} \cup WithFile => i < op[v].id
      BY DEF Inv, TurnInv, Exists, Saving
    <3>2. op[w].at \in SaveLabels
      BY <1>1 DEF SaveLabels
    <3>. QED BY <1>1, <1>4, <1>5, <3>1, <3>2
  <2>. QED BY <1>1, <1>9, <2>1, <2>2, <2>3 DEF Inv, TurnInv, Exists, Saving
<1>. QED BY <1>7, <1>10, <1>11, <1>12, <1>13, <1>14, <1>15, <1>16 DEF Inv

\* The file of a report that is gone is removed.
LEMMA UnlinkStep == ASSUME Inv, NEW w \in Workers, Unlink(w) PROVE Inv'
<1>. DEFINE n == op[w].name
<1>1. /\ op[w].at = "unlink" /\ disk' = [disk EXCEPT ![n] = None] /\ Become(w, Idle)
      /\ rows' = rows /\ lock' = lock /\ clock' = clock /\ pending' = pending
      /\ acked' = acked /\ ackedUpdates' = ackedUpdates /\ overlapped' = overlapped
      /\ raced' = raced /\ clock \in Nat
  BY DEF Unlink, history, Inv, TypeOK
<1>2. n \in Names /\ Unwanted(w)
  BY <1>1 DEF Inv, OpInv, Fits, FileInv
<1>3. op' \in [Workers -> Op] /\ op'[w] = Idle /\ \A v \in Workers \ {w} : op'[v] = op[v]
  BY <1>1, IdleTyped, BecomeTyped DEF Inv
<1>4. /\ disk' \in [Names -> Submissions \cup {None}] /\ disk'[n] = None
      /\ \A m \in Names \ {n} : disk'[m] = disk[m]
  BY <1>1, <1>2 DEF Inv, TypeOK
<1>5. TypeOK'
  BY <1>1, <1>3, <1>4 DEF Inv, TypeOK
<1>6. \A v \in Workers : op'[v].at # "idle" => v # w /\ op'[v] = op[v]
  BY <1>3, IdleTyped
<1>7. OpInv'
  <2>1. ASSUME NEW v \in Workers PROVE Fits(op'[v], pending', disk', clock')
    <3>1. CASE v = w
      BY <1>1, <1>3, <3>1, IdleTyped DEF Fits, SaveLabels, WithFile
    <3>2. CASE v # w
      <4>1. Fits(op[v], pending, disk, clock)
        BY DEF Inv, OpInv
      <4>2. op[v].at \in WithFile => op[v].name # n
        BY <1>2, <4>1 DEF Fits, Unwanted, WithFile, SaveLabels, Saving
      <4>. QED BY <1>1, <1>3, <1>4, <3>2, <4>1, <4>2 DEF Fits
    <3>. QED BY <3>1, <3>2
  <2>. QED BY <2>1 DEF OpInv
<1>8. LockInv'
  <2>1. \A v \in Workers : op'[v].at \in {"saveCommit", "update", "link", "delete",
                                          "bulkClose", "bulkArchive"} => op'[v] = op[v]
    BY <1>6
  <2>. QED BY <1>1, <2>1, LocksStay
<1>9. TagInv'
  <2>1. \A v \in Workers : op'[v].at \in SaveLabels => op'[v] = op[v]
    BY <1>6 DEF SaveLabels
  <2>. QED BY <1>1, <2>1 DEF Inv, TagInv, Exists, Saving
<1>10. FileInv'
  <2>1. ASSUME NEW t \in Submissions, NoFileOf(disk, t) PROVE NoFileOf(disk', t)
    BY <1>4, <2>1, NoneOutside DEF NoFileOf
  <2>2. \A t \in pending' : NoFileOf(disk', t)
    BY <1>1, <2>1 DEF Inv, FileInv, TypeOK
  <2>3. ASSUME NEW v \in Workers, op'[v].at \in BeforeFile PROVE NoFileOf(disk', op'[v].tag)
    <3>1. op'[v] = op[v]
      BY <1>6, <2>3 DEF BeforeFile
    <3>2. op[v].tag \in Submissions
      BY <2>3, <3>1 DEF Inv, OpInv, Fits, BeforeFile, SaveLabels
    <3>. QED BY <2>1, <2>3, <3>1, <3>2 DEF Inv, FileInv
  <2>4. ASSUME NEW v \in Workers, op'[v].at = "unlink" PROVE Unwanted(v)'
    <3>1. op'[v] = op[v] /\ Unwanted(v) /\ v # w
      BY <1>6, <2>4 DEF Inv, FileInv
    <3>2. disk'[op[v].name] = disk[op[v].name]
      <4>1. op[v].name \in Names /\ op[v].name # n
        BY <1>2, <2>4, <3>1 DEF Inv, OpInv, Fits, Unwanted
      <4>. QED BY <1>4, <4>1
    <3>3. \A u \in Workers : op'[u].at \in SaveLabels \cup {"unlink"} => op'[u] = op[u]
      BY <1>6 DEF SaveLabels
    <3>. QED BY <1>1, <3>1, <3>2, <3>3 DEF Unwanted, Exists, Saving
  <2>. QED BY <2>2, <2>3, <2>4 DEF FileInv
<1>11. ScreenshotIsOwn'
  <2>1. ASSUME NEW i \in Ids, rows[i] # NoRow PROVE disk'[rows[i].shot] = rows[i].tag
    <3>1. rows[i] \in Row
      BY <2>1, RowTyped DEF Inv, Exists
    <3>2. rows[i].shot \in Names
      BY <3>1 DEF Row
    <3>3. disk[rows[i].shot] = rows[i].tag /\ rows[i].tag # disk[n]
      BY <1>2, <2>1 DEF Inv, ScreenshotIsOwn, Exists, Unwanted
    <3>. QED BY <1>4, <3>2, <3>3
  <2>. QED BY <1>1, <2>1 DEF ScreenshotIsOwn, Exists
<1>12. LogInv' /\ AuditInv'
  <2>1. \A v \in Workers : op'[v].at \in {"closeCall", "bulkClose"} => op'[v] = op[v]
    BY <1>6
  <2>. QED BY <1>1, <2>1, RowsStay
<1>13. TurnInv'
  <2>1. Found' = Found
    BY <1>1 DEF Found, Exists
  <2>2. \A v \in Workers : op'[v].at \in SaveLabels \cup {"saveWait"} => op'[v] = op[v]
    BY <1>6 DEF SaveLabels
  <2>. QED BY <1>1, <2>1, <2>2 DEF Inv, TurnInv, Exists, Saving
<1>. QED BY <1>5, <1>7, <1>8, <1>9, <1>10, <1>11, <1>12, <1>13 DEF Inv

\* In turn, the id of a save that is about to be committed is free.
LEMMA InTurnFresh ==
  ASSUME Inv, NEW w \in Workers, op[w].at = "saveCommit", ~overlapped
  PROVE  op[w].id \in Ids /\ ~Exists(op[w].id)
<1>1. op[w].at \in SaveLabels /\ op[w].at \in {"saveFile"} \cup WithFile
  BY DEF SaveLabels, WithFile
<1>2. op[w].id \in Ids
  BY <1>1 DEF Inv, OpInv, Fits
<1>3. \A j \in Ids : Exists(j) => j < op[w].id
  BY <1>1 DEF Inv, TurnInv, Saving
<1>4. op[w].id \in Nat
  BY <1>2, NoneOutside
<1>5. ~(op[w].id < op[w].id)
  BY <1>4
<1>. QED BY <1>2, <1>3, <1>5, Zenon

\* The row is written, over one with its id if there is one.
LEMMA SaveCommitStep == ASSUME Inv, NEW w \in Workers, SaveCommit(w) PROVE Inv'
<1>. DEFINE o == op[w]
            i == o.id
            log == IF Exists(i) THEN rows[i].log ELSE <<>>
            new == Logged(log, "created", o.stamp)
            r == [tag |-> o.tag, at |-> o.stamp, status |-> "open", link |-> None,
                  archived |-> FALSE, shot |-> o.name, log |-> new]
<1>1. /\ o.at = "saveCommit" /\ rows' = [rows EXCEPT ![i] = r]
      /\ acked' = [acked EXCEPT ![i] = IF @ = None THEN o.tag ELSE @]
      /\ Become(w, Idle) /\ Unlock(w) /\ disk' = disk /\ clock' = clock /\ pending' = pending
      /\ ackedUpdates' = ackedUpdates /\ overlapped' = overlapped /\ raced' = raced
      /\ clock \in Nat /\ o \in Op
  BY DEF SaveCommit, Inv, TypeOK
<1>2. /\ o.tag \in Submissions \ pending /\ i \in Ids /\ o.name \in Names
      /\ disk[o.name] = o.tag /\ o.stamp <= clock /\ o.stamp \in Nat /\ lock[i] = w
      /\ o.at \in SaveLabels /\ o.at \in WithFile
  BY <1>1 DEF Inv, OpInv, Fits, LockInv, Ready, WithFile, SaveLabels, Op
<1>3. /\ log \in Seq(Entry) /\ ackedUpdates[i] \in Nat /\ Len(log) \in Nat
      /\ Len(log) >= ackedUpdates[i] /\ \A k \in DOMAIN log : log[k].at <= clock
  <2>1. CASE Exists(i)
    BY <1>2, <2>1, LogKnown
  <2>2. CASE ~Exists(i)
    <3>1. log = <<>> /\ ackedUpdates[i] = 0
      BY <1>2, <2>2 DEF Inv, LogInv
    <3>2. << >> \in Seq(Entry) /\ Len(<< >>) = 0
      OBVIOUS
    <3>3. DOMAIN log = {}
      BY <3>1
    <3>. HIDE DEF log
    <3>. QED BY <3>1, <3>2, <3>3
  <2>. QED BY <2>1, <2>2
<1>4. /\ new \in Seq(Entry) /\ Len(new) = Len(log) + 1
      /\ \A k \in DOMAIN new : new[k].at <= clock
  <2>. DEFINE e == [what |-> "created", at |-> o.stamp]
  <2>1. e \in Entry /\ e.what = "created" /\ e.at = o.stamp
    BY <1>2 DEF Entry
  <2>. HIDE DEF log, e
  <2>2. LET x == Logged(log, e.what, e.at) IN
        /\ x \in Seq(Entry) /\ Len(x) = Len(log) + 1
        /\ \A k \in DOMAIN x : x[k].at <= clock
    BY <1>1, <1>2, <1>3, <2>1, LoggedPast
  <2>. QED BY <2>1, <2>2
<1>5. ~overlapped => ~Exists(i) /\ Tells(new, "open")
  <2>1. ~overlapped => ~Exists(i)
    BY <1>1, InTurnFresh
  <2>2. ~Exists(i) => Tells(new, "open")
    <3>. SUFFICES ASSUME ~Exists(i) PROVE Tells(new, "open")
      OBVIOUS
    <3>. DEFINE e == [what |-> "created", at |-> o.stamp]
    <3>1. /\ e \in Entry /\ e.what = "created" /\ e.at = o.stamp /\ e.what # "archived"
          /\ (IF e.what = "created" THEN "open" ELSE e.what) = "open"
      BY <1>2 DEF Entry
    <3>2. \A k \in DOMAIN log : log[k].at <= e.at
      OBVIOUS
    <3>. HIDE DEF e, log
    <3>3. Tells(Logged(log, e.what, e.at), IF e.what = "created" THEN "open" ELSE e.what)
      BY <1>3, <3>1, <3>2, LoggedLast
    <3>. QED BY <3>1, <3>3
  <2>. QED BY <2>1, <2>2
<1>. HIDE DEF new
<1>6. /\ r \in Row /\ r # NoRow /\ r.tag = o.tag /\ r.at = o.stamp /\ r.status = "open"
      /\ r.shot = o.name /\ r.log = new
  <2>1. r \in Row /\ r.tag = o.tag /\ r.at = o.stamp /\ r.status = "open"
        /\ r.shot = o.name /\ r.log = new
    BY <1>2, <1>4 DEF Row, Status
  <2>. HIDE DEF r
  <2>. QED BY <2>1, NoneOutside DEF Row, NoRow
<1>. HIDE DEF r, log
<1>7. /\ rows' \in [Ids -> Row \cup {NoRow}] /\ rows'[i] = r
      /\ \A j \in Ids \ {i} : rows'[j] = rows[j]
  BY <1>1, <1>2, <1>6 DEF Inv, TypeOK
<1>8. op' \in [Workers -> Op] /\ op'[w] = Idle /\ \A v \in Workers \ {w} : op'[v] = op[v]
  BY <1>1, IdleTyped, BecomeTyped DEF Inv
<1>9. /\ lock' \in [Ids -> Workers \cup {None}]
      /\ \A v \in Workers \ {w}, j \in Ids : lock[j] = v => lock'[j] = v /\ rows'[j] = rows[j]
  BY <1>1, <1>2, <1>7, UnlockKeeps DEF Inv
<1>10. TypeOK'
  <2>1. acked' \in [Ids -> Submissions \cup {None}]
    BY <1>1, <1>2 DEF Inv, TypeOK
  <2>. QED BY <1>1, <1>7, <1>8, <1>9, <2>1 DEF Inv, TypeOK
<1>11. \A v \in Workers : op'[v].at # "idle" => v # w /\ op'[v] = op[v]
  BY <1>8, IdleTyped
<1>12. OpInv'
  <2>1. ASSUME NEW v \in Workers PROVE Fits(op'[v], pending', disk', clock')
    <3>1. CASE v = w
      BY <1>1, <1>8, <3>1, IdleTyped DEF Fits, SaveLabels, WithFile
    <3>2. CASE v # w
      BY <1>1, <1>8, <3>2 DEF Inv, OpInv
    <3>. QED BY <3>1, <3>2
  <2>. QED BY <2>1 DEF OpInv
<1>13. LockInv'
  <2>1. op'[w].at \in {"idle", "unlink"}
    BY <1>8, IdleTyped
  <2>2. \A v \in Workers \ {w} : /\ op'[v].at = op[v].at /\ op'[v].id = op[v].id
                                  /\ op'[v].todo = op[v].todo
    BY <1>8
  <2>. QED BY <1>9, <2>1, <2>2, OthersReady
<1>14. TagInv'
  <2>1. \A j \in Ids : rows[j] # NoRow =>
          /\ rows[j].tag \notin pending
          /\ \A v \in Workers : op[v].at \in SaveLabels => rows[j].tag # op[v].tag
          /\ \A k \in Ids : rows[k] # NoRow /\ rows[j].tag = rows[k].tag => j = k
    BY DEF Inv, TagInv, Exists, Saving
  <2>2. \A u, v \in Workers : op[u].at \in SaveLabels /\ op[v].at \in SaveLabels
          /\ op[u].tag = op[v].tag => u = v
    BY DEF Inv, TagInv, Saving
  <2>3. \A v \in Workers : op'[v].at \in SaveLabels => v # w /\ op'[v] = op[v]
    BY <1>11 DEF SaveLabels
  <2>4. \A v \in Workers : op'[v].at \in SaveLabels => op[v].tag # o.tag
    BY <1>2, <2>2, <2>3
  <2>5. ASSUME NEW j \in Ids, rows'[j] # NoRow
        PROVE  /\ rows'[j].tag \notin pending
               /\ \A v \in Workers : op'[v].at \in SaveLabels => rows'[j].tag # op'[v].tag
               /\ \A k \in Ids : rows'[k] # NoRow /\ rows'[j].tag = rows'[k].tag => j = k
    <3>1. CASE j = i
      BY <1>2, <1>6, <1>7, <2>1, <2>3, <2>4, <3>1
    <3>2. CASE j # i
      BY <1>2, <1>6, <1>7, <2>1, <2>3, <2>5, <3>2
    <3>. QED BY <3>1, <3>2
  <2>6. \A u, v \in Workers : op'[u].at \in SaveLabels /\ op'[v].at \in SaveLabels
          /\ op'[u].tag = op'[v].tag => u = v
    BY <2>2, <2>3
  <2>. QED BY <1>1, <2>5, <2>6 DEF TagInv, Exists, Saving
<1>15. FileInv'
  <2>1. \A t \in pending' : NoFileOf(disk', t)
    BY <1>1 DEF Inv, FileInv
  <2>2. \A v \in Workers : op'[v].at \in BeforeFile => NoFileOf(disk', op'[v].tag)
    BY <1>1, <1>11 DEF Inv, FileInv, BeforeFile
  <2>3. ASSUME NEW v \in Workers, op'[v].at = "unlink" PROVE Unwanted(v)'
    <3>1. op'[v] = op[v] /\ Unwanted(v)
      BY <1>11, <2>3 DEF Inv, FileInv
    <3>2. \A u \in Workers : op'[u].at \in SaveLabels \cup {"unlink"} => op'[u] = op[u]
      BY <1>11 DEF SaveLabels
    <3>3. o.tag # disk[op[v].name]
      BY <1>2, <3>1 DEF Unwanted, Saving
    <3>4. \A j \in Ids : rows'[j] # NoRow => rows'[j].tag # disk[op[v].name]
      BY <1>6, <1>7, <3>1, <3>3 DEF Unwanted, Exists
    <3>. QED BY <1>1, <3>1, <3>2, <3>4 DEF Unwanted, Exists, Saving
  <2>. QED BY <2>1, <2>2, <2>3 DEF FileInv
<1>16. ScreenshotIsOwn'
  BY <1>1, <1>2, <1>6, <1>7 DEF Inv, ScreenshotIsOwn, Exists
<1>17. LogInv'
  <2>1. Len(new) >= 1 + ackedUpdates[i]
    BY <1>3, <1>4
  <2>2. ASSUME NEW j \in Ids
        PROVE  /\ rows'[j] = NoRow => ackedUpdates[j] = 0
               /\ rows'[j] # NoRow =>
                    /\ Len(rows'[j].log) >= 1 + ackedUpdates[j]
                    /\ rows'[j].at <= clock
                    /\ \A k \in DOMAIN rows'[j].log : rows'[j].log[k].at <= clock
    <3>1. CASE j = i
      BY <1>2, <1>4, <1>6, <1>7, <2>1, <3>1
    <3>2. CASE j # i
      BY <1>7, <3>2 DEF Inv, LogInv, Exists
    <3>. QED BY <3>1, <3>2
  <2>. QED BY <1>1, <2>2 DEF LogInv, Exists
<1>18. AuditInv'
  <2>1. ASSUME ~overlapped, ~raced, NEW j \in Ids, rows'[j] # NoRow
        PROVE  Tells(rows'[j].log, rows'[j].status)
    <3>1. CASE j = i
      BY <1>5, <1>6, <1>7, <2>1, <3>1
    <3>2. CASE j # i
      BY <1>7, <2>1, <3>2 DEF Inv, AuditInv, Exists
    <3>. QED BY <3>1, <3>2
  <2>2. \A v \in Workers : op'[v].at \in {"closeCall", "bulkClose"} => op'[v] = op[v]
    BY <1>11
  <2>3. \A j \in Ids : rows'[j].status = "fixed" => j # i
    BY <1>6, <1>7
  <2>4. ASSUME ~raced, NEW v \in Workers, op'[v].at \in {"closeCall", "bulkClose"},
               NEW j \in Ids, rows'[j] # NoRow, rows'[j].status = "fixed"
        PROVE  \A k \in DOMAIN rows'[j].log : rows'[j].log[k].at <= op'[v].stamp
    BY <1>7, <2>2, <2>3, <2>4 DEF Inv, AuditInv, Exists
  <2>5. \A j \in Ids : ~overlapped /\ ~raced /\ rows'[j] # NoRow => Tells(rows'[j].log, rows'[j].status)
    BY <2>1
  <2>6. \A v \in Workers, j \in Ids : ~raced /\ op'[v].at \in {"closeCall", "bulkClose"}
          /\ rows'[j] # NoRow /\ rows'[j].status = "fixed" =>
          \A k \in DOMAIN rows'[j].log : rows'[j].log[k].at <= op'[v].stamp
    BY <2>4
  <2>. QED BY <1>1, <2>5, <2>6 DEF AuditInv, Exists
<1>19. TurnInv'
  <2>. SUFFICES ASSUME ~overlapped PROVE TurnInv'
    BY <1>1 DEF TurnInv
  <2>1. \A v \in Workers : op'[v].at \notin SaveLabels
    BY <1>2, <1>11 DEF Inv, TurnInv, Saving, SaveLabels
  <2>2. \A j \in Ids : rows[j] # NoRow => rows[j].at < o.stamp /\ j < i /\ rows[j].at \in Nat
    <3>1. \A j \in Ids : rows[j] # NoRow => rows[j].at \in Nat
      BY RowTyped DEF Inv, Exists, Row
    <3>. QED BY <1>2, <3>1 DEF Inv, TurnInv, Exists, Saving
  <2>3. ASSUME NEW j \in Ids, NEW k \in Ids, rows'[j] # NoRow, rows'[k] # NoRow, j < k
        PROVE  rows'[j].at < rows'[k].at
    <3>0. j \in Nat /\ k \in Nat /\ i \in Nat
      BY <1>2, NoneOutside
    <3>1. CASE j = i
      BY <1>7, <2>2, <2>3, <3>0, <3>1
    <3>2. CASE j # i /\ k = i
      BY <1>6, <1>7, <2>2, <2>3, <3>2
    <3>3. CASE j # i /\ k # i
      BY <1>7, <2>3, <3>3 DEF Inv, TurnInv, Exists
    <3>. QED BY <3>1, <3>2, <3>3
  <2>4. \A v \in Workers : op'[v].at # "saveWait"
    BY <2>1 DEF SaveLabels
  <2>. QED BY <2>1, <2>3, <2>4 DEF TurnInv, Exists, Saving
<1>. QED BY <1>10, <1>12, <1>13, <1>14, <1>15, <1>16, <1>17, <1>18, <1>19 DEF Inv

\* The row goes; a save that waits for it goes on without it.
LEMMA DeleteCommitStep == ASSUME Inv, NEW w \in Workers, DeleteCommit(w) PROVE Inv'
<1>. DEFINE i == op[w].id
            p == [Idle EXCEPT !.at = "unlink", !.name = rows[i].shot]
            other(v) == [op[v] EXCEPT !.found[i] = None]
            t == rows[i].tag
<1>1. /\ op[w].at = "delete" /\ rows' = [rows EXCEPT ![i] = NoRow]
      /\ acked' = [acked EXCEPT ![i] = None] /\ ackedUpdates' = [ackedUpdates EXCEPT ![i] = 0]
      /\ op' = [v \in Workers |-> IF v = w THEN p ELSE other(v)]
      /\ Unlock(w) /\ disk' = disk /\ clock' = clock /\ pending' = pending
      /\ overlapped' = overlapped /\ raced' = raced /\ clock \in Nat
  BY DEF DeleteCommit, Inv, TypeOK
<1>2. i \in Ids /\ lock[i] = w /\ Exists(i) /\ rows[i] \in Row
  <2>1. i \in Ids
    BY <1>1 DEF Inv, OpInv, Fits
  <2>2. Holds(lock, rows, w, i, Status)
    BY <1>1 DEF Inv, LockInv, Ready
  <2>. QED BY <2>1, <2>2, RowTyped DEF Holds, Exists, Inv
<1>3. /\ rows[i].shot \in Names /\ disk[rows[i].shot] = t /\ t \in Submissions /\ t # None
  BY <1>2, NoneOutside DEF Row, Inv, ScreenshotIsOwn
<1>4. p \in Op /\ p.at = "unlink" /\ p.name = rows[i].shot /\ p.stamp = 0
  BY <1>3, IdleTyped DEF Op
<1>5. ASSUME NEW v \in Workers
      PROVE  /\ other(v) \in Op /\ other(v).at = op[v].at /\ other(v).tag = op[v].tag
             /\ other(v).stamp = op[v].stamp /\ other(v).id = op[v].id
             /\ other(v).name = op[v].name /\ other(v).val = op[v].val
             /\ other(v).todo = op[v].todo
             /\ other(v).found = [op[v].found EXCEPT ![i] = None]
  <2>1. op[v] \in Op /\ op[v].found \in Result
    BY DEF Inv, TypeOK, Op
  <2>2. [op[v].found EXCEPT ![i] = None] \in Result
    BY <2>1 DEF Result
  <2>. DEFINE f == [op[v].found EXCEPT ![i] = None]
  <2>3. other(v) = [op[v] EXCEPT !.found = f]
    BY <2>1 DEF Op
  <2>. HIDE DEF f, other
  <2>. QED BY <2>1, <2>2, <2>3 DEF Op, f
<1>. HIDE DEF p, other
<1>6. /\ op' \in [Workers -> Op] /\ op'[w] = p
      /\ \A v \in Workers \ {w} :
           /\ op'[v].at = op[v].at /\ op'[v].tag = op[v].tag /\ op'[v].stamp = op[v].stamp
           /\ op'[v].id = op[v].id /\ op'[v].name = op[v].name /\ op'[v].val = op[v].val
           /\ op'[v].todo = op[v].todo /\ op'[v].found = [op[v].found EXCEPT ![i] = None]
  <2>1. \A v \in Workers : op'[v] = IF v = w THEN p ELSE other(v)
    BY <1>1
  <2>2. \A v \in Workers : op'[v] \in Op
    BY <1>4, <1>5, <2>1
  <2>3. op' \in [Workers -> Op]
    <3>1. op' = [v \in Workers |-> op'[v]]
      BY <1>1
    <3>. QED BY <2>2, <3>1
  <2>. QED BY <1>5, <2>1, <2>3
<1>7. /\ rows' \in [Ids -> Row \cup {NoRow}] /\ rows'[i] = NoRow
      /\ \A j \in Ids \ {i} : rows'[j] = rows[j]
  BY <1>1, <1>2 DEF Inv, TypeOK
<1>8. /\ lock' \in [Ids -> Workers \cup {None}]
      /\ \A v \in Workers \ {w}, j \in Ids : lock[j] = v => lock'[j] = v /\ rows'[j] = rows[j]
  BY <1>1, <1>2, <1>7, UnlockKeeps DEF Inv
<1>9. TypeOK'
  <2>1. acked' \in [Ids -> Submissions \cup {None}] /\ ackedUpdates' \in [Ids -> Nat]
    BY <1>1, <1>2 DEF Inv, TypeOK
  <2>. QED BY <1>1, <1>6, <1>7, <1>8, <2>1 DEF Inv, TypeOK
<1>10. \A v \in Workers : op'[v].at \notin {"idle", "unlink"} => v # w
  BY <1>4, <1>6
<1>11. OpInv'
  <2>1. ASSUME NEW v \in Workers PROVE Fits(op'[v], pending', disk', clock')
    <3>1. CASE v = w
      BY <1>1, <1>3, <1>4, <1>6, <3>1 DEF Fits, SaveLabels, WithFile
    <3>2. CASE v # w
      <4>1. Fits(op[v], pending, disk, clock)
        BY DEF Inv, OpInv
      <4>. QED BY <1>1, <1>6, <3>2, <4>1 DEF Fits
    <3>. QED BY <3>1, <3>2
  <2>. QED BY <2>1 DEF OpInv
<1>12. LockInv'
  BY <1>4, <1>6, <1>8, OthersReady
<1>13. \A v \in Workers : op'[v].at \in SaveLabels =>
         v # w /\ op[v].at \in SaveLabels /\ op'[v].tag = op[v].tag
  BY <1>4, <1>6 DEF SaveLabels
<1>14. TagInv'
  BY <1>1, <1>7, <1>13 DEF Inv, TagInv, Exists, Saving
<1>15. FileInv'
  <2>1. \A s \in pending' : NoFileOf(disk', s)
    BY <1>1 DEF Inv, FileInv
  <2>2. ASSUME NEW v \in Workers, op'[v].at \in BeforeFile PROVE NoFileOf(disk', op'[v].tag)
    <3>1. v # w /\ op[v].at \in BeforeFile /\ op'[v].tag = op[v].tag
      BY <1>4, <1>6, <2>2 DEF BeforeFile
    <3>. QED BY <1>1, <3>1 DEF Inv, FileInv
  <2>3. ASSUME NEW v \in Workers, op[v].at = "unlink" PROVE op[v].name # rows[i].shot
    BY <1>2, <1>3, <2>3 DEF Inv, FileInv, Unwanted
  <2>4. ASSUME NEW v \in Workers, op'[v].at = "unlink" PROVE Unwanted(v)'
    <3>1. CASE v = w
      <4>1. t \notin pending
        BY <1>2 DEF Inv, TagInv
      <4>2. \A j \in Ids : rows'[j] # NoRow => rows'[j].tag # t
        BY <1>2, <1>7 DEF Inv, TagInv, Exists
      <4>3. \A u \in Workers : op'[u].at \in SaveLabels => op'[u].tag # t
        BY <1>2, <1>13 DEF Inv, TagInv, Saving
      <4>4. \A u \in Workers : op'[u].at = "unlink" /\ op'[u].name = op'[v].name => u = v
        BY <1>4, <1>6, <2>3, <3>1
      <4>5. disk'[op'[v].name] = t
        BY <1>1, <1>3, <1>4, <1>6, <3>1
      <4>. QED BY <1>1, <1>3, <4>1, <4>2, <4>3, <4>4, <4>5 DEF Unwanted, Exists, Saving
    <3>2. CASE v # w
      <4>1. op[v].at = "unlink" /\ op'[v].name = op[v].name /\ Unwanted(v)
        BY <1>6, <2>4, <3>2 DEF Inv, FileInv
      <4>2. op'[w].name # op'[v].name
        BY <1>4, <1>6, <2>3, <4>1
      <4>3. \A u \in Workers : op'[u].at = "unlink" /\ op'[u].name = op'[v].name => u = v
        BY <1>6, <4>1, <4>2 DEF Unwanted
      <4>4. \A j \in Ids : rows'[j] # NoRow => rows'[j].tag # disk[op[v].name]
        BY <1>7, <4>1 DEF Unwanted, Exists
      <4>5. \A u \in Workers : op'[u].at \in SaveLabels => op'[u].tag # disk[op[v].name]
        BY <1>13, <4>1 DEF Unwanted, Saving
      <4>. QED BY <1>1, <4>1, <4>3, <4>4, <4>5 DEF Unwanted, Exists, Saving
    <3>. QED BY <3>1, <3>2
  <2>. QED BY <2>1, <2>2, <2>4 DEF FileInv
<1>16. ScreenshotIsOwn'
  BY <1>1, <1>7 DEF Inv, ScreenshotIsOwn, Exists
<1>17. LogInv'
  <2>1. ackedUpdates'[i] = 0 /\ \A j \in Ids \ {i} : ackedUpdates'[j] = ackedUpdates[j]
    BY <1>1, <1>2 DEF Inv, TypeOK
  <2>. QED BY <1>1, <1>7, <2>1 DEF Inv, LogInv, Exists
<1>18. AuditInv'
  <2>1. \A v \in Workers : op'[v].at \in {"closeCall", "bulkClose"} =>
          op[v].at \in {"closeCall", "bulkClose"} /\ op'[v].stamp = op[v].stamp
    BY <1>6, <1>10
  <2>2. \A j \in Ids : rows'[j] # NoRow => rows[j] # NoRow /\ rows'[j] = rows[j]
    BY <1>7
  <2>. QED BY <1>1, <2>1, <2>2 DEF Inv, AuditInv, Exists
<1>19. TurnInv'
  <2>. SUFFICES ASSUME ~overlapped PROVE TurnInv'
    BY <1>1 DEF TurnInv
  <2>1. \A j \in Ids : rows'[j] # NoRow => rows[j] # NoRow /\ rows'[j] = rows[j]
    BY <1>7
  <2>2. \A v \in Workers : op'[v].at \in SaveLabels =>
          op[v].at \in SaveLabels /\ op'[v].stamp = op[v].stamp /\ op'[v].id = op[v].id
          /\ op'[v].at = op[v].at
    BY <1>6, <1>13
  <2>3. ASSUME NEW v \in Workers, op'[v].at = "saveWait" PROVE op'[v].found = Found'
    <3>1. op'[v].found = [op[v].found EXCEPT ![i] = None] /\ op[v].found = Found
      BY <1>4, <1>6, <2>3 DEF Inv, TurnInv
    <3>2. Found' = [Found EXCEPT ![i] = None]
      BY <1>2, <1>7 DEF Found, Exists
    <3>. QED BY <3>1, <3>2
  <2>4. \A u, v \in Workers : op'[u].at \in SaveLabels /\ op'[v].at \in SaveLabels => u = v
    BY <2>2 DEF Inv, TurnInv, Saving
  <2>5. \A j, k \in Ids : rows'[j] # NoRow /\ rows'[k] # NoRow /\ j < k => rows'[j].at < rows'[k].at
    BY <2>1 DEF Inv, TurnInv, Exists
  <2>6. \A v \in Workers, j \in Ids : op'[v].at \in SaveLabels /\ rows'[j] # NoRow =>
          /\ rows'[j].at < op'[v].stamp
          /\ op'[v].at \in {"saveFile"} \cup WithFile => j < op'[v].id
    BY <2>1, <2>2 DEF Inv, TurnInv, Exists, Saving
  <2>. QED BY <2>3, <2>4, <2>5, <2>6 DEF TurnInv, Exists, Saving
<1>. QED BY <1>9, <1>11, <1>12, <1>14, <1>15, <1>16, <1>17, <1>18, <1>19 DEF Inv

-----------------------------------------------------------------------------
(* The invariant.                                                          *)

\* The invariant holds at the start.
LEMMA InitInv == Init => Inv
<1>. SUFFICES ASSUME Init PROVE Inv
  OBVIOUS
<1>1. /\ \A i \in Ids : rows[i] = NoRow /\ lock[i] = None /\ ackedUpdates[i] = 0
      /\ \A w \in Workers : op[w] = Idle /\ op[w].at = "idle" /\ op[w].stamp = 0
      /\ \A n \in Names : disk[n] = None
      /\ pending = Submissions /\ clock = 0
  BY IdleTyped DEF Init
<1>2. TypeOK
  BY IdleTyped DEF Init, TypeOK
<1>3. \A w \in Workers : op[w].at \notin SaveLabels /\ op[w].at \notin BeforeFile
                         /\ op[w].at \notin WithFile
  BY <1>1 DEF SaveLabels, BeforeFile, WithFile
<1>4. OpInv /\ LockInv
  BY <1>1, <1>3 DEF OpInv, Fits, LockInv, Ready
<1>5. TagInv /\ ScreenshotIsOwn
  BY <1>1, <1>3 DEF TagInv, ScreenshotIsOwn, Exists, Saving
<1>6. FileInv
  BY <1>1, <1>3, NoneOutside DEF FileInv, NoFileOf
<1>7. LogInv /\ AuditInv
  BY <1>1 DEF LogInv, AuditInv, Exists
<1>8. TurnInv
  BY <1>1, <1>3 DEF TurnInv, Exists, Saving
<1>. QED BY <1>2, <1>4, <1>5, <1>6, <1>7, <1>8 DEF Inv

\* Every step of a save keeps the invariant.
LEMMA SaveInv == ASSUME Inv, NEW w \in Workers, Save(w) PROVE Inv'
BY SaveStartStep, SelectStep, WaitedStep, SaveFileStep, UpdateRowStep, InsertRowStep,
   SaveCommitStep DEF Save

\* Reading the row again keeps the invariant.
LEMMA RefetchStep == ASSUME Inv, NEW w \in Workers, Refetch(w) PROVE Inv'
BY AbortStep DEF Refetch

\* Every step of another call keeps the invariant.
LEMMA ChangeInv == ASSUME Inv, NEW w \in Workers, Change(w) PROVE Inv'
BY UpdateCallStep, UpdateBeginStep, UpdateCommitStep, LinkBeginStep, LinkCommitStep,
   RefetchStep, DeleteBeginStep, DeleteCommitStep, UnlinkStep, BulkCallStep, BulkBeginStep,
   BulkCloseStep, BulkArchiveStep DEF Change

\* The invariant is inductive.
LEMMA StepInv == ASSUME Inv, [Next]_vars PROVE Inv'
<1>1. ASSUME NEW w \in Workers, Abort(w) PROVE Inv'
  BY <1>1, AbortStep DEF Abort
<1>2. CASE UNCHANGED vars
  <2>1. UNCHANGED <<rows, disk, lock, op, clock, pending, acked, ackedUpdates,
  overlapped, raced>>
    BY <1>2 DEF vars, history
  <2>. QED BY <2>1 DEF Inv, TypeOK, OpInv, LockInv, TagInv, FileInv, Unwanted,
              ScreenshotIsOwn,
               LogInv, AuditInv, TurnInv, Found, Exists, Saving
<1>. QED BY <1>1, <1>2, SaveInv, ChangeInv DEF Next

\* Every reachable state of the Django storage satisfies the inductive invariant:
\* types, payloads in one place, files by payload, locks held, logs that tell the
\* status, and ids in the order of time while saves take turns.
THEOREM Invariant == Spec => []Inv
<1>1. Inv /\ [Next]_vars => Inv'
  BY StepInv
<1>. QED BY <1>1, InitInv, PTL DEF Spec

\* Rows, files, locks, what the workers carry and the clock keep their types.
THEOREM TypesHold == Spec => []TypeOK
<1>1. Inv => TypeOK
  BY DEF Inv
<1>. QED BY <1>1, Invariant, PTL

\* The screenshot of every report is there and is its own (save_report writes
\* the file before the transaction commits, delete_report removes it after).
THEOREM ScreenshotsOwn == Spec => []ScreenshotIsOwn
<1>1. Inv => ScreenshotIsOwn
  BY DEF Inv
<1>. QED BY <1>1, Invariant, PTL

\* The log accounts for every update of a status, and tells the status.
LEMMA InvAudit == Inv => AuditTrail
<1>. SUFFICES ASSUME Inv, NEW i \in Ids, Exists(i)
     PROVE  LET log == rows[i].log
                set == {k \in DOMAIN log : log[k].what # "archived"}
                last == log[CHOOSE k \in set : \A j \in set : j <= k].what
            IN /\ Len(log) >= 1 + ackedUpdates[i]
               /\ ~overlapped /\ ~raced =>
                    rows[i].status = IF last = "created" THEN "open" ELSE last
  BY DEF AuditTrail
<1>1. rows[i].log \in Seq(Entry) /\ Len(rows[i].log) >= 1 + ackedUpdates[i]
  BY LogKnown
<1>2. ~overlapped /\ ~raced => Tells(rows[i].log, rows[i].status)
  BY DEF Inv, AuditInv
<1>. QED BY <1>1, <1>2, TellsLast

\* The log of a report (update_status, bulk_close_fixed, bulk_archive_closed)
\* has an entry for every update that returned, and ends with the status unless
\* saves overlapped or an update overlapped a bulk call.
THEOREM AuditHolds == Spec => []AuditTrail
BY Invariant, InvAudit, PTL

-----------------------------------------------------------------------------
(* The contract of the storage backends.                                   *)

\* A row as the contract sees it.
Shown(r) == [tag |-> r.tag, status |-> r.status, life |-> Len(r.log), link |-> r.link,
             archived |-> r.archived]

\* What the contract is shown of a row is its fields and the length of its log.
LEMMA ShownFields ==
  ASSUME NEW r \in Row
  PROVE  /\ Shown(r).tag = r.tag /\ Shown(r) # NoRow
         /\ \A a : a = r.archived => Shown(r).archived = a
<1>1. PICK s, a, l, k, t : s = r.status /\ a = r.archived /\ l = Len(r.log) /\ k = r.link /\ t = r.tag
  OBVIOUS
<1>2. Shown(r) = [tag |-> t, status |-> s, life |-> l, link |-> k, archived |-> a]
  BY <1>1, Zenon DEF Shown
<1>3. Shown(r).tag = t /\ Shown(r).archived = a
  BY <1>2
<1>4. t # None
  BY <1>1, NoneOutside DEF Row
<1>5. Shown(r) # NoRow
  BY <1>3, <1>4 DEF NoRow
<1>6. Shown(r).tag = r.tag
  BY <1>1, <1>3
<1>7. \A b : b = r.archived => Shown(r).archived = b
  BY <1>1, <1>3, Zenon
<1>. QED BY <1>5, <1>6, <1>7, Zenon

\* The contract is shown no row where there is none, and a row's fields else.
LEMMA StoredKnown ==
  ASSUME Inv
  PROVE  /\ \A i \in Ids : ~Exists(i) => stored[i] = NoRow
         /\ \A i \in Ids : Exists(i) => stored[i] = Shown(rows[i]) /\ rows[i] \in Row
         /\ \A i \in Ids : Exists(i) <=> stored[i] # NoRow
         /\ \A i \in Ids : Exists(i) => stored[i].tag = rows[i].tag
<1>1. \A i \in Ids : ~Exists(i) => stored[i] = NoRow
  BY DEF stored, Stored
<1>2. ASSUME NEW i \in Ids, Exists(i)
      PROVE  /\ stored[i] = Shown(rows[i]) /\ rows[i] \in Row
             /\ stored[i] # NoRow /\ stored[i].tag = rows[i].tag
  <2>1. stored[i] = Stored(i)
    BY DEF stored
  <2>2. stored[i] = Shown(rows[i])
    BY <1>2, <2>1, Zenon DEF Stored, Shown
  <2>3. rows[i] \in Row
    BY <1>2, RowTyped DEF Inv
  <2>. QED BY <2>2, <2>3, ShownFields
<1>. QED BY <1>1, <1>2

\* A step that leaves the rows alone does not show.
LEMMA RowsStored == ASSUME rows' = rows PROVE stored' = stored
BY DEF stored, Stored, Exists

\* What is stored of rows that a step writes.
LEMMA StoredNext ==
  ASSUME NEW i \in Ids
  PROVE  stored'[i] = IF rows'[i] = NoRow THEN NoRow
                      ELSE Shown(rows'[i])
<1>1. stored'[i] = Stored(i)'
  BY DEF stored
<1>2. CASE rows'[i] = NoRow
  BY <1>1, <1>2 DEF Stored, Exists
<1>3. CASE rows'[i] # NoRow
  BY <1>1, <1>3, Zenon DEF Stored, Exists, Shown
<1>. QED BY <1>2, <1>3

\* A save in turn is the contract's: the id is free and the payload new.
LEMMA SaveStored ==
  ASSUME Inv, ~overlapped, NEW w \in Workers, SaveCommit(w) PROVE Contract!Next
<1>. DEFINE i == op[w].id
            s == op[w].tag
            new == Logged(<<>>, "created", op[w].stamp)
            r == [tag |-> s, at |-> op[w].stamp, status |-> "open", link |-> None,
                  archived |-> FALSE, shot |-> op[w].name, log |-> new]
<1>1. op[w].at = "saveCommit"
  BY DEF SaveCommit
<1>2. i \in Ids /\ ~Exists(i)
  BY <1>1, InTurnFresh
<1>3. s \in Submissions /\ op[w].stamp \in Nat /\ Saving(w)
  BY <1>1 DEF Inv, OpInv, Fits, TypeOK, Op, Saving, SaveLabels
<1>4. Len(new) = 1
  <2>. DEFINE e == [what |-> "created", at |-> op[w].stamp]
  <2>1. e \in Entry /\ e.what = "created" /\ e.at = op[w].stamp
    BY <1>3 DEF Entry
  <2>2. << >> \in Seq(Entry) /\ Len(<< >>) = 0
    OBVIOUS
  <2>. HIDE DEF e
  <2>3. Len(Logged(<< >>, e.what, e.at)) = Len(<< >>) + 1
    BY <2>1, <2>2, LoggedSplits
  <2>. QED BY <2>1, <2>2, <2>3
<1>5. rows' = [rows EXCEPT ![i] = r]
  BY <1>2 DEF SaveCommit
<1>. HIDE DEF new
<1>6. /\ r # NoRow /\ r.tag = s /\ r.status = "open" /\ r.link = None
      /\ r.archived = FALSE /\ r.log = new
  BY <1>3, NoneOutside DEF NoRow
<1>. HIDE DEF r
<1>7. rows'[i] = r /\ \A j \in Ids \ {i} : rows'[j] = rows[j]
  BY <1>2, <1>5 DEF Inv, TypeOK
<1>. DEFINE x == [tag |-> s, status |-> "open", life |-> 1, link |-> None, archived |-> FALSE]
<1>8. stored' = [stored EXCEPT ![i] = x]
  <2>0. Shown(r) = x
    BY <1>4, <1>6 DEF Shown
  <2>1. stored'[i] = x
    BY <1>2, <1>6, <1>7, <2>0, StoredNext
  <2>2. \A j \in Ids \ {i} : stored'[j] = stored[j]
    BY <1>7 DEF stored, Stored, Exists
  <2>3. stored' = [j \in Ids |-> stored'[j]] /\ stored = [j \in Ids |-> stored[j]]
    BY DEF stored
  <2>. HIDE DEF x
  <2>. QED BY <1>2, <2>1, <2>2, <2>3
<1>9. \A j \in Ids : stored[j].tag # s
  <2>0. \A j \in Ids : Exists(j) => rows[j].tag # s
    BY <1>3 DEF Inv, TagInv
  <2>1. \A j \in Ids : Exists(j) => stored[j].tag = rows[j].tag /\ rows[j].tag # s
    BY <2>0, StoredKnown
  <2>2. \A j \in Ids : ~Exists(j) => stored[j].tag = None
    BY StoredKnown DEF NoRow
  <2>. QED BY <1>3, <2>1, <2>2, NoneOutside
<1>10. stored[i] = NoRow
  BY <1>2, StoredKnown
<1>11. Contract!Save(i, s)
  BY <1>8, <1>9, <1>10 DEF Contract!Save, Contract!Exists, Contract!NoReport, NoRow
<1>. QED BY <1>2, <1>3, <1>11 DEF Contract!Next, Contract!Shared

\* A row with a status and a log, and a report of the contract with a status and
\* one more lifecycle entry.
Restated(r, st, log) == [r EXCEPT !.status = st, !.log = log]
Moved(x, st) == [x EXCEPT !.status = st, !.life = @ + 1]

\* What a change of a row is to the contract.
LEMMA ShownStatus ==
  ASSUME NEW r \in Row, NEW st \in Status, NEW new \in Seq(Entry), Len(new) = Len(r.log) + 1,
         NEW q, q = Restated(r, st, new)
  PROVE  q # NoRow /\ Shown(q) = Moved(Shown(r), st)
<1>1. PICK s, a, l, k, t : s = r.status /\ a = r.archived /\ l = Len(r.log) /\ k = r.link /\ t = r.tag
  OBVIOUS
<1>2. Shown(r) = [tag |-> t, status |-> s, life |-> l, link |-> k, archived |-> a]
  BY <1>1, Zenon DEF Shown
<1>3. q \in Row
  BY DEF Row, Restated
<1>4. q # NoRow
  BY <1>3, NoneOutside DEF Row, NoRow
<1>5. q.tag = t /\ q.status = st /\ q.log = new /\ q.link = k /\ q.archived = r.archived
  BY <1>1 DEF Row, Restated
<1>6. q.archived = a /\ Len(q.log) = l + 1
  BY <1>1, <1>5
<1>7. Shown(q) = [tag |-> t, status |-> st, life |-> l + 1, link |-> k, archived |-> a]
  BY <1>5, <1>6, Zenon DEF Shown
<1>8. PICK m : m = [Shown(r) EXCEPT !.status = st]
  OBVIOUS
<1>9. m = [tag |-> t, status |-> st, life |-> l, link |-> k, archived |-> a]
  BY <1>2, <1>8
<1>10. [m EXCEPT !.life = @ + 1] = Shown(q)
  BY <1>7, <1>9
<1>11. Shown(q) = Moved(Shown(r), st)
  BY <1>8, <1>10 DEF Moved
<1>. QED BY <1>4, <1>11, Zenon

\* Archiving a row is shown as archiving it, with one more entry.
LEMMA ShownArchived ==
  ASSUME NEW r \in Row, NEW b \in BOOLEAN, NEW new \in Seq(Entry), Len(new) = Len(r.log) + 1,
         NEW q, q = [r EXCEPT !.archived = b, !.log = new]
  PROVE  q # NoRow /\ Shown(q) = [Shown(r) EXCEPT !.archived = b, !.life = @ + 1]
<1>1. PICK s, a, l, k, t, c : /\ s = r.status /\ a = r.archived /\ l = Len(r.log) /\ k = r.link
                              /\ t = r.tag /\ c = b
  OBVIOUS
<1>2. Shown(r) = [tag |-> t, status |-> s, life |-> l, link |-> k, archived |-> a]
  BY <1>1, Zenon DEF Shown
<1>3. q \in Row
  BY DEF Row
<1>4. q # NoRow
  BY <1>3, NoneOutside DEF Row, NoRow
<1>5. q.tag = t /\ q.status = s /\ q.log = new /\ q.link = k /\ q.archived = b
  BY <1>1 DEF Row
<1>6. q.archived = c /\ Len(q.log) = l + 1
  BY <1>1, <1>5
<1>7. Shown(q) = [tag |-> t, status |-> s, life |-> l + 1, link |-> k, archived |-> c]
  BY <1>5, <1>6, Zenon DEF Shown
<1>8. PICK m : m = [Shown(r) EXCEPT !.archived = c]
  OBVIOUS
<1>9. m = [tag |-> t, status |-> s, life |-> l, link |-> k, archived |-> c]
  BY <1>2, <1>8
<1>10. [m EXCEPT !.life = @ + 1] = Shown(q)
  BY <1>7, <1>9
<1>11. Shown(q) = [Shown(r) EXCEPT !.archived = c, !.life = @ + 1]
  BY <1>8, <1>10
<1>12. Shown(q) = [Shown(r) EXCEPT !.archived = b, !.life = @ + 1]
  BY <1>1, <1>11, Zenon
<1>. QED BY <1>4, <1>12, Zenon

\* Rows amended: an entry more, and the status st or archived.
LEMMA AmendedStored ==
  ASSUME Inv, NEW i \in Ids, Exists(i), NEW st \in Status, NEW e \in Entry, e.at <= clock
  PROVE  /\ rows'[i] = [rows[i] EXCEPT !.status = st, !.log = Logged(rows[i].log, e.what, e.at)] =>
              stored'[i] = [stored[i] EXCEPT !.status = st, !.life = @ + 1]
         /\ rows'[i] = [rows[i] EXCEPT !.archived = TRUE, !.log = Logged(rows[i].log, e.what, e.at)] =>
              stored'[i] = [stored[i] EXCEPT !.archived = TRUE, !.life = @ + 1]
<1>. DEFINE new == Logged(rows[i].log, e.what, e.at)
<1>1. /\ rows[i] \in Row /\ Len(new) = Len(rows[i].log) + 1 /\ new \in Seq(Entry)
  BY LogKnown, LoggedPast
<1>2. stored[i] = Shown(rows[i])
  BY StoredKnown
<1>3. PICK r, q, n : r = rows[i] /\ q = rows'[i] /\ n = new
  OBVIOUS
<1>4. stored'[i] = IF q = NoRow THEN NoRow ELSE Shown(q)
  BY <1>3, StoredNext
<1>5. /\ r \in Row /\ n \in Seq(Entry) /\ Len(n) = Len(r.log) + 1
      /\ st \in Status /\ TRUE \in BOOLEAN
  BY <1>1, <1>3
<1>6. ASSUME q = [r EXCEPT !.status = st, !.log = n]
      PROVE  stored'[i] = [stored[i] EXCEPT !.status = st, !.life = @ + 1]
  <2>1. q = Restated(r, st, n)
    BY <1>6 DEF Restated
  <2>2. q # NoRow /\ Shown(q) = Moved(Shown(r), st)
    BY <1>5, <2>1, ShownStatus
  <2>. QED BY <1>2, <1>3, <1>4, <2>2, Zenon DEF Moved
<1>7. ASSUME q = [r EXCEPT !.archived = TRUE, !.log = n]
      PROVE  stored'[i] = [stored[i] EXCEPT !.archived = TRUE, !.life = @ + 1]
  <2>1. q # NoRow /\ Shown(q) = [Shown(r) EXCEPT !.archived = TRUE, !.life = @ + 1]
    BY <1>5, <1>7, ShownArchived, Zenon
  <2>. QED BY <1>2, <1>3, <1>4, <2>1, Zenon
<1>. QED BY <1>3, <1>6, <1>7, Zenon

\* The status st and an entry are written to the rows S, and no others.
Writes(S, st, e) ==
  /\ \A i \in S : Exists(i) /\ rows'[i] = [rows[i] EXCEPT !.status = st,
                                             !.log = Logged(rows[i].log, e.what, e.at)]
  /\ \A i \in Ids \ S : rows'[i] = rows[i]

\* Writing a status to some rows is a step the contract allows.
LEMMA StatusStored ==
  ASSUME Inv, NEW S \in SUBSET Ids, NEW st \in Status, NEW e \in Entry, e.at <= clock,
         Writes(S, st, e)
  PROVE  Contract!Next
<1>1. ASSUME NEW i \in S PROVE stored'[i] = [stored[i] EXCEPT !.status = st, !.life = @ + 1]
  <2>1. i \in Ids /\ Exists(i)
    BY DEF Writes
  <2>. QED BY <2>1, AmendedStored, Zenon DEF Writes
<1>2. \A i \in Ids \ S : stored'[i] = stored[i]
  BY DEF stored, Stored, Exists, Writes
<1>3. stored' = [i \in Ids |-> IF i \in S THEN [stored[i] EXCEPT !.status = st, !.life = @ + 1]
                               ELSE stored[i]]
  <2>1. stored' = [i \in Ids |-> stored'[i]]
    BY DEF stored
  <2>. QED BY <1>1, <1>2, <2>1
<1>4. \A i \in S : stored[i] # [tag |-> None]
  BY StoredKnown DEF NoRow, Writes
<1>5. Contract!UpdateStatus(S, st)
  BY <1>3, <1>4 DEF Contract!UpdateStatus, Contract!Exists, Contract!NoReport
<1>. QED BY <1>5 DEF Contract!Next, Contract!Shared, Contract!Status, Status

\* update_status implements the contract's.
LEMMA UpdateStored == ASSUME Inv, NEW w \in Workers, UpdateCommit(w) PROVE Contract!Next
<1>. DEFINE i == op[w].id
            e == [what |-> op[w].val, at |-> clock]
<1>1. op[w].at = "update" /\ i \in Ids /\ op[w].val \in Status /\ clock \in Nat
  BY DEF UpdateCommit, Inv, OpInv, Fits, TypeOK
<1>2. Exists(i) /\ rows[i] \in Row
  <2>1. Holds(lock, rows, w, i, Status)
    BY <1>1 DEF Inv, LockInv, Ready
  <2>. QED BY <1>1, <2>1, RowTyped DEF Holds, Exists, Inv
<1>3. e \in Entry /\ e.what = op[w].val /\ e.at = clock /\ e.at <= clock
  BY <1>1 DEF Entry
<1>. DEFINE r == [rows[i] EXCEPT !.status = op[w].val, !.log = Logged(rows[i].log, e.what, e.at)]
<1>4. rows' = [rows EXCEPT ![i] = r]
  BY <1>1, <1>2, <1>3 DEF UpdateCommit, TimeOfEntry, Inv, TypeOK, Row
<1>5. rows'[i] = r /\ \A j \in Ids \ {i} : rows'[j] = rows[j]
  <2>. HIDE DEF e, r
  <2>. QED BY <1>1, <1>4 DEF Inv, TypeOK
<1>. HIDE DEF e
<1>6. {i} \in SUBSET Ids
  BY <1>1
<1>7. \A j \in {i} : Exists(j) /\ rows'[j] = [rows[j] EXCEPT !.status = op[w].val,
                                                 !.log = Logged(rows[j].log, e.what, e.at)]
  BY <1>2, <1>5
<1>8. Writes({i}, op[w].val, e)
  BY <1>5, <1>7 DEF Writes
<1>. QED BY <1>1, <1>3, <1>6, <1>8, StatusStored

\* bulk_close_fixed implements the contract's.
LEMMA BulkCloseStored == ASSUME Inv, NEW w \in Workers, BulkCloseCommit(w) PROVE Contract!Next
<1>. DEFINE S == op[w].todo
            e == [what |-> "closed", at |-> op[w].stamp]
<1>1. op[w].at = "bulkClose" /\ S \in SUBSET Ids /\ op[w].stamp \in Nat /\ op[w].stamp <= clock
  BY DEF BulkCloseCommit, Inv, OpInv, Fits, TypeOK, Op
<1>2. \A j \in S : Exists(j) /\ rows[j] \in Row
  <2>1. \A j \in S : Holds(lock, rows, w, j, {"fixed"})
    BY <1>1 DEF Inv, LockInv, Ready
  <2>. QED BY <1>1, <2>1, RowTyped DEF Holds, Exists, Inv
<1>3. e \in Entry /\ e.what = "closed" /\ e.at = op[w].stamp /\ "closed" \in Status /\ e.at <= clock
  BY <1>1 DEF Entry, Status
<1>4. rows' = [j \in Ids |-> IF j \in S
        THEN [rows[j] EXCEPT !.status = "closed", !.log = Logged(@, "closed", op[w].stamp)]
        ELSE rows[j]]
  BY DEF BulkCloseCommit
<1>5. \A j \in Ids \ S : rows'[j] = rows[j]
  BY <1>4
<1>6. ASSUME NEW j \in S
      PROVE  Exists(j) /\ rows'[j] = [rows[j] EXCEPT !.status = "closed",
                                        !.log = Logged(rows[j].log, e.what, e.at)]
  <2>1. j \in Ids /\ Exists(j)
    BY <1>1, <1>2
  <2>2. rows'[j] = [rows[j] EXCEPT !.status = "closed", !.log = Logged(rows[j].log, e.what, e.at)]
    BY <1>2, <1>3, <1>4, <2>1 DEF Row
  <2>. QED BY <2>1, <2>2
<1>. HIDE DEF S, e
<1>7. Writes(S, "closed", e)
  BY <1>5, <1>6, Zenon DEF Writes
<1>. QED BY <1>1, <1>3, <1>7, StatusStored

\* bulk_archive_closed implements the contract's.
LEMMA BulkArchiveStored == ASSUME Inv, NEW w \in Workers, BulkArchiveCommit(w) PROVE Contract!Next
<1>. DEFINE S == op[w].todo
            e == [what |-> "archived", at |-> op[w].stamp]
<1>1. op[w].at = "bulkArchive" /\ S \in SUBSET Ids /\ op[w].stamp \in Nat /\ op[w].stamp <= clock
  BY DEF BulkArchiveCommit, Inv, OpInv, Fits, TypeOK, Op
<1>2. \A j \in S : Exists(j) /\ rows[j] \in Row /\ ~rows[j].archived
  <2>1. \A j \in S : Holds(lock, rows, w, j, {"closed"}) /\ ~rows[j].archived
    BY <1>1 DEF Inv, LockInv, Ready
  <2>. QED BY <1>1, <2>1, RowTyped DEF Holds, Exists, Inv
<1>3. e \in Entry /\ e.what = "archived" /\ e.at = op[w].stamp /\ "closed" \in Status /\ e.at <= clock
  BY <1>1 DEF Entry, Status
<1>4. rows' = [j \in Ids |-> IF j \in S
        THEN [rows[j] EXCEPT !.archived = TRUE, !.log = Logged(@, "archived", op[w].stamp)]
        ELSE rows[j]]
  BY DEF BulkArchiveCommit
<1>5. \A j \in Ids \ S : stored'[j] = stored[j]
  BY <1>4 DEF stored, Stored, Exists
<1>6. ASSUME NEW j \in S PROVE stored'[j] = [stored[j] EXCEPT !.archived = TRUE, !.life = @ + 1]
  <2>1. j \in Ids /\ Exists(j)
    BY <1>1, <1>2
  <2>2. rows'[j] = [rows[j] EXCEPT !.archived = TRUE, !.log = Logged(rows[j].log, e.what, e.at)]
    BY <1>2, <1>3, <1>4, <2>1 DEF Row
  <2>. HIDE DEF e
  <2>. QED BY <1>3, <2>1, <2>2, AmendedStored
<1>. HIDE DEF S, e
<1>7. stored' = [j \in Ids |-> IF j \in S THEN [stored[j] EXCEPT !.archived = TRUE, !.life = @ + 1]
                               ELSE stored[j]]
  <2>1. stored' = [j \in Ids |-> stored'[j]]
    BY DEF stored
  <2>. QED BY <1>5, <1>6, <2>1
<1>8. \A j \in S : stored[j] # [tag |-> None] /\ ~stored[j].archived
  <2>1. ASSUME NEW j \in S PROVE stored[j] # [tag |-> None] /\ ~stored[j].archived
    <3>1. j \in Ids /\ Exists(j) /\ ~rows[j].archived
      BY <1>1, <1>2
    <3>2. stored[j] # NoRow
      BY <3>1, StoredKnown
    <3>3. PICK q : q = rows[j].archived
      OBVIOUS
    <3>4. stored[j].archived = q
      BY <3>1, <3>3, StoredKnown, ShownFields
    <3>. QED BY <3>1, <3>2, <3>3, <3>4 DEF NoRow
  <2>. QED BY <2>1
<1>9. \E n \in {0, 1} : stored' = [j \in Ids |->
        IF j \in S THEN [stored[j] EXCEPT !.archived = TRUE, !.life = @ + n] ELSE stored[j]]
  BY <1>7
<1>10. Contract!Archive(S)
  BY <1>8, <1>9 DEF Contract!Archive, Contract!Archived, Contract!Exists,
     Contract!NoReport
<1>. QED BY <1>1, <1>10 DEF Contract!Next

\* set_github_link implements the contract's.
LEMMA LinkStored == ASSUME Inv, NEW w \in Workers, LinkCommit(w) PROVE Contract!Next
<1>. DEFINE i == op[w].id
            l == op[w].val
            r == [rows[i] EXCEPT !.link = l]
<1>1. op[w].at = "link" /\ i \in Ids /\ l \in Links
  BY DEF LinkCommit, Inv, OpInv, Fits
<1>2. Exists(i) /\ rows[i] \in Row
  <2>1. Holds(lock, rows, w, i, Status)
    BY <1>1 DEF Inv, LockInv, Ready
  <2>. QED BY <1>1, <2>1, RowTyped DEF Holds, Exists, Inv
<1>3. /\ r \in Row /\ r.status = rows[i].status /\ r.log = rows[i].log
      /\ r.tag = rows[i].tag /\ r.link = l /\ r.archived = rows[i].archived
  BY <1>1, <1>2 DEF Row
<1>4. rows' = [rows EXCEPT ![i] = r]
  BY DEF LinkCommit
<1>. HIDE DEF r
<1>5. r # NoRow
  BY <1>3, NoneOutside DEF Row, NoRow
<1>6. rows'[i] = r /\ \A j \in Ids \ {i} : rows'[j] = rows[j]
  BY <1>1, <1>4 DEF Inv, TypeOK
<1>7. stored'[i] = [stored[i] EXCEPT !.link = l]
  <2>1. stored'[i] = Shown(r) /\ stored[i] = Shown(rows[i])
    BY <1>1, <1>2, <1>5, <1>6, StoredNext, StoredKnown
  <2>2. PICK s, a, m, k, t : s = rows[i].status /\ a = rows[i].archived
                             /\ m = Len(rows[i].log) /\ k = rows[i].link /\ t = rows[i].tag
    OBVIOUS
  <2>3. Shown(rows[i]) = [tag |-> t, status |-> s, life |-> m, link |-> k, archived |-> a]
    BY <2>2, Zenon DEF Shown
  <2>4. Shown(r) = [tag |-> t, status |-> s, life |-> m, link |-> l, archived |-> a]
    BY <1>3, <2>2, Zenon DEF Shown
  <2>. QED BY <2>1, <2>3, <2>4
<1>8. \A j \in Ids \ {i} : stored'[j] = stored[j]
  BY <1>6 DEF stored, Stored, Exists
<1>9. stored' = [stored EXCEPT ![i].link = l]
  <2>1. stored' = [j \in Ids |-> stored'[j]] /\ stored = [j \in Ids |-> stored[j]]
    BY DEF stored
  <2>. QED BY <1>1, <1>7, <1>8, <2>1
<1>10. stored[i] # [tag |-> None]
  BY <1>1, <1>2, StoredKnown DEF NoRow
<1>11. Contract!SetGithubLink(i, l)
  BY <1>9, <1>10 DEF Contract!SetGithubLink, Contract!Exists, Contract!NoReport
<1>. QED BY <1>1, <1>11 DEF Contract!Next, Contract!Shared

\* delete_report implements the contract's.
LEMMA DeleteStored == ASSUME Inv, NEW w \in Workers, DeleteCommit(w) PROVE Contract!Next
<1>. DEFINE i == op[w].id
<1>1. i \in Ids
  BY DEF DeleteCommit, Inv, OpInv, Fits
<1>2. Exists(i)
  <2>1. Holds(lock, rows, w, i, Status)
    BY DEF DeleteCommit, Inv, LockInv, Ready
  <2>. QED BY <2>1 DEF Holds, Exists
<1>3. rows' = [rows EXCEPT ![i] = NoRow]
  BY DEF DeleteCommit
<1>4. rows'[i] = NoRow /\ \A j \in Ids \ {i} : rows'[j] = rows[j]
  BY <1>1, <1>3 DEF Inv, TypeOK
<1>5. stored'[i] = NoRow
  BY <1>1, <1>4, StoredNext
<1>6. \A j \in Ids \ {i} : stored'[j] = stored[j]
  BY <1>4 DEF stored, Stored, Exists
<1>7. stored' = [stored EXCEPT ![i] = NoRow]
  <2>1. stored' = [j \in Ids |-> stored'[j]] /\ stored = [j \in Ids |-> stored[j]]
    BY DEF stored
  <2>. QED BY <1>1, <1>5, <1>6, <2>1
<1>8. stored[i] # [tag |-> None]
  BY <1>1, <1>2, StoredKnown DEF NoRow
<1>9. Contract!Delete(i)
  BY <1>7, <1>8 DEF Contract!Delete, Contract!Exists, Contract!NoReport, NoRow
<1>. QED BY <1>1, <1>9 DEF Contract!Next, Contract!Shared

\* Every other step leaves the rows alone.
LEMMA StepStored ==
  ASSUME Inv, ~overlapped, [Next]_vars PROVE [Contract!Next]_stored
<1>1. ASSUME NEW w \in Workers, Save(w) PROVE [Contract!Next]_stored
  <2>1. CASE SaveCommit(w)
    BY <2>1, SaveStored
  <2>2. CASE rows' = rows
    BY <2>2, RowsStored
  <2>. QED BY <1>1, <2>1, <2>2
       DEF Save, SaveStart, SaveSelect, SaveSelectWaited, SaveFile, SaveUpdate,
       SaveInsert
<1>2. ASSUME NEW w \in Workers, Change(w) PROVE [Contract!Next]_stored
  <2>1. CASE UpdateCommit(w)
    BY <2>1, UpdateStored
  <2>2. CASE LinkCommit(w)
    BY <2>2, LinkStored
  <2>3. CASE DeleteCommit(w)
    BY <2>3, DeleteStored
  <2>4. CASE BulkCloseCommit(w)
    BY <2>4, BulkCloseStored
  <2>5. CASE BulkArchiveCommit(w)
    BY <2>5, BulkArchiveStored
  <2>6. CASE rows' = rows
    BY <2>6, RowsStored
  <2>. QED BY <1>2, <2>1, <2>2, <2>3, <2>4, <2>5, <2>6
       DEF Change, UpdateCall, UpdateBegin, LinkBegin, Refetch, DeleteBegin, Unlink,
       BulkCall, BulkBegin
<1>3. ASSUME NEW w \in Workers, Abort(w) PROVE stored' = stored
  BY <1>3, RowsStored DEF Abort
<1>4. CASE UNCHANGED vars
  BY <1>4, RowsStored DEF vars
<1>. QED BY <1>1, <1>2, <1>3, <1>4 DEF Next

\* As long as saves take turns, every step is one of the storage contract.
THEOREM TurnImplements == Spec => ContractInTurn
<1>1. Inv /\ [Next]_vars => [~overlapped => [Contract!Next]_stored]_vars
  BY StepStored
<1>. QED BY <1>1, Invariant, PTL DEF Spec, ContractInTurn
=============================================================================
