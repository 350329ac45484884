---------------------------- MODULE StorageLock ----------------------------
(***************************************************************************)
(* The asyncio.Lock of FileStorage (files.py: self._lock, "async with" in   *)
(* every method) under the ways the adapters run its coroutines: all on one *)
(* event loop (FastAPI), or each request on a fresh loop in a thread of its *)
(* own (Flask: run_sync is asyncio.run).                                    *)
(*                                                                         *)
(* asyncio.Lock is not thread-safe: acquire tests the lock and then sets    *)
(* it, it binds itself to the loop of the first coroutine that has to wait, *)
(* and release resolves a future, which a loop that is blocked in another   *)
(* thread does not notice.  The methods of FileStorage await nothing while  *)
(* they hold the lock.                                                      *)
(***************************************************************************)
EXTENDS SequencesExt, FiniteSets, Naturals

CONSTANTS Calls,   \* storage calls, each a coroutine
          Loops,   \* event loops
          None     \* "no loop"

ASSUME StorageLockAssumption == None \notin Loops

VARIABLES
  locked,   \* Lock._locked
  waiters,  \* Lock._waiters
  bound,    \* Lock._loop
  woken,    \* waiters whose future is resolved and whose loop will notice
  pc,       \* where each call is
  loopOf    \* the loop that runs a call; it never changes

lockVars == <<locked, waiters, bound, woken, pc, loopOf>>

Labels == {"out", "start", "take", "inside", "queue", "awaiting", "asleep",
           "error"}

\* The labels at which a coroutine has given control back to its loop.
Suspended == {"out", "start", "awaiting", "asleep", "error"}

\* A loop runs one coroutine until that awaits something.
MayRun(c) == \A d \in Calls \ {c} :
  loopOf[d] = loopOf[c] => pc[d] \in Suspended

Goto(c, label) == pc' = [pc EXCEPT ![c] = label] /\ UNCHANGED loopOf

LockInit ==
  /\ locked = FALSE /\ waiters = <<>> /\ bound = None /\ woken = {}
  /\ pc = [c \in Calls |-> "out"]
  /\ loopOf \in [Calls -> Loops]

\* A request calls the storage.
Arrive(c) == /\ pc[c] = "out"
             /\ Goto(c, "start")
             /\ UNCHANGED <<locked, waiters, bound, woken>>

\* acquire: the lock is free and nobody waits, or the call has to wait.
Test(c) ==
  /\ pc[c] = "start" /\ MayRun(c)
  /\ Goto(c, IF ~locked /\ waiters = <<>> THEN "take" ELSE "queue")
  /\ UNCHANGED <<locked, waiters, bound, woken>>

Take(c) == /\ pc[c] = "take" /\ MayRun(c)
           /\ locked' = TRUE
           /\ Goto(c, "inside")
           /\ UNCHANGED <<waiters, bound, woken>>

\* Variant for mutation: the lock is never bound, it lets any loop wait.
AnyLoopMayWait(c) == TRUE

MayWait(c) == bound \in {None, loopOf[c]}

\* The first call that waits binds the lock; a call of another loop is
\* refused with a RuntimeError, now and ever after.
Queue(c) ==
  /\ pc[c] = "queue" /\ MayRun(c)
  /\ \/ /\ MayWait(c)
        /\ bound' = loopOf[c]
        /\ waiters' = Append(waiters, c)
        /\ Goto(c, "awaiting")
     \/ /\ ~MayWait(c)
        /\ Goto(c, "error")
        /\ UNCHANGED <<bound, waiters>>
  /\ UNCHANGED <<locked, woken>>

\* The loop finds nothing to do and blocks in its selector.
Doze(c) == /\ pc[c] = "awaiting" /\ c \notin woken
           /\ Goto(c, "asleep")
           /\ UNCHANGED <<locked, waiters, bound, woken>>

\* The loop runs the call on: it leaves the queue, and the lock is its own.
Resume(c) ==
  /\ c \in woken /\ MayRun(c)
  /\ \E i \in DOMAIN waiters : waiters[i] = c /\ waiters' = RemoveAt(waiters, i)
  /\ woken' = woken \ {c}
  /\ locked' = TRUE
  /\ Goto(c, "inside")
  /\ UNCHANGED bound

\* The first waiter, if its loop notices: it has not gone to sleep yet, or the
\* release runs on it.
Noticing(c) == {d \in Calls :
  /\ waiters # <<>> /\ d = Head(waiters)
  /\ pc[d] = "awaiting" \/ loopOf[d] = loopOf[c]}

\* Variants for mutation: the lock is kept, or set to something else.
StillLocked == locked' = TRUE
UnlockedByNone == locked' = None

Unlocked == locked' = FALSE

\* The call is done and releases; a lock that is not locked is an error.
Exit(c) ==
  /\ pc[c] = "inside" /\ MayRun(c)
  /\ \/ /\ locked
        /\ Unlocked
        /\ woken' = woken \cup Noticing(c)
        /\ Goto(c, "out")
     \/ /\ ~locked
        /\ Goto(c, "error")
        /\ UNCHANGED <<locked, woken>>
  /\ UNCHANGED <<waiters, bound>>

Step(c) == \/ Test(c) \/ Take(c) \/ Queue(c) \/ Doze(c) \/ Resume(c)
           \/ Exit(c)

LockNext == \E c \in Calls : Arrive(c) \/ Step(c)

\* A thread goes on, and a loop runs its ready coroutines first in, first out,
\* hence strong fairness for a call that has yet to begin; requests arrive when
\* they like.
Fairness == \A c \in Calls : WF_lockVars(Step(c)) /\ SF_lockVars(Test(c))

LockSpec == LockInit /\ [][LockNext]_lockVars /\ Fairness

-----------------------------------------------------------------------------
LockTypeOK ==
  /\ locked \in BOOLEAN
  /\ waiters \in Seq(Calls)
  /\ bound \in Loops \cup {None}
  /\ woken \subseteq Calls
  /\ pc \in [Calls -> Labels]
  /\ loopOf \in [Calls -> Loops]

\* Calls of one loop never work on the files and the index at once, whatever
\* calls of other loops do to the lock meanwhile.
LoopExclusion == \A c, d \in Calls :
  pc[c] = "inside" /\ pc[d] = "inside" /\ loopOf[c] = loopOf[d] => c = d

\* However threads overlap, and although some calls end in an error, the lock
\* is not left locked with nobody inside.
LockNotLeaked == locked => \E c \in Calls : pc[c] = "inside"

\* At most one thread can hang: the lock lets calls of one loop wait.
AtMostOneHangs ==
  Cardinality({loopOf[c] : c \in {d \in Calls : pc[d] = "asleep"}}) <= 1

\* The lock does its work within a loop, ends with it, and strands one thread at
\* most.
LockSound == LoopExclusion /\ LockNotLeaked /\ AtMostOneHangs

\* Every storage call that was made returns, be it with an error: no request
\* waits for ever for a lock that is free.
EveryCallReturns ==
  \A c \in Calls : pc[c] = "start" ~> pc[c] \in {"out", "error"}

\* On one event loop it does, and without an error.
OneLoopServes == (\A c, d \in Calls : loopOf[c] = loopOf[d]) =>
  \A c \in Calls : pc[c] = "start" ~> pc[c] = "out"

=============================================================================
