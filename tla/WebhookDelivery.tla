-------------------------- MODULE WebhookDelivery --------------------------
(***************************************************************************)
(* bug_fab/integrations/webhook.py: WebhookSync.send, which posts a report  *)
(* to a receiver with retries and keeps what it could not deliver in a      *)
(* dead-letter directory, and replay_dead_letters, which an operator or a   *)
(* cron job runs to deliver it after all.                                   *)
(*                                                                         *)
(* A report is named by the request that sends it: every request sends once. *)
(* The receiver is external.  A POST ends in one of the ways _attempt_once   *)
(* tells apart, and an answer that does not arrive leaves open whether the  *)
(* receiver took the report.  The process may stop between any two steps.   *)
(***************************************************************************)
EXTENDS Naturals

CONSTANTS Senders,      \* requests, each with a report to send
          Replayers,    \* runs of replay_dead_letters under way at once
          None,         \* "no report"
          MaxAttempts,  \* max_attempts
          MaxBad,       \* bound on what goes wrong outside (model only)
          MaxCrashes    \* bound on crashes of the process (model only)

ASSUME WebhookDeliveryAssumption ==
  /\ Senders \cap Replayers = {} /\ None \notin Senders
  /\ MaxAttempts \in Nat \ {0} /\ MaxBad \in Nat /\ MaxCrashes \in Nat

Tasks == Senders \cup Replayers

VARIABLES
  task,       \* what each task is doing
  dlq,        \* the reports whose envelope is in the dead-letter directory
  received,   \* history: how often the receiver took a report
  unsettled,  \* history: how often it did and the program never noted it
  written,    \* history: how many envelopes were written for a report
  unwritten,  \* history: reports whose envelope could not be written
  overlapped, \* history: two replays were under way at once
  bad, crashes

counts == <<received, unsettled, written, unwritten, overlapped>>
vars == <<task, dlq, counts, bad, crashes>>

Labels == {"new", "idle", "post", "persist", "done", "crashed", "next",
           "unlink"}

\* What a task is at, the report it is about, the number of the attempt, and
\* the envelopes a replay has left.
Task == [at : Labels, about : Senders \cup {None}, attempt : 1 .. MaxAttempts,
         todo : SUBSET Senders]

At(label) == [at |-> label, about |-> None, attempt |-> 1, todo |-> {}]

Become(t, o) == task' = [task EXCEPT ![t] = o]

\* Something outside the program goes wrong.
Mishap == bad < MaxBad /\ bad' = bad + 1

Init ==
  /\ task = [t \in Tasks |-> At(IF t \in Senders THEN "new" ELSE "idle")]
  /\ dlq = {}
  /\ received = [s \in Senders |-> 0] /\ unsettled = [s \in Senders |-> 0]
  /\ written = [s \in Senders |-> 0]
  /\ unwritten = {} /\ overlapped = FALSE
  /\ bad = 0 /\ crashes = 0

-----------------------------------------------------------------------------
\* send: the loop over _attempt_once.

Posting(t, s, attempt) ==
  [at |-> "post", about |-> s, attempt |-> attempt, todo |-> task[t].todo]

Send(s) ==
  /\ task[s].at = "new"
  /\ Become(s, Posting(s, s, 1))
  /\ UNCHANGED <<dlq, counts, bad, crashes>>

\* Variants for mutation: a failed replay is persisted like any other send;
\* nothing is persisted.
PersistAlways(t) == Become(t, [task[t] EXCEPT !.at = "persist"])
PersistNever(t) ==
  Become(t, [task[t] EXCEPT !.at = IF t \in Senders THEN "done" ELSE "next"])

\* A terminal failure: persist_dead_letter is false for a replay, whose
\* envelope is still in the directory.
Failed(t) ==
  Become(t, [task[t] EXCEPT !.at = IF t \in Senders THEN "persist" ELSE "next"])

\* Variant for mutation: one attempt too many.
OneMore(t) ==
  IF task[t].attempt <= MaxAttempts
  THEN Become(t, Posting(t, task[t].about, task[t].attempt + 1))
  ELSE Failed(t)

\* A transient failure is tried again unless the attempts are used up.
Transient(t) ==
  IF task[t].attempt < MaxAttempts
  THEN Become(t, Posting(t, task[t].about, task[t].attempt + 1))
  ELSE Failed(t)

\* 2xx.
Accepted(t) ==
  /\ task[t].at = "post"
  /\ received' = [received EXCEPT ![task[t].about] = @ + 1]
  /\ Become(t, [task[t] EXCEPT !.at = IF t \in Senders THEN "done" ELSE "unlink"])
  /\ UNCHANGED <<dlq, unsettled, written, unwritten, overlapped, bad, crashes>>

\* The receiver took the report, its answer is lost or too late.
AnswerLost(t) ==
  /\ task[t].at = "post" /\ Mishap
  /\ received' = [received EXCEPT ![task[t].about] = @ + 1]
  /\ unsettled' = [unsettled EXCEPT ![task[t].about] = @ + 1]
  /\ Transient(t)
  /\ UNCHANGED <<dlq, written, unwritten, overlapped, crashes>>

\* Not reached, or an answer that is neither 2xx nor 4xx.
Unavailable(t) ==
  /\ task[t].at = "post" /\ Mishap
  /\ Transient(t)
  /\ UNCHANGED <<dlq, counts, crashes>>

\* 4xx is permanent: no further attempt.
Rejected(t) ==
  /\ task[t].at = "post" /\ Mishap
  /\ Failed(t)
  /\ UNCHANGED <<dlq, counts, crashes>>

\* _persist_dead_letter, which is best effort: write to a .tmp file, rename.
Persist(t) ==
  LET s == task[t].about IN
  /\ task[t].at = "persist"
  /\ \/ /\ dlq' = dlq \cup {s}
        /\ written' = [written EXCEPT ![s] = @ + 1]
        /\ UNCHANGED <<unwritten, bad>>
     \/ /\ Mishap
        /\ unwritten' = unwritten \cup {s}
        /\ UNCHANGED <<dlq, written>>
  /\ Become(t, [task[t] EXCEPT !.at = IF t \in Senders THEN "done" ELSE "next"])
  /\ UNCHANGED <<received, unsettled, overlapped, crashes>>

-----------------------------------------------------------------------------
\* replay_dead_letters.

\* Variant for mutation: the pattern matches no envelope.
NothingListed == {}

\* The glob over the directory.
Listed == dlq

ReplayBegin(r) ==
  /\ task[r].at = "idle" /\ Listed # {}
  /\ Become(r, [At("next") EXCEPT !.todo = Listed])
  /\ overlapped' = (overlapped \/ \E q \in Replayers : task[q].at # "idle")
  /\ UNCHANGED <<dlq, received, unsettled, written, unwritten, bad, crashes>>

\* The next envelope; one that has gone meanwhile cannot be read and counts as
\* malformed.
ReplayNext(r) ==
  /\ task[r].at = "next"
  /\ \/ /\ task[r].todo = {}
        /\ Become(r, At("idle"))
     \/ \E s \in task[r].todo :
          Become(r, [at |-> IF s \in dlq THEN "post" ELSE "next",
                     about |-> s, attempt |-> 1, todo |-> task[r].todo \ {s}])
  /\ UNCHANGED <<dlq, counts, bad, crashes>>

\* Variant for mutation: the envelope stays.
KeepEnvelope(s) == UNCHANGED dlq

RemoveEnvelope(s) == dlq' = dlq \ {s}

\* delete_on_success; an unlink that fails leaves the envelope.
Unlink(r) ==
  LET s == task[r].about IN
  /\ task[r].at = "unlink"
  /\ \/ RemoveEnvelope(s) /\ UNCHANGED <<unsettled, bad>>
     \/ /\ Mishap
        /\ unsettled' = [unsettled EXCEPT ![s] = @ + 1]
        /\ UNCHANGED dlq
  /\ Become(r, [task[r] EXCEPT !.at = "next"])
  /\ UNCHANGED <<received, written, unwritten, overlapped, crashes>>

-----------------------------------------------------------------------------
\* The process stops: files stay, sends and replays are gone.
Crash ==
  /\ crashes < MaxCrashes
  /\ crashes' = crashes + 1
  /\ task' = [t \in Tasks |->
       IF t \in Replayers THEN At("idle")
       ELSE IF task[t].at \in {"post", "persist"} THEN At("crashed")
       ELSE task[t]]
  /\ unsettled' = [s \in Senders |->
       IF \E r \in Replayers : task[r].at = "unlink" /\ task[r].about = s
       THEN unsettled[s] + 1 ELSE unsettled[s]]
  /\ UNCHANGED <<dlq, received, written, unwritten, overlapped, bad>>

Step(t) == \/ Accepted(t) \/ AnswerLost(t) \/ Unavailable(t) \/ Rejected(t)
           \/ Persist(t) \/ ReplayNext(t) \/ Unlink(t)

Next ==
  \/ \E s \in Senders : Send(s)
  \/ \E r \in Replayers : ReplayBegin(r)
  \/ \E t \in Tasks : Step(t)
  \/ Crash

\* A POST ends, by its timeout if need be, and a coroutine goes on; replays are
\* run again and again (cron).
Fairness == /\ \A t \in Tasks : WF_vars(Step(t))
            /\ \A r \in Replayers : WF_vars(ReplayBegin(r))

Spec == Init /\ [][Next]_vars /\ Fairness

-----------------------------------------------------------------------------
TypeOK ==
  /\ task \in [Tasks -> Task]
  /\ dlq \subseteq Senders
  /\ received \in [Senders -> Nat] /\ unsettled \in [Senders -> Nat]
  /\ written \in [Senders -> Nat]
  /\ unwritten \subseteq Senders /\ overlapped \in BOOLEAN
  /\ bad \in Nat /\ crashes \in Nat

\* A send that returned has delivered its report or left an envelope, and no
\* envelope leaves the directory undelivered, however replays overlap, fail
\* and crash; only a broken disk loses a report.
DeliveredOrKept == \A s \in Senders : task[s].at = "done" =>
  received[s] > 0 \/ s \in dlq \/ s \in unwritten

\* "A failed replay must NOT write a second dead letter": the directory holds
\* one envelope per report, however often replays fail.
OneEnvelope == \A s \in Senders : written[s] <= 1

\* The receiver gets a report twice only for a reason the program cannot know
\* of: an answer that was lost, an envelope that could not be removed, a crash
\* before it was, or two replays at once.  No retry or replay repeats a
\* delivery that was noted.
NoNeedlessDuplicate == ~overlapped => \A s \in Senders :
  received[s] <= 1 + unsettled[s]

\* Once the receiver and the disk work again, every report that was being sent
\* arrives, by a retry or by a replay, unless the process stopped during its
\* send or its envelope could not be written.
EveryReportArrives == \A s \in Senders :
  task[s].at = "post" ~>
    received[s] > 0 \/ s \in unwritten \/ task[s].at = "crashed"

=============================================================================
