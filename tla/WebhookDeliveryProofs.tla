----------------------- MODULE WebhookDeliveryProofs -----------------------
(***************************************************************************)
(* Proofs about WebhookDelivery for any number of sends, replays, attempts,  *)
(* mishaps and crashes.                                                     *)
(***************************************************************************)
EXTENDS WebhookDelivery, TLAPS

\* What a task knows.
TaskInv == \A t \in Tasks :
  /\ t \in Senders =>
       /\ task[t].at \in {"new", "post", "persist", "done", "crashed"}
       /\ task[t].at \in {"post", "persist"} => task[t].about = t
  /\ t \in Replayers => task[t].at \in {"idle", "next", "post", "unlink"}
  /\ task[t].at \in {"post", "unlink"} => task[t].about \in Senders

\* An envelope is removed by a replay that has delivered it.
UnlinkInv == \A r \in Replayers :
  task[r].at = "unlink" => received[task[r].about] > 0

\* A sender writes its envelope last and once.
EnvelopeInv == \A s \in Senders :
  /\ written[s] <= 1
  /\ written[s] # 0 \/ s \in dlq => task[s].at = "done"

\* One replay at a time.
Alone == \A q, r \in Replayers :
  q # r => task[q].at = "idle" \/ task[r].at = "idle"

\* A replay works on an envelope that is there.
AtEnvelope == \A r \in Replayers :
  task[r].at \in {"post", "unlink"} => task[r].about \in dlq

\* A delivery that was noted is the last: nobody sends the report again, and if
\* its envelope is still there, its replay is about to remove it.
Noted == \A s \in Senders :
  /\ received[s] <= 1 + unsettled[s]
  /\ received[s] > unsettled[s] =>
       /\ task[s].at = "done"
       /\ \A r \in Replayers : task[r].about = s => task[r].at # "post"
       /\ s \in dlq => \E r \in Replayers :
                         task[r].at = "unlink" /\ task[r].about = s

NotedInv == ~overlapped => Alone /\ AtEnvelope /\ Noted

IInv == /\ TypeOK /\ TaskInv /\ UnlinkInv /\ EnvelopeInv /\ DeliveredOrKept
        /\ NotedInv

USE WebhookDeliveryAssumption

-----------------------------------------------------------------------------
\* Become changes one task and nothing else.
LEMMA BecomeOne ==
  ASSUME TypeOK, NEW t \in Tasks, NEW o \in Task, Become(t, o)
  PROVE  /\ task' \in [Tasks -> Task]
         /\ task'[t] = o
         /\ \A q \in Tasks : q # t => task'[q] = task[q]
BY Zenon DEF TypeOK, Become

\* The records a task may become.
LEMMA TaskTyped ==
  ASSUME TypeOK, NEW t \in Tasks
  PROVE  /\ task[t].attempt \in 1 .. MaxAttempts
         /\ task[t].todo \in SUBSET Senders
         /\ \A label \in Labels : [task[t] EXCEPT !.at = label] \in Task
         /\ \A label \in Labels : At(label) \in Task
         /\ \A s \in Senders : \A n \in 1 .. MaxAttempts :
              Posting(t, s, n) \in Task
<1>1. task[t] \in Task
  BY DEF TypeOK
<1>2. /\ task[t].attempt \in 1 .. MaxAttempts
      /\ task[t].todo \in SUBSET Senders
  BY <1>1, SMT DEF Task
<1>3. ASSUME NEW label \in Labels
      PROVE  [task[t] EXCEPT !.at = label] \in Task
  BY <1>1, SMT DEF Task
<1>4. ASSUME NEW label \in Labels
      PROVE  At(label) \in Task
  BY SMT DEF Task, At
<1>5. ASSUME NEW s \in Senders, NEW n \in 1 .. MaxAttempts
      PROVE  Posting(t, s, n) \in Task
  BY <1>2, SMT DEF Task, Posting, Labels
<1>6. QED
  BY <1>2, <1>3, <1>4, <1>5

-----------------------------------------------------------------------------
\* The initial states.
LEMMA InitIInv == Init => IInv
<1> SUFFICES ASSUME Init PROVE IInv
  OBVIOUS
<1>1. At("new") \in Task /\ At("idle") \in Task
  BY SMT DEF At, Task, Labels
<1>2. At("new").at = "new" /\ At("idle").at = "idle"
  BY DEF At
<1>3. /\ \A s \in Senders : task[s] = At("new")
      /\ \A r \in Replayers : task[r] = At("idle")
  BY SMT DEF Init, Tasks
<1>4. /\ \A s \in Senders : task[s].at = "new"
      /\ \A r \in Replayers : task[r].at = "idle"
  BY <1>2, <1>3
<1>5. task \in [Tasks -> Task]
  BY <1>1, Zenon DEF Init
<1>6. dlq = {} /\ \A s \in Senders :
                  received[s] = 0 /\ unsettled[s] = 0 /\ written[s] = 0
  BY DEF Init
<1>7. overlapped \in BOOLEAN
  BY DEF Init
<1>8. /\ received \in [Senders -> Nat] /\ unsettled \in [Senders -> Nat]
      /\ written \in [Senders -> Nat] /\ bad \in Nat /\ crashes \in Nat
      /\ dlq \subseteq Senders /\ unwritten \subseteq Senders
  BY SMT DEF Init
<1>9. TypeOK
  BY <1>5, <1>7, <1>8 DEF TypeOK
<1>10. TaskInv /\ UnlinkInv
  BY <1>4, SMT DEF TaskInv, UnlinkInv, Tasks
<1>11. EnvelopeInv /\ DeliveredOrKept
  BY <1>4, <1>6, SMT DEF EnvelopeInv, DeliveredOrKept
<1>12. NotedInv
  BY <1>4, <1>6, SMT DEF NotedInv, Alone, AtEnvelope, Noted
<1>13. QED
  BY <1>9, <1>10, <1>11, <1>12 DEF IInv

\* A task that moves on without touching the disk, to the next attempt, to its
\* end or to the next envelope.
LEMMA MoveKeeps ==
  ASSUME IInv, NEW t \in Tasks, NEW o \in Task, Become(t, o),
         UNCHANGED <<dlq, written, unwritten, overlapped>>,
         received' \in [Senders -> Nat], unsettled' \in [Senders -> Nat],
         \A s \in Senders : /\ received'[s] >= received[s]
                            /\ received'[s] + unsettled[s] =
                                 received[s] + unsettled'[s],
         bad' \in Nat, crashes' \in Nat,
         task[t].at \in {"new", "post", "next"},
         t \in Senders => o.at \in {"post", "persist"} /\ o.about = t,
         t \in Replayers =>
           \/ o.at \in {"idle", "next"}
           \/ /\ o.at = "post" /\ o.about \in Senders
              /\ ~overlapped => o.about \in dlq
              /\ task[t].at = "post" => o.about = task[t].about
  PROVE  IInv'
<1>1. /\ task' \in [Tasks -> Task]
      /\ task'[t] = o
      /\ \A q \in Tasks : q # t => task'[q] = task[q]
  BY BecomeOne DEF IInv
<1>2. TypeOK'
  BY <1>1 DEF IInv, TypeOK
<1>3. TaskInv'
  BY <1>1, SMT DEF IInv, TypeOK, TaskInv, Tasks
<1>4. UnlinkInv'
  BY <1>1, SMT DEF IInv, TypeOK, TaskInv, UnlinkInv, Tasks
<1>5. EnvelopeInv' /\ DeliveredOrKept'
  BY <1>1, SMT DEF IInv, TypeOK, TaskInv, EnvelopeInv, DeliveredOrKept, Tasks
<1>6. ASSUME ~overlapped'
      PROVE  Alone' /\ AtEnvelope' /\ Noted'
  <2>1. ~overlapped /\ Alone /\ AtEnvelope /\ Noted
    BY <1>6 DEF IInv, NotedInv
  <2>2. Alone'
    BY <2>1, <1>1, SMT DEF IInv, Alone, TaskInv, Tasks
  <2>3. AtEnvelope'
    BY <2>1, <1>1, SMT DEF AtEnvelope, Tasks
  <2>4. Noted'
    BY <2>1, <1>1, SMT DEF IInv, TypeOK, TaskInv, EnvelopeInv, Alone, Noted,
                           Tasks
  <2>5. QED
    BY <2>2, <2>3, <2>4
<1>7. QED
  BY <1>2, <1>3, <1>4, <1>5, <1>6 DEF IInv, NotedInv

-----------------------------------------------------------------------------
\* send.
LEMMA SendKeeps == ASSUME IInv, NEW s \in Senders, Send(s) PROVE IInv'
<1>1. s \in Tasks /\ s \notin Replayers
  BY DEF Tasks, WebhookDeliveryAssumption
<1>2. Posting(s, s, 1) \in Task
  BY <1>1, TaskTyped, SMT DEF IInv, WebhookDeliveryAssumption
<1>3. Posting(s, s, 1).at = "post" /\ Posting(s, s, 1).about = s
  BY DEF Posting
<1>4. /\ received' = received /\ unsettled' = unsettled
      /\ UNCHANGED <<dlq, written, unwritten, overlapped>>
      /\ bad' \in Nat /\ crashes' \in Nat
  BY DEF Send, counts, IInv, TypeOK
<1>5. /\ received' \in [Senders -> Nat] /\ unsettled' \in [Senders -> Nat]
      /\ \A q \in Senders : /\ received'[q] >= received[q]
                            /\ received'[q] + unsettled[q] =
                                 received[q] + unsettled'[q]
  BY <1>4, SMT DEF IInv, TypeOK
<1>6. QED
  BY <1>1, <1>2, <1>3, <1>4, <1>5, MoveKeeps DEF Send

\* What a POST that failed leads to.
LEMMA AfterFailure ==
  ASSUME IInv, NEW t \in Tasks, task[t].at = "post", Transient(t) \/ Failed(t)
  PROVE  \E o \in Task :
           /\ Become(t, o) /\ o.about = task[t].about
           /\ o.at \in IF t \in Senders THEN {"post", "persist"}
                       ELSE {"post", "next"}
<1> DEFINE failed == [task[t] EXCEPT !.at = IF t \in Senders THEN "persist"
                                            ELSE "next"]
           again == Posting(t, task[t].about, task[t].attempt + 1)
<1>1. CASE Failed(t)
  <2>1. failed \in Task
    BY TaskTyped DEF IInv, Labels
  <2>2. task[t] \in Task
    BY DEF IInv, TypeOK
  <2>3. /\ failed.about = task[t].about
        /\ failed.at = IF t \in Senders THEN "persist" ELSE "next"
    BY <2>2, SMT DEF Task
  <2>4. Become(t, failed)
    BY <1>1 DEF Failed
  <2> HIDE DEF failed
  <2>5. failed.at \in IF t \in Senders THEN {"post", "persist"}
                     ELSE {"post", "next"}
    BY <2>3, SMT
  <2>6. QED
    BY <2>1, <2>3, <2>4, <2>5, Zenon
<1>2. CASE Transient(t) /\ ~Failed(t)
  <2>1. task[t].attempt < MaxAttempts /\ Become(t, again)
    BY <1>2 DEF Transient
  <2>2. /\ task[t].attempt \in 1 .. MaxAttempts /\ MaxAttempts \in Nat
        /\ task[t].about \in Senders
    BY TaskTyped DEF IInv, TaskInv, WebhookDeliveryAssumption
  <2>3. task[t].attempt + 1 \in 1 .. MaxAttempts
    BY <2>1, <2>2, SMT
  <2>4. again \in Task
    BY <2>2, <2>3, TaskTyped DEF IInv
  <2>5. again.at = "post" /\ again.about = task[t].about
    BY DEF Posting
  <2>6. QED
    BY <2>1, <2>4, <2>5
<1>3. QED
  BY <1>1, <1>2

\* A POST that failed, and one whose answer was lost.
LEMMA FailureKeeps ==
  ASSUME IInv, NEW t \in Tasks, task[t].at = "post",
         Transient(t) \/ Failed(t),
         UNCHANGED <<dlq, written, unwritten, overlapped>>,
         received' \in [Senders -> Nat], unsettled' \in [Senders -> Nat],
         \A s \in Senders : /\ received'[s] >= received[s]
                            /\ received'[s] + unsettled[s] =
                                 received[s] + unsettled'[s],
         bad' \in Nat, crashes' \in Nat
  PROVE  IInv'
<1>1. PICK o \in Task :
        /\ Become(t, o) /\ o.about = task[t].about
        /\ o.at \in IF t \in Senders THEN {"post", "persist"}
                    ELSE {"post", "next"}
  BY AfterFailure
<1>2. task[t].about \in Senders /\ (t \in Senders => task[t].about = t)
  BY DEF IInv, TaskInv
<1>3. t \in Replayers => t \notin Senders
  BY DEF WebhookDeliveryAssumption
<1>4. t \in Replayers => (~overlapped => task[t].about \in dlq)
  BY DEF IInv, NotedInv, AtEnvelope
<1>5. t \in Senders => o.at \in {"post", "persist"} /\ o.about = t
  BY <1>1, <1>2
<1>6. t \in Replayers =>
        \/ o.at \in {"idle", "next"}
        \/ /\ o.at = "post" /\ o.about \in Senders
           /\ ~overlapped => o.about \in dlq
           /\ task[t].at = "post" => o.about = task[t].about
  BY <1>1, <1>2, <1>3, <1>4
<1>7. QED
  BY <1>1, <1>5, <1>6, MoveKeeps

LEMMA MishapTyped == ASSUME IInv, Mishap PROVE bad' \in Nat
BY SMT DEF IInv, TypeOK, Mishap

LEMMA UnavailableKeeps ==
  ASSUME IInv, NEW t \in Tasks, Unavailable(t) \/ Rejected(t) PROVE IInv'
<1>1. /\ task[t].at = "post" /\ (Transient(t) \/ Failed(t))
      /\ received' = received /\ unsettled' = unsettled
      /\ UNCHANGED <<dlq, written, unwritten, overlapped>>
      /\ crashes' \in Nat /\ Mishap
  BY DEF Unavailable, Rejected, counts, IInv, TypeOK
<1>2. /\ received' \in [Senders -> Nat] /\ unsettled' \in [Senders -> Nat]
      /\ \A q \in Senders : /\ received'[q] >= received[q]
                            /\ received'[q] + unsettled[q] =
                                 received[q] + unsettled'[q]
  BY <1>1, SMT DEF IInv, TypeOK
<1>3. bad' \in Nat
  BY <1>1, MishapTyped
<1>4. QED
  BY <1>1, <1>2, <1>3, FailureKeeps

LEMMA AnswerLostKeeps ==
  ASSUME IInv, NEW t \in Tasks, AnswerLost(t) PROVE IInv'
<1>1. /\ task[t].at = "post" /\ Transient(t)
      /\ UNCHANGED <<dlq, written, unwritten, overlapped>>
      /\ crashes' \in Nat /\ Mishap
  BY DEF AnswerLost, IInv, TypeOK
<1>2. /\ received' = [received EXCEPT ![task[t].about] = @ + 1]
      /\ unsettled' = [unsettled EXCEPT ![task[t].about] = @ + 1]
  BY DEF AnswerLost
<1>3. /\ received' \in [Senders -> Nat] /\ unsettled' \in [Senders -> Nat]
      /\ \A q \in Senders : /\ received'[q] >= received[q]
                            /\ received'[q] + unsettled[q] =
                                 received[q] + unsettled'[q]
  <2>1. received \in [Senders -> Nat] /\ unsettled \in [Senders -> Nat]
    BY DEF IInv, TypeOK
  <2>2. task[t].about \in Senders
    BY <1>1 DEF IInv, TaskInv
  <2>3. QED
    BY <1>2, <2>1, <2>2, SMT
<1>4. bad' \in Nat
  BY <1>1, MishapTyped
<1>5. QED
  BY <1>1, <1>3, <1>4, FailureKeeps

\* 2xx: the delivery is noted, by the sender that is done or by the replay that
\* will remove the envelope.
LEMMA AcceptedKeeps == ASSUME IInv, NEW t \in Tasks, Accepted(t) PROVE IInv'
<1> DEFINE s == task[t].about
           o == [task[t] EXCEPT !.at = IF t \in Senders THEN "done"
                                       ELSE "unlink"]
<1>1. /\ task[t].at = "post" /\ s \in Senders
      /\ t \in Senders => s = t
      /\ t \in Replayers => t \notin Senders
  BY DEF Accepted, IInv, TaskInv, WebhookDeliveryAssumption
<1>2. o \in Task
  BY TaskTyped DEF IInv, Labels
<1>3. task[t] \in Task
  BY DEF IInv, TypeOK
<1>4. o.about = s /\ o.at = IF t \in Senders THEN "done" ELSE "unlink"
  <2>1. /\ o.about = s
        /\ o.at = IF t \in Senders THEN "done" ELSE "unlink"
    BY <1>3, SMT DEF Task
  <2>2. QED
    BY <2>1
<1> HIDE DEF o
<1>5. /\ task' \in [Tasks -> Task]
      /\ task'[t] = o
      /\ \A q \in Tasks : q # t => task'[q] = task[q]
  BY <1>2, BecomeOne DEF IInv, Accepted, o
<1>6. UNCHANGED <<dlq, unsettled, written, unwritten, overlapped, bad, crashes>>
  BY DEF Accepted
<1>7. /\ received' \in [Senders -> Nat]
      /\ received'[s] = received[s] + 1
      /\ \A q \in Senders : q # s => received'[q] = received[q]
  BY <1>1, SMT DEF Accepted, IInv, TypeOK
<1> HIDE DEF s
<1>8. TypeOK'
  BY <1>5, <1>6, <1>7 DEF IInv, TypeOK
<1>9. TaskInv'
  BY <1>1, <1>4, <1>5, SMT DEF IInv, TaskInv, Tasks
<1>10. UnlinkInv'
  BY <1>1, <1>4, <1>5, <1>7, SMT DEF IInv, TypeOK, TaskInv, UnlinkInv, Tasks
<1>11. EnvelopeInv' /\ DeliveredOrKept'
  BY <1>1, <1>4, <1>5, <1>6, <1>7, SMT
     DEF IInv, TypeOK, EnvelopeInv, DeliveredOrKept, Tasks
<1>12. ASSUME ~overlapped'
       PROVE  Alone' /\ AtEnvelope' /\ Noted'
  <2>1. ~overlapped /\ Alone /\ AtEnvelope /\ Noted
    BY <1>6, <1>12 DEF IInv, NotedInv
  <2>2. Alone'
    BY <2>1, <1>1, <1>5, SMT DEF Alone, Tasks
  <2>3. AtEnvelope'
    BY <2>1, <1>1, <1>4, <1>5, <1>6, SMT DEF AtEnvelope, Tasks, s
  <2>4. received[s] <= unsettled[s]
    BY <2>1, <1>1, SMT DEF Noted, IInv, TypeOK, Tasks, s
  <2>5. Noted'
    BY <2>1, <2>4, <1>1, <1>4, <1>5, <1>6, <1>7, SMT
       DEF IInv, TypeOK, TaskInv, EnvelopeInv, Alone, AtEnvelope, Noted, Tasks, s
  <2>6. QED
    BY <2>2, <2>3, <2>5
<1>13. QED
  BY <1>8, <1>9, <1>10, <1>11, <1>12 DEF IInv, NotedInv

\* A sender writes its envelope, or cannot.
LEMMA PersistKeeps == ASSUME IInv, NEW t \in Tasks, Persist(t) PROVE IInv'
<1> DEFINE o == [task[t] EXCEPT !.at = "done"]
<1>1. task[t].at = "persist" /\ t \in Senders /\ task[t].about = t
  BY DEF Persist, IInv, TaskInv, Tasks
<1>2. o \in Task
  BY TaskTyped DEF IInv, Labels
<1>3. task[t] \in Task
  BY DEF IInv, TypeOK
<1>4. o.at = "done"
  BY <1>3, SMT DEF Task
<1>5. Become(t, o)
  BY <1>1, SMT DEF Persist, Become
<1> HIDE DEF o
<1>6. /\ task' \in [Tasks -> Task]
      /\ task'[t] = o
      /\ \A q \in Tasks : q # t => task'[q] = task[q]
  BY <1>2, <1>5, BecomeOne DEF IInv
<1>7. UNCHANGED <<received, unsettled, overlapped, crashes>>
  BY DEF Persist
<1>8. /\ dlq' \subseteq Senders /\ unwritten' \subseteq Senders
      /\ written' \in [Senders -> Nat] /\ bad' \in Nat
      /\ t \in dlq' \/ t \in unwritten'
      /\ written'[t] \in {written[t], written[t] + 1}
      /\ \A s \in Senders : s # t =>
           /\ written'[s] = written[s]
           /\ s \in dlq' <=> s \in dlq
           /\ s \in unwritten' <=> s \in unwritten
      /\ dlq \subseteq dlq'
  <2>1. /\ dlq \subseteq Senders /\ unwritten \subseteq Senders
        /\ written \in [Senders -> Nat] /\ bad \in Nat
    BY DEF IInv, TypeOK
  <2>2. CASE /\ dlq' = dlq \cup {t}
             /\ written' = [written EXCEPT ![t] = @ + 1]
             /\ UNCHANGED <<unwritten, bad>>
    BY <1>1, <2>1, <2>2, SMT
  <2>3. CASE /\ Mishap
             /\ unwritten' = unwritten \cup {t}
             /\ UNCHANGED <<dlq, written>>
    <3>1. bad' \in Nat
      BY <2>3, MishapTyped
    <3>2. QED
      BY <1>1, <2>1, <2>3, <3>1, SMT
  <2>4. QED
    BY <1>1, <2>2, <2>3 DEF Persist
<1>9. TypeOK'
  BY <1>6, <1>7, <1>8 DEF IInv, TypeOK
<1>10. TaskInv' /\ UnlinkInv'
  BY <1>1, <1>4, <1>6, <1>7, SMT
     DEF IInv, TaskInv, UnlinkInv, Tasks, WebhookDeliveryAssumption
<1>11. EnvelopeInv' /\ DeliveredOrKept'
  BY <1>1, <1>4, <1>6, <1>7, <1>8, SMT
     DEF IInv, TypeOK, EnvelopeInv, DeliveredOrKept, Tasks
<1>12. ASSUME ~overlapped'
       PROVE  Alone' /\ AtEnvelope' /\ Noted'
  <2>1. Alone /\ AtEnvelope /\ Noted
    BY <1>7, <1>12 DEF IInv, NotedInv
  <2>2. \A r \in Replayers : task'[r] = task[r]
    BY <1>1, <1>6 DEF Tasks, WebhookDeliveryAssumption
  <2>3. Alone'
    BY <2>1, <2>2, SMT DEF Alone
  <2>4. AtEnvelope'
    BY <2>1, <2>2, <1>8, SMT DEF AtEnvelope
  <2>5. Noted'
    BY <2>1, <2>2, <1>1, <1>4, <1>6, <1>7, <1>8, SMT
       DEF IInv, TypeOK, Noted, Tasks
  <2>6. QED
    BY <2>3, <2>4, <2>5
<1>13. QED
  BY <1>9, <1>10, <1>11, <1>12 DEF IInv, NotedInv

-----------------------------------------------------------------------------
\* replay_dead_letters.
LEMMA ReplayBeginKeeps ==
  ASSUME IInv, NEW r \in Replayers, ReplayBegin(r) PROVE IInv'
<1> DEFINE o == [At("next") EXCEPT !.todo = Listed]
<1>1. r \in Tasks /\ r \notin Senders /\ task[r].at = "idle"
  BY DEF Tasks, ReplayBegin, WebhookDeliveryAssumption
<1>2. At("next") \in Task /\ Listed \in SUBSET Senders
  BY <1>1, TaskTyped DEF IInv, TypeOK, Labels, Listed
<1>3. o \in Task /\ o.at = "next"
  <2>1. At("next").at = "next"
    BY DEF At
  <2>2. QED
    BY <1>2, <2>1, SMT DEF Task
<1>4. Become(r, o)
  BY DEF ReplayBegin
<1> HIDE DEF o
<1>5. /\ task' \in [Tasks -> Task]
      /\ task'[r] = o
      /\ \A q \in Tasks : q # r => task'[q] = task[q]
  BY <1>1, <1>3, <1>4, BecomeOne DEF IInv
<1>6. UNCHANGED <<dlq, received, unsettled, written, unwritten, bad, crashes>>
  BY DEF ReplayBegin
<1>7. overlapped' \in BOOLEAN
  BY DEF ReplayBegin, IInv, TypeOK
<1>8. TypeOK'
  BY <1>5, <1>6, <1>7 DEF IInv, TypeOK
<1>9. TaskInv' /\ UnlinkInv'
  BY <1>1, <1>3, <1>5, <1>6, SMT DEF IInv, TaskInv, UnlinkInv, Tasks
<1>10. EnvelopeInv' /\ DeliveredOrKept'
  BY <1>1, <1>5, <1>6, SMT DEF IInv, EnvelopeInv, DeliveredOrKept, Tasks
<1>11. ASSUME ~overlapped'
       PROVE  Alone' /\ AtEnvelope' /\ Noted'
  <2>1. ~overlapped /\ \A q \in Replayers : task[q].at = "idle"
    BY <1>11 DEF ReplayBegin
  <2>2. AtEnvelope /\ Noted
    BY <2>1 DEF IInv, NotedInv
  <2>3. Alone' /\ AtEnvelope'
    BY <2>1, <1>3, <1>5, SMT DEF Alone, AtEnvelope, Tasks
  <2>4. Noted'
    BY <2>1, <2>2, <1>1, <1>3, <1>5, <1>6, SMT DEF Noted, Tasks
  <2>5. QED
    BY <2>3, <2>4
<1>12. QED
  BY <1>8, <1>9, <1>10, <1>11 DEF IInv, NotedInv

LEMMA ReplayNextKeeps ==
  ASSUME IInv, NEW t \in Tasks, ReplayNext(t) PROVE IInv'
<1>1. t \in Replayers /\ t \notin Senders /\ task[t].at = "next"
  BY DEF ReplayNext, IInv, TaskInv, Tasks, WebhookDeliveryAssumption
<1>2. /\ received' = received /\ unsettled' = unsettled
      /\ UNCHANGED <<dlq, written, unwritten, overlapped>>
      /\ bad' \in Nat /\ crashes' \in Nat
  BY DEF ReplayNext, counts, IInv, TypeOK
<1>3. /\ received' \in [Senders -> Nat] /\ unsettled' \in [Senders -> Nat]
      /\ \A q \in Senders : /\ received'[q] >= received[q]
                            /\ received'[q] + unsettled[q] =
                                 received[q] + unsettled'[q]
  <2>1. received \in [Senders -> Nat] /\ unsettled \in [Senders -> Nat]
    BY DEF IInv, TypeOK
  <2>2. QED
    BY <1>2, <2>1, SMT
<1>4. CASE Become(t, At("idle"))
  <2>1. At("idle") \in Task /\ At("idle").at = "idle"
    BY TaskTyped DEF IInv, Labels, At
  <2>2. QED
    BY <1>1, <1>2, <1>3, <1>4, <2>1, MoveKeeps
<1>5. ASSUME NEW s \in task[t].todo,
             Become(t, [at |-> IF s \in dlq THEN "post" ELSE "next",
                        about |-> s, attempt |-> 1,
                        todo |-> task[t].todo \ {s}])
      PROVE  IInv'
  <2> DEFINE o == [at |-> IF s \in dlq THEN "post" ELSE "next",
                   about |-> s, attempt |-> 1, todo |-> task[t].todo \ {s}]
  <2>1. s \in Senders /\ task[t].todo \in SUBSET Senders
    BY TaskTyped DEF IInv
  <2>2. 1 \in 1 .. MaxAttempts
    BY SMT DEF WebhookDeliveryAssumption
  <2>3. o \in Task
    BY <2>1, <2>2, SMT DEF Task, Labels
  <2>4. o.about = s /\ o.at = IF s \in dlq THEN "post" ELSE "next"
    OBVIOUS
  <2>5. Become(t, o)
    BY <1>5
  <2> HIDE DEF o
  <2>6. \/ o.at \in {"idle", "next"}
        \/ /\ o.at = "post" /\ o.about \in Senders
           /\ ~overlapped => o.about \in dlq
           /\ task[t].at = "post" => o.about = task[t].about
    BY <1>1, <2>1, <2>4
  <2>7. QED
    BY <1>1, <1>2, <1>3, <2>3, <2>5, <2>6, MoveKeeps
<1>6. QED
  BY <1>4, <1>5 DEF ReplayNext

\* The envelope that is removed has been delivered.
LEMMA UnlinkKeeps == ASSUME IInv, NEW t \in Tasks, Unlink(t) PROVE IInv'
<1> DEFINE s == task[t].about
           o == [task[t] EXCEPT !.at = "next"]
<1>1. /\ t \in Replayers /\ t \notin Senders /\ task[t].at = "unlink"
      /\ s \in Senders
  BY DEF Unlink, IInv, TaskInv, Tasks, WebhookDeliveryAssumption
<1>2. o \in Task
  BY TaskTyped DEF IInv, Labels
<1>3. task[t] \in Task
  BY DEF IInv, TypeOK
<1>4. o.at = "next"
  BY <1>3, SMT DEF Task
<1>5. Become(t, o)
  BY DEF Unlink
<1> HIDE DEF o
<1>6. /\ task' \in [Tasks -> Task]
      /\ task'[t] = o
      /\ \A q \in Tasks : q # t => task'[q] = task[q]
  BY <1>2, <1>5, BecomeOne DEF IInv
<1>7. UNCHANGED <<received, written, unwritten, overlapped, crashes>>
  BY DEF Unlink
<1>8. /\ dlq' \subseteq dlq /\ dlq \ {s} \subseteq dlq'
      /\ unsettled' \in [Senders -> Nat] /\ bad' \in Nat
      /\ \A q \in Senders : /\ unsettled'[q] >= unsettled[q]
                            /\ q # s => unsettled'[q] = unsettled[q]
      /\ s \in dlq' => unsettled'[s] = unsettled[s] + 1
  <2>1. unsettled \in [Senders -> Nat] /\ bad \in Nat
    BY DEF IInv, TypeOK
  <2>2. CASE RemoveEnvelope(s) /\ UNCHANGED <<unsettled, bad>>
    <3>1. dlq' = dlq \ {s}
      BY <2>2 DEF RemoveEnvelope
    <3>2. QED
      BY <1>1, <2>1, <2>2, <3>1, SMT
  <2>3. CASE /\ Mishap
             /\ unsettled' = [unsettled EXCEPT ![s] = @ + 1]
             /\ UNCHANGED dlq
    <3>1. bad' \in Nat
      BY <2>3, MishapTyped
    <3>2. QED
      BY <1>1, <2>1, <2>3, <3>1, SMT
  <2>4. QED
    BY <2>2, <2>3 DEF Unlink
<1>9. received[s] > 0
  BY <1>1 DEF IInv, UnlinkInv
<1>10. TypeOK'
  BY <1>6, <1>7, <1>8 DEF IInv, TypeOK
<1>11. TaskInv' /\ UnlinkInv'
  BY <1>1, <1>4, <1>6, <1>7, SMT DEF IInv, TaskInv, UnlinkInv, Tasks
<1> HIDE DEF s
<1>12. EnvelopeInv' /\ DeliveredOrKept'
  BY <1>1, <1>6, <1>7, <1>8, <1>9, SMT
     DEF IInv, EnvelopeInv, DeliveredOrKept, Tasks
<1>13. ASSUME ~overlapped'
       PROVE  Alone' /\ AtEnvelope' /\ Noted'
  <2>1. Alone /\ AtEnvelope /\ Noted
    BY <1>7, <1>13 DEF IInv, NotedInv
  <2>2. \A q \in Replayers : q # t => task'[q] = task[q] /\ task[q].at = "idle"
    BY <2>1, <1>1, <1>6 DEF Alone, Tasks
  <2>3. Alone' /\ AtEnvelope'
    BY <2>2, <1>1, <1>4, <1>6, SMT DEF Alone, AtEnvelope
  <2>4. ASSUME NEW q \in Senders
        PROVE  /\ received'[q] <= 1 + unsettled'[q]
               /\ received'[q] > unsettled'[q] =>
                    task'[q].at = "done" /\ q \notin dlq'
    <3>1. /\ received[q] \in Nat /\ unsettled[q] \in Nat
          /\ unsettled'[q] \in Nat /\ received'[q] = received[q]
      BY <1>7, <1>8 DEF IInv, TypeOK
    <3>2. task'[q] = task[q]
      BY <1>1, <1>6 DEF Tasks
    <3>3. /\ received[q] <= 1 + unsettled[q]
          /\ received[q] > unsettled[q] =>
               /\ task[q].at = "done"
               /\ q \in dlq => \E r \in Replayers :
                                  task[r].at = "unlink" /\ task[r].about = q
      BY <2>1 DEF Noted
    <3>4. received[q] > unsettled[q] /\ q \in dlq => q = s
      BY <3>3, <2>2 DEF s
    <3>5. q = s /\ q \in dlq' => unsettled'[q] = unsettled[q] + 1
      BY <1>8
    <3>6. unsettled'[q] >= unsettled[q] /\ (q \in dlq' => q \in dlq)
      BY <1>8
    <3>7. QED
      BY <3>1, <3>2, <3>3, <3>4, <3>5, <3>6, SMT
  <2>5. \A r \in Replayers : task'[r].at # "post"
    BY <2>2, <1>4, <1>6
  <2>6. Noted'
    BY <2>4, <2>5 DEF Noted
  <2>7. QED
    BY <2>3, <2>6
<1>14. QED
  BY <1>10, <1>11, <1>12, <1>13 DEF IInv, NotedInv

-----------------------------------------------------------------------------
\* The process stops.
LEMMA CrashKeeps == ASSUME IInv, Crash PROVE IInv'
<1>1. UNCHANGED <<dlq, received, written, unwritten, overlapped, bad>>
  BY DEF Crash
<1>2. /\ At("idle") \in Task /\ At("crashed") \in Task
      /\ At("idle").at = "idle" /\ At("crashed").at = "crashed"
  <2>1. 1 \in 1 .. MaxAttempts
    BY SMT DEF WebhookDeliveryAssumption
  <2>2. QED
    BY <2>1, SMT DEF At, Task, Labels
<1>3. /\ \A r \in Replayers : task'[r] = At("idle")
      /\ \A s \in Senders :
           task'[s] = IF task[s].at \in {"post", "persist"} THEN At("crashed")
                      ELSE task[s]
  BY SMT DEF Crash, Tasks, WebhookDeliveryAssumption
<1>4. task' \in [Tasks -> Task]
  BY <1>2, Zenon DEF Crash, IInv, TypeOK
<1>5. /\ unsettled' \in [Senders -> Nat] /\ crashes' \in Nat
      /\ \A s \in Senders :
           /\ unsettled'[s] >= unsettled[s]
           /\ (\E r \in Replayers : task[r].at = "unlink" /\ task[r].about = s)
                => unsettled'[s] = unsettled[s] + 1
  <2>1. unsettled \in [Senders -> Nat] /\ crashes \in Nat
    BY DEF IInv, TypeOK
  <2>2. QED
    BY <2>1, SMT DEF Crash
<1>6. TypeOK'
  BY <1>1, <1>4, <1>5 DEF IInv, TypeOK
<1>7. TaskInv' /\ UnlinkInv'
  BY <1>1, <1>2, <1>3, SMT
     DEF IInv, TaskInv, UnlinkInv, Tasks, WebhookDeliveryAssumption
<1>8. EnvelopeInv' /\ DeliveredOrKept'
  BY <1>1, <1>2, <1>3, SMT DEF IInv, EnvelopeInv, DeliveredOrKept
<1>9. ASSUME ~overlapped'
      PROVE  Alone' /\ AtEnvelope' /\ Noted'
  <2>1. Noted
    BY <1>1, <1>9 DEF IInv, NotedInv
  <2>2. Alone' /\ AtEnvelope'
    BY <1>2, <1>3, SMT DEF Alone, AtEnvelope
  <2>3. ASSUME NEW s \in Senders
        PROVE  /\ received'[s] <= 1 + unsettled'[s]
               /\ received'[s] > unsettled'[s] =>
                    task'[s].at = "done" /\ s \notin dlq'
    <3>1. /\ received[s] \in Nat /\ unsettled[s] \in Nat
          /\ unsettled'[s] \in Nat
      BY <1>5 DEF IInv, TypeOK
    <3>2. /\ received[s] <= 1 + unsettled[s]
          /\ received[s] > unsettled[s] =>
               /\ task[s].at = "done"
               /\ s \in dlq => \E r \in Replayers :
                                  task[r].at = "unlink" /\ task[r].about = s
      BY <2>1 DEF Noted
    <3>3. task[s].at = "done" => task'[s].at = "done"
      BY <1>3
    <3>4. QED
      BY <1>1, <1>5, <3>1, <3>2, <3>3, SMT
  <2>4. \A r \in Replayers : task'[r].at # "post"
    BY <1>2, <1>3
  <2>5. Noted'
    BY <2>3, <2>4 DEF Noted
  <2>6. QED
    BY <2>2, <2>5
<1>10. QED
  BY <1>6, <1>7, <1>8, <1>9 DEF IInv, NotedInv

LEMMA NextKeepsIInv == IInv /\ [Next]_vars => IInv'
<1> SUFFICES ASSUME IInv, [Next]_vars PROVE IInv'
  OBVIOUS
<1>1. CASE UNCHANGED vars
  BY <1>1 DEF vars, counts, IInv, TypeOK, TaskInv, UnlinkInv, EnvelopeInv,
              DeliveredOrKept, NotedInv, Alone, AtEnvelope, Noted
<1>2. ASSUME NEW s \in Senders, Send(s) PROVE IInv'
  BY <1>2, SendKeeps
<1>3. ASSUME NEW r \in Replayers, ReplayBegin(r) PROVE IInv'
  BY <1>3, ReplayBeginKeeps
<1>4. ASSUME NEW t \in Tasks, Step(t) PROVE IInv'
  BY <1>4, AcceptedKeeps, AnswerLostKeeps, UnavailableKeeps, PersistKeeps,
     ReplayNextKeeps, UnlinkKeeps DEF Step
<1>5. CASE Crash
  BY <1>5, CrashKeeps
<1>6. QED
  BY <1>1, <1>2, <1>3, <1>4, <1>5 DEF Next

-----------------------------------------------------------------------------
\* The inductive invariant holds in every reachable state, for any number of
\* sends, replays, attempts, mishaps and crashes.
THEOREM IInvariant == Spec => []IInv
<1>1. QED
  BY InitIInv, NextKeepsIInv, PTL DEF Spec

\* Every variable keeps its type; no send makes more than max_attempts attempts.
THEOREM TypeCorrect == Spec => []TypeOK
<1>1. IInv => TypeOK
  BY DEF IInv
<1>2. QED
  BY <1>1, IInvariant, PTL

\* A send that returned has delivered its report or left an envelope that only
\* a delivery removes, unless the envelope could not be written.
THEOREM NothingDropped == Spec => []DeliveredOrKept
<1>1. IInv => DeliveredOrKept
  BY DEF IInv
<1>2. QED
  BY <1>1, IInvariant, PTL

\* However often replays fail, they write no second envelope.
THEOREM NoGrowth == Spec => []OneEnvelope
<1>1. IInv => OneEnvelope
  BY DEF IInv, EnvelopeInv, OneEnvelope
<1>2. QED
  BY <1>1, IInvariant, PTL

\* As long as replays do not overlap, the receiver gets a report twice only
\* after a delivery the program could not note.
THEOREM NoRepeat == Spec => []NoNeedlessDuplicate
<1>1. IInv => NoNeedlessDuplicate
  BY DEF IInv, NotedInv, Noted, NoNeedlessDuplicate
<1>2. QED
  BY <1>1, IInvariant, PTL

=============================================================================
