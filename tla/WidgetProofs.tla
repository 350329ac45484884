----------------------------- MODULE WidgetProofs -----------------------------
(***************************************************************************)
(* The browser widget, for any number of overlays, log entries, cooldowns    *)
(* and calls of destroy: no report is sent again once the server is known to *)
(* have it, destroy forgets what was logged, the types hold, and overlays    *)
(* used one at a time do not disturb each other.                            *)
(***************************************************************************)
EXTENDS Widget, FiniteSetTheorems, SequenceTheorems, TLAPS

\* The drafts as records, with no bound on how often one is submitted.
Records == [opened : BOOLEAN, ready : BOOLEAN, encoding : Nat, posting : Nat,
            sent : BOOLEAN, taken : Nat, lost : Nat, context : SUBSET Notes]

\* The submissions of an overlay one after the other: its button is enabled
\* only at rest and before a success, and what the server took beyond the
\* answers that were lost is that one success.
InTurn(x) ==
  /\ x.encoding + x.posting <= 1
  /\ x.ready => x.encoding + x.posting = 0 /\ ~x.sent
  /\ x.sent => x.encoding + x.posting = 0
  /\ ~x.opened => x.encoding + x.posting = 0 /\ ~x.sent /\ ~x.ready
  /\ x.taken = x.lost + (IF x.sent THEN 1 ELSE 0)

DraftInv ==
  /\ draft \in [Drafts -> Records]
  /\ \A d \in Drafts : InTurn(draft[d])

\* Overlays open in the order of their numbers, so the next one is a new one.
OpenedInOrder == \E k \in Nat : k <= MaxDrafts /\ \A d \in Drafts : draft[d].opened <=> d <= k

\* Every entry has begun, and the ones that can still be sent or logged are of
\* this life of the widget or were under way at a destroy.
Begun == 1..Len(notes)

OfThisLife(n) == n \in Begun /\ (notes[n] = lives \/ n \in late)

NotesInv ==
  /\ notes \in Seq(Nat) /\ Len(notes) <= MaxNotes /\ lives \in Nat
  /\ buffer \in [errors : Seq(Nat), network : Seq(Nat)]
  /\ \A n \in pending : OfThisLife(n)
  /\ \A n \in Logged(buffer) : OfThisLife(n)

SentInv == DraftInv /\ OpenedInOrder

IInv == SentInv /\ NotesInv

-----------------------------------------------------------------------------
(* The submissions.                                                        *)

\* The drafts' invariant holds at first.
LEMMA InitSent == Init => SentInv
<1>. SUFFICES ASSUME Init PROVE SentInv
  OBVIOUS
<1>1. DraftInv
  BY DEF Init, DraftInv, Records, InTurn, Unopened
<1>2. OpenedInOrder
  <2>1. \A d \in Drafts : ~draft[d].opened /\ ~(d <= 0)
    BY DEF Init, Unopened, Drafts
  <2>2. 0 \in Nat /\ 0 <= MaxDrafts
    BY WidgetAssumption
  <2>. QED BY <2>1, <2>2 DEF OpenedInOrder
<1>. QED BY <1>1, <1>2 DEF SentInv

\* A step that changes one draft, keeps it in turn and opens none.
LEMMA OneDraft ==
  ASSUME SentInv, NEW d \in Drafts, draft' \in [Drafts -> Records],
         \A e \in Drafts \ {d} : draft'[e] = draft[e],
         draft'[d].opened = draft[d].opened, InTurn(draft'[d])
  PROVE  SentInv'
<1>1. \A e \in Drafts : InTurn(draft'[e])
  BY DEF SentInv, DraftInv
<1>2. DraftInv'
  BY <1>1 DEF DraftInv
<1>3. PICK k \in Nat : k <= MaxDrafts /\ \A e \in Drafts : draft[e].opened <=> e <= k
  BY DEF SentInv, OpenedInOrder
<1>4. \A e \in Drafts : draft'[e].opened <=> e <= k
  BY <1>3
<1>5. OpenedInOrder'
  BY <1>3, <1>4 DEF OpenedInOrder
<1>. QED BY <1>2, <1>5 DEF SentInv

\* An enabled button has nothing under way and nothing sent: submitting keeps
\* the turn.
LEMMA SubmitSent ==
  ASSUME SentInv, NEW d \in Drafts, Submit(d) PROVE SentInv'
<1>1. draft \in [Drafts -> Records] /\ InTurn(draft[d]) /\ draft[d].ready
  BY DEF SentInv, DraftInv, Submit, Submittable
<1>2. draft' = [draft EXCEPT ![d].ready = FALSE, ![d].encoding = @ + 1]
  BY DEF Submit
<1>3. draft' \in [Drafts -> Records]
  BY <1>1, <1>2 DEF Records
<1>4. \A e \in Drafts \ {d} : draft'[e] = draft[e]
  BY <1>1, <1>2 DEF Records
<1>5. draft'[d].opened = draft[d].opened /\ InTurn(draft'[d])
  BY <1>1, <1>2 DEF Records, InTurn
<1>. QED BY <1>3, <1>4, <1>5, OneDraft

\* An encoded submission becomes a request.
LEMMA PostSent ==
  ASSUME SentInv, NEW d \in Drafts, Post(d) PROVE SentInv'
<1>1. draft \in [Drafts -> Records] /\ InTurn(draft[d]) /\ draft[d].encoding > 0
  BY DEF SentInv, DraftInv, Post
<1>2. draft' = [draft EXCEPT ![d].encoding = @ - 1, ![d].posting = @ + 1]
  BY DEF Post
<1>3. draft' \in [Drafts -> Records]
  BY <1>1, <1>2 DEF Records
<1>4. \A e \in Drafts \ {d} : draft'[e] = draft[e]
  BY <1>1, <1>2 DEF Records
<1>5. draft'[d].opened = draft[d].opened /\ InTurn(draft'[d])
  BY <1>1, <1>2 DEF Records, InTurn
<1>. QED BY <1>3, <1>4, <1>5, OneDraft

\* A failure enables the button, and what was under way is over by then.
LEMMA BlobFailsSent ==
  ASSUME SentInv, NEW d \in Drafts, BlobFails(d) PROVE SentInv'
<1>1. draft \in [Drafts -> Records] /\ InTurn(draft[d]) /\ draft[d].encoding > 0
  BY DEF SentInv, DraftInv, BlobFails
<1>2. PICK on \in BOOLEAN : on /\ draft' = [draft EXCEPT ![d].encoding = @ - 1, ![d].ready = on]
  BY Zenon DEF BlobFails
<1>0. draft[d].encoding - 1 \in Nat /\ draft[d].taken \in Nat /\ draft[d].lost \in Nat
  BY <1>1 DEF Records
<1>3. draft' \in [Drafts -> Records]
  BY <1>0, <1>1, <1>2 DEF Records
<1>4. \A e \in Drafts \ {d} : draft'[e] = draft[e]
  BY <1>1, <1>2 DEF Records
<1>5. draft'[d].opened = draft[d].opened /\ InTurn(draft'[d])
  BY <1>1, <1>2 DEF Records, InTurn
<1>. QED BY <1>3, <1>4, <1>5, OneDraft

\* A failed request leaves the draft to be sent again.
LEMMA PostFailsSent ==
  ASSUME SentInv, NEW d \in Drafts, NEW taken \in 0..1, PostFails(d, taken)
  PROVE  SentInv'
<1>1. draft \in [Drafts -> Records] /\ InTurn(draft[d]) /\ draft[d].posting > 0
  BY DEF SentInv, DraftInv, PostFails
<1>2. PICK on \in BOOLEAN : on /\ draft' = [draft EXCEPT ![d].posting = @ - 1, ![d].ready = on,
                             ![d].taken = @ + taken, ![d].lost = @ + taken]
  BY Zenon DEF PostFails
<1>0. draft[d].posting - 1 \in Nat /\ draft[d].taken \in Nat /\ draft[d].lost \in Nat
  BY <1>1 DEF Records
<1>3. draft' \in [Drafts -> Records]
  <2>1. PICK r \in Records : r = draft[d]
    BY <1>1
  <2>2. draft'[d] = [opened |-> r.opened, ready |-> on, encoding |-> r.encoding,
                     posting |-> r.posting - 1, sent |-> r.sent,
                     taken |-> r.taken + taken,
                     lost |-> r.lost + taken, context |-> r.context]
    BY <1>1, <1>2, <2>1 DEF Records
  <2>3. r.taken + taken \in Nat /\ r.lost + taken \in Nat /\ r.posting - 1 \in Nat
    BY <1>0, <2>1 DEF Records
  <2>4. draft'[d] \in Records
    BY <2>2, <2>3 DEF Records
  <2>. QED BY <1>1, <1>2, <2>4 DEF Records
<1>4. \A e \in Drafts \ {d} : draft'[e] = draft[e]
  BY <1>1, <1>2 DEF Records
<1>5. draft'[d].opened = draft[d].opened /\ InTurn(draft'[d])
  BY <1>1, <1>2 DEF Records, InTurn
<1>. QED BY <1>3, <1>4, <1>5, OneDraft

\* A success: the server took the report, and the form is spent.
LEMMA SucceedsSent ==
  ASSUME SentInv, NEW d \in Drafts, Succeeds(d) PROVE SentInv'
<1>1. draft \in [Drafts -> Records] /\ InTurn(draft[d]) /\ draft[d].posting > 0
  BY DEF SentInv, DraftInv, Succeeds
<1>2. draft' = [draft EXCEPT ![d].posting = @ - 1, ![d].sent = TRUE, ![d].taken = @ + 1]
  BY DEF Succeeds
<1>3. draft' \in [Drafts -> Records]
  BY <1>1, <1>2 DEF Records
<1>4. \A e \in Drafts \ {d} : draft'[e] = draft[e]
  BY <1>1, <1>2 DEF Records
<1>5. draft'[d].opened = draft[d].opened /\ InTurn(draft'[d])
  BY <1>1, <1>2 DEF Records, InTurn
<1>. QED BY <1>3, <1>4, <1>5, OneDraft

\* The overlay that opens has the number after those that were opened, so its
\* draft is untouched.
LEMMA CapturedSent ==
  ASSUME SentInv, Captured, Logged(buffer) \subseteq Notes PROVE SentInv'
<1>1. CASE overlay # 0
  BY <1>1 DEF Captured, SentInv, DraftInv, OpenedInOrder
<1>2. CASE overlay = 0
  <2>1. PICK k \in Nat : k <= MaxDrafts /\ \A e \in Drafts : draft[e].opened <=> e <= k
    BY DEF SentInv, OpenedInOrder
  <2>2. Opened = 1..k
    BY <2>1, WidgetAssumption DEF Opened, Drafts
  <2>3. Cardinality(Opened) = k
    BY <2>2, FS_Interval
  <2>. DEFINE d == k + 1
  <2>4. d \in Drafts /\ draft' = [draft EXCEPT ![d].opened = TRUE, ![d].ready = TRUE,
                                               ![d].context = Logged(buffer)]
    BY <1>2, <2>3 DEF Captured
  <2>5. draft \in [Drafts -> Records] /\ InTurn(draft[d]) /\ ~draft[d].opened
    BY <2>1, <2>4 DEF SentInv, DraftInv, Drafts
  <2>6. draft' \in [Drafts -> Records]
    BY <2>4, <2>5 DEF Records
  <2>7. \A e \in Drafts \ {d} : draft'[e] = draft[e]
    BY <2>4, <2>5 DEF Records
  <2>8. draft'[d].opened /\ InTurn(draft'[d])
    BY <2>4, <2>5 DEF Records, InTurn
  <2>9. DraftInv'
    BY <2>6, <2>7, <2>8 DEF SentInv, DraftInv
  <2>10. \A e \in Drafts : draft'[e].opened <=> e <= k + 1
    BY <2>1, <2>7, <2>8 DEF Drafts
  <2>11. k + 1 \in Nat /\ k + 1 <= MaxDrafts
    BY <2>4 DEF Drafts
  <2>. QED BY <2>9, <2>10, <2>11 DEF SentInv, OpenedInOrder
<1>. QED BY <1>1, <1>2

-----------------------------------------------------------------------------
(* The buffers.                                                            *)

\* pushError and pushNetwork add the new entry and nothing else.
LEMMA PushAdds ==
  ASSUME NEW part \in Seq(Nat), NEW n \in Nat
  PROVE  Push(part, n) \in Seq(Nat) /\ Range(Push(part, n)) \subseteq Range(part) \cup {n}
<1>1. CASE Len(part) = BufferSize
  <2>1. Tail(part) \in Seq(Nat) /\ Len(Tail(part)) = Len(part) - 1
        /\ \A i \in 1..Len(Tail(part)) : Tail(part)[i] = part[i + 1]
    BY <1>1, WidgetAssumption
  <2>2. Range(Tail(part)) \subseteq Range(part)
    BY <2>1 DEF Range
  <2>3. Append(Tail(part), n) \in Seq(Nat) /\ Range(Append(Tail(part), n)) \subseteq Range(Tail(part)) \cup {n}
    BY <2>1 DEF Range
  <2>. QED BY <1>1, <2>2, <2>3 DEF Push
<1>2. CASE Len(part) # BufferSize
  BY <1>2 DEF Push, Range
<1>. QED BY <1>1, <1>2

\* The notes' invariant holds at first.
LEMMA InitNotes == Init => NotesInv
BY WidgetAssumption DEF Init, NotesInv, Empty, Logged, Range

\* An entry that begins is of this life of the widget, and the others stay what
\* they were.
LEMMA BeginNotes ==
  ASSUME NotesInv, Begin, lives' = lives, late' = late
  PROVE  /\ notes' \in Seq(Nat) /\ Len(notes') <= MaxNotes
         /\ \A n : n = Entry => OfThisLife(n)'
         /\ \A n : OfThisLife(n) => OfThisLife(n)'
<1>1. notes \in Seq(Nat) /\ lives \in Nat
  BY DEF NotesInv
<1>2. notes' = Append(notes, lives) /\ Entry \in Notes
  BY DEF Begin
<1>3. notes' \in Seq(Nat) /\ Len(notes') = Len(notes) + 1 /\ notes'[Len(notes) + 1] = lives
      /\ \A n \in 1..Len(notes) : notes'[n] = notes[n]
  BY <1>1, <1>2
<1>4. Len(notes') <= MaxNotes
  BY <1>1, <1>2, <1>3, WidgetAssumption DEF Entry, Notes
<1>5. ASSUME NEW n, n = Entry PROVE OfThisLife(n)'
  BY <1>1, <1>3, <1>5 DEF OfThisLife, Begun, Entry
<1>6. \A n : OfThisLife(n) => OfThisLife(n)'
  BY <1>1, <1>3 DEF OfThisLife, Begun
<1>. QED BY <1>3, <1>4, <1>5, <1>6

\* The entries a step leaves: none, what there was, or one more.
LEMMA NotesKept ==
  ASSUME NotesInv, UNCHANGED <<notes, lives, late, buffer>>, pending' \subseteq pending
  PROVE  NotesInv'
BY DEF NotesInv, OfThisLife, Begun, Logged

\* No notes, nothing to keep in order.
LEMMA NotesCleared ==
  ASSUME NotesInv, UNCHANGED <<notes, pending, lives, late>>, buffer' = Cleared
  PROVE  NotesInv'
<1>1. buffer' \in [errors : Seq(Nat), network : Seq(Nat)] /\ Logged(buffer)' = {}
  BY DEF Cleared, Empty, Logged, Range
<1>. QED BY <1>1 DEF NotesInv, OfThisLife, Begun

\* An entry that is of this life may be pushed.
LEMMA PushedIsOfThisLife ==
  ASSUME NotesInv, NEW n \in Nat,
         NEW b, b \in {[buffer EXCEPT !.errors = Push(@, n)], [buffer EXCEPT !.network = Push(@, n)]}
  PROVE  /\ b \in [errors : Seq(Nat), network : Seq(Nat)]
         /\ Logged(b) \subseteq Logged(buffer) \cup {n}
<1>1. buffer.errors \in Seq(Nat) /\ buffer.network \in Seq(Nat)
      /\ buffer \in [errors : Seq(Nat), network : Seq(Nat)]
  BY DEF NotesInv
<1>2. Push(buffer.errors, n) \in Seq(Nat)
      /\ Range(Push(buffer.errors, n)) \subseteq Range(buffer.errors) \cup {n}
  BY <1>1, PushAdds
<1>3. Push(buffer.network, n) \in Seq(Nat)
      /\ Range(Push(buffer.network, n)) \subseteq Range(buffer.network) \cup {n}
  BY <1>1, PushAdds
<1>4. CASE b = [buffer EXCEPT !.errors = Push(@, n)]
  <2>1. b.errors = Push(buffer.errors, n) /\ b.network = buffer.network
        /\ b \in [errors : Seq(Nat), network : Seq(Nat)]
    BY <1>1, <1>2, <1>4
  <2>. QED BY <1>2, <2>1 DEF Logged
<1>5. CASE b = [buffer EXCEPT !.network = Push(@, n)]
  <2>1. b.network = Push(buffer.network, n) /\ b.errors = buffer.errors
        /\ b \in [errors : Seq(Nat), network : Seq(Nat)]
    BY <1>1, <1>3, <1>5
  <2>. QED BY <1>3, <2>1 DEF Logged
<1>. QED BY <1>4, <1>5

\* An entry begins and is logged at once, as console.error is.
LEMMA LoggedNotes ==
  ASSUME NotesInv, Begin, buffer' = [buffer EXCEPT !.errors = Push(@, Entry)],
         UNCHANGED <<pending, lives, late>>
  PROVE  NotesInv'
<1>1. Entry \in Nat
  BY DEF NotesInv, Entry
<1>2. buffer' \in [errors : Seq(Nat), network : Seq(Nat)]
      /\ Logged(buffer') \subseteq Logged(buffer) \cup {Entry}
  BY <1>1, PushedIsOfThisLife
<1>3. \A n \in Logged(buffer') : OfThisLife(n)'
  BY <1>2, BeginNotes DEF NotesInv
<1>4. \A n \in pending' : OfThisLife(n)'
  BY BeginNotes DEF NotesInv
<1>5. Logged(buffer)' = Logged(buffer')
  BY DEF Logged
<1>. QED BY <1>2, <1>3, <1>4, <1>5, BeginNotes DEF NotesInv

\* Every step keeps both parts of the invariant.
LEMMA StepNotes ==
  ASSUME NotesInv, [Next]_vars PROVE NotesInv'
<1>1. CASE Log
  BY <1>1, LoggedNotes DEF Log
<1>2. CASE Fetch
  <2>1. \A n \in pending' : OfThisLife(n)'
    BY <1>2, BeginNotes DEF Fetch, NotesInv
  <2>2. \A n \in Logged(buffer) : OfThisLife(n)'
    BY <1>2, BeginNotes DEF Fetch, NotesInv
  <2>. QED BY <1>2, <2>1, <2>2, BeginNotes DEF Fetch, NotesInv, Logged
<1>3. ASSUME NEW n \in Notes, Fetched(n) PROVE NotesInv'
  <2>1. n \in Nat /\ OfThisLife(n)
    BY <1>3, WidgetAssumption DEF Fetched, NotesInv, Notes
  <2>2. buffer' \in [errors : Seq(Nat), network : Seq(Nat)]
        /\ Logged(buffer') \subseteq Logged(buffer) \cup {n}
    BY <1>3, <2>1, PushedIsOfThisLife DEF Fetched
  <2>3. \A m : OfThisLife(m) => OfThisLife(m)'
    BY <1>3 DEF Fetched, OfThisLife, Begun
  <2>4. Logged(buffer)' = Logged(buffer')
    BY DEF Logged
  <2>. QED BY <1>3, <2>1, <2>2, <2>3, <2>4 DEF Fetched, NotesInv
<1>4. CASE Destroy
  <2>1. \A n \in pending' : OfThisLife(n)'
    BY <1>4 DEF Destroy, NotesInv, OfThisLife, Begun
  <2>2. buffer' \in [errors : Seq(Nat), network : Seq(Nat)] /\ Logged(buffer)' = {}
    BY <1>4 DEF Destroy, Cleared, Empty, Logged, Range
  <2>. QED BY <1>4, <2>1, <2>2 DEF Destroy, NotesInv
<1>5. CASE CaptureFails
  BY <1>5, LoggedNotes, NotesKept DEF CaptureFails
<1>6. ASSUME NEW d \in Drafts, Succeeds(d) PROVE NotesInv'
  BY <1>6, NotesCleared DEF Succeeds
<1>7. CASE \/ \E allowed \in BOOLEAN : InitCall(allowed)
           \/ Enable \/ Disable
           \/ \E by \in {"click", "host"} : Capture(by)
           \/ Captured \/ Cancel
           \/ \E d \in Drafts : Submit(d) \/ Post(d) \/ BlobFails(d)
           \/ \E d \in Drafts, taken \in 0..1 : PostFails(d, taken)
           \/ CallbackReturns
           \/ \E t \in Timers : Tick(t)
           \/ UNCHANGED vars
  <2>1. UNCHANGED <<notes, pending, lives, late, buffer>>
    BY <1>7 DEF InitCall, Enable, Disable, Capture, Captured, Cancel, Submit, Post,
                BlobFails, PostFails, Tick, CallbackReturns, vars
  <2>. QED BY <2>1, NotesKept
<1>. QED BY <1>1, <1>2, <1>3, <1>4, <1>5, <1>6, <1>7 DEF Next

\* Every step keeps the invariant about what was sent.
LEMMA StepSent ==
  ASSUME SentInv, NotesInv, [Next]_vars PROVE SentInv'
<1>1. ASSUME UNCHANGED draft PROVE SentInv'
  BY <1>1 DEF SentInv, DraftInv, OpenedInOrder
<1>2. CASE Captured
  <2>1. Logged(buffer) \subseteq Notes
    BY WidgetAssumption DEF NotesInv, OfThisLife, Begun, Notes
  <2>. QED BY <1>2, <2>1, CapturedSent
<1>3. ASSUME NEW d \in Drafts, Submit(d) \/ Post(d) \/ Succeeds(d) \/ BlobFails(d)
      PROVE  SentInv'
  BY <1>3, SubmitSent, PostSent, SucceedsSent, BlobFailsSent
<1>4. ASSUME NEW d \in Drafts, NEW taken \in 0..1, PostFails(d, taken) PROVE SentInv'
  BY <1>4, PostFailsSent
<1>5. CASE \/ Log \/ Fetch
           \/ \E n \in Notes : Fetched(n)
           \/ \E allowed \in BOOLEAN : InitCall(allowed)
           \/ Enable \/ Disable \/ Destroy
           \/ \E by \in {"click", "host"} : Capture(by)
           \/ CaptureFails \/ Cancel
           \/ CallbackReturns
           \/ \E t \in Timers : Tick(t)
           \/ UNCHANGED vars
  <2>1. UNCHANGED draft
    BY <1>5 DEF Log, Fetch, Fetched, InitCall, Enable, Disable, Destroy, Capture,
                CaptureFails, Cancel, Tick, CallbackReturns, vars
  <2>. QED BY <2>1, <1>1
<1>. QED BY <1>2, <1>3, <1>4, <1>5 DEF Next

-----------------------------------------------------------------------------
\* However capture, submission, failures, the host's calls and the timers take
\* turns: no report goes out again once its success is known, and after destroy
\* nothing that was logged before can be sent but fetches that were under way
\* (submitReport, destroy and clearBuffers of bug-fab.js).
THEOREM SendsRight == Spec => []SentRight
<1>1. Init => IInv
  BY InitSent, InitNotes DEF IInv
<1>2. IInv /\ [Next]_vars => IInv'
  BY StepSent, StepNotes DEF IInv
<1>3. IInv => SentRight
  <2>1. IInv => TakenOnce
    BY DEF IInv, SentInv, DraftInv, InTurn, Records, TakenOnce
  <2>2. IInv => Forgotten
    BY DEF IInv, NotesInv, OfThisLife, Forgotten
  <2>. QED BY <2>1, <2>2 DEF SentRight
<1>. QED BY <1>1, <1>2, <1>3, PTL DEF Spec


\* What a step of the submission of overlay d leaves alone.
OnlyDraft(d) ==
  /\ \A e \in Drafts \ {d} : draft'[e] = draft[e]
  /\ draft'[d].context = draft[d].context

\* A step of a submission, its success apart, changes the draft's progress
\* only, and only Submit puts a draft under way.
LEMMA AttemptDraft ==
  ASSUME SentInv, NEW d \in Drafts,
         \/ Submit(d) \/ Post(d) \/ BlobFails(d)
         \/ \E taken \in 0..1 : PostFails(d, taken)
  PROVE  /\ OnlyDraft(d) /\ draft'[d].sent = draft[d].sent
         /\ UnderWay' \subseteq UnderWay \cup (IF Submit(d) THEN {d} ELSE {})
<1>. draft \in [Drafts -> Records]
  BY DEF SentInv, DraftInv
<1>1. CASE Submit(d)
  BY <1>1 DEF Submit, OnlyDraft, UnderWay, Records
<1>2. CASE Post(d)
  BY <1>2 DEF Post, OnlyDraft, UnderWay, Records
<1>3. CASE BlobFails(d)
  BY <1>3 DEF BlobFails, OnlyDraft, UnderWay, Records
<1>4. ASSUME NEW taken \in 0..1, PostFails(d, taken)
      PROVE  /\ OnlyDraft(d) /\ draft'[d].sent = draft[d].sent
             /\ UnderWay' \subseteq UnderWay
  BY <1>4 DEF PostFails, OnlyDraft, UnderWay, Records
<1>. QED BY <1>1, <1>2, <1>3, <1>4

\* A success ends the one submission of its draft.
LEMMA SuccessDraft ==
  ASSUME SentInv, NEW d \in Drafts, Succeeds(d)
  PROVE  /\ OnlyDraft(d) /\ draft'[d].sent
         /\ d \in UnderWay /\ UnderWay' = UnderWay \ {d}
<1>1. draft \in [Drafts -> Records] /\ InTurn(draft[d])
  BY DEF SentInv, DraftInv
<1>2. OnlyDraft(d) /\ draft'[d].sent
  BY <1>1 DEF Succeeds, OnlyDraft, Records
<1>3. d \in UnderWay /\ draft'[d].encoding + draft'[d].posting = 0
  BY <1>1 DEF Succeeds, UnderWay, Records, InTurn
<1>. QED BY <1>2, <1>3 DEF UnderWay, OnlyDraft

\* The overlay that opens gets what was logged, and nothing of it is under way.
LEMMA CapturedDraft ==
  ASSUME SentInv, Captured, overlay = 0
  PROVE  /\ overlay' \in Drafts /\ ~draft[overlay'].opened
         /\ draft'[overlay'].opened /\ draft'[overlay'].context = Logged(buffer)
         /\ \A e \in Drafts \ {overlay'} : draft'[e] = draft[e]
         /\ \A e \in Drafts : draft'[e].sent = draft[e].sent
         /\ UnderWay' = UnderWay
<1>1. PICK k \in Nat : k <= MaxDrafts /\ \A e \in Drafts : draft[e].opened <=> e <= k
  BY DEF SentInv, OpenedInOrder
<1>2. Opened = 1..k
  BY <1>1, WidgetAssumption DEF Opened, Drafts
<1>3. Cardinality(Opened) = k
  BY <1>2, FS_Interval
<1>. DEFINE d == k + 1
<1>4. d \in Drafts /\ overlay' = d
      /\ draft' = [draft EXCEPT ![d].opened = TRUE, ![d].ready = TRUE, ![d].context = Logged(buffer)]
  BY <1>3 DEF Captured
<1>5. draft \in [Drafts -> Records] /\ ~draft[d].opened
  BY <1>1, <1>4 DEF SentInv, DraftInv, Drafts
<1>6. \A e \in Drafts \ {d} : draft'[e] = draft[e]
  BY <1>4, <1>5
<1>7. draft'[d].opened /\ draft'[d].context = Logged(buffer) /\ draft'[d].sent = draft[d].sent
      /\ draft'[d].encoding = draft[d].encoding /\ draft'[d].posting = draft[d].posting
  BY <1>4, <1>5 DEF Records
<1>8. UnderWay' = UnderWay
  BY <1>6, <1>7 DEF UnderWay
<1>. QED BY <1>4, <1>5, <1>6, <1>7, <1>8

-----------------------------------------------------------------------------
(* Types.                                                                  *)

\* An interval is left behind only by an overlay whose report was sent, so that
\* there is an id for the next one.
SentDrafts == {d \in Drafts : draft[d].sent}

\* The host is being told of a success whose interval is yet to start.
Calling == IF host.calling THEN 1 ELSE 0

TimersInv == Cardinality(cooling.running) + Calling <= Cardinality(SentDrafts)

\* pushError and pushNetwork keep to the size of the buffer.
LEMMA PushBounded ==
  ASSUME NEW part \in Seq(Notes), Len(part) <= BufferSize, NEW n \in Notes
  PROVE  Push(part, n) \in Seq(Notes) /\ Len(Push(part, n)) <= BufferSize
<1>1. CASE Len(part) = BufferSize
  <2>1. Tail(part) \in Seq(Notes) /\ Len(Tail(part)) = Len(part) - 1
    BY <1>1, WidgetAssumption
  <2>. QED BY <1>1, <2>1, WidgetAssumption DEF Push
<1>2. CASE Len(part) # BufferSize
  BY <1>2, WidgetAssumption DEF Push
<1>. QED BY <1>1, <1>2

\* The buffers keep their type when an entry is pushed on one of them.
LEMMA PushTyped ==
  ASSUME TypeOK, NEW n \in Notes,
         \/ buffer' = [buffer EXCEPT !.errors = Push(@, n)]
         \/ buffer' = [buffer EXCEPT !.network = Push(@, n)]
  PROVE  /\ buffer' \in [errors : Seq(Notes), network : Seq(Notes)]
         /\ Len(buffer'.errors) <= BufferSize /\ Len(buffer'.network) <= BufferSize
<1>1. /\ buffer \in [errors : Seq(Notes), network : Seq(Notes)]
      /\ Len(buffer.errors) <= BufferSize /\ Len(buffer.network) <= BufferSize
  BY DEF TypeOK
<1>2. Push(buffer.errors, n) \in Seq(Notes) /\ Len(Push(buffer.errors, n)) <= BufferSize
  BY <1>1, PushBounded
<1>3. Push(buffer.network, n) \in Seq(Notes) /\ Len(Push(buffer.network, n)) <= BufferSize
  BY <1>1, PushBounded
<1>4. CASE buffer' = [buffer EXCEPT !.errors = Push(@, n)]
  BY <1>1, <1>2, <1>4
<1>5. CASE buffer' = [buffer EXCEPT !.network = Push(@, n)]
  BY <1>1, <1>3, <1>5
<1>. QED BY <1>4, <1>5

\* The parts of TypeOK.
BufferTyped ==
  /\ buffer \in [errors : Seq(Notes), network : Seq(Notes)]
  /\ Len(buffer.errors) <= BufferSize /\ Len(buffer.network) <= BufferSize

CoolingTyped ==
  /\ cooling \in [running : SUBSET Timers, timer : Timers \cup {0}, left : 0..Cooldown]
  /\ cooling.timer \in cooling.running \cup {0}

PageTyped ==
  /\ host \in Host
  /\ fab \in {"none", "shown", "hidden"} /\ disabled \in BOOLEAN
  /\ capturing \in BOOLEAN /\ stray \subseteq Strays

NotesTyped ==
  /\ notes \in Seq(0..MaxDestroys) /\ pending \subseteq Notes
  /\ late \subseteq Notes /\ lives \in 0..MaxDestroys

\* The parts make the whole, with what SentInv says of the drafts.
LEMMA PartsTyped ==
  ASSUME SentInv
  PROVE  TypeOK <=> /\ PageTyped /\ NotesTyped /\ BufferTyped /\ CoolingTyped
                    /\ overlay \in Opened \cup {0}
<1>1. draft \in [Drafts -> Draft]
  <2>1. ASSUME NEW d \in Drafts PROVE draft[d] \in Draft
    <3>1. draft[d] \in Records /\ InTurn(draft[d])
      BY DEF SentInv, DraftInv
    <3>2. PICK x \in Records : x = draft[d]
      BY <3>1
    <3>3. x.encoding \in 0..1 /\ x.posting \in 0..1
      BY <3>1, <3>2 DEF Records, InTurn
    <3>. QED BY <3>2, <3>3 DEF Records, Draft
  <2>. QED BY <2>1 DEF SentInv, DraftInv
<1>. QED BY <1>1 DEF TypeOK, PageTyped, NotesTyped, BufferTyped, CoolingTyped

\* At first the types are right and nothing runs.
LEMMA InitTyped == Init => TypeOK /\ TimersInv
<1>. SUFFICES ASSUME Init PROVE TypeOK /\ TimersInv
  OBVIOUS
<1>1. host = [initialized |-> FALSE, installed |-> FALSE, off |-> FALSE, configured |-> FALSE,
              calling |-> FALSE]
  BY DEF Init
<1>2. host \in Host
  BY <1>1 DEF Host
<1>3. PageTyped
  BY <1>2 DEF Init, PageTyped
<1>4. PageTyped /\ NotesTyped /\ overlay = 0
  BY <1>3, WidgetAssumption DEF Init, NotesTyped
<1>5. BufferTyped
  BY WidgetAssumption DEF Init, BufferTyped, Empty
<1>6. CoolingTyped
  BY WidgetAssumption DEF Init, CoolingTyped, NoCooldown
<1>7. TypeOK
  BY <1>4, <1>5, <1>6, InitSent, PartsTyped
<1>8. cooling.running = {} /\ SentDrafts = {}
  BY DEF Init, NoCooldown, SentDrafts, Unopened
<1>9. TimersInv
  BY <1>1, <1>8, FS_EmptySet DEF TimersInv, Calling
<1>. QED BY <1>7, <1>9

\* The page keeps its type: init, enable, disable and destroy set its flags.
LEMMA StepPage ==
  ASSUME PageTyped, [Next]_vars PROVE PageTyped'
<1>. host \in Host /\ fab \in {"none", "shown", "hidden"}
     /\ disabled \in BOOLEAN /\ capturing \in BOOLEAN /\ stray \subseteq Strays
  BY DEF PageTyped
<1>1. host' \in Host
  BY DEF Next, Host, Log, Fetch, Fetched, InitCall, Enable, Disable, Destroy, Capture,
         Captured, CaptureFails, Cancel, Submit, Post, BlobFails, PostFails, Succeeds,
         Tick, CallbackReturns, vars
<1>2. fab' \in {"none", "shown", "hidden"}
  BY DEF Next, Log, Fetch, Fetched, InitCall, Enable, Disable, Destroy, Capture,
         Captured, CaptureFails, Cancel, Submit, Post, BlobFails, PostFails, Succeeds,
         Tick, CallbackReturns, vars
<1>3. disabled' \in BOOLEAN
  BY DEF Next, Log, Fetch, Fetched, InitCall, Enable, Disable, Destroy, Capture,
         Captured, CaptureFails, Cancel, Submit, Post, BlobFails, PostFails, Succeeds,
         Tick, CallbackReturns, vars
<1>4. capturing' \in BOOLEAN
  BY DEF Next, Log, Fetch, Fetched, InitCall, Enable, Disable, Destroy, Capture,
         Captured, CaptureFails, Cancel, Submit, Post, BlobFails, PostFails, Succeeds,
         Tick, CallbackReturns, vars
<1>5. stray' \subseteq Strays
  BY DEF Next, Log, Fetch, Fetched, InitCall, Enable, Disable, Destroy, Capture,
         Captured, CaptureFails, Cancel, Submit, Post, BlobFails, PostFails, Succeeds,
         Tick, CallbackReturns, vars,
         CloseOverlay, Strays
<1>. QED BY <1>1, <1>2, <1>3, <1>4, <1>5 DEF PageTyped

\* Entries begin within their bound, in the life there is.
LEMMA StepNotesTyped ==
  ASSUME NotesTyped, [Next]_vars PROVE NotesTyped'
<1>1. ASSUME Begin PROVE notes' \in Seq(0..MaxDestroys) /\ Entry \in Notes
  BY <1>1 DEF Begin, NotesTyped
<1>2. CASE Log
  BY <1>1, <1>2 DEF Log, NotesTyped
<1>3. CASE Fetch
  BY <1>1, <1>3 DEF Fetch, NotesTyped
<1>4. CASE CaptureFails
  BY <1>1, <1>4 DEF CaptureFails, NotesTyped
<1>5. CASE Destroy
  BY <1>5, WidgetAssumption DEF Destroy, NotesTyped
<1>6. ASSUME UNCHANGED <<notes, lives, late>>, pending' \subseteq pending PROVE NotesTyped'
  BY <1>6 DEF NotesTyped
<1>7. CASE \/ \E n \in Notes : Fetched(n)
           \/ \E allowed \in BOOLEAN : InitCall(allowed)
           \/ Enable \/ Disable
           \/ \E by \in {"click", "host"} : Capture(by)
           \/ Captured \/ Cancel
           \/ \E d \in Drafts : Submit(d) \/ Post(d) \/ Succeeds(d) \/ BlobFails(d)
           \/ \E d \in Drafts, taken \in 0..1 : PostFails(d, taken)
           \/ CallbackReturns
           \/ \E t \in Timers : Tick(t)
           \/ UNCHANGED vars
  BY <1>6, <1>7 DEF Fetched, InitCall, Enable, Disable, Capture, Captured, Cancel,
     Submit, Post,
                    Succeeds, BlobFails, PostFails, Tick, CallbackReturns, vars
<1>. QED BY <1>2, <1>3, <1>4, <1>5, <1>7 DEF Next

\* The buffers keep their type and their size.
LEMMA StepBuffer ==
  ASSUME TypeOK, [Next]_vars PROVE BufferTyped'
<1>1. CASE Log \/ (CaptureFails /\ host.installed)
  <2>1. Entry \in Notes /\ buffer' = [buffer EXCEPT !.errors = Push(@, Entry)]
    BY <1>1 DEF Log, CaptureFails, Begin
  <2>. QED BY <2>1, PushTyped DEF BufferTyped
<1>2. ASSUME NEW n \in Notes, Fetched(n) PROVE BufferTyped'
  <2>1. buffer' = [buffer EXCEPT !.network = Push(@, n)]
    BY <1>2 DEF Fetched
  <2>. QED BY <2>1, PushTyped DEF BufferTyped
<1>3. CASE Destroy \/ \E d \in Drafts : Succeeds(d)
  <2>1. buffer' = [errors |-> << >>, network |-> << >>]
    BY <1>3 DEF Destroy, Succeeds, Cleared, Empty
  <2>. QED BY <2>1, WidgetAssumption DEF BufferTyped
<1>4. CASE \/ Fetch
           \/ \E allowed \in BOOLEAN : InitCall(allowed)
           \/ Enable \/ Disable
           \/ \E by \in {"click", "host"} : Capture(by)
           \/ Captured \/ (CaptureFails /\ ~host.installed) \/ Cancel
           \/ \E d \in Drafts : Submit(d) \/ Post(d) \/ BlobFails(d)
           \/ \E d \in Drafts, taken \in 0..1 : PostFails(d, taken)
           \/ CallbackReturns
           \/ \E t \in Timers : Tick(t)
           \/ UNCHANGED vars
  <2>1. UNCHANGED buffer
    BY <1>4 DEF Fetch, InitCall, Enable, Disable, Capture, Captured, CaptureFails,
       Cancel, Submit,
                Post, BlobFails, PostFails, Tick, CallbackReturns, vars
  <2>. QED BY <2>1 DEF TypeOK, BufferTyped
<1>. QED BY <1>1, <1>2, <1>3, <1>4 DEF Next

\* An overlay on screen was opened.
LEMMA StepOverlay ==
  ASSUME SentInv, overlay \in Opened \cup {0}, [Next]_vars PROVE overlay' \in Opened' \cup {0}
<1>1. CASE Captured /\ overlay = 0
  BY <1>1, CapturedDraft DEF Opened
<1>2. ASSUME UNCHANGED draft, overlay' \in {overlay, 0} PROVE overlay' \in Opened' \cup {0}
  BY <1>2 DEF Opened
<1>3. ASSUME NEW d \in Drafts, Submit(d) \/ Post(d) \/ BlobFails(d) \/ Succeeds(d)
      PROVE  \A e \in Drafts : draft'[e].opened = draft[e].opened
  BY <1>3 DEF SentInv, DraftInv, Records, Submit, Post, BlobFails, Succeeds
<1>4. ASSUME NEW d \in Drafts, NEW taken \in 0..1, PostFails(d, taken)
      PROVE  \A e \in Drafts : draft'[e].opened = draft[e].opened
  BY <1>4 DEF SentInv, DraftInv, Records, PostFails
<1>5. ASSUME \A e \in Drafts : draft'[e].opened = draft[e].opened, overlay' \in {overlay, 0}
      PROVE  overlay' \in Opened' \cup {0}
  BY <1>5 DEF Opened
<1>6. ASSUME NEW d \in Drafts, Submit(d) \/ Post(d) \/ BlobFails(d) \/ Succeeds(d)
      PROVE  overlay' \in Opened' \cup {0}
  BY <1>3, <1>5, <1>6 DEF Submit, Post, BlobFails, Succeeds
<1>7. ASSUME NEW d \in Drafts, NEW taken \in 0..1, PostFails(d, taken)
      PROVE  overlay' \in Opened' \cup {0}
  BY <1>4, <1>5, <1>7 DEF PostFails
<1>8. CASE \/ Log \/ Fetch
           \/ \E n \in Notes : Fetched(n)
           \/ \E allowed \in BOOLEAN : InitCall(allowed)
           \/ Enable \/ Disable \/ Destroy
           \/ \E by \in {"click", "host"} : Capture(by)
           \/ (Captured /\ overlay # 0) \/ CaptureFails \/ Cancel
           \/ CallbackReturns
           \/ \E t \in Timers : Tick(t)
           \/ UNCHANGED vars
  <2>1. UNCHANGED draft /\ overlay' \in {overlay, 0}
    BY <1>8 DEF Log, Fetch, Fetched, InitCall, Enable, Disable, Destroy, CloseOverlay,
       Capture,
                Captured, CaptureFails, Cancel, Tick, CallbackReturns, vars
  <2>. QED BY <2>1, <1>2
<1>. QED BY <1>1, <1>6, <1>7, <1>8 DEF Next

\* The numbers of drafts that were sent and of intervals are finite.
LEMMA FewTimers ==
  ASSUME CoolingTyped
  PROVE  /\ IsFiniteSet(Timers) /\ Cardinality(Timers) = MaxDrafts
         /\ IsFiniteSet(SentDrafts) /\ Cardinality(SentDrafts) \in Nat
         /\ IsFiniteSet(cooling.running) /\ Cardinality(cooling.running) \in Nat
<1>1. IsFiniteSet(Timers) /\ Cardinality(Timers) = MaxDrafts
  BY WidgetAssumption, FS_Interval DEF Timers
<1>2. SentDrafts \subseteq Timers /\ cooling.running \subseteq Timers
  BY DEF SentDrafts, Drafts, Timers, CoolingTyped
<1>. QED BY <1>1, <1>2, FS_Subset, FS_CardinalityType

\* Only a success calls the host, and only the host's return ends the call.
LEMMA CallingKept ==
  ASSUME PageTyped, [Next]_vars, ~CallbackReturns, ~\E d \in Drafts : Succeeds(d)
  PROVE  host'.calling = host.calling
<1>. host \in Host
  BY DEF PageTyped
<1>. QED
  BY DEF Next, Host, Log, Fetch, Fetched, InitCall, Enable, Disable, Destroy, Capture,
         Captured, CaptureFails, Cancel, Submit, Post, BlobFails, PostFails, Tick, vars

\* A success leaves room for the interval that the host's return will start.
LEMMA SucceedsCooling ==
  ASSUME SentInv, PageTyped, CoolingTyped, TimersInv, NEW d \in Drafts, Succeeds(d)
  PROVE  CoolingTyped' /\ TimersInv'
<1>1. draft \in [Drafts -> Records] /\ InTurn(draft[d]) /\ draft[d].posting > 0
  BY DEF SentInv, DraftInv, Succeeds
<1>2. d \notin SentDrafts
  BY <1>1 DEF SentDrafts, InTurn, Records
<1>3. draft' = [draft EXCEPT ![d].posting = @ - 1, ![d].sent = TRUE, ![d].taken = @ + 1]
  BY DEF Succeeds
<1>4. SentDrafts' = SentDrafts \cup {d}
  BY <1>1, <1>3 DEF SentDrafts
<1>5. Cardinality(SentDrafts') = Cardinality(SentDrafts) + 1
  BY <1>2, <1>4, FewTimers, FS_AddElement
<1>6. Calling = 0 /\ Calling' = 1
  BY DEF Succeeds, Idle, Calling, PageTyped, Host
<1>. QED BY <1>5, <1>6, FewTimers DEF Succeeds, CoolingTyped, TimersInv

\* The interval that starts finds an id: there are fewer intervals than drafts
\* that were sent, and not more of those than drafts.
LEMMA CallbackCooling ==
  ASSUME PageTyped, CoolingTyped, TimersInv, CallbackReturns
  PROVE  CoolingTyped' /\ TimersInv'
<1>1. SentDrafts' = SentDrafts
  BY DEF CallbackReturns, SentDrafts
<1>2. Calling = 1 /\ Calling' = 0
  BY DEF CallbackReturns, Calling, PageTyped, Host
<1>3. CASE fab = "none"
  BY <1>1, <1>2, <1>3, FewTimers DEF CallbackReturns, CoolingTyped, TimersInv
<1>4. CASE fab # "none"
  <2>. DEFINE t == CHOOSE x \in Timers : x \notin cooling.running
  <2>1. cooling' = [running |-> cooling.running \cup {t}, timer |-> t, left |-> Cooldown]
    BY <1>4 DEF CallbackReturns, StartCooldown
  <2>2. SentDrafts \subseteq Timers
    BY DEF SentDrafts, Drafts, Timers
  <2>3. Cardinality(SentDrafts) <= MaxDrafts
    BY <2>2, FewTimers, FS_Subset
  <2>4. cooling.running # Timers
    BY <1>2, <2>3, FewTimers, WidgetAssumption DEF TimersInv
  <2>5. \E x \in Timers : x \notin cooling.running
    BY <2>4 DEF CoolingTyped
  <2>6. t \in Timers /\ t \notin cooling.running
    BY <2>5
  <2>. HIDE DEF t
  <2>7. CoolingTyped'
    BY <2>1, <2>6, WidgetAssumption DEF CoolingTyped
  <2>8. Cardinality(cooling.running \cup {t}) = Cardinality(cooling.running) + 1
    BY <2>6, FewTimers, FS_AddElement
  <2>9. Cardinality(cooling'.running) = Cardinality(cooling.running) + 1
    BY <2>1, <2>8
  <2>10. TimersInv'
    BY <1>1, <1>2, <2>9, FewTimers DEF TimersInv
  <2>. QED BY <2>7, <2>10
<1>. QED BY <1>3, <1>4

\* The intervals keep their type and their number.
LEMMA StepCooling ==
  ASSUME SentInv, PageTyped, CoolingTyped, TimersInv, [Next]_vars
  PROVE  CoolingTyped' /\ TimersInv'
<1>0. cooling \in [running : SUBSET Timers, timer : Timers \cup {0}, left : 0..Cooldown]
      /\ cooling.timer \in cooling.running \cup {0}
  BY DEF CoolingTyped
<1>1. ASSUME NEW d \in Drafts, Succeeds(d) PROVE CoolingTyped' /\ TimersInv'
  BY <1>1, SucceedsCooling
<1>. SUFFICES ASSUME ~(\E d \in Drafts : Succeeds(d)), ~CallbackReturns
              PROVE  CoolingTyped' /\ TimersInv'
  BY <1>1, CallbackCooling
<1>10. Calling' = Calling /\ Calling \in Nat
  BY CallingKept DEF Calling
<1>2. SentDrafts' = SentDrafts
  <2>1. CASE Captured /\ overlay = 0
    BY <2>1, CapturedDraft DEF SentDrafts
  <2>2. ASSUME NEW d \in Drafts,
               Submit(d) \/ Post(d) \/ BlobFails(d) \/ (\E taken \in 0..1 : PostFails(d, taken))
        PROVE  SentDrafts' = SentDrafts
    BY <2>2, AttemptDraft DEF OnlyDraft, SentDrafts
  <2>3. CASE UNCHANGED draft
    BY <2>3 DEF SentDrafts
  <2>4. CASE \/ Log \/ Fetch
             \/ \E n \in Notes : Fetched(n)
             \/ \E allowed \in BOOLEAN : InitCall(allowed)
             \/ Enable \/ Disable \/ Destroy
             \/ \E by \in {"click", "host"} : Capture(by)
             \/ (Captured /\ overlay # 0) \/ CaptureFails \/ Cancel
             \/ \E t \in Timers : Tick(t)
             \/ UNCHANGED vars
    BY <2>3, <2>4 DEF Log, Fetch, Fetched, InitCall, Enable, Disable, Destroy,
       Capture, Captured,
                      CaptureFails, Cancel, Tick, vars
  <2>. QED BY <2>1, <2>2, <2>4 DEF Next
<1>3. ASSUME CoolingTyped', cooling'.running \subseteq cooling.running PROVE TimersInv'
  <2>1. Cardinality(cooling'.running) <= Cardinality(cooling.running)
        /\ Cardinality(cooling'.running) \in Nat
    BY <1>3, FewTimers, FS_Subset, FS_CardinalityType
  <2>. QED BY <1>2, <1>10, <2>1, FewTimers DEF TimersInv
<1>4. ASSUME NEW left \in 0..Cooldown, cooling' = [Stopped EXCEPT !.left = left]
      PROVE  CoolingTyped' /\ cooling'.running \subseteq cooling.running
  BY <1>0, <1>4 DEF Stopped, CoolingTyped
<1>5. CASE Destroy
  <2>1. CoolingTyped' /\ cooling'.running \subseteq cooling.running
    BY <1>0, <1>5 DEF Destroy, Stopped, CoolingTyped
  <2>. QED BY <1>3, <2>1
<1>6. ASSUME NEW t \in Timers, Tick(t) PROVE CoolingTyped' /\ TimersInv'
  <2>1. CASE cooling.left > 1
    <3>1. cooling' = [cooling EXCEPT !.left = @ - 1]
      BY <1>6, <2>1 DEF Tick
    <3>2. CoolingTyped' /\ cooling'.running = cooling.running
      BY <1>0, <2>1, <3>1, WidgetAssumption DEF CoolingTyped
    <3>. QED BY <1>3, <3>2
  <2>2. CASE ~(cooling.left > 1)
    <3>1. cooling' = [Stopped EXCEPT !.left = 0] /\ 0 \in 0..Cooldown
      BY <1>6, <2>2, WidgetAssumption DEF Tick
    <3>. QED BY <1>3, <1>4, <3>1
  <2>. QED BY <2>1, <2>2
<1>7. ASSUME UNCHANGED cooling PROVE CoolingTyped' /\ TimersInv'
  BY <1>2, <1>7, <1>10 DEF CoolingTyped, TimersInv
<1>8. CASE \/ Log \/ Fetch
           \/ \E n \in Notes : Fetched(n)
           \/ \E allowed \in BOOLEAN : InitCall(allowed)
           \/ Enable \/ Disable
           \/ \E by \in {"click", "host"} : Capture(by)
           \/ Captured \/ CaptureFails \/ Cancel
           \/ \E d \in Drafts : Submit(d) \/ Post(d) \/ BlobFails(d)
           \/ \E d \in Drafts, taken \in 0..1 : PostFails(d, taken)
           \/ UNCHANGED vars
  BY <1>7, <1>8 DEF Log, Fetch, Fetched, InitCall, Enable, Disable, Capture, Captured,
                    CaptureFails, Cancel, Submit, Post, BlobFails, PostFails, vars
<1>. QED BY <1>5, <1>6, <1>8 DEF Next

\* Types are kept.
LEMMA StepTyped ==
  ASSUME SentInv, NotesInv, TypeOK, TimersInv, [Next]_vars PROVE TypeOK' /\ TimersInv'
<1>1. /\ PageTyped /\ NotesTyped /\ BufferTyped /\ CoolingTyped
      /\ overlay \in Opened \cup {0}
  BY PartsTyped
<1>2. PageTyped' /\ NotesTyped' /\ BufferTyped' /\ CoolingTyped' /\ TimersInv'
      /\ overlay' \in Opened' \cup {0}
  BY <1>1, StepPage, StepNotesTyped, StepBuffer, StepCooling, StepOverlay
<1>3. draft' \in [Drafts -> Draft]
  <2>1. SentInv'
    BY StepSent
  <2>2. ASSUME NEW d \in Drafts PROVE draft'[d] \in Draft
    <3>1. PICK x \in Records : x = draft'[d]
      BY <2>1 DEF SentInv, DraftInv
    <3>2. x.encoding + x.posting <= 1
      BY <2>1, <3>1 DEF SentInv, DraftInv, InTurn
    <3>3. x.encoding \in 0..1 /\ x.posting \in 0..1
      BY <3>1, <3>2 DEF Records
    <3>. QED BY <3>1, <3>3 DEF Records, Draft
  <2>. QED BY <2>1, <2>2 DEF SentInv, DraftInv
<1>. QED BY <1>2, <1>3 DEF TypeOK, PageTyped, NotesTyped, BufferTyped, CoolingTyped,
            Opened

-----------------------------------------------------------------------------
(* Overlays one at a time.                                                 *)

\* An entry is under way, in the buffers or reported: a report carries what was
\* logged by then, and what is logged later has begun later or was under way.
SeenInv ==
  /\ pending \cap Logged(buffer) = {}
  /\ pending \subseteq Begun /\ Logged(buffer) \subseteq Begun
  /\ \A d \in Drafts : draft[d].context \subseteq Begun \ pending

\* The widget does one thing at a time: it captures, or an overlay is on screen,
\* or the host is being told of a success, or the button is disabled and one
\* interval runs.
Calm ==
  /\ host.calling => overlay = 0
  /\ "closed" \notin stray =>
       /\ UnderWay \subseteq {overlay}
       /\ overlay # 0 => ~capturing
  /\ stray = {} =>
       /\ cooling.running = IF disabled THEN {cooling.timer} ELSE {}
       /\ disabled => overlay = 0 /\ ~capturing
       /\ host.calling => ~disabled /\ ~capturing

\* What was reported is in no buffer any more, nor in the overlay on screen.
Apart == "closed" \notin stray => \A e \in Drafts : draft[e].sent =>
  /\ draft[e].context \cap Logged(buffer) = {}
  /\ \A d \in Drafts \ {e} : d = overlay \/ draft[d].sent =>
       draft[d].context \cap draft[e].context = {}

OrderInv == SeenInv /\ Calm /\ Apart

\* It holds at first: there is nothing.
LEMMA InitOrder == Init => OrderInv
<1>. SUFFICES ASSUME Init PROVE OrderInv
  OBVIOUS
<1>1. Logged(buffer) = {}
  BY DEF Init, Empty, Logged, Range
<1>2. \A d \in Drafts : draft[d].context = {} /\ ~draft[d].sent /\ draft[d].encoding = 0
                        /\ draft[d].posting = 0
  BY DEF Init, Unopened
<1>3. UnderWay = {}
  BY <1>2 DEF UnderWay
<1>. QED BY <1>1, <1>2, <1>3 DEF Init, NoCooldown, OrderInv, SeenInv, Calm, Apart


\* The buffers after an entry is pushed on one of them.
LEMMA PushedLog ==
  ASSUME NotesInv, NEW n \in Nat,
         \/ buffer' = [buffer EXCEPT !.errors = Push(@, n)]
         \/ buffer' = [buffer EXCEPT !.network = Push(@, n)]
  PROVE  Logged(buffer)' \subseteq Logged(buffer) \cup {n}
<1>1. Logged(buffer') \subseteq Logged(buffer) \cup {n}
  BY PushedIsOfThisLife
<1>. QED BY <1>1 DEF Logged

\* Emptied buffers hold nothing.
LEMMA ClearedLog == ASSUME buffer' = Cleared PROVE Logged(buffer)' = {}
BY DEF Cleared, Empty, Logged, Range

\* An entry that begins is new.
LEMMA BeginSeen ==
  ASSUME NotesInv, Begin
  PROVE  Entry \in Nat /\ Entry \notin Begun /\ Begun' = Begun \cup {Entry}
<1>1. notes \in Seq(Nat) /\ notes' = Append(notes, lives) /\ lives \in Nat
  BY DEF NotesInv, Begin
<1>2. Len(notes') = Len(notes) + 1 /\ Len(notes) \in Nat
  BY <1>1
<1>. QED BY <1>2 DEF Entry, Begun

\* The contexts stay what they are unless an overlay opens.
LEMMA ContextsKept ==
  ASSUME SentInv, [Next]_vars, ~Captured
  PROVE  \A d \in Drafts : draft'[d].context = draft[d].context
<1>1. ASSUME NEW d \in Drafts,
             Submit(d) \/ Post(d) \/ BlobFails(d) \/ (\E taken \in 0..1 : PostFails(d, taken))
      PROVE  \A e \in Drafts : draft'[e].context = draft[e].context
  BY <1>1, AttemptDraft DEF OnlyDraft
<1>2. ASSUME NEW d \in Drafts, Succeeds(d)
      PROVE  \A e \in Drafts : draft'[e].context = draft[e].context
  BY <1>2, SuccessDraft DEF OnlyDraft
<1>3. CASE \/ Log \/ Fetch
           \/ \E n \in Notes : Fetched(n)
           \/ \E allowed \in BOOLEAN : InitCall(allowed)
           \/ Enable \/ Disable \/ Destroy
           \/ \E by \in {"click", "host"} : Capture(by)
           \/ CaptureFails \/ Cancel
           \/ CallbackReturns
           \/ \E t \in Timers : Tick(t)
           \/ UNCHANGED vars
  BY <1>3 DEF Log, Fetch, Fetched, InitCall, Enable, Disable, Destroy, Capture,
              CaptureFails, Cancel, Tick, CallbackReturns, vars
<1>. QED BY <1>1, <1>2, <1>3 DEF Next

\* Every entry stays in one place.
LEMMA StepSeen ==
  ASSUME SentInv, NotesInv, SeenInv, [Next]_vars PROVE SeenInv'
<1>1. CASE Captured
  <2>1. UNCHANGED <<notes, pending, buffer>>
    BY <1>1 DEF Captured
  <2>2. \A d \in Drafts : draft'[d].context \subseteq Begun \ pending
    BY <1>1, CapturedDraft DEF Captured, SeenInv
  <2>. QED BY <2>1, <2>2 DEF SeenInv, Begun, Logged
<1>. SUFFICES ASSUME ~Captured PROVE SeenInv'
  BY <1>1
<1>0. \A d \in Drafts : draft'[d].context = draft[d].context
  BY ContextsKept
<1>2. ASSUME Begin, UNCHANGED pending, buffer' = [buffer EXCEPT !.errors = Push(@, Entry)]
      PROVE  SeenInv'
  <2>1. Logged(buffer)' \subseteq Logged(buffer) \cup {Entry}
    BY <1>2, BeginSeen, PushedLog
  <2>. QED BY <1>0, <1>2, <2>1, BeginSeen DEF SeenInv
<1>3. CASE Fetch
  <2>1. Logged(buffer)' = Logged(buffer)
    BY <1>3 DEF Fetch, Logged
  <2>. QED BY <1>0, <1>3, <2>1, BeginSeen DEF SeenInv, Fetch
<1>4. ASSUME NEW n \in Notes, Fetched(n) PROVE SeenInv'
  <2>0. n \in Nat
    BY WidgetAssumption DEF Notes
  <2>1. Logged(buffer)' \subseteq Logged(buffer) \cup {n}
    BY <1>4, <2>0, PushedLog DEF Fetched
  <2>. QED BY <1>0, <1>4, <2>1 DEF SeenInv, Fetched, Begun
<1>5. ASSUME UNCHANGED <<notes, pending>>, buffer' = Cleared PROVE SeenInv'
  BY <1>0, <1>5, ClearedLog DEF SeenInv, Begun
<1>6. ASSUME UNCHANGED <<notes, pending, buffer>> PROVE SeenInv'
  BY <1>0, <1>6 DEF SeenInv, Begun, Logged
<1>7. CASE Log \/ CaptureFails
  BY <1>2, <1>6, <1>7 DEF Log, CaptureFails
<1>8. CASE Destroy \/ \E d \in Drafts : Succeeds(d)
  BY <1>5, <1>8 DEF Destroy, Succeeds
<1>9. CASE \/ \E allowed \in BOOLEAN : InitCall(allowed)
           \/ Enable \/ Disable
           \/ \E by \in {"click", "host"} : Capture(by)
           \/ Cancel
           \/ \E d \in Drafts : Submit(d) \/ Post(d) \/ BlobFails(d)
           \/ \E d \in Drafts, taken \in 0..1 : PostFails(d, taken)
           \/ CallbackReturns
           \/ \E t \in Timers : Tick(t)
           \/ UNCHANGED vars
  <2>1. UNCHANGED <<notes, pending, buffer>>
    BY <1>9 DEF InitCall, Enable, Disable, Capture, Cancel, Submit, Post, BlobFails,
                PostFails, Tick, CallbackReturns, vars
  <2>. QED BY <2>1, <1>6
<1>. QED BY <1>3, <1>4, <1>7, <1>8, <1>9 DEF Next


\* The widget goes on doing one thing at a time.
LEMMA StepCalm ==
  ASSUME TypeOK, SentInv, Calm, [Next]_vars PROVE Calm'
<1>0. /\ cooling \in [running : SUBSET Timers, timer : Timers \cup {0}, left : 0..Cooldown]
      /\ host \in Host /\ PageTyped
  BY DEF TypeOK, PageTyped
<1>1. ASSUME UNCHANGED draft PROVE UnderWay' = UnderWay
  BY <1>1 DEF UnderWay
<1>2. ASSUME CloseOverlay
      PROVE  /\ overlay' = 0 /\ (stray' = {} => stray = {})
             /\ "closed" \notin stray' => "closed" \notin stray /\ overlay \notin UnderWay
  BY <1>2 DEF CloseOverlay
<1>3. CASE Disable \/ Cancel
  <2>1. CloseOverlay /\ UNCHANGED <<draft, disabled, capturing, cooling>>
    BY <1>3 DEF Disable, Cancel
  <2>2. host'.calling = host.calling
    BY <1>0, <1>3 DEF Disable, Cancel, Host
  <2>. QED BY <1>1, <1>2, <2>1, <2>2 DEF Calm
<1>4. CASE Destroy
  <2>1. CloseOverlay /\ UNCHANGED <<draft, capturing>> /\ ~disabled'
    BY <1>4 DEF Destroy
  <2>2. cooling'.running = cooling.running \ {cooling.timer}
    BY <1>0, <1>4 DEF Destroy, Stopped
  <2>3. host'.calling = host.calling
    BY <1>0, <1>4 DEF Destroy, Host
  <2>. QED BY <1>1, <1>2, <2>1, <2>2, <2>3 DEF Calm
<1>5. ASSUME NEW by \in {"click", "host"}, Capture(by) PROVE Calm'
  <2>1. UNCHANGED <<host, draft, overlay, disabled, cooling>> /\ ~disabled
    BY <1>5 DEF Capture
  <2>2. "closed" \notin stray' => "closed" \notin stray /\ overlay = 0
    BY <1>5 DEF Capture, Strays
  <2>3. stray' = {} => stray = {} /\ ~host.calling
    BY <1>5 DEF Capture, Strays
  <2>. QED BY <1>1, <2>1, <2>2, <2>3 DEF Calm
<1>6. CASE Captured
  <2>1. UNCHANGED <<host, disabled, cooling, stray>> /\ capturing /\ ~capturing' /\ ~host.calling
    BY <1>6 DEF Captured, Idle
  <2>2. CASE overlay # 0
    BY <1>1, <1>6, <2>1, <2>2 DEF Calm, Captured
  <2>3. CASE overlay = 0
    <3>1. UnderWay' = UnderWay
      BY <1>6, <2>3, CapturedDraft
    <3>2. UnderWay \subseteq Drafts /\ 0 \notin Drafts
      BY WidgetAssumption DEF UnderWay, Drafts
    <3>. QED BY <2>1, <2>3, <3>1, <3>2 DEF Calm
  <2>. QED BY <2>2, <2>3
<1>7. CASE CaptureFails
  BY <1>1, <1>7 DEF Calm, CaptureFails
<1>8. ASSUME NEW d \in Drafts,
             Submit(d) \/ Post(d) \/ BlobFails(d) \/ (\E taken \in 0..1 : PostFails(d, taken))
      PROVE  Calm'
  <2>1. UNCHANGED <<host, stray, overlay, cooling, disabled, capturing>>
    BY <1>8 DEF Submit, Post, BlobFails, PostFails
  <2>2. Submit(d) => d = overlay
    BY DEF Submit, Submittable
  <2>3. UnderWay' \subseteq UnderWay \cup {overlay}
    BY <1>8, <2>2, AttemptDraft
  <2>. QED BY <2>1, <2>3 DEF Calm
<1>9. ASSUME NEW d \in Drafts, Succeeds(d) PROVE Calm'
  <2>1. UNCHANGED <<stray, cooling, disabled, capturing>> /\ overlay' = 0
    BY <1>9 DEF Succeeds
  <2>2. d \in UnderWay /\ UnderWay' = UnderWay \ {d}
    BY <1>9, SuccessDraft
  <2>3. "closed" \notin stray => overlay = d /\ overlay # 0 /\ UnderWay' = {} /\ ~capturing
    BY <2>2, WidgetAssumption DEF Calm, Drafts
  <2>4. stray = {} => ~disabled /\ ~capturing
    BY <2>3 DEF Calm
  <2>. QED BY <2>1, <2>3, <2>4 DEF Calm
<1>10. CASE CallbackReturns
  <2>1. UNCHANGED <<draft, stray, overlay, capturing>> /\ host.calling /\ ~host'.calling
    BY <1>0, <1>10 DEF CallbackReturns, Host
  <2>2. CASE fab = "none"
    <3>1. UNCHANGED <<cooling, disabled>>
      BY <1>10, <2>2 DEF CallbackReturns
    <3>. QED BY <1>1, <2>1, <3>1 DEF Calm
  <2>3. CASE fab # "none"
    <3>1. disabled' /\ StartCooldown
      BY <1>10, <2>3 DEF CallbackReturns
    <3>2. cooling'.running = cooling.running \cup {cooling'.timer}
      BY <3>1 DEF StartCooldown
    <3>. QED BY <1>1, <2>1, <3>1, <3>2 DEF Calm
  <2>. QED BY <2>2, <2>3
<1>11. ASSUME NEW t \in Timers, Tick(t) PROVE Calm'
  <2>1. UNCHANGED <<host, draft, overlay, capturing, stray>> /\ ~host.calling
    BY <1>11 DEF Tick, Idle
  <2>2. CASE cooling.left > 1
    BY <1>0, <1>1, <1>11, <2>1, <2>2 DEF Calm, Tick
  <2>3. CASE ~(cooling.left > 1)
    <3>1. ~disabled' /\ cooling'.running = cooling.running \ {cooling.timer}
      BY <1>0, <1>11, <2>3 DEF Tick, Stopped
    <3>. QED BY <1>1, <2>1, <3>1 DEF Calm
  <2>. QED BY <2>2, <2>3
<1>12. CASE \/ Log \/ Fetch
            \/ \E n \in Notes : Fetched(n)
            \/ \E allowed \in BOOLEAN : InitCall(allowed)
            \/ Enable
            \/ UNCHANGED vars
  <2>1. UNCHANGED <<draft, overlay, cooling, disabled, capturing, stray>>
    BY <1>12 DEF Log, Fetch, Fetched, InitCall, Enable, vars
  <2>2. host'.calling = host.calling
    BY <1>0, <1>12 DEF Log, Fetch, Fetched, InitCall, Enable, vars, Host
  <2>. QED BY <1>1, <2>1, <2>2 DEF Calm
<1>. QED BY <1>3, <1>4, <1>5, <1>6, <1>7, <1>8, <1>9, <1>10, <1>11, <1>12 DEF Next

\* What was reported stays out of the buffers and of every later overlay.
LEMMA StepApart ==
  ASSUME SentInv, NotesInv, OrderInv, [Next]_vars PROVE Apart'
<1>. SUFFICES ASSUME "closed" \notin stray' PROVE Apart'
  BY DEF Apart
<1>. DEFINE Of(d) == draft[d].context
<1>0. "closed" \notin stray
  BY DEF Next, Log, Fetch, Fetched, InitCall, Enable, Disable, Destroy, Capture,
     Captured,
         CaptureFails, Cancel, Submit, Post, BlobFails, PostFails, Succeeds, Tick, CallbackReturns, vars,
         CloseOverlay
<1>1. \A e \in Drafts : draft[e].sent =>
        /\ Of(e) \cap Logged(buffer) = {}
        /\ \A d \in Drafts \ {e} : d = overlay \/ draft[d].sent => Of(d) \cap Of(e) = {}
  BY <1>0 DEF OrderInv, Apart
<1>2. \A e \in Drafts : Of(e) \subseteq Begun \ pending
  BY DEF OrderInv, SeenInv
<1>3. 0 \notin Drafts
  BY WidgetAssumption DEF Drafts
<1>4. CASE Captured
  <2>1. UNCHANGED buffer
    BY <1>4 DEF Captured
  <2>2. CASE overlay # 0
    BY <1>1, <1>4, <2>1, <2>2 DEF Apart, Captured, Logged
  <2>3. CASE overlay = 0
    <3>. DEFINE new == overlay'
    <3>1. /\ new \in Drafts /\ ~draft[new].opened /\ draft'[new].context = Logged(buffer)
          /\ \A e \in Drafts \ {new} : draft'[e] = draft[e]
          /\ \A e \in Drafts : draft'[e].sent = draft[e].sent
      BY <1>4, <2>3, CapturedDraft
    <3>2. ~draft[new].sent
      BY <3>1 DEF SentInv, DraftInv, InTurn
    <3>3. Logged(buffer)' = Logged(buffer)
      BY <2>1 DEF Logged
    <3>. QED BY <1>1, <3>1, <3>2, <3>3 DEF Apart
  <2>. QED BY <2>2, <2>3
<1>. SUFFICES ASSUME ~Captured PROVE Apart'
  BY <1>4
<1>5. \A d \in Drafts : draft'[d].context = draft[d].context
  BY ContextsKept
<1>6. ASSUME NEW n \in Nat, n \notin Begun \ pending,
             Logged(buffer)' \subseteq Logged(buffer) \cup {n},
             overlay' \in {overlay, 0},
             \A d \in Drafts : draft'[d].sent = draft[d].sent
      PROVE  Apart'
  BY <1>1, <1>2, <1>3, <1>5, <1>6 DEF Apart
<1>7. CASE Log
  BY <1>6, <1>7, BeginSeen, PushedLog DEF Log
<1>8. CASE CaptureFails /\ host.installed
  BY <1>6, <1>8, BeginSeen, PushedLog DEF CaptureFails
<1>9. ASSUME NEW n \in Notes, Fetched(n) PROVE Apart'
  <2>1. n \in Nat /\ n \in pending
    BY <1>9, WidgetAssumption DEF Fetched, Notes
  <2>2. Logged(buffer)' \subseteq Logged(buffer) \cup {n}
    BY <1>9, <2>1, PushedLog DEF Fetched
  <2>. QED BY <1>6, <1>9, <2>1, <2>2 DEF Fetched
<1>10. ASSUME NEW d \in Drafts, Succeeds(d) PROVE Apart'
  <2>1. d = overlay
    BY <1>0, <1>10, SuccessDraft DEF OrderInv, Calm
  <2>2. Logged(buffer)' = {} /\ overlay' = 0
    BY <1>10, ClearedLog DEF Succeeds
  <2>3. \A e \in Drafts \ {d} : draft'[e].sent = draft[e].sent
    BY <1>10, SuccessDraft DEF OnlyDraft
  <2>. QED BY <1>1, <1>3, <1>5, <2>1, <2>2, <2>3 DEF Apart
<1>11. ASSUME Logged(buffer)' \subseteq Logged(buffer), overlay' \in {overlay, 0},
              \A d \in Drafts : draft'[d].sent = draft[d].sent
       PROVE  Apart'
  BY <1>1, <1>3, <1>5, <1>11 DEF Apart
<1>12. CASE Destroy
  BY <1>11, <1>12, ClearedLog DEF Destroy, CloseOverlay
<1>13. ASSUME NEW d \in Drafts,
              Submit(d) \/ Post(d) \/ BlobFails(d) \/ (\E taken \in 0..1 : PostFails(d, taken))
       PROVE  Apart'
  <2>1. UNCHANGED <<buffer, overlay>>
    BY <1>13 DEF Submit, Post, BlobFails, PostFails
  <2>2. \A e \in Drafts : draft'[e].sent = draft[e].sent
    BY <1>13, AttemptDraft DEF OnlyDraft
  <2>. QED BY <1>11, <2>1, <2>2 DEF Logged
<1>14. CASE \/ Fetch
            \/ \E allowed \in BOOLEAN : InitCall(allowed)
            \/ Enable \/ Disable \/ Cancel
            \/ \E by \in {"click", "host"} : Capture(by)
            \/ CaptureFails /\ ~host.installed
            \/ CallbackReturns
            \/ \E t \in Timers : Tick(t)
            \/ UNCHANGED vars
  <2>1. UNCHANGED <<buffer, draft>> /\ overlay' \in {overlay, 0}
    BY <1>14 DEF Fetch, InitCall, Enable, Disable, Cancel, Capture, CaptureFails,
       Tick, CallbackReturns, vars,
                 CloseOverlay
  <2>. QED BY <1>11, <2>1 DEF Logged
<1>. QED BY <1>7, <1>8, <1>9, <1>10, <1>12, <1>13, <1>14 DEF Next

-----------------------------------------------------------------------------
\* Everything the widget keeps, at any time.
WidgetInv == IInv /\ TypeOK /\ TimersInv /\ OrderInv

\* It holds in every state.
LEMMA Invariant == Spec => []WidgetInv
<1>1. Init => WidgetInv
  BY InitSent, InitNotes, InitTyped, InitOrder DEF WidgetInv, IInv
<1>2. WidgetInv /\ [Next]_vars => WidgetInv'
  BY StepSent, StepNotes, StepTyped, StepSeen, StepCalm, StepApart DEF WidgetInv,
     IInv, OrderInv
<1>. QED BY <1>1, <1>2, PTL DEF Spec

\* The variables have their types for any bounds: no buffer outgrows its size,
\* and a new cooldown always finds a timer (pushError, pushNetwork and
\* startCooldown of bug-fab.js).
THEOREM TypesHold == Spec => []TypeOK
<1>1. WidgetInv => TypeOK
  BY DEF WidgetInv
<1>. QED BY <1>1, Invariant, PTL

\* While overlays are closed at rest and open() is called with none on screen, a
\* success closes its own overlay and no entry is in two reports; while the host
\* does not call open() from onSubmitSuccess either, exactly one interval runs
\* while the button is disabled, and nothing opens meanwhile (submitReport,
\* closeOverlay and startCooldown of bug-fab.js, with the host's function between
\* the last two).
THEOREM OneAtATime == Spec => []InOrder
<1>1. WidgetInv => InOrder
  BY DEF WidgetInv, OrderInv, Calm, Apart, InOrder
<1>. QED BY <1>1, Invariant, PTL
=============================================================================
