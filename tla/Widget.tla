------------------------------- MODULE Widget -------------------------------
(***************************************************************************)
(* The browser widget, static/bug-fab.js: the button (FAB), the capture of   *)
(* a screenshot, the overlay in which a report is edited, its submission,   *)
(* the cooldown after it, and the buffers of what the page logged.          *)
(*                                                                         *)
(* The page runs one task at a time.  A task ends where the code awaits      *)
(* something, so a step here is a task: user, host page, html2canvas,       *)
(* toBlob, fetch and the interval timers take turns in any order.  One task  *)
(* is interrupted: a success calls the host page before it ends, and the    *)
(* host may call the widget in turn.                                       *)
(***************************************************************************)
EXTENDS Integers, Sequences, FiniteSetsExt, Functions

CONSTANTS BufferSize,   \* config.bufferSize
          Cooldown,     \* config.cooldownSeconds
          MaxDrafts,    \* bound: overlays that are opened
          MaxNotes,     \* bound: what the page logs or fetches
          MaxLost,      \* bound: overlays whose POST is answered in vain
          MaxDestroys   \* bound: calls of destroy

Drafts == 1..MaxDrafts
Notes == 1..MaxNotes
Timers == 1..MaxDrafts      \* setInterval's ids: one cooldown per overlay

ASSUME WidgetAssumption ==
  /\ BufferSize \in Nat \ {0} /\ Cooldown \in Nat \ {0}
  /\ MaxDrafts \in Nat /\ MaxNotes \in Nat /\ MaxLost \in Nat /\ MaxDestroys \in Nat

VARIABLES
  host,      \* initialized, bufferInstalled, userDisabled, whether config was ever
             \* set, and whether onSubmitSuccess is running
  fab,       \* the button: "none", "shown" or "hidden"
  disabled,  \* fab.disabled
  capturing, \* isCapturing
  overlay,   \* the overlay on screen, or 0
  draft,     \* draft[d]: the overlay opened d-th and its submission
  notes,     \* notes[n]: in which life of the widget entry n began
  pending,   \* entries whose fetch has no answer yet
  buffer,    \* errors and networkLog, both of at most BufferSize entries
  cooling,   \* the intervals that run, cooldownTimer, cooldownRemaining
  lives,     \* calls of destroy
  late,      \* entries whose fetch was under way at a destroy
  stray      \* how the widget was used out of turn

vars == <<host, fab, disabled, capturing, overlay, draft, notes, pending, buffer,
          cooling, lives, late, stray>>

Host == [initialized : BOOLEAN, installed : BOOLEAN, off : BOOLEAN, configured : BOOLEAN,
         calling : BOOLEAN]

\* "closed": an overlay was closed while its report was under way, or open() was
\* called with an overlay on screen.  "early": open() was called while the host
\* was being told of a success.
Strays == {"closed", "early"}

\* An overlay: whether its submit button is enabled, the submissions that await
\* toBlob and fetch, how often the server took the report, how many of those
\* answers were lost, and the entries of its context.
Draft == [opened : BOOLEAN, ready : BOOLEAN, encoding : 0..1, posting : 0..1, sent : BOOLEAN,
          taken : Nat, lost : Nat, context : SUBSET Notes]
Unopened == [opened |-> FALSE, ready |-> FALSE, encoding |-> 0, posting |-> 0, sent |-> FALSE,
             taken |-> 0, lost |-> 0, context |-> {}]

Empty == [errors |-> << >>, network |-> << >>]
Logged(buf) == Range(buf.errors) \cup Range(buf.network)

NoCooldown == [running |-> {}, timer |-> 0, left |-> 0]

Opened == {d \in Drafts : draft[d].opened}
UnderWay == {d \in Drafts : draft[d].encoding + draft[d].posting > 0}

Init ==
  /\ host = [initialized |-> FALSE, installed |-> FALSE, off |-> FALSE, configured |-> FALSE,
             calling |-> FALSE]
  /\ fab = "none" /\ disabled = FALSE
  /\ capturing = FALSE
  /\ overlay = 0
  /\ draft = [d \in Drafts |-> Unopened]
  /\ notes = << >> /\ pending = {} /\ buffer = Empty
  /\ cooling = NoCooldown
  /\ lives = 0 /\ late = {}
  /\ stray = {}

-----------------------------------------------------------------------------
\* Nothing but the host's function runs while it runs.
Idle == ~host.calling

-----------------------------------------------------------------------------
(* The buffers.                                                            *)

Unevicted(buf, n) == Append(buf, n)

\* pushError, pushNetwork: the oldest entry gives way.
Push(buf, n) ==
  IF Len(buf) = BufferSize THEN Append(Tail(buf), n) ELSE Append(buf, n)

\* A new entry, which begins in this life of the widget.
Entry == Len(notes) + 1
Begin == Entry \in Notes /\ notes' = Append(notes, lives)

\* console.error, console.warn, an uncaught error or rejection on the page.
Log ==
  /\ host.installed
  /\ Begin
  /\ buffer' = [buffer EXCEPT !.errors = Push(@, Entry)]
  /\ UNCHANGED <<host, fab, disabled, capturing, overlay, draft, pending, cooling, lives, late, stray>>

\* A fetch of the page goes through the wrapper, and is logged when it is over,
\* whatever became of the widget since.
Fetch ==
  /\ host.installed
  /\ Begin
  /\ pending' = pending \cup {Entry}
  /\ UNCHANGED <<host, fab, disabled, capturing, overlay, draft, buffer, cooling, lives, late, stray>>

Fetched(n) ==
  /\ Idle /\ n \in pending
  /\ pending' = pending \ {n}
  /\ buffer' = [buffer EXCEPT !.network = Push(@, n)]
  /\ UNCHANGED <<host, fab, disabled, capturing, overlay, draft, notes, cooling, lives, late, stray>>

-----------------------------------------------------------------------------
(* The host page: init, enable, disable, destroy.                          *)

\* init, explicit or automatic; allowed is what config.enabled says.
InitCall(allowed) ==
  /\ ~host.initialized
  /\ host' = [host EXCEPT !.initialized = TRUE, !.installed = TRUE, !.configured = TRUE]
  /\ fab' = IF allowed /\ ~host.off THEN "shown" ELSE fab
  /\ UNCHANGED <<disabled, capturing, overlay, draft, notes, pending, buffer, cooling, lives, late, stray>>

Enable ==
  /\ host.off \/ (host.initialized /\ fab # "shown")
  /\ host' = [host EXCEPT !.off = FALSE]
  /\ fab' = IF host.initialized THEN "shown" ELSE fab
  /\ UNCHANGED <<disabled, capturing, overlay, draft, notes, pending, buffer, cooling, lives, late, stray>>

\* closeOverlay: the overlay goes, what awaits something stays.
CloseOverlay ==
  /\ overlay' = 0
  /\ stray' = stray \cup {x \in {"closed"} : overlay \in UnderWay}

Disable ==
  /\ ~host.off
  /\ host' = [host EXCEPT !.off = TRUE]
  /\ fab' = IF fab = "shown" THEN "hidden" ELSE fab
  /\ CloseOverlay
  /\ UNCHANGED <<disabled, capturing, draft, notes, pending, buffer, cooling, lives, late>>

\* Mutated: the buffers are not emptied.
KeptBuffer == buffer

\* Mutated: the interval runs on.
KeptRunning == cooling

\* clearBuffers.
Cleared == Empty

\* clearInterval(cooldownTimer).
Stopped == [cooling EXCEPT !.running = @ \ {cooling.timer}, !.timer = 0]

\* destroy: everything goes but what awaits something.  Only the interval that
\* cooldownTimer names is stopped.
Destroy ==
  /\ lives < MaxDestroys
  /\ lives' = lives + 1 /\ late' = late \cup pending
  /\ host' = [host EXCEPT !.initialized = FALSE, !.installed = FALSE, !.off = FALSE]
  /\ fab' = "none" /\ disabled' = FALSE
  /\ cooling' = Stopped
  /\ CloseOverlay
  /\ buffer' = Cleared
  /\ UNCHANGED <<capturing, draft, notes, pending>>

-----------------------------------------------------------------------------
(* Capture and overlay.                                                    *)

\* openOverlayCapture up to its first await.  The user can click a button that
\* is seen and not covered by the overlay; the host may call open() at any time
\* once init has set a submitUrl.
Capture(by) ==
  /\ ~capturing /\ ~disabled
  /\ host.configured
  /\ by = "click" => Idle /\ fab = "shown" /\ overlay = 0
  /\ capturing' = TRUE
  /\ stray' = stray \cup {x \in Strays : (x = "closed" /\ overlay # 0) \/ (x = "early" /\ host.calling)}
  /\ UNCHANGED <<host, fab, disabled, overlay, draft, notes, pending, buffer, cooling, lives, late>>

\* The screenshot is there: openOverlayWithScreenshot, unless an overlay is.
Captured ==
  LET d == Cardinality(Opened) + 1
  IN  /\ Idle /\ capturing
      /\ overlay = 0 => d \in Drafts
      /\ capturing' = FALSE
      /\ IF overlay # 0 THEN UNCHANGED <<overlay, draft>>
         ELSE /\ overlay' = d
              /\ draft' = [draft EXCEPT ![d].opened = TRUE, ![d].ready = TRUE, ![d].context = Logged(buffer)]
      /\ UNCHANGED <<host, fab, disabled, notes, pending, buffer, cooling, lives, late, stray>>

\* html2canvas fails; the widget says so with console.error.
CaptureFails ==
  /\ Idle /\ capturing
  /\ capturing' = FALSE
  /\ IF host.installed THEN Begin /\ buffer' = [buffer EXCEPT !.errors = Push(@, Entry)]
     ELSE UNCHANGED <<notes, buffer>>
  /\ UNCHANGED <<host, fab, disabled, overlay, draft, pending, cooling, lives, late, stray>>

\* Cancel or Escape.
Cancel ==
  /\ Idle /\ overlay # 0
  /\ CloseOverlay
  /\ UNCHANGED <<host, fab, disabled, capturing, draft, notes, pending, buffer, cooling, lives, late>>

-----------------------------------------------------------------------------
(* Submission and cooldown.                                                *)

\* The submit button of an overlay on screen is enabled.
Submittable(d) == overlay = d /\ draft[d].ready

\* submitReport up to toBlob; a report without title goes nowhere.
Submit(d) ==
  /\ Idle /\ Submittable(d)
  /\ draft' = [draft EXCEPT ![d].ready = FALSE, ![d].encoding = @ + 1]
  /\ UNCHANGED <<host, fab, disabled, capturing, overlay, notes, pending, buffer, cooling, lives, late, stray>>

\* The image is there, and the POST leaves.
Post(d) ==
  /\ Idle /\ draft[d].encoding > 0
  /\ draft' = [draft EXCEPT ![d].encoding = @ - 1, ![d].posting = @ + 1]
  /\ UNCHANGED <<host, fab, disabled, capturing, overlay, notes, pending, buffer, cooling, lives, late, stray>>

\* The catch block, and what led there: toBlob fails, the server refuses, or it
\* took the report and its answer is lost.  The button of this overlay is enabled
\* again, seen or not.
BlobFails(d) ==
  /\ Idle /\ draft[d].encoding > 0
  /\ draft' = [draft EXCEPT ![d].encoding = @ - 1, ![d].ready = TRUE]
  /\ UNCHANGED <<host, fab, disabled, capturing, overlay, notes, pending, buffer, cooling, lives, late, stray>>

PostFails(d, taken) ==
  /\ Idle /\ draft[d].posting > 0
  /\ taken <= MaxLost - Cardinality({e \in Drafts : draft[e].lost > 0})
  /\ draft' = [draft EXCEPT ![d].posting = @ - 1, ![d].ready = TRUE,
                            ![d].taken = @ + taken, ![d].lost = @ + taken]
  /\ UNCHANGED <<host, fab, disabled, capturing, overlay, notes, pending, buffer, cooling, lives, late, stray>>

\* The answer is 2xx: the buffers and the overlay on screen go, whosever it is,
\* and the host is called: onSubmitSuccess, before it the focus handler of what
\* closeOverlay gives the focus back to.
Succeeds(d) ==
  /\ Idle /\ draft[d].posting > 0
  /\ draft' = [draft EXCEPT ![d].posting = @ - 1, ![d].sent = TRUE, ![d].taken = @ + 1]
  /\ buffer' = Cleared
  /\ overlay' = 0
  /\ host' = [host EXCEPT !.calling = TRUE]
  /\ UNCHANGED <<fab, disabled, capturing, notes, pending, cooling, lives, late, stray>>

\* startCooldown: a new interval, whose id replaces the one kept.
StartCooldown ==
  LET t == CHOOSE x \in Timers : x \notin cooling.running
  IN  cooling' = [running |-> cooling.running \cup {t}, timer |-> t, left |-> Cooldown]

\* The host's function returns or throws, and the cooldown begins if there is a
\* button by then.
CallbackReturns ==
  /\ host.calling
  /\ host' = [host EXCEPT !.calling = FALSE]
  /\ IF fab = "none" THEN UNCHANGED <<cooling, disabled>>
     ELSE StartCooldown /\ disabled' = TRUE
  /\ UNCHANGED <<fab, capturing, overlay, draft, notes, pending, buffer, lives, late, stray>>

\* Mutated: the interval ends and leaves the button disabled.
NeverAgain(t) ==
  /\ Idle /\ t \in cooling.running
  /\ cooling' = IF cooling.left > 1 THEN [cooling EXCEPT !.left = @ - 1]
                ELSE [Stopped EXCEPT !.left = 0]
  /\ UNCHANGED <<host, fab, disabled, capturing, overlay, draft, notes, pending, buffer, lives, late, stray>>

\* A second of an interval: at the end it stops the interval that cooldownTimer
\* names and enables the button there is.  left = 0 stands for what is below, too; the
\* error of an interval that finds no button is one that Log may log.
Tick(t) ==
  /\ Idle /\ t \in cooling.running
  /\ IF cooling.left > 1
     THEN /\ cooling' = [cooling EXCEPT !.left = @ - 1]
          /\ UNCHANGED disabled
     ELSE /\ cooling' = [Stopped EXCEPT !.left = 0]
          /\ disabled' = FALSE
  /\ UNCHANGED <<host, fab, capturing, overlay, draft, notes, pending, buffer, lives, late, stray>>

Next ==
  \/ Log \/ Fetch
  \/ \E n \in Notes : Fetched(n)
  \/ \E allowed \in BOOLEAN : InitCall(allowed)
  \/ Enable \/ Disable \/ Destroy
  \/ \E by \in {"click", "host"} : Capture(by)
  \/ Captured \/ CaptureFails \/ Cancel
  \/ \E d \in Drafts : Submit(d) \/ Post(d) \/ Succeeds(d) \/ BlobFails(d)
  \/ \E d \in Drafts, taken \in 0..1 : PostFails(d, taken)
  \/ CallbackReturns
  \/ \E t \in Timers : Tick(t)

\* An interval that runs fires again, and the host's function, which is called
\* synchronously, comes to an end.
Fairness == WF_vars(CallbackReturns) /\ \A t \in Timers : WF_vars(Tick(t))

Spec == Init /\ [][Next]_vars /\ Fairness

-----------------------------------------------------------------------------
(* Properties.                                                             *)

\* The variables have their types; the buffers keep to their size.
TypeOK ==
  /\ host \in Host
  /\ fab \in {"none", "shown", "hidden"} /\ disabled \in BOOLEAN
  /\ capturing \in BOOLEAN
  /\ overlay \in Opened \cup {0}
  /\ draft \in [Drafts -> Draft]
  /\ notes \in Seq(0..MaxDestroys) /\ pending \subseteq Notes
  /\ buffer \in [errors : Seq(Notes), network : Seq(Notes)]
  /\ Len(buffer.errors) <= BufferSize /\ Len(buffer.network) <= BufferSize
  /\ cooling \in [running : SUBSET Timers, timer : Timers \cup {0}, left : 0..Cooldown]
  /\ cooling.timer \in cooling.running \cup {0}
  /\ late \subseteq Notes /\ lives \in 0..MaxDestroys /\ stray \subseteq Strays

\* The server is not sent a report again that it was known to have taken.
TakenOnce == \A d \in Drafts : draft[d].taken <= draft[d].lost + 1

\* After destroy the buffers hold nothing that was logged before, but for fetches
\* that were under way ("a later re-init could submit it", bug-fab.js:2341).
Forgotten == \A n \in Logged(buffer) : notes[n] = lives \/ n \in late

\* What is sent is sent once and from this life of the widget.
SentRight == TakenOnce /\ Forgotten

\* While overlays are only closed at rest, and open() is called with none on
\* screen: the report under way is the one on screen, so that its success closes
\* no other one, and no entry is reported twice.  While, besides, the host does
\* not call open() from onSubmitSuccess, where neither the overlay nor the
\* cooldown holds it back: one interval runs exactly as long as the button is
\* disabled, and nothing can be opened meanwhile.
InOrder ==
  /\ "closed" \notin stray =>
       /\ UnderWay \subseteq {overlay}
       /\ \A d, e \in Drafts :
            draft[d].sent /\ draft[e].sent /\ d # e =>
              draft[d].context \cap draft[e].context = {}
  /\ stray = {} =>
       /\ cooling.running = IF disabled THEN {cooling.timer} ELSE {}
       /\ disabled => overlay = 0 /\ ~capturing

\* The button comes back after a cooldown (README.md:74, "FAB disable duration
\* after a successful submit"), even when intervals were left over.
FabReturns == disabled ~> ~disabled
=============================================================================
