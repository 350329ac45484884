# Bug-Fab: TLA+ models, model checking and proofs

Bug-Fab lets users of a web application file bug reports with a screenshot.
A browser widget captures and submits; a server adapter (FastAPI, Flask,
Django, and ports in other languages) validates, stores and lists the reports,
and passes them on to GitHub Issues and webhooks.  This directory models the
Python core under `src/bug_fab/` and the widget, checks the models with TLC and
proves theorems about them with TLAPS.

- [1. The system](#1-the-system): the inventory.
- [2. Plan](#2-plan): the modules, in order, and what is left.
- [3. Modules](#3-modules): how state and actions correspond to the code.
- [4. Runs](#4-runs): what each run checks and shows, its bounds, fairness.
- [5. Disagreements](#5-disagreements): where code and documents differ.
- [6. Proofs](#6-proofs): what holds for every value of the constants, and why.
- [7. Not modelled](#7-not-modelled).

## 1. The system

| Component | State | Operations | Hard behaviour | What makes it correct |
|---|---|---|---|---|
| Storage contract, `storage/base.py` | (abstract) reports by id | save, get, list, update_status, set_github_link, delete, archive, bulk close, bulk archive | - | every operation looks like one step on a map |
| File storage, `storage/files.py` | JSON and PNG per report, an archive directory, `index.json`, one `asyncio.Lock` | the same | three to four disk writes per operation with a crash between any two; an index that is lost or outdated; a lookup without the lock; a bulk call that releases the lock | ids are never taken over, acknowledged reports survive, the index follows the files |
| SQL storage, `storage/_sql_base.py`, `sqlite.py`, `postgres.py` | rows, lifecycle rows, an id counter, screenshot files | the same, each in a thread with its own session | read and commit are separate; files are outside the transaction; SQLite gives a rolled-back id out again | row and screenshot agree; log and status agree; ids are not reused |
| Storage lock, `files.py:107` with `adapters/flask/_runtime.py` | one `asyncio.Lock` shared by all requests | `async with self._lock` | Flask runs every request on a loop and a thread of its own | mutual exclusion; every request returns |
| Rate limiter, `_rate_limit.py` | timestamps per key, time of the last sweep, a `threading.Lock` | check, reset | the clock is read before the lock is taken | no more than the limit per window; nobody refused for expired entries; silent keys forgotten |
| Intake, `intake.py`, `_redact.py`, `schemas.py` | none | validate_payload, redact_report | the order of the checks decides the answer; redaction must come before every copy | nothing is stored or sent that failed a check or kept what is to be redacted |
| The three adapters, `routers/`, `adapters/flask/blueprint.py`, `adapters/django/views.py` | settings | submit, list, detail, status, delete, bulk calls | the same checks written three times, in three orders | the same request gets the same answer and leaves the same reports |
| Submit handler, `routers/submit.py` | module globals for storage, limiter, integrations | POST /bug-reports | save, read back, create issue, store link, webhook: every step may fail or overlap a viewer's call | a saved report is answered 201 whatever the integrations do |
| Viewer handlers, `routers/viewer.py` | none | list, detail, status, delete, bulk calls | storage call first, GitHub PATCH after; counts from five list calls | the issue follows the status |
| GitHub sync, `integrations/github.py` | `_labels_ensured` | ensure_labels, create_issue, sync_issue_state | requests overlap, fail, overtake each other | one issue per report |
| Webhook delivery, `integrations/webhook.py` | dead-letter directory | send with retries, replay_dead_letters | ambiguous timeouts, crash during back-off, two replays at once | a report is delivered or kept for replay |
| Django storage, `adapters/django/storage.py` | Django models, screenshot files | the same as SQL storage, in transactions with row locks | next id from the latest row; an INSERT that may become an UPDATE; files outside the transaction | an id names one report; a report shows its own screenshot; its log tells its status |
| Widget, `static/bug-fab.js` | buffers of errors and requests, button, overlay, cooldown timer, flags | init, open, enable, disable, destroy, capture, submit | captures, POSTs, fetches and intervals that end after the overlay, or the widget, is gone | a report is taken once; nothing logged before destroy is sent after it; the button comes back |

Interactions.  The widget posts a form to the submit handler.  The handler asks
the rate limiter, validates through intake, calls the storage, then GitHub
sync, the storage again for the link, then the webhook, and answers.  The viewer
handlers call the storage and then GitHub sync.  FastAPI runs all of this on one
event loop; the SQL storage moves its work to a thread pool; Flask runs each
request in a thread and each storage call on a fresh loop.  All of it shares one
storage object per process, and the storage shares a directory or a database.

`PROJECT.json` lists the hazards of this code at their lines, each with the
properties that would catch it or the reason why none does yet.

## 2. Plan

In order of importance.

1. `ReportStore` (contract), `FileStorage`, `MCFileStorage`,
   `FileStorageProofs`.
2. `SqlStorage`, `MCSqlStorage`, `SqlStorageProofs`: both id sources, failures,
   crashes.
3. `StorageLock`, `MCStorageLock`: the lock under one loop and under many.  Its
   proofs are in `AdaptersProofs`.
4. `RateLimiter`, `MCRateLimiter`, `RateLimiterProofs`.
5. `WebhookDelivery`, `MCWebhookDelivery`, `WebhookDeliveryProofs`: send,
   retries, dead letters, replays, crash; every report arrives once the receiver
   works.
6. `SubmitFlow`, `MCSubmitFlow`, `SubmitFlowProofs`: the submit handler and the
   viewer handlers around GitHub, composed with the storage contract.
7. `DjangoStorage`, `MCDjangoStorage`, `DjangoStorageProofs`: the third storage
   against the same contract.
8. `Adapters`, `MCAdapters`, `AdaptersProofs`: the handlers of the three adapters
   side by side, the intake and the redaction they share, and the listing with its
   statistics.
9. `Widget`, `MCWidget`, `WidgetProofs`: the page that holds the button.

All of these are done.  Left: `ensure_labels` of GitHub sync.  Section 6 names
what is only model-checked.

## 3. Modules

**ReportStore** is the promise of `storage/base.py`: a function from ids to
reports and one action per mutating method.  A report is its submission (which
stands for everything no operation changes: title, context, screenshot), status,
number of lifecycle entries, link and archived flag.  `Spec` is the strict
contract; `LooseSpec` lets an archived report be archived again.  An update may
leave any status in either.  The methods that return reports are `Read`, which
changes nothing.

**FileStorage** models `files.py`.  `live`, `arch`, `livePng`, `archPng` are the
files of a report; `index` is `index.json` with its `next_number` and the fields
of a row that change; `holder` is the lock; `op` is what each worker is doing,
with the report and index it holds in memory.  Each disk write (`os.replace`,
rename, unlink) is a step, since each is atomic and the process may stop between
two.  `save_report` is `SaveBegin`, `SavePng`, `SaveJson`, `SaveIndex`;
`update_status` and `set_github_link` are `UpdateBegin` or `LinkBegin`,
`UpdateReport`, `UpdateIndex`; `delete_report` is `DeleteBegin`, `Unlink` once per
file, `DeleteIndex`; `archive_report` is `ArchiveBegin`, `ArchiveJson`,
`ArchivePng`, `ArchiveIndex`, and `bulk_archive_closed` chains these under the
lock; `bulk_close_fixed` is `BulkCloseBegin`, which lists and releases the lock,
then a full update per id; `get_screenshot_path` is `LookFirst`, `LookSecond`,
without the lock.  `Fail` is a write that raises: the call ends and releases the
lock where it is; `Crash` forgets all calls.  `Backup` keeps a copy of
`index.json` at any moment (`backup`), and between calls `IndexFault` loses the
index or puts that copy back, with the statuses and the rows it had then.  An
update writes the one field it is called with into the row (`UpdateRow`), as the
code does.  The lock excludes perfectly here; whether it does is the question of
StorageLock.  Calls that change nothing and return at once (an id that is not
there) are no steps.

**SqlStorage** models `_sql_base.py`.  A row holds submission, status, link,
archived flag and the lifecycle log as a sequence.  A method is a `...Begin` step
that reads and a `...Commit` step that writes, because the session sends its
statements at commit; PNG writes, moves and unlinks are steps beside it.
`idSource` never changes and is one of `IdSources`: "row" is SQLite: the counter
UPDATE is the first statement, it makes the transaction the only writer (`writer`)
until commit or rollback, and a rollback gives the number back.  "sequence" is
PostgreSQL. `SaveFail` is a screenshot that cannot be written or a commit that
fails, `SaveCleanup` the unlink that follows the rollback, `Rollback` any other
exception before a commit.  `WriteStatus` has the ORM's habit of sending no UPDATE
for an attribute set to the value it was read with.

**StorageLock** models `asyncio.Lock` (CPython 3.10 and later, external) as the
coroutines of FileStorage use it.  `loopOf` gives each call its loop and never
changes; every assignment is an initial state, so one run covers FastAPI's
single loop, Flask's loop per request and everything between.  A loop runs one
coroutine until that awaits (`MayRun`); calls of different loops
interleave at every step, so acquiring is `Test` and `Take`.  A call that has to
wait binds the lock to its loop or is refused (`Queue`), its loop goes to sleep
(`Doze`), and a release resolves the first waiter's future, which the waiter's
loop notices only if it has not gone to sleep or is the releasing loop
(`Noticing`).

**DjangoStorage** models `adapters/django/storage.py` on PostgreSQL, in read
committed isolation.  A transaction is a `...Begin` step that selects for update,
which locks rows (`lock`) and waits for those another one holds, and a
`...Commit`; the save is finer, since its SELECT may wait, read an old row again
(`SaveSelectWaited`), find its key taken and turn into an UPDATE, or wait for
another INSERT of the key.  `received_at` is `clock`, read before the
transaction.  `disk` maps file names to content: a name is the report's own, or
that with a suffix when a file of that name is there, as FileField does. `Unlink`
follows the commit of a deletion, and `Refetch` the commit of a status change or
of a link: by then the row may be deleted, which answers 500 to a change that was
made, or be another report's, which is then what is answered.  `Abort` ends any
transaction anywhere and stands for an exception, a deadlock the database breaks,
and the end of the process.  On SQLite transactions exclude each other, which
leaves the order of `received_at` as the only overlap of two saves.

**RateLimiter** models `_rate_limit.py`.  `Arrive` reads the clock, `Enter` is
the critical section with sweep, pruning and verdict, `Reset` is reset, `Tick`
the clock.  `admitted` is a history of every timestamp that was let through;
`latest` and `ordered` are a history of whether threads have so far entered the
lock in the order in which they read the clock, as they do on one event loop.

**WebhookDelivery** models `webhook.py`.  A task is a send or a run of
`replay_dead_letters`; both go through the same posting loop, as in the code, and
differ in `persist_dead_letter` (`Failed`).  The receiver is external: a POST is
`Accepted`, `Rejected` (4xx), `Unavailable` (anything else, or no connection), or
taken with its answer lost (`AnswerLost`); the last three and a disk that fails
are `Mishap`s, of which there are finitely many.  `dlq` is the dead-letter
directory; envelopes are replayed in any order, of which the code's, by file name,
is one.  `received`, `unsettled`, `written` and `unwritten` are histories.
`delete_on_success=False` and a webhook without a directory are left out.

**SubmitFlow** models `submit_bug_report` and the viewer's handlers with a step
per await, over `ReportStore` (so over any storage that implements it) with ids
that never come back, and over GitHub, which is external.  A submit request goes
`SaveReport`, `ReadBack`, `CreateIssue`, `SetLink`, `SendWebhook`, where each may
fail; a status change is `ChangeStatus`, then `Patch`; a bulk close is `BulkList`,
then `BulkClose` for what was listed, in parts (`FileStorage`) or at once (SQL), or
`BulkFails`.  `astray` is a history of the reports whose issue may have been left
behind: a change fell between the save of the report and its link or between another
change and its PATCH, a PATCH failed or was lost in a crash, or a bulk close closed
what had been reopened after it was listed.  The next change made in turn takes the
report out again.

**Adapters** puts the same request to FastAPI, Flask and Django, each with a
storage of its own, in one step.  A handler is a sequence of checks in the order
of its code (`FastApiSubmit`, `FlaskSubmit`, `DjangoSubmit`, likewise `...Status`,
`...Delete`, `...Read`, `...Bulk`, `...Paging`); the first that fails is the answer
(`Verdict`).  A submission (`Form`) is a record of flaws: size, parts, screenshot,
metadata, where it names an environment, which fields hold personal data, what
goes wrong after it is accepted.  `rows`, `nextNo`, `bucket` and `sent` are what
each adapter stored, the limiter's hits and what left for GitHub and the webhook.
A listing is not one step: `List` reads page and total, `CountCard` each of the
five counts of `_compute_stats`, `ListDone` answers; other requests come between,
as they do for Flask's threads, Django's workers and the SQL backends (FastAPI
with `FileStorage` never yields inside a listing, which is the special case
without them).  `agreed` holds the adapters that no request has set apart from
FastAPI; `SubmitParts`, `ListParts`, `StatusParts`, `DeleteParts`, `CloseParts`
and `ArchiveParts` name those requests.

**Widget** models `static/bug-fab.js`.  The page runs one task at a time and a
task ends at an `await`, so a step is a task.  `openOverlayCapture` is `Capture`,
then `Captured` or `CaptureFails`; `submitReport` is `Submit`, `Post` (after
`toBlob`), then `Succeeds` or `PostFails`.  The host's `onSubmitSuccess` runs in
the middle of a success, after the buffers are cleared and the overlay is closed
(`Succeeds`) and before the cooldown (`CallbackReturns`): while `host.calling`
every call of the public API and every log entry may come, and no other task
(`Idle`). A focus handler of the element that `closeOverlay` gives the focus back
to runs at the same point.  `draft[d]` is the d-th overlay with what its closures
still await, which outlives its being on screen; `overlay` is the one on screen,
the global the closures read.  A `fetch` of the page is `Fetch`, then `Fetched`,
in whatever life of the widget.  `cooling` holds the intervals that run, the one
`cooldownTimer` names and the counter they share. `lives`, `late` and `stray` are
histories; `stray` holds "closed" once an overlay was closed, or open() called
over one, while its report was under way, and "early" once open() was called from
`onSubmitSuccess`.

`MC...` modules give TLC its sets.  Definitions commented "variant for mutation"
are wrong on purpose and used by no specification: they stand for plausible bugs
that the properties are known to notice.

## 4. Runs

| Run | Instance | Shows |
|---|---|---|
| `fs_faults` | 2 ids, 3 payloads, 2 callers, 1 crash or failed write, 1 index fault, copies of an index with a counter to 2 | files of an id come from one submission, acknowledged reports are kept, no update is lost, one row per report, the unlocked lookup misses nothing, the contract is implemented; with an intact index acknowledged live reports stay listed and no id comes back; before any fault the listing equals the files between calls |
| `sql` | 2 ids, 2 payloads, 1 link, 2 threads, failures, 1 crash, both id sources | ids are not reused, files and rows agree, lookups find what is there, the loose contract is implemented; with a sequence acknowledged reports keep row and screenshot |
| `sql_cleanup` | 2 ids, 2 threads | violation, see 5 |
| `django` | 3 ids, 3 payloads, 2 workers, clock to 5 | a report shows its own screenshot, no status change is lost or unlogged, the contract is implemented while saves do not overlap |
| `django_ids` | 2 ids, 2 workers | violation, see 5 |
| `lock_loops` | 3 calls, 3 loops, every assignment | calls of one loop exclude each other, the lock is not leaked, at most one loop's calls hang, on one loop every call returns without error |
| `lock_hang` | same | violation, see 5 |
| `rl_threads` | 2 keys, limit 2, window 2, clock to 4, 2 callers | only a full window refuses; entered in order, the limit holds in every window and idle keys are forgotten |
| `webhook` | 2 sends, 2 replays, 2 attempts, 4 mishaps, 1 crash | a send that returned delivered or kept its report, one envelope per report, no noted delivery is repeated, every report arrives |
| `submit_flow` | 2 ids, payloads and issues, 2 viewers, 2 failures, 1 crash | a report is linked to its own issue and no other, no issue is forgotten, answer and webhook body tell what was stored, the issue of a report that is not astray shows its status, whatever befalls the others |
| `adapters` | 2 settings, 47 submissions, 4 listings, 2 ids, 5 requests | the three adapters answer, store and send alike but where section 5 says so; what is kept and sent was checked and redacted; the counts of a listing are off by no more than what changed meanwhile |
| `widget` | 2 overlays, 2 log entries, cooldown 2, 1 lost answer, 1 destroy | a report is taken once, nothing logged before destroy is sent after it, overlays closed only at rest do not disturb each other, also with calls from `onSubmitSuccess`, the button comes back |

Bounds.  Two ids let one report be deleted and its successor be saved, and one
more payload than ids makes a save look for an id that is not there; Django's
saves that do not overlap need a third id to reuse one.  A crash happens at every
step of every operation, and one is enough because a crash only leaves files,
which the next calls meet as any later crash would.  `MaxLife` and `MaxLog` stop
status updates when the log is that long; two updates in flight are what a lost
update takes.  Three payloads let a save follow a copy that was put back, and
`MaxCopied` lets the copy's counter be at either id.  `Updates` of `fs_faults` and
`sql` is "fixed" alone, so that no report of theirs is opened again: what
reopening does is in section 5, and `SubmitFlow` has it.  Two callers are what
every race of these storages takes; a third would only repeat the second. 
`MCBound` of the SQL run allows one thing out of a crash, a linked report and a
call that links one, since a link is a field no crash treats otherwise than the
status.  The limiter's clock runs to four with a window of two, so that a window,
its successor and the sweep after it all occur; `MCBound` there cuts a key's
history at more than four admissions, twice the limit.  Django's `MaxClock` of
five stamps each of three saves, a status change and a bulk call with a time of
its own.  Four mishaps let a send use up its attempts and a replay do so again. 
`MaxRequests` counts the requests of the adapters' run that change something: five
are a save, a second one, a deletion of the newest, a save that gets its id, and a
status change; a listing sees `MaxListed` of them before it ends and `MaxMoved`
reports moved, enough for one count to miss what another has seen.  Forms hold
each pair of flaws on either side of which two adapters put a check.  The widget's
two overlays are the one that was closed and the one its POST then meets; two
entries with a buffer of one make an entry evict; a cooldown of two has a second
that is not the last.

Every run but `fs_faults` and `rl_threads` switches the deadlock check off:
payloads, sends, requests and overlays are bounded, so a run really ends when they
are used up, and calls of StorageLock end in errors.

Fairness.  `StorageLock` states `WF(Step(c))` because a thread that can go on is
scheduled, and `SF(Test(c))` because an event loop runs its ready coroutines first
in, first out, so one that is ready cannot be passed over for ever.
`WebhookDelivery` states `WF(Step(t))`, since every POST has a timeout and a
coroutine goes on, and `WF(ReplayBegin(r))`, since the docstring of
`replay_dead_letters` has it run by cron: the arrival of every report depends on
that, and on the receiver's working in the end (the bound on mishaps). `Widget`
states `WF(Tick(t))`: an interval that runs fires again, and
`WF(CallbackReturns)`: the host's function is called synchronously, and the page
does nothing until it returns.  Arrivals of requests, users and answers are fair
nowhere, and the other modules state no fairness.

## 5. Disagreements

Runs with expectation "violation" each show a trace in which the code does not do
what a document or comment of the repository says (`PROJECT.json`, findings).

- `sql_cleanup`: with SQLite, the clean-up of a failed save removes the screenshot
  of the save that got its id.
- `django_ids`: two Django saves that overlap get the same id, and the later one
  overwrites the report that the earlier one acknowledged.
- `lock_hang`: under Flask a call that had to wait for the lock is never woken.

More are known and have no run of their own.

*Storage.*  The file storage's `bulk_close_fixed` releases the lock between
listing and closing, so under Flask a report that is reopened in between is closed
(`files.py:240`; `CloseNext` has no test of the status).  The counter of a lost
`index.json` is rebuilt from the files that are left (`files.py:414`), so the id
of a deleted report may come back, which is why `NoIdReuse` asks for `faults = 0`.
Calls of different loops may both hold the lock (`Test` and `Take` interleave),
which is why `LoopExclusion` speaks of one loop.  Two overlapping archivals of an
SQL report both succeed and both log, which is why `SqlStorage` implements
`LooseSpec` and not `Spec`.  The UPDATE of the SQL bulk close names the ids its
SELECT found, so a report reopened in between is closed there as well.  When two
SQL status changes overlap, the ORM compares the new status with the one it read
and may send no UPDATE (`_sql_base.py:428`): the change is logged and not made
(`WriteStatus`); the contract permits any status here, and no property speaks of
it.  Django's bulk close reads the time before its transaction
(`adapters/django/storage.py:427`), and the log is shown by time, so an update
that commits in between is shown after the entry that closed the report:
`AuditTrail` tells the status from the log until an update and a bulk call overlap
(`raced`). Django takes `received_at` before the transaction
(`adapters/django/storage.py:248`), so even after saves that no longer overlap a
row with an earlier time and a higher id leads the next save to an id that is in
use; and Django gives the id of its newest report out again after its deletion.

*Limiter.*  `check` reads the clock before it takes the lock
(`_rate_limit.py:104`): threads that enter the other way round may drop entries
that still count, and the limit is exceeded.  The half of `LimitExact` about the
limit asks for entry in order, which one event loop gives and Flask's threads do
not; that nobody is refused for expired entries holds in any order.

*GitHub.*  The PATCH of a status change is sent after the storage call returned
(`routers/viewer.py:367`), and a report has no link while its issue is being
created (`routers/submit.py:375`): when calls overlap, the issue may stay in a
state its report does not have, though `docs/DEPLOYMENT_OPTIONS.md:449-451` says
that status changes sync to the issue.  A bulk close tells GitHub nothing, so the
issue of a report that is reopened between its listing and its closing stays open.
Nothing in the code prevents or repairs this.  `IssueFollowsInTurn` says how far
it goes: such a report is astray, no other report is drawn in, and the next change
that is made in turn sets its issue right.

*Webhook.*  Two replays that overlap may both deliver an envelope before either
removes it (`webhook.py:369`); `NoNeedlessDuplicate` speaks of replays that do
not.

*Adapters.*  `routers/submit.py:267-270` says that "all three Python adapters accept
and reject identical requests with identical error envelopes".  They accept the
same submissions when the limiter is off (`AcceptAlike`), and differ in this, each
named by one of the `...Parts` operators: a missing part is 422 with FastAPI's
own body, and 400 elsewhere; an empty screenshot is 400 with Flask, 415 elsewhere;
Flask asks the limiter before it looks at the declared length, Django has no
limiter and no viewer permissions; an `environment` at the top level of the
metadata is dropped by Django; a report deleted before it is read back is 201
with Django, 500 elsewhere; a page or page size out of range is refused by FastAPI,
replaced by Flask and clamped by Django, which raises when it is no number; a status
body that does not parse gets three different answers; Django's bulk close includes
archived reports.

*Widget.*  A POST that succeeds after its overlay was closed closes the overlay of
the report that is being edited by then (`bug-fab.js:2099`), and entries logged
between the opening of an overlay and its success are cleared unreported. A
capture in flight, or `open()`, opens an overlay after `disable()`, though
`bug-fab.js:2295-2297` closes one "so the user can't continue editing a report
while the host considers Bug-Fab disabled", and after `destroy()`.  Two successes
leave two intervals of which only the later can be stopped, so this cooldown and
later ones run at double speed (`static/README.md:74`).  A host that calls
`open()` in its `onSubmitSuccess` finds neither the overlay nor the cooldown in
its way (`bug-fab.js:2100`, the guard is at 2197): a report opens during the
cooldown, and its success starts a second interval.  A fetch in flight across
`destroy()` is logged into the next life of the widget (`CHANGELOG.md:109-114`).
`InOrder` therefore asks that overlays be closed at rest and, for what it says of
the cooldown, that `open()` is not called from `onSubmitSuccess` (`stray`);
`Forgotten` speaks of the buffers and excepts the fetches in `late`: a report
whose encoding or POST is under way at `destroy()` is not called back and still
goes out with the entries it was opened with.

## 6. Proofs

`FileStorageProofs` proves, for any ids, payloads, links and workers and without
bounds that matter (the bounds are parameters), that `FileStorage` keeps
`TypeOK` (`TypeCorrect`), `OneSubmissionPerId` (`NoTakeover`), `OnePlace`
(`LiveOrArchived`), `AckedKept` (`Durability`) and `ScreenshotFound`
(`LookupComplete`), with crashes and index faults as actions like any other.

These are not inductive by themselves: the invariant has to say what a call under
way relies on.  `IInv` adds

- `LockInv`: whoever is between two writes holds the lock and has a report;
- `SaveInv`: how far a save has come: before each of its writes the id has no
  other file, after it the file is what the save holds in memory;
- `UpdateInv`: the report an update is about to write is still there, with the
  submission the update read;
- `DeleteInv`: nobody expects a report whose unlinking has begun.

The proof that a step keeps `IInv` has one lemma per action; `OpStep` is shared
by all steps that change what a worker does and leave the files alone.  The lock
gives the frame: a step that writes files is made by the holder, so no other
worker is in a state `SaveInv` or `UpdateInv` speaks of.  The only assumption is
`FileStorageAssumption`: ids are positive numbers and `None` is none of the
payloads, links and workers.

`WebhookDeliveryProofs` proves, for any number of sends, replays, attempts,
mishaps and crashes, that `WebhookDelivery` keeps `TypeOK` (`TypeCorrect`),
`DeliveredOrKept` (`NothingDropped`), `OneEnvelope` (`NoGrowth`) and
`NoNeedlessDuplicate` (`NoRepeat`).  Its `IInv` adds

- `TaskInv`: which states a sender and a replay can be in, and that a sender sends
  its own report;
- `UnlinkInv`: a replay that is about to remove an envelope has delivered it;
- `EnvelopeInv`: an envelope is written once, by a sender in its last step;
- `NotedInv`, as long as replays do not overlap: a replay works on an envelope
  that is there, and when a delivery was noted its sender is done, nobody is
  posting the report again, and an envelope that is left is about to be removed.

One lemma, `MoveKeeps`, covers all steps that leave the disk alone, the failed
POSTs among them (`AfterFailure` says what a failure leads to).  The assumption is
`WebhookDeliveryAssumption`: senders and replays differ, `max_attempts` is at
least one.

The second part of the module goes on from there.  `CInv` says what `IInv` does
not: the report a save holds is new-born and in no file (`SaverInv`), what an
update is about to write is the report that is there with one field changed
(`UpdaterInv`), the log is as long as the updates that returned (`LifeInv`), and
the index counter is past every id handed out unless the index was lost
(`IdInv`).  From `CInvariant` follow `NoLostUpdate` (`UpdatesKept`), `NoIdReuse`
(`IdsHandedOutOnce`) and the refinement: `FilesImplementContract` maps every write
of a report's JSON to an operation of `ReportStore` and every other step to a
stutter.

The third part proves `ListingRight` (`ListsWhatIsThere`).  Its invariant
follows the index from the moment a save reads it to the moment it writes it back:
the rows a call holds in memory are the ones of the files but for the report the
call is about (`ExactBut`).  The rebuild of a lost index picks the greatest number
on disk, for which the proof shows that there always is one (`Bounded`).

`SqlStorageProofs` proves for both databases `TypeOK` (`RowsTyped`), `NoIdReuse`
(`IdsUsedOnce`), `KeptWithSequence` (`SequenceKeeps`), `FilesSound`
(`FilesAreSound`) and the refinement of the loose contract
(`RowsImplementContract`): each commit is one operation of `ReportStore` or, where
it finds nothing to write, a stutter.  The invariant says who holds which number
(`OneWriter` and `CounterInv` for the counter row, `SequenceIds` for the
sequence), whose files are where (`GoneInv`, `ShotInv`), and which call has still
to bring files in line (`LiveFollows`, `ArchFollows`, `MoveFollows`, as long as
the process did not stop).  `AckedKept` without the sequence is false: section 5.

`AdaptersProofs` proves `TypeOK` (`TypesHold`), `KeptVetted` (`VettedHolds`),
`AdaptersAgree` (`AgreementHolds`) and `StatsSkewBounded` (`SkewHolds`) for any
settings, submissions, listings and bounds.

- The first lemmas are about rows of checks: the first that fails is the answer
  (`VerdictFirst`), a row may be cut in two (`VerdictConcat`).  From them follows
  what each handler says to a submission (`HandlerSays`), which ones it accepts
  (`Accepts`) and which viewer's requests change a report (`Changes`).
- `TypeInv` adds to the types what a listing under way has so far (`Listing`) and
  that the limiters' hits are of the past.
- `AllVetted` is `KeptVetted` report by report and message by message.
- `AgreeInv`: an adapter no request has set apart has not only the reports of
  FastAPI but will number, limit and count the same: next number, hits and the
  listing under way are alike (`SameState`, `SameListing`).  Django has no
  counter; the id after its newest report is FastAPI's next number, since a
  deletion of the newest is one of the requests that set it apart
  (`NextFollows`).
- `SkewInv` says what `Skewed` allows after n of the five counts: their sum so far is
  compared with the reports in the first n states.  Sets that differ by changed
  reports alone differ in size by no more than there are of them (`SetsApart`),
  so a change that others make adds what it moves (`SkewedByChange`) and a
  count adds what it finds (`SkewedByCount`).

The second part of the module is about the lock that the calls of these handlers
share: the adapter decides on which loops they run.  `StorageLock` names its
specification `LockSpec`, so that one module can extend both.  It keeps
`LockSound` (`LockHolds`): the invariant holds two facts about event loops, that a
loop runs one coroutine at a time (`OneRuns`) and that whoever waits does so on
the loop the lock is bound to (`WaitersBound`); the queue of waiters does not
matter.  For `LockTypeOK` (`LockTypesHold`) it does: releasing the lock wakes the
head of the queue, and a future that was woken is taken out of the queue only by
the call that made it (`WokenQueued`).

`WidgetProofs` proves `SentRight` (`SendsRight`), `InOrder` (`OneAtATime`) and
`TypeOK` (`TypesHold`).  Per overlay the submissions come one after the other
(`InTurn`), and what a buffer, a capture or a fetch holds is of this life of the
widget or was under way when it was destroyed (`NotesInv`).  The host's callback
is a state like any other: the invariants hold while it runs.  For the types the
number of running intervals has to be bounded: there is one at most per overlay
that was sent (`TimersInv`).  `InOrder` follows from what a page that no call
closed in the middle looks like (`Calm`: which overlay is under way, which
interval runs), from `SeenInv`, by which every entry in the buffer and in a
context was recorded, and from `Apart`: what was sent is no longer in the buffer,
nor in the context of another overlay.

`RateLimiterProofs` proves `LimitExact` (`LimitHolds`) and `TypeOK` (`TypesHold`)
for any limit, window, callers and sources.  `Live` is written by the positions
it keeps, so that the first lemmas can say what pruning does: order and members
stay, and what is left out is old.  Whatever the order in which threads get the
lock, a bucket is a subsequence of the admissions of its source (`Embeds`), which
gives that nobody is refused on account of expired entries.  In the order of
the clock it is a final part of them, long enough for the window (`HoldsLatest`),
admissions are `Max` to a window (`Spaced`), and the last sweep is not ahead of the
clock (`SweepPast`); this gives the limit and that silent sources are forgotten.

`DjangoStorageProofs` proves `TypeOK` (`TypesHold`), `ScreenshotIsOwn`
(`ScreenshotsOwn`), `AuditTrail` (`AuditHolds`) and `ContractInTurn`
(`TurnImplements`) for any workers, ids, payloads and time.  Its `Inv` adds

- `OpInv`, `LockInv`: what a worker carries fits its step, and a transaction that
  is about to write holds the locks of its rows, which are as it selected them;
- `TagInv`, `FileInv`: a payload is in one place (to be submitted, being saved, in
  one row), a file holds the payload of at most one of these, the second choice
  of name is of the payload itself, and a file about to be unlinked is nobody's;
  this is why a screenshot stays the report's own when its id is used again;
- `LogInv`, `AuditInv`: the log counts the updates and is of the past, and its last
  status entry tells the status; a bulk call closes only rows whose log ends
  before it read the time, unless an update returned meanwhile;
- `TurnInv`, as long as saves take turns: rows are in the order of their ids, and the
  save under way is ahead of them, so that the id it computes is of no row.

The refinement maps each commit to an operation of `ReportStore`.  What the
`SELECT` of a save found is a function from rows to times, of which `First` picks
the row; `Room` is the bound on ids.

`SubmitFlowProofs` proves `TypeOK` (`HandlersTyped`), `LinkRight`
(`LinksAreRight`), `ToldTruly` (`AnswersAreTrue`) and `IssueFollowsInTurn`
(`IssuesFollow`).  The first part of the invariant says what a handler between two
awaits may rely on although others delete and save meanwhile: its id is of no
other report (`OwnId`), its issue is its own (`IssueInv`, `LinkInv`), nobody
forgets an issue (`KeptInv`).  The second part follows a status on its way to the
issue of a report that is not astray: one viewer at most is on the way, it brings
the status the report has, and an issue nobody is on the way to shows it
(`OneOnTheWay`, `BringsStatus`, `Shown`); a report is as it was saved until it is
linked (`BornOpen`).  Different reports have different links, so what a handler of
one does changes nothing of this for another.

Each of these was checked by TLC as an invariant on the bounds of the module's run
before it was proved.  The assumptions are the `ASSUME`s of the modules, which say
that the sets of model values are apart.

Only model-checked: liveness, which is out of the prover's reach (`OneLoopServes`,
`EveryReportArrives`, `FabReturns`).  `AckedKept` is false of the SQL storage on
SQLite and of the Django storage (section 5).

## 7. Not modelled

- Wording and rendering of listings and pages, text search; `_coerce_*` and
  `_to_detail` projections: pure reads.
- The halves of `FileStorage` that skip unreadable report files.
- What a schema demands of each field, and the regular expressions of the
  redaction: a unit test reaches them better.
- GitHub's labels (`ensure_labels`) and issue texts; back-off times.
- The widget's annotation tools, the placing and the badge of its button, texts:
  they change nothing the properties see.
- Slack, Discord, Teams, Linear and PagerDuty integrations: one outgoing POST
  each, formatted differently, the same delivery as the webhook without its
  dead letters.
- Ports to other languages (`adapters/` at the top level), examples, scripts,
  type declarations, tests, templates: outside the Python core.
- URL configuration, admin, blueprint and router wiring, the reading of settings.
- Schema migrations (`storage/_alembic`), configuration, logging.
