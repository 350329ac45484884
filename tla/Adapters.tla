------------------------------ MODULE Adapters ------------------------------
(***************************************************************************)
(* The three Python adapters side by side: the FastAPI routers              *)
(* (routers/submit.py, routers/viewer.py), the Flask blueprint              *)
(* (adapters/flask/blueprint.py) and the Django views                       *)
(* (adapters/django/views.py).  Every request is put to all three, each     *)
(* with its own storage, and the answers and the stored reports compared.   *)
(*                                                                         *)
(* A handler is a row of checks, in the order of its code, and an effect    *)
(* when none of them fails.  One request is one step, except the listing:   *)
(* it reads the storage six times and other requests come in between.       *)
(* FastAPI and Flask keep their reports in FileStorage, Django in its       *)
(* database; what happens inside one storage operation is in FileStorage    *)
(* and DjangoStorage, and inside the limiter in RateLimiter.                *)
(***************************************************************************)
EXTENDS Integers, Sequences, FiniteSetsExt, Functions

CONSTANTS Configs,      \* the settings the three are started with
          Forms,        \* the submissions
          Queries,      \* the listings asked for
          Absent,       \* a query parameter that is not there
          Garbled,      \* a query parameter that is no number
          RateMax,      \* rate_limit_max
          DefaultSize,  \* viewer_page_size, and Django's fixed 20
          LargestSize,  \* 200, the largest page
          MaxReports,   \* bound: ids an adapter may give out
          MaxRequests,  \* bound: requests of a behaviour that change something
          MaxListed,    \* bound: the ones before the end of a listing
          MaxMoved      \* bound: reports moved during a listing

Adapter == {"fastapi", "flask", "django"}
Limiters == {"fastapi", "flask"}
Ids == 1..MaxReports
Malformed == 0          \* an id that fails REPORT_ID_RE

Status == {"open", "investigating", "fixed", "closed"}
Cards == <<"open", "investigating", "fixed", "closed">>

\* What the settings switch: the limiter, the three viewer permissions,
\* redaction and the two integrations.
Settings == [limiter : BOOLEAN, gates : BOOLEAN, redact : BOOLEAN, sync : BOOLEAN]

\* A submission: its declared Content-Length, its parts, its screenshot, its
\* metadata, where the metadata names an environment, the fields that hold
\* personal data, what goes wrong after it was accepted, and whether GitHub
\* opens an issue for it.
PiiFields == {"title", "reporter"}
Form == [length : {"fits", "huge", "unstated"},
         parts  : {"both", "partial"},
         shot   : {"png", "empty", "long", "other"},
         meta   : {"ok", "long", "garbled", "version", "invalid"},
         env    : {"none", "context", "top"},
         pii    : SUBSET PiiFields,
         fault  : {"none", "save", "gone"},
         issue  : BOOLEAN]

\* A listing: the parameters page and page_size as they came, the status asked
\* for, and whether only the reports of an environment are.
Query == [page : Nat \cup {Absent, Garbled}, size : Nat \cup {Absent, Garbled},
          status : Status \cup {"any"}, env : BOOLEAN]

ASSUME AdaptersAssumption ==
  /\ Configs \subseteq Settings
  /\ Forms \subseteq Form
  /\ Absent # Garbled
  /\ Queries \subseteq Query
  /\ RateMax \in Nat \ {0}
  /\ LargestSize \in Nat \ {0} /\ DefaultSize \in 1..LargestSize
  /\ MaxReports \in Nat /\ MaxRequests \in Nat /\ MaxListed \in 0..MaxRequests
  /\ MaxMoved \in Nat

VARIABLES
  conf,     \* the settings
  rows,     \* rows[a][i]: the report stored under id i by adapter a
  nextNo,   \* index.json's next_number of the two file storages
  bucket,   \* bucket[a]: the requests the limiter of a has counted
  sent,     \* sent[a]: what left for GitHub and the webhook
  clock,    \* requests so far
  agreed,   \* the adapters no request has set apart from FastAPI so far
  look,     \* the listing being answered
  moved     \* moved[a]: reports changed since it began

vars == <<conf, rows, nextNo, bucket, sent, clock, agreed, look, moved>>

NoRow == [status |-> "none"]
Row == [status : Status, archived : BOOLEAN, env : BOOLEAN, pii : SUBSET PiiFields,
        linked : BOOLEAN, sound : BOOLEAN]
Live(a) == {i \in Ids : rows[a][i] # NoRow}

-----------------------------------------------------------------------------
(* Checks and answers.                                                     *)

Check(fails, says) == [fails |-> fails, says |-> says]

TooLarge    == <<413, "payload_too_large">>
BadMedia    == <<415, "unsupported_media_type">>
BadRequest  == <<400, "validation_error">>
BadVersion  == <<400, "unsupported_protocol_version">>
BadSchema   == <<422, "schema_error">>
Unprocessed == <<422, "detail">>           \* FastAPI's own body, no error code
RateLimited == <<429, "rate_limited">>
Forbidden   == <<403, "forbidden">>
NotFound    == <<404, "not_found">>
Failed      == <<500, "internal_error">>
Raised      == <<500, "exception">>        \* an exception leaves the view
Created     == <<201, "created">>
Ok          == <<200, "ok">>
Gone        == <<204, "no content">>

\* The answer of the first check that fails, or good when none does.
Verdict(checks, good) ==
  LET failed == {k \in DOMAIN checks : checks[k].fails}
  IN  IF failed = {} THEN good ELSE checks[Min(failed)].says

\* intake._parse_metadata: text that is no JSON, then a protocol version other
\* than "0.1", then the schema.
ParseMetadata(f) ==
  << Check(f.meta = "garbled", BadRequest),
     Check(f.meta = "version", BadVersion),
     Check(f.meta = "invalid", BadSchema) >>

\* intake.validate_payload: sizes, then the media type by header and by magic
\* bytes (which an empty screenshot has not), then the metadata.
ValidatePayload(f) ==
  << Check(f.meta = "long", TooLarge),
     Check(f.shot = "long", TooLarge),
     Check(f.shot \in {"other", "empty"}, BadMedia) >>
  \o ParseMetadata(f)

\* The guard on the declared Content-Length, before the body is parsed.
Oversized(f) == Check(f.length = "huge", TooLarge)

\* RateLimiter.check refuses: as many hits in the window as it may hold.
\* Mutated: `>` for `>=`.
OneTooMany(a) == conf.limiter /\ a \in Limiters /\ Cardinality(bucket[a]) > RateMax
LimiterFull(a) == conf.limiter /\ a \in Limiters /\ Cardinality(bucket[a]) >= RateMax

-----------------------------------------------------------------------------
(* POST /bug-reports: the checks before the limiter, those after it, whether *)
(* the report gets the environment the metadata names, and the answer when   *)
(* the stored report cannot be read back.                                    *)

FastApiSubmit(f) ==
  [before |-> << Oversized(f), Check(f.parts = "partial", Unprocessed) >>,
   after  |-> ValidatePayload(f),
   env    |-> f.env \in {"context", "top"},
   unread |-> Failed]

FlaskSubmit(f) ==
  [before |-> << >>,
   after  |-> << Oversized(f),
                 Check(f.parts = "partial", BadRequest),
                 Check(f.shot = "empty", BadRequest) >> \o ValidatePayload(f),
   env    |-> f.env \in {"context", "top"},
   unread |-> Failed]

\* Mutated: no guard on the declared length.
DjangoUnsized(f) ==
  [before |-> << Check(f.parts = "partial", BadRequest) >>,
   after  |-> ValidatePayload(f),
   env    |-> f.env = "context",
   unread |-> Created]

DjangoSubmit(f) ==
  [before |-> << Oversized(f), Check(f.parts = "partial", BadRequest) >>,
   after  |-> ValidatePayload(f),
   env    |-> f.env = "context",
   unread |-> Created]

SubmitHandler(a, f) == CASE a = "fastapi" -> FastApiSubmit(f)
                         [] a = "flask"   -> FlaskSubmit(f)
                         [] a = "django"  -> DjangoSubmit(f)

\* What the checks on either side of the limiter say of each submission.
BeforeLimiter ==
  [a \in Adapter |-> [f \in Forms |-> Verdict(SubmitHandler(a, f).before, Created)]]
AfterLimiter ==
  [a \in Adapter |-> [f \in Forms |-> Verdict(SubmitHandler(a, f).after, Created)]]

ReachesLimiter(a, f) == conf.limiter /\ a \in Limiters /\ BeforeLimiter[a][f] = Created

SubmitVerdict(a, f) ==
  IF BeforeLimiter[a][f] # Created THEN BeforeLimiter[a][f]
  ELSE IF LimiterFull(a) THEN RateLimited
  ELSE AfterLimiter[a][f]

\* Mutated: the wrong field is scanned.
OnlyReporter(pii) == pii \ {"reporter"}

\* _redact.redact_report: the fields it scans lose their personal data, the
\* reporter's name and address stay.
Redacted(pii) == pii \ {"title"}

\* The report as it is handed to storage.
NewRow(a, f) ==
  [status |-> "open", archived |-> FALSE, env |-> SubmitHandler(a, f).env,
   pii |-> IF conf.redact THEN Redacted(f.pii) ELSE f.pii,
   linked |-> conf.sync /\ f.issue,
   sound |-> f.length # "huge" /\ f.parts = "both" /\ f.shot = "png" /\ f.meta = "ok"]

\* The id storage gives out: FileStorage counts on, Django goes on from its
\* newest report.
NewId(a) ==
  IF a \in Limiters THEN nextNo[a]
  ELSE IF Live(a) = {} THEN 1 ELSE Max(Live(a)) + 1

\* GitHub is told first, the webhook after it, both the report as stored.
IssueSent(row) == [to |-> "issue", pii |-> row.pii]
HookSent(row) == [to |-> "hook", pii |-> row.pii]
Outgoing(row) == {IssueSent(row), HookSent(row)}

\* A status change is told to a linked issue.
StateSent == [to |-> "state", pii |-> {}]

\* storage.save_report takes the report, and another caller may delete it before
\* it is read back.
Takes(a, f) == SubmitVerdict(a, f) = Created /\ f.fault # "save"
Keeps(a, f) == SubmitVerdict(a, f) = Created /\ f.fault = "none"

SubmitSaid(a, f) ==
  IF SubmitVerdict(a, f) # Created \/ f.fault = "none" THEN SubmitVerdict(a, f)
  ELSE IF f.fault = "save" THEN Failed
  ELSE SubmitHandler(a, f).unread

-----------------------------------------------------------------------------
(* The viewer.                                                             *)

\* page and page_size.  FastAPI refuses what is out of range, Flask replaces
\* it, Django clamps numbers and lets int() raise on anything else.
FastApiPaging(page, size) ==
  IF page \in {0, Garbled} \/ size \in {0, Garbled} \/ (size \in Nat /\ size > LargestSize)
  THEN [said |-> Unprocessed, page |-> 1, size |-> 1]
  ELSE [said |-> Ok, page |-> IF page = Absent THEN 1 ELSE page,
        size |-> IF size = Absent THEN DefaultSize ELSE size]

FlaskPaging(page, size) ==
  [said |-> Ok,
   page |-> IF page \in {0, Absent, Garbled} THEN 1 ELSE page,
   size |-> IF size \in {0, Absent, Garbled} THEN DefaultSize ELSE Min({size, LargestSize})]

DjangoPaging(page, size) ==
  IF Garbled \in {page, size} THEN [said |-> Raised, page |-> 1, size |-> 1]
  ELSE [said |-> Ok,
        page |-> IF page = Absent THEN 1 ELSE Max({page, 1}),
        size |-> IF size = Absent THEN DefaultSize ELSE Max({Min({size, LargestSize}), 1})]

Paging(a, page, size) == CASE a = "fastapi" -> FastApiPaging(page, size)
                           [] a = "flask"   -> FlaskPaging(page, size)
                           [] a = "django"  -> DjangoPaging(page, size)

\* list_reports: the reports not archived that match, newest first, one page.
Matches(a, status, env) ==
  {i \in Live(a) : /\ ~rows[a][i].archived
                   /\ status \in {"any", rows[a][i].status}
                   /\ env => rows[a][i].env}

PageOf(S, p) == {i \in S : Cardinality({j \in S : j > i}) \div p.size = p.page - 1}

\* The checks of the handlers that change reports.  Django asks nobody for a
\* permission; FastAPI parses the body before the handler runs.
Permitted == Check(~conf.gates, Forbidden)
WellFormed(i) == Check(i = Malformed, NotFound)

Bodies == Status \cup {"garbled", "invalid"}

FastApiStatus(i, body) ==
  << Check(body \in {"garbled", "invalid"}, Unprocessed), Permitted, WellFormed(i) >>
FlaskStatus(i, body) ==
  << Permitted, WellFormed(i), Check(body \in {"garbled", "invalid"}, BadSchema) >>
DjangoStatus(i, body) ==
  << WellFormed(i), Check(body = "garbled", BadRequest), Check(body = "invalid", BadSchema) >>

StatusChecks(a, i, body) == CASE a = "fastapi" -> FastApiStatus(i, body)
                              [] a = "flask"   -> FlaskStatus(i, body)
                              [] a = "django"  -> DjangoStatus(i, body)

FastApiDelete(i) == << Permitted, WellFormed(i) >>
FlaskDelete(i)   == << Permitted, WellFormed(i) >>
DjangoDelete(i)  == << WellFormed(i) >>

DeleteChecks(a, i) == CASE a = "fastapi" -> FastApiDelete(i)
                        [] a = "flask"   -> FlaskDelete(i)
                        [] a = "django"  -> DjangoDelete(i)

\* The detail, its HTML page and the screenshot.
FastApiRead(i) == << WellFormed(i) >>
FlaskRead(i)   == << WellFormed(i) >>
DjangoRead(i)  == << WellFormed(i) >>

ReadChecks(a, i) == CASE a = "fastapi" -> FastApiRead(i)
                      [] a = "flask"   -> FlaskRead(i)
                      [] a = "django"  -> DjangoRead(i)

\* bulk-close-fixed and bulk-archive-closed.
FastApiBulk == << Permitted >>
FlaskBulk   == << Permitted >>
DjangoBulk  == << >>

BulkChecks(a) == CASE a = "fastapi" -> FastApiBulk
                   [] a = "flask"   -> FlaskBulk
                   [] a = "django"  -> DjangoBulk

\* The fixed reports a bulk close finds: FileStorage reads its index, which
\* has no archived report, Django its table.
FixedReports(a) ==
  {i \in Live(a) : rows[a][i].status = "fixed" /\ (a \in Limiters => ~rows[a][i].archived)}

ClosedReports(a) == {i \in Live(a) : rows[a][i].status = "closed" /\ ~rows[a][i].archived}

\* The checks, and then the report must be there.
OnReport(a, i, checks, good) ==
  Verdict(checks \o << Check(i \notin Live(a), NotFound) >>, good)

StatusSaid(a, i, body) == OnReport(a, i, StatusChecks(a, i, body), Ok)
DeleteSaid(a, i) == OnReport(a, i, DeleteChecks(a, i), Gone)

ReadSaid(a, i) == OnReport(a, i, ReadChecks(a, i), Ok)

\* The reports a bulk request reaches; it says how many.
BulkHit(a, chosen) == IF Verdict(BulkChecks(a), Ok) = Ok THEN chosen ELSE {}

-----------------------------------------------------------------------------
(* Where the adapters are known to part.                                   *)

\* A submission that sets adapter a apart from FastAPI.
SubmitParts(a, f) ==
  \/ a # "fastapi" /\ f.parts = "partial"
  \/ a = "flask"  /\ (f.shot = "empty" \/ (conf.limiter /\ f.length = "huge"))
  \/ a = "django" /\ (f.env = "top" \/ f.fault = "gone" \/ conf.limiter)

\* A page or a size that is no number or out of range.
ListParts(page, size) ==
  {0, Garbled} \cap {page, size} # {} \/ (size \in Nat /\ size > LargestSize)

StatusParts(a, body) ==
  a # "fastapi" /\ (body \in {"garbled", "invalid"} \/ (a = "django" /\ ~conf.gates))

\* Django gives the id of its newest report out again once it is deleted.
DeleteParts(a, i) == a = "django" /\ (~conf.gates \/ (i # Malformed /\ i = Max({0} \cup Live(a))))

CloseParts(a) ==
  a = "django" /\ (~conf.gates \/ {i \in FixedReports(a) : rows[a][i].archived} # {})

ArchiveParts(a) == a = "django" /\ ~conf.gates

-----------------------------------------------------------------------------
(* The requests.                                                           *)

NoListing == [step |-> 0]
Busy == look.step > 0
Counted == look.step = Len(Cards) + 2     \* ready to be answered

Init ==
  /\ conf \in Configs
  /\ rows = [a \in Adapter |-> [i \in Ids |-> NoRow]]
  /\ nextNo = [a \in Limiters |-> 1]
  /\ bucket = [a \in Limiters |-> {}]
  /\ sent = [a \in Adapter |-> {}]
  /\ clock = 0
  /\ agreed = Adapter
  /\ look = NoListing
  /\ moved = [a \in Adapter |-> 0]

\* Requests are numbered by the changes they make, to storage or to limiters;
\* one that changes nothing anywhere is a stuttering step.
Numbered ==
  /\ clock' = IF <<rows', nextNo', bucket'>> = <<rows, nextNo, bucket>> THEN clock ELSE clock + 1
  /\ clock' <= IF Busy THEN MaxListed ELSE MaxRequests

\* The adapters that part are no longer expected to agree.
Parting(S) == agreed' = agreed \ S

\* The reports become new; the listing under way remembers how many moved.
Store(new) ==
  /\ rows' = new
  /\ moved' = [a \in Adapter |->
        IF Busy THEN moved[a] + Cardinality({i \in Ids : new[a][i] # rows[a][i]}) ELSE 0]
  /\ Range(moved') \subseteq 0..MaxMoved

Submit(f) ==
  LET takers == {a \in Adapter : Takes(a, f)}
      heeded == {a \in Adapter : ReachesLimiter(a, f) \/ (a \in agreed /\ SubmitParts(a, f))}
  IN  /\ takers \cup heeded # {}
      /\ {NewId(a) : a \in takers} \subseteq Ids
      /\ Store([a \in Adapter |-> [i \in Ids |->
            IF i = NewId(a) /\ Keeps(a, f) THEN NewRow(a, f) ELSE rows[a][i]]])
      /\ sent' = [a \in Adapter |->
            IF conf.sync /\ Keeps(a, f) THEN sent[a] \cup Outgoing(NewRow(a, f)) ELSE sent[a]]
      /\ nextNo' = [a \in Limiters |-> IF a \in takers THEN nextNo[a] + 1 ELSE nextNo[a]]
      /\ bucket' = [a \in Limiters |->
            IF ReachesLimiter(a, f) /\ ~LimiterFull(a) THEN bucket[a] \cup {clock + 1} ELSE bucket[a]]
      /\ Numbered
      /\ Parting({a \in Adapter : SubmitParts(a, f)})
      /\ UNCHANGED <<conf, look>>

\* Time passes: the hits of the first k requests leave the window.
WindowMoves(k) ==
  /\ {n \in UNION {bucket[a] : a \in Limiters} : n <= k} # {}
  /\ bucket' = [a \in Limiters |-> {n \in bucket[a] : n > k}]
  /\ UNCHANGED <<conf, rows, nextNo, sent, clock, agreed, look, moved>>

\* PUT /reports/{id}/status; a linked issue is told the new state.
UpdateStatus(i, body) ==
  LET done == {a \in Adapter : StatusSaid(a, i, body) = Ok}
  IN  /\ done \cup {a \in agreed : StatusParts(a, body)} # {}
      /\ Store([a \in Adapter |->
            IF a \in done THEN [rows[a] EXCEPT ![i].status = body] ELSE rows[a]])
      /\ sent' = [a \in Adapter |->
            IF a \in done /\ conf.sync /\ rows[a][i].linked
            THEN sent[a] \cup {StateSent} ELSE sent[a]]
      /\ Parting({a \in Adapter : StatusParts(a, body)})
      /\ UNCHANGED <<conf, nextNo, bucket, look>>
      /\ Numbered

\* DELETE /reports/{id}.
Delete(i) ==
  /\ Store([a \in Adapter |->
        IF DeleteSaid(a, i) = Gone THEN [rows[a] EXCEPT ![i] = NoRow] ELSE rows[a]])
  /\ Parting({a \in Adapter : DeleteParts(a, i)})
  /\ UNCHANGED <<conf, nextNo, bucket, sent, look>>
  /\ Numbered

\* POST /bulk-close-fixed and POST /bulk-archive-closed: change the reports of
\* chosen[a].
Bulk(chosen, Changed(_)) ==
  /\ Store([a \in Adapter |-> [i \in Ids |->
        IF i \in BulkHit(a, chosen[a]) THEN Changed(rows[a][i]) ELSE rows[a][i]]])
  /\ UNCHANGED <<conf, nextNo, bucket, sent, look>>
  /\ Numbered

BulkCloseFixed ==
  /\ Bulk([a \in Adapter |-> FixedReports(a)],
          LAMBDA r : [r EXCEPT !.status = "closed"])
  /\ Parting({a \in Adapter : CloseParts(a)})

BulkArchiveClosed ==
  /\ Bulk([a \in Adapter |-> ClosedReports(a)],
          LAMBDA r : [r EXCEPT !.archived = TRUE])
  /\ Parting({a \in Adapter : ArchiveParts(a)})

\* GET /reports and its HTML page: the page and its total are read first.
List(q) ==
  LET paging  == [a \in Adapter |-> Paging(a, q.page, q.size)]
      matches == [a \in Adapter |-> Matches(a, q.status, q.env)]
  IN  /\ ~Busy /\ clock <= MaxListed
      /\ look' = [step |-> 1, status |-> q.status, env |-> q.env, paging |-> paging,
                  items |-> [a \in Adapter |-> PageOf(matches[a], paging[a])],
                  total |-> [a \in Adapter |-> Cardinality(matches[a])],
                  cards |-> [a \in Adapter |-> << >>]]
      /\ moved' = [a \in Adapter |-> 0]
      /\ Parting(IF ListParts(q.page, q.size) THEN Adapter \ {"fastapi"} ELSE {})
      /\ UNCHANGED <<conf, rows, nextNo, bucket, sent, clock>>

\* Mutated: the filters are changed in place.
LastStateKept == IF look.step <= Len(Cards) THEN Cards[look.step] ELSE "closed"

\* The status a count asks for: each state in place of the one in the filters,
\* and last the filters as they are.
CardStatus == IF look.step <= Len(Cards) THEN Cards[look.step] ELSE look.status

\* _compute_stats: one list_reports for each count.
CountCard ==
  LET status == CardStatus
  IN  /\ Busy /\ look.step <= Len(Cards) + 1
      /\ look' = [look EXCEPT !.step = @ + 1,
           !.cards = [a \in Adapter |-> Append(@[a], Cardinality(Matches(a, status, look.env)))]]
      /\ UNCHANGED <<conf, rows, nextNo, bucket, sent, clock, agreed, moved>>

\* The listing is answered.
ListDone ==
  /\ Counted
  /\ look' = NoListing
  /\ moved' = [a \in Adapter |-> 0]
  /\ UNCHANGED <<conf, rows, nextNo, bucket, sent, clock, agreed>>

Next ==
  \/ \E f \in Forms : Submit(f)
  \/ \E k \in 1..MaxRequests : WindowMoves(k)
  \/ \E i \in Ids \cup {Malformed} : Delete(i)
  \/ \E i \in Ids \cup {Malformed}, body \in Bodies :
       UpdateStatus(i, body)
  \/ BulkCloseFixed
  \/ BulkArchiveClosed
  \/ \E q \in Queries : List(q)
  \/ CountCard
  \/ ListDone

Spec == Init /\ [][Next]_vars

-----------------------------------------------------------------------------
(* Properties.                                                             *)

\* The variables have their types.
TypeOK ==
  /\ conf \in Configs
  /\ rows \in [Adapter -> [Ids -> Row \cup {NoRow}]]
  /\ nextNo \in [Limiters -> 1..(MaxReports + 1)]
  /\ bucket \in [Limiters -> SUBSET (1..MaxRequests)]
  /\ \A a \in Limiters : Cardinality(bucket[a]) <= RateMax
  /\ clock \in 0..MaxRequests
  /\ agreed \in SUBSET Adapter
  /\ look.step \in 0..(Len(Cards) + 2)
  /\ moved \in [Adapter -> Nat]

\* The three would store a report for the same submissions when no limiter is
\* on, however their refusals are worded.
AcceptAlike ==
  ~conf.limiter => \A f \in Forms : {a \in Adapter : Takes(a, f)} \in {{}, Adapter}

\* What the adapters would say to one more request of each kind.
SameAnswers(a, b) ==
  /\ \A f \in Forms : SubmitParts(a, f) \/ SubmitSaid(a, f) = SubmitSaid(b, f)
  /\ \A i \in Ids \cup {Malformed} :
       /\ ReadSaid(a, i) = ReadSaid(b, i)
       /\ DeleteParts(a, i) \/ DeleteSaid(a, i) = DeleteSaid(b, i)
       /\ \A body \in Bodies : StatusParts(a, body) \/ StatusSaid(a, i, body) = StatusSaid(b, i, body)
  /\ CloseParts(a) \/ BulkHit(a, FixedReports(a)) = BulkHit(b, FixedReports(b))
  /\ ArchiveParts(a) \/ BulkHit(a, ClosedReports(a)) = BulkHit(b, ClosedReports(b))

\* An adapter that no request has set apart from FastAPI keeps and has sent the
\* same reports, is about to give the same listing, and would answer the next
\* request alike.
InStep ==
  \A a \in agreed :
    /\ rows[a] = rows["fastapi"]
    /\ sent[a] = sent["fastapi"]
    /\ Counted => /\ look.paging[a] = look.paging["fastapi"]
                  /\ look.items[a] = look.items["fastapi"]
                  /\ look.total[a] = look.total["fastapi"]
                  /\ look.cards[a] = look.cards["fastapi"]
    /\ SameAnswers(a, "fastapi")

\* The adapters answer alike but for the differences that SubmitParts and its
\* likes name (submit.py:267, blueprint.py:382, views.py:288).
AdaptersAgree == AcceptAlike /\ InStep

\* No report is stored that failed a check of the intake.
OnlySoundStored == \A a \in Adapter : \A i \in Live(a) : rows[a][i].sound

\* With redaction on, a scanned field keeps no personal data, in storage or in
\* anything that was sent.
NothingRaw ==
  conf.redact => \A a \in Adapter :
    /\ \A i \in Live(a) : "title" \notin rows[a][i].pii
    /\ \A m \in sent[a] : "title" \notin m.pii

\* With the viewer permissions off, FastAPI and Flask keep every report as it
\* came, and have told GitHub of no new state.
GatesHold ==
  ~conf.gates => \A a \in Limiters :
    /\ \A i \in Live(a) : rows[a][i].status = "open" /\ ~rows[a][i].archived
    /\ \A m \in sent[a] : m.to \in {"issue", "hook"}

\* What is kept and sent went through the intake, the redaction and the
\* permissions (submit.py:254-328, viewer.py:88-104).
KeptVetted == OnlySoundStored /\ NothingRaw /\ GatesHold

CardSum(cards) == cards[1] + cards[2] + cards[3] + cards[4]
Apart(x, y) == IF x > y THEN x - y ELSE y - x

\* The counts of a listing may disagree, but by no more than the reports that
\* were changed while they were taken (viewer.py:477-483): the sum of the cards
\* with the rollup, the rollup with the total of the page, and with a status
\* asked for, the card of that status with the total.
StatsSkewBounded ==
  Counted =>
    \A a \in Adapter :
      LET cards == look.cards[a]
      IN  /\ Apart(look.total[a], cards[5]) <= moved[a]
          /\ look.status = "any" => Apart(CardSum(cards), cards[5]) <= moved[a]
          /\ \A k \in 1..Len(Cards) :
               look.status = Cards[k] => Apart(cards[k], look.total[a]) <= moved[a]
=============================================================================
