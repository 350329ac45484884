----------------------------- MODULE MCAdapters -----------------------------
EXTENDS Adapters

Sound == [length |-> "fits", parts |-> "both", shot |-> "png", meta |-> "ok",
          env |-> "none", pii |-> {}, fault |-> "none", issue |-> FALSE]

\* Every pair of flaws the adapters tell apart, and the sound submissions that
\* differ in what is kept.
MCForms ==
  {[Sound EXCEPT !.length = l, !.shot = s, !.meta = m] :
     l \in {"fits", "huge"}, s \in {"png", "empty", "long", "other"},
     m \in {"ok", "long", "garbled", "version", "invalid"}}
  \cup {[Sound EXCEPT !.length = l, !.parts = "partial"] : l \in {"huge", "unstated"}}
  \cup {[Sound EXCEPT !.length = "unstated"],
        [Sound EXCEPT !.env = "top"],
        [Sound EXCEPT !.env = "context", !.pii = PiiFields, !.issue = TRUE],
        [Sound EXCEPT !.fault = "save"],
        [Sound EXCEPT !.fault = "gone"]}

\* Everything open, and everything closed with the limiter on.
MCConfigs ==
  {[limiter |-> FALSE, gates |-> TRUE,  redact |-> TRUE,  sync |-> TRUE],
   [limiter |-> TRUE,  gates |-> FALSE, redact |-> FALSE, sync |-> FALSE]}

AllReports == [page |-> 1, size |-> Absent, status |-> "any", env |-> FALSE]

MCQueries ==
  {AllReports,
   [AllReports EXCEPT !.status = "fixed", !.env = TRUE],
   [AllReports EXCEPT !.page = 2, !.size = 1],
   [AllReports EXCEPT !.page = Garbled, !.size = 3]}
=============================================================================
