--------------------------- MODULE AdaptersProofs ---------------------------
(***************************************************************************)
(* The three adapters, for any settings, submissions, listings and bounds:  *)
(* types, what is vetted before it is kept or sent, that an adapter stays   *)
(* in step with FastAPI until a named difference sets it apart, and how far *)
(* the counts of a listing may disagree; and the storage lock that their    *)
(* calls share, for any calls on any event loops.                           *)
(***************************************************************************)
EXTENDS Adapters, StorageLock, FiniteSetTheorems, SequenceTheorems,
        WellFoundedInduction, TLAPS

-----------------------------------------------------------------------------
(* Rows of checks.                                                         *)

\* What a handler may answer, and the checks its answers come from.
Answers == {TooLarge, BadMedia, BadRequest, BadVersion, BadSchema, Unprocessed, RateLimited,
            Forbidden, NotFound, Failed, Raised, Created, Ok, Gone}
Checks == [fails : BOOLEAN, says : Answers]

\* What a check says, and what is said after it.
Else(c, then) == IF c.fails THEN c.says ELSE then

\* A refusal is never taken for consent.
LEMMA AnswersDiffer ==
  /\ Created \notin {TooLarge, BadMedia, BadRequest, BadVersion, BadSchema, Unprocessed,
                     RateLimited, Forbidden, NotFound, Failed, Raised, Ok, Gone}
  /\ Ok \notin {TooLarge, BadMedia, BadRequest, BadVersion, BadSchema, Unprocessed,
                RateLimited, Forbidden, NotFound, Failed, Raised, Created, Gone}
  /\ Gone \notin {TooLarge, BadMedia, BadRequest, BadVersion, BadSchema, Unprocessed,
                  RateLimited, Forbidden, NotFound, Failed, Raised, Created, Ok}
BY DEF TooLarge, BadMedia, BadRequest, BadVersion, BadSchema, Unprocessed, RateLimited,
       Forbidden, NotFound, Failed, Raised, Created, Ok, Gone

\* Check makes a check.
LEMMA CheckTyped ==
  ASSUME NEW fails \in BOOLEAN, NEW says \in Answers
  PROVE  Check(fails, says) \in Checks /\ Check(fails, says).fails = fails
         /\ Check(fails, says).says = says
BY DEF Check, Checks

\* A nonempty set of natural numbers has a least element, which Min finds.
LEMMA MinFound ==
  ASSUME NEW S, S \subseteq Nat, S # {}
  PROVE  Min(S) \in S /\ \A y \in S : Min(S) <= y
<1>1. PICK x \in S : \A y \in S : ~(<<y, x>> \in OpToRel(<, Nat))
  BY WFMin, NatLessThanWellFounded, Zenon
<1>2. \A y \in S : ~(y < x)
  BY <1>1 DEF OpToRel
<1>3. \A y \in S : x <= y
  BY <1>2
<1>. QED BY <1>3 DEF Min

\* Min is the element that is least.
LEMMA MinIs ==
  ASSUME NEW S, S \subseteq Nat, NEW x \in S, \A y \in S : x <= y
  PROVE  Min(S) = x
<1>1. Min(S) \in S /\ \A y \in S : Min(S) <= y
  BY MinFound
<1>2. Min(S) \in Nat /\ x \in Nat /\ Min(S) <= x /\ x <= Min(S)
  BY <1>1
<1>. HIDE DEF Min
<1>. QED BY <1>2

\* The first check that fails speaks.
LEMMA VerdictFirst ==
  ASSUME NEW s \in Seq(Checks), NEW good, NEW k \in 1 .. Len(s), s[k].fails,
         \A j \in 1 .. k - 1 : ~s[j].fails
  PROVE  Verdict(s, good) = s[k].says
<1>. DEFINE failed == {j \in DOMAIN s : s[j].fails}
<1>1. k \in failed /\ failed \subseteq Nat
  OBVIOUS
<1>2. ASSUME NEW j \in failed PROVE k <= j
  <2>1. j \in 1 .. Len(s) /\ s[j].fails
    OBVIOUS
  <2>. QED BY <2>1
<1>. HIDE DEF failed
<1>3. Min(failed) = k
  BY <1>1, <1>2, MinIs
<1>. QED BY <1>1, <1>3 DEF Verdict, failed

\* When none fails, the answer is the good one.
LEMMA VerdictGood ==
  ASSUME NEW s \in Seq(Checks), NEW good, \A j \in 1 .. Len(s) : ~s[j].fails
  PROVE  Verdict(s, good) = good
BY DEF Verdict

\* A row of checks has a first one that fails, or none.
LEMMA VerdictCases ==
  ASSUME NEW s \in Seq(Checks)
  PROVE  \/ \A j \in 1 .. Len(s) : ~s[j].fails
         \/ \E k \in 1 .. Len(s) : s[k].fails /\ \A j \in 1 .. k - 1 : ~s[j].fails
<1>. DEFINE failed == {j \in 1 .. Len(s) : s[j].fails}
<1>1. CASE failed = {}
  BY <1>1
<1>2. CASE failed # {}
  <2>1. failed \subseteq Nat
    OBVIOUS
  <2>2. PICK k \in failed : \A j \in failed : k <= j
    BY <1>2, <2>1, MinFound
  <2>3. ASSUME NEW j \in 1 .. k - 1 PROVE ~s[j].fails
    BY <2>2
  <2>. QED BY <2>2, <2>3
<1>. QED BY <1>1, <1>2

\* Two rows of checks in turn.
LEMMA VerdictConcat ==
  ASSUME NEW s \in Seq(Checks), NEW t \in Seq(Checks), NEW good
  PROVE  s \o t \in Seq(Checks) /\ Verdict(s \o t, good) = Verdict(s, Verdict(t, good))
<1>1. /\ s \o t \in Seq(Checks) /\ Len(s \o t) = Len(s) + Len(t)
      /\ \A i \in 1 .. Len(s) + Len(t) : (s \o t)[i] = IF i <= Len(s) THEN s[i] ELSE t[i - Len(s)]
  <2>. HIDE DEF Checks
  <2>. QED BY ConcatProperties
<1>2. Len(s) \in Nat /\ Len(t) \in Nat
  OBVIOUS
<1>. DEFINE u == s \o t
<1>3. /\ \A i \in 1 .. Len(s) : u[i] = s[i]
      /\ \A i \in 1 .. Len(t) : u[Len(s) + i] = t[i]
  <2>1. ASSUME NEW i \in 1 .. Len(t) PROVE u[Len(s) + i] = t[i]
    <3>1. Len(s) + i \in 1 .. Len(s) + Len(t) /\ ~(Len(s) + i <= Len(s))
          /\ Len(s) + i - Len(s) = i
      BY <1>2
    <3>. QED BY <1>1, <3>1
  <2>. QED BY <1>1, <1>2, <2>1
<1>. HIDE DEF u
<1>4. u \in Seq(Checks) /\ Len(u) = Len(s) + Len(t)
  BY <1>1 DEF u
<1>5. Verdict(u, good) = Verdict(s, Verdict(t, good))
  <2>1. ASSUME NEW k \in 1 .. Len(s), s[k].fails, \A j \in 1 .. k - 1 : ~s[j].fails
        PROVE  Verdict(u, good) = s[k].says /\ Verdict(s, Verdict(t, good)) = s[k].says
    <3>1. k \in 1 .. Len(u) /\ u[k] = s[k] /\ \A j \in 1 .. k - 1 : u[j] = s[j]
      BY <1>2, <1>3, <1>4
    <3>2. Verdict(u, good) = u[k].says
      BY <1>4, <2>1, <3>1, VerdictFirst
    <3>. QED BY <2>1, <3>1, <3>2, VerdictFirst
  <2>2. ASSUME \A j \in 1 .. Len(s) : ~s[j].fails
        PROVE  Verdict(s, Verdict(t, good)) = Verdict(t, good)
    BY <2>2, VerdictGood
  <2>3. ASSUME \A j \in 1 .. Len(s) : ~s[j].fails,
               NEW k \in 1 .. Len(t), t[k].fails, \A j \in 1 .. k - 1 : ~t[j].fails
        PROVE  Verdict(u, good) = Verdict(t, good)
    <3>1. Len(s) + k \in 1 .. Len(u) /\ u[Len(s) + k] = t[k]
      BY <1>2, <1>3, <1>4
    <3>2. ASSUME NEW j \in 1 .. (Len(s) + k) - 1 PROVE ~u[j].fails
      <4>1. CASE j <= Len(s)
        BY <1>2, <1>3, <2>3, <4>1
      <4>2. CASE j > Len(s)
        <5>1. j - Len(s) \in 1 .. k - 1 /\ j - Len(s) \in 1 .. Len(t) /\ Len(s) + (j - Len(s)) = j
          BY <1>2, <4>2
        <5>. QED BY <1>3, <2>3, <5>1
      <4>. QED BY <1>2, <4>1, <4>2
    <3>. DEFINE m == Len(s) + k
    <3>3. m \in 1 .. Len(u) /\ u[m] = t[k] /\ \A j \in 1 .. m - 1 : ~u[j].fails
      BY <3>1, <3>2
    <3>. HIDE DEF m
    <3>4. Verdict(u, good) = u[m].says
      BY <1>4, <2>3, <3>3, VerdictFirst
    <3>. QED BY <2>3, <3>3, <3>4, VerdictFirst
  <2>4. ASSUME \A j \in 1 .. Len(s) : ~s[j].fails, \A j \in 1 .. Len(t) : ~t[j].fails
        PROVE  Verdict(u, good) = Verdict(t, good)
    <3>1. ASSUME NEW j \in 1 .. Len(u) PROVE ~u[j].fails
      <4>1. CASE j <= Len(s)
        BY <1>2, <1>3, <2>4, <4>1
      <4>2. CASE j > Len(s)
        <5>1. j - Len(s) \in 1 .. Len(t) /\ Len(s) + (j - Len(s)) = j
          BY <1>2, <1>4, <4>2
        <5>. QED BY <1>3, <2>4, <5>1
      <4>. QED BY <1>2, <4>1, <4>2
    <3>. QED BY <1>4, <2>4, <3>1, VerdictGood
  <2>5. \/ \A j \in 1 .. Len(s) : ~s[j].fails
        \/ \E k \in 1 .. Len(s) : s[k].fails /\ \A j \in 1 .. k - 1 : ~s[j].fails
    BY VerdictCases
  <2>6. \/ \A j \in 1 .. Len(t) : ~t[j].fails
        \/ \E k \in 1 .. Len(t) : t[k].fails /\ \A j \in 1 .. k - 1 : ~t[j].fails
    BY VerdictCases
  <2>7. CASE \E k \in 1 .. Len(s) : s[k].fails /\ \A j \in 1 .. k - 1 : ~s[j].fails
    <3>1. PICK k \in 1 .. Len(s) : s[k].fails /\ \A j \in 1 .. k - 1 : ~s[j].fails
      BY <2>7
    <3>. QED BY <2>1, <3>1
  <2>8. CASE \A j \in 1 .. Len(s) : ~s[j].fails
    <3>1. CASE \A j \in 1 .. Len(t) : ~t[j].fails
      BY <2>2, <2>4, <2>8, <3>1
    <3>2. CASE \E k \in 1 .. Len(t) : t[k].fails /\ \A j \in 1 .. k - 1 : ~t[j].fails
      <4>1. PICK k \in 1 .. Len(t) : t[k].fails /\ \A j \in 1 .. k - 1 : ~t[j].fails
        BY <3>2
      <4>. QED BY <2>2, <2>3, <2>8, <4>1
    <3>. QED BY <2>6, <3>1, <3>2
  <2>. QED BY <2>5, <2>7, <2>8
<1>. QED BY <1>4, <1>5 DEF u

\* Rows of up to three checks.
LEMMA VerdictNone == ASSUME NEW good PROVE Verdict(<< >>, good) = good
BY DEF Verdict

\* A row of one check.
LEMMA VerdictOne ==
  ASSUME NEW c \in Checks, NEW good
  PROVE  << c >> \in Seq(Checks) /\ Verdict(<< c >>, good) = Else(c, good)
<1>. DEFINE s == << c >>
<1>1. s \in Seq(Checks) /\ Len(s) = 1 /\ s[1] = c
  OBVIOUS
<1>. HIDE DEF s, Checks
<1>2. CASE c.fails
  <2>1. 1 \in 1 .. Len(s) /\ 1 .. 1 - 1 = {} /\ s[1].fails
    BY <1>1, <1>2
  <2>2. \A j \in 1 .. 1 - 1 : ~s[j].fails
    BY <2>1
  <2>3. Verdict(s, good) = s[1].says
    BY <1>1, <2>1, <2>2, VerdictFirst
  <2>. QED BY <1>1, <1>2, <2>3 DEF Else, s
<1>3. CASE ~c.fails
  <2>1. \A j \in 1 .. Len(s) : ~s[j].fails
    <3>1. \A j \in 1 .. Len(s) : j = 1
      BY <1>1
    <3>. QED BY <1>1, <1>3, <3>1
  <2>2. Verdict(s, good) = good
    BY <1>1, <2>1, VerdictGood
  <2>. QED BY <1>1, <1>3, <2>2 DEF Else, s
<1>. QED BY <1>2, <1>3

\* Of two checks.
LEMMA VerdictTwo ==
  ASSUME NEW c \in Checks, NEW d \in Checks, NEW good
  PROVE  << c, d >> \in Seq(Checks) /\ Verdict(<< c, d >>, good) = Else(c, Else(d, good))
<1>. DEFINE s == << c, d >>
<1>1. s \in Seq(Checks) /\ Len(s) = 2 /\ s[1] = c /\ s[2] = d
  OBVIOUS
<1>. HIDE DEF s, Checks
<1>2. CASE c.fails
  <2>1. 1 \in 1 .. Len(s) /\ s[1].fails /\ \A j \in 1 .. 1 - 1 : ~s[j].fails
    BY <1>1, <1>2
  <2>2. Verdict(s, good) = s[1].says
    BY <1>1, <2>1, VerdictFirst
  <2>. QED BY <1>1, <1>2, <2>2 DEF Else, s
<1>3. CASE ~c.fails /\ d.fails
  <2>1. 2 \in 1 .. Len(s) /\ s[2].fails /\ \A j \in 1 .. 2 - 1 : ~s[j].fails
    <3>1. \A j \in 1 .. 2 - 1 : j = 1
      OBVIOUS
    <3>. QED BY <1>1, <1>3, <3>1
  <2>2. Verdict(s, good) = s[2].says
    BY <1>1, <2>1, VerdictFirst
  <2>. QED BY <1>1, <1>3, <2>2 DEF Else, s
<1>4. CASE ~c.fails /\ ~d.fails
  <2>1. \A j \in 1 .. Len(s) : ~s[j].fails
    <3>1. \A j \in 1 .. Len(s) : j = 1 \/ j = 2
      BY <1>1
    <3>. QED BY <1>1, <1>4, <3>1
  <2>2. Verdict(s, good) = good
    BY <1>1, <2>1, VerdictGood
  <2>. QED BY <1>1, <1>4, <2>2 DEF Else, s
<1>. QED BY <1>2, <1>3, <1>4

\* Of three checks.
LEMMA VerdictThree ==
  ASSUME NEW c \in Checks, NEW d \in Checks, NEW e \in Checks, NEW good
  PROVE  /\ << c, d, e >> \in Seq(Checks)
         /\ Verdict(<< c, d, e >>, good) = Else(c, Else(d, Else(e, good)))
<1>. DEFINE s == << c, d, e >>
<1>1. s \in Seq(Checks) /\ Len(s) = 3 /\ s[1] = c /\ s[2] = d /\ s[3] = e
  OBVIOUS
<1>. HIDE DEF s, Checks
<1>2. CASE c.fails
  <2>1. 1 \in 1 .. Len(s) /\ s[1].fails /\ \A j \in 1 .. 1 - 1 : ~s[j].fails
    BY <1>1, <1>2
  <2>2. Verdict(s, good) = s[1].says
    BY <1>1, <2>1, VerdictFirst
  <2>. QED BY <1>1, <1>2, <2>2 DEF Else, s
<1>3. CASE ~c.fails /\ d.fails
  <2>1. 2 \in 1 .. Len(s) /\ s[2].fails /\ \A j \in 1 .. 2 - 1 : ~s[j].fails
    <3>1. \A j \in 1 .. 2 - 1 : j = 1
      OBVIOUS
    <3>. QED BY <1>1, <1>3, <3>1
  <2>2. Verdict(s, good) = s[2].says
    BY <1>1, <2>1, VerdictFirst
  <2>. QED BY <1>1, <1>3, <2>2 DEF Else, s
<1>4. CASE ~c.fails /\ ~d.fails /\ e.fails
  <2>1. 3 \in 1 .. Len(s) /\ s[3].fails /\ \A j \in 1 .. 3 - 1 : ~s[j].fails
    <3>1. \A j \in 1 .. 3 - 1 : j = 1 \/ j = 2
      OBVIOUS
    <3>. QED BY <1>1, <1>4, <3>1
  <2>2. Verdict(s, good) = s[3].says
    BY <1>1, <2>1, VerdictFirst
  <2>. QED BY <1>1, <1>4, <2>2 DEF Else, s
<1>5. CASE ~c.fails /\ ~d.fails /\ ~e.fails
  <2>1. \A j \in 1 .. Len(s) : ~s[j].fails
    <3>1. \A j \in 1 .. Len(s) : j = 1 \/ j = 2 \/ j = 3
      BY <1>1
    <3>. QED BY <1>1, <1>5, <3>1
  <2>2. Verdict(s, good) = good
    BY <1>1, <2>1, VerdictGood
  <2>. QED BY <1>1, <1>5, <2>2 DEF Else, s
<1>. QED BY <1>2, <1>3, <1>4, <1>5

-----------------------------------------------------------------------------
(* What the handlers say, written out.                                     *)

\* A check on a condition.
LEMMA ElseCheck ==
  ASSUME NEW fails \in BOOLEAN, NEW says \in Answers, NEW then
  PROVE  /\ Check(fails, says) \in Checks
         /\ Else(Check(fails, says), then) = IF fails THEN says ELSE then
BY CheckTyped DEF Else

\* A check that everything passes, and two rows of checks one of which is empty.
LEMMA RowNone ==
  ASSUME NEW s \in Seq(Checks) PROVE << >> \o s = s /\ s \o << >> = s /\ << >> \in Seq(Checks)
BY ConcatEmptySeq

\* What intake.py says of the metadata, and of the whole submission.
MetaSays(f) == IF f.meta = "garbled" THEN BadRequest
               ELSE IF f.meta = "version" THEN BadVersion
               ELSE IF f.meta = "invalid" THEN BadSchema ELSE Created

IntakeSays(f) == IF f.meta = "long" THEN TooLarge
                 ELSE IF f.shot = "long" THEN TooLarge
                 ELSE IF f.shot \in {"other", "empty"} THEN BadMedia ELSE MetaSays(f)

\* The intake's checks (intake.validate_payload).
LEMMA IntakeVerdict ==
  ASSUME NEW f
  PROVE  /\ ValidatePayload(f) \in Seq(Checks)
         /\ Verdict(ValidatePayload(f), Created) = IntakeSays(f)
<1>. DEFINE c1 == Check(f.meta = "long", TooLarge)
            c2 == Check(f.shot = "long", TooLarge)
            c3 == Check(f.shot \in {"other", "empty"}, BadMedia)
            c4 == Check(f.meta = "garbled", BadRequest)
            c5 == Check(f.meta = "version", BadVersion)
            c6 == Check(f.meta = "invalid", BadSchema)
<1>1. /\ c1 \in Checks /\ c2 \in Checks /\ c3 \in Checks
      /\ c4 \in Checks /\ c5 \in Checks /\ c6 \in Checks
  <2>1. c1 \in Checks /\ c2 \in Checks
    BY CheckTyped DEF Answers
  <2>2. c3 \in Checks
    <3>1. (f.shot \in {"other", "empty"}) \in BOOLEAN /\ BadMedia \in Answers
      BY DEF Answers
    <3>. QED BY <3>1, CheckTyped, Zenon
  <2>3. c4 \in Checks /\ c5 \in Checks
    BY CheckTyped DEF Answers
  <2>4. c6 \in Checks
    BY CheckTyped DEF Answers
  <2>. QED BY <2>1, <2>2, <2>3, <2>4
<1>2. /\ \A x : Else(c1, x) = IF f.meta = "long" THEN TooLarge ELSE x
      /\ \A x : Else(c2, x) = IF f.shot = "long" THEN TooLarge ELSE x
      /\ \A x : Else(c3, x) = IF f.shot \in {"other", "empty"} THEN BadMedia ELSE x
      /\ \A x : Else(c4, x) = IF f.meta = "garbled" THEN BadRequest ELSE x
      /\ \A x : Else(c5, x) = IF f.meta = "version" THEN BadVersion ELSE x
      /\ \A x : Else(c6, x) = IF f.meta = "invalid" THEN BadSchema ELSE x
  BY DEF Else, Check
<1>3. ValidatePayload(f) = << c1, c2, c3 >> \o << c4, c5, c6 >>
  BY DEF ValidatePayload, ParseMetadata
<1>. HIDE DEF c1, c2, c3, c4, c5, c6
<1>4. << c4, c5, c6 >> \in Seq(Checks) /\ Verdict(<< c4, c5, c6 >>, Created) = MetaSays(f)
  BY <1>1, <1>2, VerdictThree DEF MetaSays
<1>5. /\ << c1, c2, c3 >> \in Seq(Checks)
      /\ Verdict(<< c1, c2, c3 >>, MetaSays(f)) = IntakeSays(f)
  BY <1>1, <1>2, VerdictThree DEF IntakeSays
<1>. DEFINE r1 == << c1, c2, c3 >>
            r2 == << c4, c5, c6 >>
<1>6. /\ r1 \in Seq(Checks) /\ Verdict(r1, MetaSays(f)) = IntakeSays(f)
      /\ r2 \in Seq(Checks) /\ Verdict(r2, Created) = MetaSays(f)
      /\ ValidatePayload(f) = r1 \o r2
  BY <1>3, <1>4, <1>5
<1>. HIDE DEF r1, r2
<1>. QED BY <1>6, VerdictConcat

\* What is said before the limiter, and after it.
BeforeSays(a, f) ==
  CASE a = "fastapi" -> IF f.length = "huge" THEN TooLarge
                        ELSE IF f.parts = "partial" THEN Unprocessed ELSE Created
    [] a = "flask"   -> Created
    [] a = "django"  -> IF f.length = "huge" THEN TooLarge
                        ELSE IF f.parts = "partial" THEN BadRequest ELSE Created

AfterSays(a, f) ==
  IF a = "flask"
  THEN IF f.length = "huge" THEN TooLarge
       ELSE IF f.parts = "partial" THEN BadRequest
       ELSE IF f.shot = "empty" THEN BadRequest ELSE IntakeSays(f)
  ELSE IntakeSays(f)

\* The three submit handlers (submit.py, blueprint.py, views.py).
LEMMA HandlerSays ==
  ASSUME NEW a \in Adapter, NEW f \in Forms
  PROVE  BeforeLimiter[a][f] = BeforeSays(a, f) /\ AfterLimiter[a][f] = AfterSays(a, f)
<1>. DEFINE big == Oversized(f)
            half == Check(f.parts = "partial", BadRequest)
            half2 == Check(f.parts = "partial", Unprocessed)
            none == Check(f.shot = "empty", BadRequest)
            rest == ValidatePayload(f)
<1>1. big \in Checks /\ half \in Checks /\ half2 \in Checks /\ none \in Checks
  BY CheckTyped DEF Answers, Oversized
<1>2. /\ \A x : Else(big, x) = IF f.length = "huge" THEN TooLarge ELSE x
      /\ \A x : Else(half, x) = IF f.parts = "partial" THEN BadRequest ELSE x
      /\ \A x : Else(half2, x) = IF f.parts = "partial" THEN Unprocessed ELSE x
      /\ \A x : Else(none, x) = IF f.shot = "empty" THEN BadRequest ELSE x
  BY DEF Else, Check, Oversized
<1>3. rest \in Seq(Checks) /\ Verdict(rest, Created) = IntakeSays(f)
  BY IntakeVerdict
<1>4. /\ BeforeLimiter[a][f] = Verdict(SubmitHandler(a, f).before, Created)
      /\ AfterLimiter[a][f] = Verdict(SubmitHandler(a, f).after, Created)
  BY DEF BeforeLimiter, AfterLimiter
<1>5. CASE a = "fastapi"
  <2>1. /\ SubmitHandler(a, f).before = << big, half2 >>
        /\ SubmitHandler(a, f).after = rest
    <3>1. SubmitHandler(a, f) = FastApiSubmit(f)
      BY <1>5 DEF SubmitHandler
    <3>. QED BY <3>1 DEF FastApiSubmit
  <2>. HIDE DEF big, half, half2, none, rest
  <2>2. Verdict(<< big, half2 >>, Created) = BeforeSays(a, f)
    BY <1>1, <1>2, <1>5, VerdictTwo DEF BeforeSays
  <2>. QED BY <1>3, <1>4, <1>5, <2>1, <2>2 DEF AfterSays
<1>6. CASE a = "flask"
  <2>1. /\ SubmitHandler(a, f).before = << >>
        /\ SubmitHandler(a, f).after = << big, half, none >> \o rest
    <3>1. SubmitHandler(a, f) = FlaskSubmit(f)
      BY <1>6 DEF SubmitHandler
    <3>. QED BY <3>1 DEF FlaskSubmit
  <2>. HIDE DEF big, half, half2, none, rest
  <2>2. /\ << big, half, none >> \in Seq(Checks)
        /\ Verdict(<< big, half, none >>, IntakeSays(f)) = AfterSays(a, f)
    BY <1>1, <1>2, <1>6, VerdictThree DEF AfterSays
  <2>. DEFINE first == << big, half, none >>
  <2>5. first \in Seq(Checks) /\ Verdict(first, IntakeSays(f)) = AfterSays(a, f)
    BY <2>2
  <2>. HIDE DEF first
  <2>6. Verdict(first \o rest, Created) = AfterSays(a, f)
    BY <1>3, <2>5, VerdictConcat
  <2>3. Verdict(<< big, half, none >> \o rest, Created) = AfterSays(a, f)
    BY <2>6 DEF first
  <2>4. Verdict(<< >>, Created) = BeforeSays(a, f)
    BY <1>6, VerdictNone DEF BeforeSays
  <2>. QED BY <1>4, <2>1, <2>3, <2>4
<1>7. CASE a = "django"
  <2>1. /\ SubmitHandler(a, f).before = << big, half >>
        /\ SubmitHandler(a, f).after = rest
    <3>1. SubmitHandler(a, f) = DjangoSubmit(f)
      BY <1>7 DEF SubmitHandler
    <3>. QED BY <3>1 DEF DjangoSubmit
  <2>. HIDE DEF big, half, half2, none, rest
  <2>2. Verdict(<< big, half >>, Created) = BeforeSays(a, f)
    BY <1>1, <1>2, <1>7, VerdictTwo DEF BeforeSays
  <2>. QED BY <1>3, <1>4, <1>7, <2>1, <2>2 DEF AfterSays
<1>. QED BY <1>5, <1>6, <1>7 DEF Adapter

\* Who accepts what.
LEMMA Accepts ==
  ASSUME NEW a \in Adapter, NEW f \in Forms
  PROVE  /\ BeforeSays(a, f) = Created
              <=> a = "flask" \/ (f.length # "huge" /\ f.parts # "partial")
         /\ AfterSays(a, f) = Created
              <=> /\ f.meta \notin {"long", "garbled", "version", "invalid"}
                  /\ f.shot \notin {"long", "other", "empty"}
                  /\ a = "flask" => f.length # "huge" /\ f.parts # "partial"
         /\ SubmitVerdict(a, f) = Created
              <=> /\ f.meta \notin {"long", "garbled", "version", "invalid"}
                  /\ f.shot \notin {"long", "other", "empty"}
                  /\ f.length # "huge" /\ f.parts # "partial"
                  /\ ~LimiterFull(a)
<1>1. /\ BeforeSays(a, f) = Created
           <=> a = "flask" \/ (f.length # "huge" /\ f.parts # "partial")
  BY AnswersDiffer DEF BeforeSays, Adapter
<1>2. IntakeSays(f) = Created <=> /\ f.meta \notin {"long", "garbled", "version", "invalid"}
                                  /\ f.shot \notin {"long", "other", "empty"}
  BY AnswersDiffer DEF IntakeSays, MetaSays
<1>3. /\ AfterSays(a, f) = Created
           <=> /\ f.meta \notin {"long", "garbled", "version", "invalid"}
               /\ f.shot \notin {"long", "other", "empty"}
               /\ a = "flask" => f.length # "huge" /\ f.parts # "partial"
  BY <1>2, AnswersDiffer DEF AfterSays
<1>4. SubmitVerdict(a, f) = Created
        <=> BeforeSays(a, f) = Created /\ ~LimiterFull(a) /\ AfterSays(a, f) = Created
  BY HandlerSays, AnswersDiffer DEF SubmitVerdict
<1>. QED BY <1>1, <1>3, <1>4

\* What the viewer's handlers say of a report that a request names.
ThereSays(a, i, good) == IF i \notin Live(a) THEN NotFound ELSE good
NamedSays(a, i, good) == IF i = Malformed THEN NotFound ELSE ThereSays(a, i, good)
AllowedSays(a, i, good) == IF ~conf.gates THEN Forbidden ELSE NamedSays(a, i, good)

\* What they say of a change of status, and of a deletion.
StatusSays(a, i, body) ==
  CASE a = "fastapi" -> IF body \in {"garbled", "invalid"} THEN Unprocessed
                        ELSE AllowedSays(a, i, Ok)
    [] a = "flask"   -> IF ~conf.gates THEN Forbidden ELSE IF i = Malformed THEN NotFound
                        ELSE IF body \in {"garbled", "invalid"} THEN BadSchema
                        ELSE ThereSays(a, i, Ok)
    [] a = "django"  -> IF i = Malformed THEN NotFound
                        ELSE IF body = "garbled" THEN BadRequest
                        ELSE IF body = "invalid" THEN BadSchema ELSE ThereSays(a, i, Ok)

DeleteSays(a, i) == IF a = "django" THEN NamedSays(a, i, Gone) ELSE AllowedSays(a, i, Gone)

\* A row of checks, and then the report has to be there.
LEMMA OnReportSays ==
  ASSUME NEW a, NEW i, NEW checks \in Seq(Checks), NEW good
  PROVE  OnReport(a, i, checks, good) = Verdict(checks, ThereSays(a, i, good))
<1>. DEFINE c == Check(i \notin Live(a), NotFound)
            last == << c >>
<1>1. c \in Checks
  <2>1. (i \notin Live(a)) \in BOOLEAN /\ NotFound \in Answers
    BY DEF Answers
  <2>. QED BY <2>1, CheckTyped, Zenon
<1>2. Else(c, good) = ThereSays(a, i, good)
  BY DEF Else, Check, ThereSays
<1>3. OnReport(a, i, checks, good) = Verdict(checks \o last, good)
  BY DEF OnReport
<1>. HIDE DEF c
<1>4. last \in Seq(Checks) /\ Verdict(last, good) = ThereSays(a, i, good)
  BY <1>1, <1>2, VerdictOne
<1>. HIDE DEF last
<1>. QED BY <1>3, <1>4, VerdictConcat

\* The checks the viewer's handlers have in common.
LEMMA ViewerChecks ==
  ASSUME conf \in Settings, NEW i
  PROVE  /\ Permitted \in Checks /\ WellFormed(i) \in Checks
         /\ \A then : Else(Permitted, then) = IF ~conf.gates THEN Forbidden ELSE then
         /\ \A then : Else(WellFormed(i), then) = IF i = Malformed THEN NotFound ELSE then
<1>1. (~conf.gates) \in BOOLEAN /\ (i = Malformed) \in BOOLEAN
      /\ Forbidden \in Answers /\ NotFound \in Answers
  BY DEF Settings, Answers
<1>2. Permitted \in Checks /\ WellFormed(i) \in Checks
  BY <1>1, CheckTyped, Zenon DEF Permitted, WellFormed
<1>. QED BY <1>2 DEF Permitted, WellFormed, Else, Check

\* GET /reports/{id}, its page and its screenshot.
LEMMA ReadSaidIs ==
  ASSUME conf \in Settings, NEW a \in Adapter, NEW i
  PROVE  ReadSaid(a, i) = NamedSays(a, i, Ok)
<1>1. ReadChecks(a, i) = << WellFormed(i) >>
  BY DEF ReadChecks, FastApiRead, FlaskRead, DjangoRead, Adapter
<1>2. /\ << WellFormed(i) >> \in Seq(Checks)
      /\ Verdict(<< WellFormed(i) >>, ThereSays(a, i, Ok)) = NamedSays(a, i, Ok)
  BY ViewerChecks, VerdictOne DEF NamedSays
<1>. QED BY <1>1, <1>2, OnReportSays DEF ReadSaid

\* DELETE /reports/{id}.
LEMMA DeleteSaidIs ==
  ASSUME conf \in Settings, NEW a \in Adapter, NEW i
  PROVE  DeleteSaid(a, i) = DeleteSays(a, i)
<1>1. CASE a = "django"
  <2>1. DeleteChecks(a, i) = << WellFormed(i) >>
    BY <1>1 DEF DeleteChecks, DjangoDelete
  <2>2. /\ << WellFormed(i) >> \in Seq(Checks)
        /\ Verdict(<< WellFormed(i) >>, ThereSays(a, i, Gone)) = NamedSays(a, i, Gone)
    BY ViewerChecks, VerdictOne DEF NamedSays
  <2>. QED BY <1>1, <2>1, <2>2, OnReportSays DEF DeleteSaid, DeleteSays
<1>2. CASE a # "django"
  <2>1. DeleteChecks(a, i) = << Permitted, WellFormed(i) >>
    BY <1>2 DEF DeleteChecks, FastApiDelete, FlaskDelete, Adapter
  <2>. DEFINE row == << Permitted, WellFormed(i) >>
  <2>2. row \in Seq(Checks) /\ Verdict(row, ThereSays(a, i, Gone)) = AllowedSays(a, i, Gone)
    BY ViewerChecks, VerdictTwo DEF NamedSays, AllowedSays
  <2>. HIDE DEF row
  <2>3. OnReport(a, i, row, Gone) = AllowedSays(a, i, Gone)
    BY <2>2, OnReportSays
  <2>. QED BY <1>2, <2>1, <2>3 DEF DeleteSaid, DeleteSays, row
<1>. QED BY <1>1, <1>2

\* PUT /reports/{id}/status.
LEMMA StatusSaidIs ==
  ASSUME conf \in Settings, NEW a \in Adapter, NEW i, NEW body
  PROVE  StatusSaid(a, i, body) = StatusSays(a, i, body)
<1>. DEFINE bad == Check(body \in {"garbled", "invalid"}, Unprocessed)
            bad2 == Check(body \in {"garbled", "invalid"}, BadSchema)
            garbled == Check(body = "garbled", BadRequest)
            invalid == Check(body = "invalid", BadSchema)
            p == Permitted
            w == WellFormed(i)
<1>1. /\ bad \in Checks /\ bad2 \in Checks /\ garbled \in Checks /\ invalid \in Checks
  <2>1. /\ (body \in {"garbled", "invalid"}) \in BOOLEAN
        /\ (body = "garbled") \in BOOLEAN /\ (body = "invalid") \in BOOLEAN
        /\ Unprocessed \in Answers /\ BadSchema \in Answers /\ BadRequest \in Answers
    BY DEF Answers
  <2>. QED BY <2>1, CheckTyped, Zenon
<1>2. /\ \A x : Else(bad, x) = IF body \in {"garbled", "invalid"} THEN Unprocessed ELSE x
      /\ \A x : Else(bad2, x) = IF body \in {"garbled", "invalid"} THEN BadSchema ELSE x
      /\ \A x : Else(garbled, x) = IF body = "garbled" THEN BadRequest ELSE x
      /\ \A x : Else(invalid, x) = IF body = "invalid" THEN BadSchema ELSE x
  BY DEF Else, Check
<1>3. /\ p \in Checks /\ w \in Checks
      /\ \A x : Else(p, x) = IF ~conf.gates THEN Forbidden ELSE x
      /\ \A x : Else(w, x) = IF i = Malformed THEN NotFound ELSE x
  BY ViewerChecks
<1>4. /\ a = "fastapi" => StatusChecks(a, i, body) = << bad, p, w >>
      /\ a = "flask" => StatusChecks(a, i, body) = << p, w, bad2 >>
      /\ a = "django" => StatusChecks(a, i, body) = << w, garbled, invalid >>
  BY DEF StatusChecks, FastApiStatus, FlaskStatus, DjangoStatus
<1>. HIDE DEF bad, bad2, garbled, invalid, p, w
<1>. DEFINE good == ThereSays(a, i, Ok)
<1>. HIDE DEF good
<1>5. ASSUME NEW row \in Seq(Checks), StatusChecks(a, i, body) = row
      PROVE  StatusSaid(a, i, body) = Verdict(row, good)
  BY <1>5, OnReportSays DEF StatusSaid, good
<1>6. CASE a = "fastapi"
  <2>1. << bad, p, w >> \in Seq(Checks)
        /\ Verdict(<< bad, p, w >>, good) = Else(bad, Else(p, Else(w, good)))
    BY <1>1, <1>3, VerdictThree
  <2>2. Else(bad, Else(p, Else(w, good))) = StatusSays(a, i, body)
    BY <1>2, <1>3, <1>6 DEF StatusSays, AllowedSays, NamedSays, good
  <2>. QED BY <1>4, <1>5, <1>6, <2>1, <2>2
<1>7. CASE a = "flask"
  <2>1. << p, w, bad2 >> \in Seq(Checks)
        /\ Verdict(<< p, w, bad2 >>, good) = Else(p, Else(w, Else(bad2, good)))
    BY <1>1, <1>3, VerdictThree
  <2>2. Else(p, Else(w, Else(bad2, good))) = StatusSays(a, i, body)
    BY <1>2, <1>3, <1>7 DEF StatusSays, good
  <2>. QED BY <1>4, <1>5, <1>7, <2>1, <2>2
<1>8. CASE a = "django"
  <2>1. << w, garbled, invalid >> \in Seq(Checks)
        /\ Verdict(<< w, garbled, invalid >>, good) = Else(w, Else(garbled, Else(invalid, good)))
    BY <1>1, <1>3, VerdictThree
  <2>2. Else(w, Else(garbled, Else(invalid, good))) = StatusSays(a, i, body)
    BY <1>2, <1>3, <1>8 DEF StatusSays, good
  <2>. QED BY <1>4, <1>5, <1>8, <2>1, <2>2
<1>. QED BY <1>6, <1>7, <1>8 DEF Adapter

\* The bulk requests.
LEMMA BulkHitIs ==
  ASSUME conf \in Settings, NEW a \in Adapter, NEW chosen
  PROVE  BulkHit(a, chosen) = IF a = "django" \/ conf.gates THEN chosen ELSE {}
<1>1. CASE a = "django"
  <2>1. BulkChecks(a) = << >>
    BY <1>1 DEF BulkChecks, DjangoBulk
  <2>. QED BY <1>1, <2>1, VerdictNone DEF BulkHit
<1>2. CASE a # "django"
  <2>1. BulkChecks(a) = << Permitted >>
    BY <1>2 DEF BulkChecks, FastApiBulk, FlaskBulk, Adapter
  <2>2. Verdict(<< Permitted >>, Ok) = IF ~conf.gates THEN Forbidden ELSE Ok
    BY ViewerChecks, VerdictOne
  <2>3. Forbidden # Ok /\ conf.gates \in BOOLEAN
    BY AnswersDiffer DEF Settings
  <2>. QED BY <1>2, <2>1, <2>2, <2>3 DEF BulkHit
<1>. QED BY <1>1, <1>2

\* Who lets a change through.
LEMMA Changes ==
  ASSUME conf \in Settings, NEW a \in Adapter, NEW i, NEW body
  PROVE  /\ StatusSaid(a, i, body) = Ok
              <=> /\ body \notin {"garbled", "invalid"} /\ i # Malformed /\ i \in Live(a)
                  /\ a = "django" \/ conf.gates
         /\ DeleteSaid(a, i) = Gone
              <=> i # Malformed /\ i \in Live(a) /\ (a = "django" \/ conf.gates)
<1>1. /\ StatusSays(a, i, body) = Ok
           <=> /\ body \notin {"garbled", "invalid"} /\ i # Malformed /\ i \in Live(a)
               /\ a = "django" \/ conf.gates
  <2>1. CASE a = "fastapi"
    BY <2>1, AnswersDiffer DEF StatusSays, AllowedSays, NamedSays, ThereSays
  <2>2. CASE a = "flask"
    BY <2>2, AnswersDiffer DEF StatusSays, ThereSays
  <2>3. CASE a = "django"
    BY <2>3, AnswersDiffer DEF StatusSays, ThereSays
  <2>. QED BY <2>1, <2>2, <2>3 DEF Adapter
<1>2. DeleteSays(a, i) = Gone
        <=> i # Malformed /\ i \in Live(a) /\ (a = "django" \/ conf.gates)
  BY AnswersDiffer DEF DeleteSays, AllowedSays, NamedSays, ThereSays
<1>. QED BY <1>1, <1>2, StatusSaidIs, DeleteSaidIs

-----------------------------------------------------------------------------
(* The invariants.                                                         *)

\* A listing under way, after some of its counts.
Listing(l) ==
  /\ l = [step |-> l.step, status |-> l.status, env |-> l.env, paging |-> l.paging,
          items |-> l.items, total |-> l.total, cards |-> l.cards]
  /\ l.step \in 1 .. 6 /\ l.status \in Status \cup {"any"} /\ l.env \in BOOLEAN
  /\ l.total \in [Adapter -> Nat] /\ l.cards \in [Adapter -> Seq(Nat)]
  /\ \A a \in Adapter : Len(l.cards[a]) = l.step - 1

\* What GitHub and the webhook are told.
Messages == [to : {"issue", "hook", "state"}, pii : SUBSET PiiFields]

\* The types in full: what the limiters hold is of the past.
TypeInv ==
  /\ TypeOK
  /\ sent \in [Adapter -> SUBSET Messages]
  /\ \A a \in Limiters : bucket[a] \subseteq 1 .. clock
  /\ look = NoListing \/ Listing(look)

\* What an adapter a that was never set apart has in common with FastAPI.
SameState(a) ==
  /\ rows[a] = rows["fastapi"] /\ sent[a] = sent["fastapi"]
  /\ a = "flask" => nextNo[a] = nextNo["fastapi"] /\ bucket[a] = bucket["fastapi"]
  /\ a = "django" => NewId(a) = nextNo["fastapi"]

\* What the listing l has found for a and for FastAPI.
SameListing(l, a) ==
  /\ l.paging[a] = l.paging["fastapi"] /\ l.items[a] = l.items["fastapi"]
  /\ l.total[a] = l.total["fastapi"] /\ l.cards[a] = l.cards["fastapi"]

\* Every adapter that was not set apart is in step, and lists in step.
AgreeInv == \A a \in agreed : SameState(a) /\ (Busy => SameListing(look, a))

\* The reports r that a count looks at: with a state, or in one of the first n
\* states.
Found(r, status, env) ==
  {i \in Ids : /\ r[i] # NoRow /\ ~r[i].archived
               /\ status \in {"any", r[i].status}
               /\ env => r[i].env}
FoundUpTo(r, n, env) == {i \in Found(r, "any", env) : \E k \in 1 .. n : r[i].status = Cards[k]}

\* The sum of the first n of four counts.
SumTo(c, n) == (IF n >= 1 THEN c[1] ELSE 0) + (IF n >= 2 THEN c[2] ELSE 0)
               + (IF n >= 3 THEN c[3] ELSE 0) + (IF n >= 4 THEN c[4] ELSE 0)

\* A listing l that has made n counts of the reports r, of which m changed since
\* it began, so that it took t of them for all.
Skewed(r, m, l, t, c, n) ==
  /\ Apart(t, Cardinality(Found(r, l.status, l.env))) <= m
  /\ n <= 4 => Apart(SumTo(c, n), Cardinality(FoundUpTo(r, n, l.env))) <= m
  /\ \A k \in 1 .. 4 : k <= n /\ l.status = Cards[k] => Apart(c[k], t) <= m
  /\ n = 5 => /\ Apart(t, c[5]) <= m
              /\ l.status = "any" => Apart(CardSum(c), c[5]) <= m

\* The counts so far of the listing under way.
SkewInv == Busy => \A a \in Adapter :
  Skewed(rows[a], moved[a], look, look.total[a], look.cards[a], look.step - 1)

-----------------------------------------------------------------------------
(* Types.                                                                  *)

\* A report that is there.
LEMMA RowTyped ==
  ASSUME TypeOK, NEW a \in Adapter, NEW i \in Ids
  PROVE  /\ rows[a][i] \in Row \cup {NoRow}
         /\ i \in Live(a) <=> rows[a][i] # NoRow
         /\ i \in Live(a) <=> rows[a][i] \in Row
<1>1. rows[a][i] \in Row \cup {NoRow}
  BY DEF TypeOK
<1>2. NoRow \notin Row
  <2>1. \A r \in Row : r.status \in Status
    BY DEF Row
  <2>2. NoRow.status \notin Status
    BY DEF NoRow, Status
  <2>. QED BY <2>1, <2>2
<1>. QED BY <1>1, <1>2 DEF Live

\* Sets of ids are finite.
LEMMA IdsFinite ==
  ASSUME NEW S, S \subseteq Ids PROVE IsFiniteSet(S) /\ Cardinality(S) \in Nat
<1>1. IsFiniteSet(Ids)
  BY FS_Interval, AdaptersAssumption DEF Ids
<1>. QED BY <1>1, FS_Subset, FS_CardinalityType

\* The settings, the adapters and the listing's cards, as they are.
LEMMA Constants ==
  /\ Configs \subseteq Settings /\ Forms \subseteq Form
  /\ MaxReports \in Nat /\ MaxRequests \in Nat /\ RateMax \in Nat /\ RateMax > 0
  /\ MaxListed \in 0 .. MaxRequests
  /\ Len(Cards) = 4 /\ Limiters \subseteq Adapter /\ "fastapi" \in Adapter
  /\ Malformed \notin Ids
BY AdaptersAssumption DEF Cards, Limiters, Adapter, Malformed, Ids

\* A report as it is handed to storage.
LEMMA NewRowTyped ==
  ASSUME conf \in Settings, NEW a \in Adapter, NEW f \in Forms
  PROVE  /\ NewRow(a, f) \in Row
         /\ NewRow(a, f).status = "open" /\ ~NewRow(a, f).archived
         /\ NewRow(a, f).env = SubmitHandler(a, f).env
         /\ NewRow(a, f).pii = IF conf.redact THEN Redacted(f.pii) ELSE f.pii
         /\ NewRow(a, f).sound = (/\ f.length # "huge" /\ f.parts = "both"
                                  /\ f.shot = "png" /\ f.meta = "ok")
<1>1. f \in Form
  BY Constants
<1>2. PICK e \in BOOLEAN : SubmitHandler(a, f).env = e
  <2>1. CASE a = "fastapi"
    <3>3. (f.env \in {"context", "top"}) \in BOOLEAN
      OBVIOUS
    <3>1. SubmitHandler(a, f) = FastApiSubmit(f)
      BY <2>1 DEF SubmitHandler
    <3>2. FastApiSubmit(f).env = (f.env \in {"context", "top"})
      BY DEF FastApiSubmit
    <3>4. SubmitHandler(a, f).env \in BOOLEAN
      BY <3>1, <3>2, <3>3, Zenon
    <3>. QED BY <3>4
  <2>2. CASE a = "flask"
    <3>3. (f.env \in {"context", "top"}) \in BOOLEAN
      OBVIOUS
    <3>1. SubmitHandler(a, f) = FlaskSubmit(f)
      BY <2>2 DEF SubmitHandler
    <3>2. FlaskSubmit(f).env = (f.env \in {"context", "top"})
      BY DEF FlaskSubmit
    <3>4. SubmitHandler(a, f).env \in BOOLEAN
      BY <3>1, <3>2, <3>3, Zenon
    <3>. QED BY <3>4
  <2>3. CASE a = "django"
    <3>1. SubmitHandler(a, f) = DjangoSubmit(f)
      BY <2>3 DEF SubmitHandler
    <3>2. DjangoSubmit(f).env = (f.env = "context")
      BY DEF DjangoSubmit
    <3>. QED BY <3>1, <3>2
  <2>. QED BY <2>1, <2>2, <2>3 DEF Adapter
<1>3. PICK p \in SUBSET PiiFields : (IF conf.redact THEN Redacted(f.pii) ELSE f.pii) = p
  <2>1. f.pii \subseteq PiiFields /\ Redacted(f.pii) \subseteq PiiFields
    BY <1>1 DEF Form, Redacted
  <2>. QED BY <2>1
<1>4. PICK l \in BOOLEAN : (conf.sync /\ f.issue) = l
  OBVIOUS
<1>5. PICK g \in BOOLEAN : (/\ f.length # "huge" /\ f.parts = "both"
                            /\ f.shot = "png" /\ f.meta = "ok") = g
  OBVIOUS
<1>6. NewRow(a, f) = [status |-> "open", archived |-> FALSE, env |-> e, pii |-> p,
                      linked |-> l, sound |-> g]
  BY <1>2, <1>3, <1>4, <1>5, Zenon DEF NewRow
<1>7. [status |-> "open", archived |-> FALSE, env |-> e, pii |-> p,
       linked |-> l, sound |-> g] \in Row
  BY DEF Row, Status
<1>8. /\ NewRow(a, f).status = "open" /\ NewRow(a, f).archived = FALSE
      /\ NewRow(a, f).env = e /\ NewRow(a, f).pii = p /\ NewRow(a, f).sound = g
  BY <1>6
<1>. QED BY <1>2, <1>3, <1>5, <1>6, <1>7, <1>8, Zenon

\* What is stored has its type, and the listing under way counts what moved.
LEMMA StoreTyped ==
  ASSUME TypeOK, NEW new \in [Adapter -> [Ids -> Row \cup {NoRow}]], Store(new)
  PROVE  /\ rows' = new /\ moved' \in [Adapter -> Nat]
         /\ Busy => \A a \in Adapter :
              moved'[a] = moved[a] + Cardinality({i \in Ids : new[a][i] # rows[a][i]})
<1>1. \A a \in Adapter : Cardinality({i \in Ids : new[a][i] # rows[a][i]}) \in Nat
  BY IdsFinite
<1>2. moved \in [Adapter -> Nat]
  BY DEF TypeOK
<1>. DEFINE many(a) == Cardinality({i \in Ids : new[a][i] # rows[a][i]})
<1>3. /\ rows' = new
      /\ moved' = [a \in Adapter |-> IF Busy THEN moved[a] + many(a) ELSE 0]
  BY DEF Store
<1>4. \A a \in Adapter : many(a) \in Nat
  BY <1>1
<1>5. Busy => \A a \in Adapter : moved'[a] = moved[a] + many(a)
  BY <1>3
<1>. HIDE DEF many
<1>6. moved' \in [Adapter -> Nat]
  BY <1>2, <1>3, <1>4
<1>. QED BY <1>3, <1>5, <1>6 DEF many

\* The clock stays within its bound, and moves when a limiter counts.
LEMMA NumberedTyped ==
  ASSUME TypeInv, Numbered
  PROVE  /\ clock' \in 0 .. MaxRequests /\ clock' \in {clock, clock + 1}
         /\ bucket' # bucket => clock' = clock + 1
<1>1. clock \in 0 .. MaxRequests
  BY DEF TypeInv, TypeOK
<1>2. /\ clock' = clock \/ clock' = clock + 1
      /\ bucket' # bucket => clock' = clock + 1
  BY DEF Numbered
<1>6. clock' <= MaxListed \/ clock' <= MaxRequests
  BY DEF Numbered
<1>3. MaxRequests \in Nat /\ MaxListed \in Nat /\ MaxListed <= MaxRequests
  <2>1. MaxRequests \in Nat /\ MaxListed \in 0 .. MaxRequests
    BY Constants
  <2>. QED BY <2>1
<1>4. clock' \in Nat /\ (clock' <= MaxListed \/ clock' <= MaxRequests)
  BY <1>1, <1>2, <1>3, <1>6
<1>5. clock' \in 0 .. MaxRequests
  BY <1>3, <1>4
<1>. QED BY <1>2, <1>5


\* A step that stores well-typed reports and leaves limiters and numbers alone.
LEMMA StoreStep ==
  ASSUME TypeInv, NEW new \in [Adapter -> [Ids -> Row \cup {NoRow}]], Store(new), Numbered,
         UNCHANGED <<conf, nextNo, bucket, look>>, sent' \in [Adapter -> SUBSET Messages],
         agreed' \subseteq agreed
  PROVE  TypeInv'
<1>1. rows' = new /\ moved' \in [Adapter -> Nat]
  BY StoreTyped DEF TypeInv
<1>2. clock' \in 0 .. MaxRequests /\ clock <= clock' /\ clock \in Nat
  <2>1. clock \in Nat
    BY DEF TypeInv, TypeOK
  <2>. QED BY <2>1, NumberedTyped
<1>3. \A a \in Limiters : bucket'[a] \subseteq 1 .. clock'
  <2>1. \A a \in Limiters : bucket[a] \subseteq 1 .. clock
    BY DEF TypeInv
  <2>. QED BY <1>2, <2>1
<1>4. TypeOK'
  BY <1>1, <1>2 DEF TypeInv, TypeOK
<1>. QED BY <1>3, <1>4 DEF TypeInv, Listing

\* WindowMoves.
LEMMA WindowTyped ==
  ASSUME TypeInv, NEW k, WindowMoves(k) PROVE TypeInv'
<1>1. bucket' = [a \in Limiters |-> {n \in bucket[a] : n > k}]
  BY DEF WindowMoves
<1>2. bucket \in [Limiters -> SUBSET (1 .. MaxRequests)]
      /\ \A a \in Limiters : Cardinality(bucket[a]) <= RateMax /\ bucket[a] \subseteq 1 .. clock
  BY DEF TypeInv, TypeOK
<1>3. ASSUME NEW a \in Limiters
      PROVE  /\ bucket'[a] \subseteq bucket[a] /\ Cardinality(bucket'[a]) <= RateMax
  <2>1. bucket'[a] \in SUBSET bucket[a]
    BY <1>1
  <2>2. IsFiniteSet(bucket[a])
    <3>1. IsFiniteSet(1 .. MaxRequests)
      BY FS_Interval, Constants
    <3>2. bucket[a] \in SUBSET (1 .. MaxRequests)
      BY <1>2
    <3>. QED BY <3>1, <3>2, FS_Subset
  <2>3. /\ Cardinality(bucket'[a]) <= Cardinality(bucket[a])
        /\ Cardinality(bucket'[a]) \in Nat /\ Cardinality(bucket[a]) \in Nat
    BY <2>1, <2>2, FS_Subset, FS_CardinalityType
  <2>. QED BY <1>2, <2>1, <2>3, Constants
<1>4. bucket' \in [Limiters -> SUBSET (1 .. MaxRequests)]
  BY <1>1, <1>2
<1>5. TypeOK'
  BY <1>3, <1>4 DEF TypeInv, TypeOK, WindowMoves
<1>. QED BY <1>2, <1>3, <1>5 DEF TypeInv, WindowMoves, Listing

-----------------------------------------------------------------------------
(* The requests that change reports.                                       *)

\* The reports after a submission, a change of status, a deletion and the bulk
\* requests.
Submitted(f) == [a \in Adapter |-> [i \in Ids |->
  IF i = NewId(a) /\ Keeps(a, f) THEN NewRow(a, f) ELSE rows[a][i]]]
Restated(i, body) == [a \in Adapter |->
  IF StatusSaid(a, i, body) = Ok THEN [rows[a] EXCEPT ![i].status = body] ELSE rows[a]]
Removed(i) == [a \in Adapter |->
  IF DeleteSaid(a, i) = Gone THEN [rows[a] EXCEPT ![i] = NoRow] ELSE rows[a]]
Closed == [a \in Adapter |-> [i \in Ids |->
  IF i \in BulkHit(a, FixedReports(a)) THEN [rows[a][i] EXCEPT !.status = "closed"]
  ELSE rows[a][i]]]
Archived == [a \in Adapter |-> [i \in Ids |->
  IF i \in BulkHit(a, ClosedReports(a)) THEN [rows[a][i] EXCEPT !.archived = TRUE]
  ELSE rows[a][i]]]

\* What storage may hold.
AllRows == [Adapter -> [Ids -> Row \cup {NoRow}]]

\* Each request stores what it should.
LEMMA SubmitStores ==
  ASSUME NEW f, Submit(f) PROVE Store(Submitted(f))
BY DEF Submit, Submitted

\* The change of status does, too.
LEMMA UpdateStores ==
  ASSUME NEW i, NEW body, UpdateStatus(i, body) PROVE Store(Restated(i, body))
<1>1. [a \in Adapter |-> IF a \in {b \in Adapter : StatusSaid(b, i, body) = Ok}
                         THEN [rows[a] EXCEPT ![i].status = body] ELSE rows[a]]
        = Restated(i, body)
  BY Zenon DEF Restated
<1>2. Store([a \in Adapter |-> IF a \in {b \in Adapter : StatusSaid(b, i, body) = Ok}
                         THEN [rows[a] EXCEPT ![i].status = body] ELSE rows[a]])
  BY Zenon DEF UpdateStatus
<1>. QED BY <1>1, <1>2, Zenon

\* So does the deletion.
LEMMA DeleteStores ==
  ASSUME NEW i, Delete(i) PROVE Store(Removed(i))
BY DEF Delete, Removed

\* So does the bulk close.
LEMMA CloseStores ==
  ASSUME BulkCloseFixed PROVE Store(Closed)
<1>1. Store([a \in Adapter |-> [i \in Ids |->
        IF i \in BulkHit(a, [b \in Adapter |-> FixedReports(b)][a])
        THEN [rows[a][i] EXCEPT !.status = "closed"] ELSE rows[a][i]]])
  BY Zenon DEF BulkCloseFixed, Bulk
<1>2. \A a \in Adapter : [b \in Adapter |-> FixedReports(b)][a] = FixedReports(a)
  OBVIOUS
<1>3. [a \in Adapter |-> [i \in Ids |->
        IF i \in BulkHit(a, [b \in Adapter |-> FixedReports(b)][a])
        THEN [rows[a][i] EXCEPT !.status = "closed"] ELSE rows[a][i]]] = Closed
  BY <1>2, Zenon DEF Closed
<1>. QED BY <1>1, <1>3, Zenon

\* And the bulk archive.
LEMMA ArchiveStores ==
  ASSUME BulkArchiveClosed PROVE Store(Archived)
<1>1. Store([a \in Adapter |-> [i \in Ids |->
        IF i \in BulkHit(a, [b \in Adapter |-> ClosedReports(b)][a])
        THEN [rows[a][i] EXCEPT !.archived = TRUE] ELSE rows[a][i]]])
  BY Zenon DEF BulkArchiveClosed, Bulk
<1>2. \A a \in Adapter : [b \in Adapter |-> ClosedReports(b)][a] = ClosedReports(a)
  OBVIOUS
<1>3. [a \in Adapter |-> [i \in Ids |->
        IF i \in BulkHit(a, [b \in Adapter |-> ClosedReports(b)][a])
        THEN [rows[a][i] EXCEPT !.archived = TRUE] ELSE rows[a][i]]] = Archived
  BY <1>2, Zenon DEF Archived
<1>. QED BY <1>1, <1>3, Zenon

\* What the reports after each request have kept.
LEMMA SubmittedRows ==
  ASSUME TypeInv, NEW f \in Forms
  PROVE  /\ Submitted(f) \in AllRows
         /\ \A a \in Adapter, i \in Ids :
              Submitted(f)[a][i] = IF i = NewId(a) /\ Keeps(a, f) THEN NewRow(a, f)
                                   ELSE rows[a][i]
<1>1. \A a \in Adapter, i \in Ids :
        Submitted(f)[a][i] = IF i = NewId(a) /\ Keeps(a, f) THEN NewRow(a, f) ELSE rows[a][i]
  BY DEF Submitted
<1>2. conf \in Settings /\ rows \in AllRows
  BY Constants DEF TypeInv, TypeOK, AllRows
<1>3. ASSUME NEW a \in Adapter, NEW i \in Ids
      PROVE  (IF i = NewId(a) /\ Keeps(a, f) THEN NewRow(a, f) ELSE rows[a][i]) \in Row \cup {NoRow}
  BY <1>2, NewRowTyped DEF AllRows
<1>4. Submitted(f) \in AllRows
  BY <1>3 DEF Submitted, AllRows
<1>. QED BY <1>1, <1>4

\* A row with another status, or archived.
LEMMA RowAmended ==
  ASSUME NEW r \in Row, NEW st \in Status
  PROVE  /\ [r EXCEPT !.status = st] \in Row /\ [r EXCEPT !.archived = TRUE] \in Row
         /\ [r EXCEPT !.status = st].status = st /\ [r EXCEPT !.status = st].pii = r.pii
         /\ [r EXCEPT !.status = st].sound = r.sound /\ [r EXCEPT !.status = st].env = r.env
         /\ [r EXCEPT !.status = st].archived = r.archived
         /\ [r EXCEPT !.archived = TRUE].archived /\ [r EXCEPT !.archived = TRUE].pii = r.pii
         /\ [r EXCEPT !.archived = TRUE].sound = r.sound
BY DEF Row

\* A change of status changes the status of the report it names, where the
\* handler let it through.
LEMMA RestatedRows ==
  ASSUME TypeInv, NEW j, NEW body \in Bodies
  PROVE  /\ Restated(j, body) \in AllRows
         /\ \A a \in Adapter, i \in Ids :
              Restated(j, body)[a][i] = IF i = j /\ StatusSaid(a, j, body) = Ok
                                        THEN [rows[a][i] EXCEPT !.status = body] ELSE rows[a][i]
<1>1. conf \in Settings /\ rows \in AllRows /\ TypeOK
  BY Constants DEF TypeInv, TypeOK, AllRows
<1>2. ASSUME NEW a \in Adapter, StatusSaid(a, j, body) = Ok
      PROVE  j \in Ids /\ body \in Status /\ rows[a][j] \in Row
  BY <1>1, <1>2, Changes, RowTyped DEF Bodies, Live
<1>3. ASSUME NEW a \in Adapter
      PROVE  /\ Restated(j, body)[a] \in [Ids -> Row \cup {NoRow}]
             /\ \A i \in Ids :
                  Restated(j, body)[a][i] = IF i = j /\ StatusSaid(a, j, body) = Ok
                                            THEN [rows[a][i] EXCEPT !.status = body] ELSE rows[a][i]
  <2>1. CASE StatusSaid(a, j, body) = Ok
    <3>1. PICK q \in Row : q = [rows[a][j] EXCEPT !.status = body]
      BY <1>2, <2>1, RowAmended
    <3>2. Restated(j, body)[a] = [rows[a] EXCEPT ![j] = q]
      BY <2>1, <3>1, Zenon DEF Restated
    <3>3. rows[a] \in [Ids -> Row \cup {NoRow}]
      BY <1>1 DEF AllRows
    <3>. QED BY <1>2, <2>1, <3>1, <3>2, <3>3
  <2>2. CASE StatusSaid(a, j, body) # Ok
    <3>1. Restated(j, body)[a] = rows[a]
      BY <2>2 DEF Restated
    <3>. QED BY <1>1, <2>2, <3>1 DEF AllRows
  <2>. QED BY <2>1, <2>2
<1>4. Restated(j, body) \in AllRows
  <2>1. Restated(j, body) = [a \in Adapter |-> Restated(j, body)[a]]
    BY DEF Restated
  <2>. QED BY <1>3, <2>1, Zenon DEF AllRows
<1>. QED BY <1>3, <1>4

\* A deletion leaves no row under the id it names.
LEMMA RemovedRows ==
  ASSUME TypeInv, NEW j
  PROVE  /\ Removed(j) \in AllRows
         /\ \A a \in Adapter, i \in Ids :
              Removed(j)[a][i] = IF i = j /\ DeleteSaid(a, j) = Gone THEN NoRow ELSE rows[a][i]
<1>1. rows \in AllRows
  BY DEF TypeInv, TypeOK, AllRows
<1>. QED BY <1>1 DEF Removed, AllRows

\* A bulk close closes the fixed reports that it reaches.
LEMMA ClosedRows ==
  ASSUME TypeInv
  PROVE  /\ Closed \in AllRows
         /\ \A a \in Adapter, i \in Ids :
              Closed[a][i] = IF i \in BulkHit(a, FixedReports(a))
                             THEN [rows[a][i] EXCEPT !.status = "closed"] ELSE rows[a][i]
         /\ \A a \in Adapter : \A i \in BulkHit(a, FixedReports(a)) :
              i \in FixedReports(a) /\ i \in Ids /\ rows[a][i] \in Row
<1>1. conf \in Settings /\ rows \in AllRows /\ TypeOK
  BY Constants DEF TypeInv, TypeOK, AllRows
<1>2. \A a \in Adapter : BulkHit(a, FixedReports(a)) \subseteq FixedReports(a)
  BY <1>1, BulkHitIs
<1>3. \A a \in Adapter : \A i \in FixedReports(a) : i \in Ids /\ rows[a][i] \in Row
  BY <1>1, RowTyped DEF FixedReports, Live
<1>4. ASSUME NEW a \in Adapter, NEW i \in Ids
      PROVE  (IF i \in BulkHit(a, FixedReports(a)) THEN [rows[a][i] EXCEPT !.status = "closed"]
              ELSE rows[a][i]) \in Row \cup {NoRow}
  <2>1. CASE i \in BulkHit(a, FixedReports(a))
    BY <1>2, <1>3, <2>1, RowAmended DEF Status
  <2>2. CASE i \notin BulkHit(a, FixedReports(a))
    BY <1>1, <2>2 DEF AllRows
  <2>. QED BY <2>1, <2>2
<1>5. Closed \in AllRows
  BY <1>4 DEF Closed, AllRows
<1>6. \A a \in Adapter, i \in Ids :
        Closed[a][i] = IF i \in BulkHit(a, FixedReports(a))
                       THEN [rows[a][i] EXCEPT !.status = "closed"] ELSE rows[a][i]
  BY DEF Closed
<1>. QED BY <1>2, <1>3, <1>5, <1>6

\* A bulk archive archives the closed reports that it reaches.
LEMMA ArchivedRows ==
  ASSUME TypeInv
  PROVE  /\ Archived \in AllRows
         /\ \A a \in Adapter, i \in Ids :
              Archived[a][i] = IF i \in BulkHit(a, ClosedReports(a))
                               THEN [rows[a][i] EXCEPT !.archived = TRUE] ELSE rows[a][i]
         /\ \A a \in Adapter : \A i \in BulkHit(a, ClosedReports(a)) :
              i \in ClosedReports(a) /\ i \in Ids /\ rows[a][i] \in Row
<1>1. conf \in Settings /\ rows \in AllRows /\ TypeOK
  BY Constants DEF TypeInv, TypeOK, AllRows
<1>2. \A a \in Adapter : BulkHit(a, ClosedReports(a)) \subseteq ClosedReports(a)
  BY <1>1, BulkHitIs
<1>3. \A a \in Adapter : \A i \in ClosedReports(a) : i \in Ids /\ rows[a][i] \in Row
  BY <1>1, RowTyped DEF ClosedReports, Live
<1>4. ASSUME NEW a \in Adapter, NEW i \in Ids
      PROVE  (IF i \in BulkHit(a, ClosedReports(a)) THEN [rows[a][i] EXCEPT !.archived = TRUE]
              ELSE rows[a][i]) \in Row \cup {NoRow}
  <2>1. CASE i \in BulkHit(a, ClosedReports(a))
    BY <1>2, <1>3, <2>1, RowAmended DEF Status
  <2>2. CASE i \notin BulkHit(a, ClosedReports(a))
    BY <1>1, <2>2 DEF AllRows
  <2>. QED BY <2>1, <2>2
<1>5. Archived \in AllRows
  BY <1>4 DEF Archived, AllRows
<1>6. \A a \in Adapter, i \in Ids :
        Archived[a][i] = IF i \in BulkHit(a, ClosedReports(a))
                         THEN [rows[a][i] EXCEPT !.archived = TRUE] ELSE rows[a][i]
  BY DEF Archived
<1>. QED BY <1>2, <1>3, <1>5, <1>6

-----------------------------------------------------------------------------
(* Every step keeps the types.                                             *)

\* What is told about a report is a message.
LEMMA OutgoingTyped ==
  ASSUME NEW r \in Row PROVE Outgoing(r) \subseteq Messages /\ StateSent \in Messages
                             /\ \A m \in Outgoing(r) : m.pii = r.pii /\ m.to \in {"issue", "hook"}
<1>1. r.pii \in SUBSET PiiFields
  BY DEF Row
<1>2. IssueSent(r) \in Messages /\ HookSent(r) \in Messages /\ StateSent \in Messages
  BY <1>1 DEF IssueSent, HookSent, StateSent, Messages
<1>3. /\ IssueSent(r).pii = r.pii /\ HookSent(r).pii = r.pii
      /\ IssueSent(r).to = "issue" /\ HookSent(r).to = "hook"
  BY DEF IssueSent, HookSent
<1>. QED BY <1>2, <1>3 DEF Outgoing

\* A limiter that is not full counts one more.
LEMMA BucketTyped ==
  ASSUME TypeInv, NEW a \in Limiters, clock + 1 \in 1 .. MaxRequests
  PROVE  /\ bucket[a] \cup {clock + 1} \in SUBSET (1 .. MaxRequests)
         /\ bucket[a] \cup {clock + 1} \subseteq 1 .. clock + 1
         /\ bucket[a] \cup {clock + 1} # bucket[a]
         /\ conf.limiter /\ ~LimiterFull(a) =>
              Cardinality(bucket[a] \cup {clock + 1}) <= RateMax
<1>1. /\ bucket[a] \subseteq 1 .. MaxRequests /\ bucket[a] \subseteq 1 .. clock
      /\ clock \in Nat
  BY DEF TypeInv, TypeOK
<1>2. clock + 1 \notin bucket[a] /\ bucket[a] \cup {clock + 1} \subseteq 1 .. clock + 1
  BY <1>1
<1>3. IsFiniteSet(bucket[a])
  <2>1. IsFiniteSet(1 .. MaxRequests)
    BY FS_Interval, Constants
  <2>2. bucket[a] \in SUBSET (1 .. MaxRequests)
    BY <1>1
  <2>. QED BY <2>1, <2>2, FS_Subset
<1>4. Cardinality(bucket[a] \cup {clock + 1}) = Cardinality(bucket[a]) + 1
  BY <1>2, <1>3, FS_AddElement
<1>5. Cardinality(bucket[a]) \in Nat
  BY <1>3, FS_CardinalityType
<1>6. conf.limiter /\ ~LimiterFull(a) => Cardinality(bucket[a]) + 1 <= RateMax
  BY <1>5, Constants DEF LimiterFull
<1>. QED BY <1>1, <1>2, <1>4, <1>6

\* POST /bug-reports.
LEMMA SubmitTyped ==
  ASSUME TypeInv, NEW f \in Forms, Submit(f) PROVE TypeInv'
<1>0. conf \in Settings /\ clock \in Nat /\ TypeOK
  BY Constants DEF TypeInv, TypeOK
<1>1. rows' = Submitted(f) /\ Submitted(f) \in AllRows /\ moved' \in [Adapter -> Nat]
  BY <1>0, SubmitStores, SubmittedRows, StoreTyped DEF AllRows
<1>2. sent' \in [Adapter -> SUBSET Messages]
  <2>1. sent \in [Adapter -> SUBSET Messages]
    BY DEF TypeInv
  <2>2. \A a \in Adapter : Outgoing(NewRow(a, f)) \subseteq Messages
    BY <1>0, NewRowTyped, OutgoingTyped
  <2>. QED BY <2>1, <2>2 DEF Submit
<1>. DEFINE takers == {a \in Adapter : Takes(a, f)}
<1>3. nextNo' \in [Limiters -> 1 .. (MaxReports + 1)]
  <2>1. nextNo' = [a \in Limiters |-> IF a \in takers THEN nextNo[a] + 1 ELSE nextNo[a]]
    BY DEF Submit
  <2>2. nextNo \in [Limiters -> 1 .. (MaxReports + 1)] /\ MaxReports \in Nat
    BY <1>0, Constants DEF TypeOK
  <2>3. \A a \in takers : NewId(a) \in Ids
    BY DEF Submit
  <2>4. ASSUME NEW a \in Limiters, a \in takers PROVE nextNo[a] + 1 \in 1 .. (MaxReports + 1)
    <3>1. nextNo[a] \in 1 .. MaxReports
      BY <2>3, <2>4 DEF NewId, Ids
    <3>. QED BY <2>2, <3>1
  <2>. QED BY <2>1, <2>2, <2>4
<1>. DEFINE hit(a) == ReachesLimiter(a, f) /\ ~LimiterFull(a)
<1>4. bucket' = [a \in Limiters |-> IF hit(a) THEN bucket[a] \cup {clock + 1} ELSE bucket[a]]
  BY DEF Submit
<1>5. \A a \in Limiters : hit(a) => conf.limiter /\ ~LimiterFull(a)
  BY DEF ReachesLimiter
<1>. HIDE DEF hit
<1>6. /\ clock' \in 0 .. MaxRequests /\ clock' \in {clock, clock + 1}
      /\ bucket' # bucket => clock' = clock + 1
  BY NumberedTyped DEF Submit
<1>7. /\ bucket \in [Limiters -> SUBSET (1 .. MaxRequests)]
      /\ \A a \in Limiters : Cardinality(bucket[a]) <= RateMax /\ bucket[a] \subseteq 1 .. clock
  BY DEF TypeInv, TypeOK
<1>8. ASSUME NEW a \in Limiters
      PROVE  /\ bucket'[a] \in SUBSET (1 .. MaxRequests) /\ bucket'[a] \subseteq 1 .. clock'
             /\ Cardinality(bucket'[a]) <= RateMax
  <2>1. CASE hit(a)
    <3>1. bucket'[a] = bucket[a] \cup {clock + 1}
      BY <1>4, <2>1
    <3>2. clock' = clock + 1
      <4>1. clock + 1 \in bucket'[a] /\ clock + 1 \notin bucket[a]
        BY <1>0, <1>7, <3>1
      <4>. QED BY <1>6, <4>1
    <3>3. clock + 1 \in 1 .. MaxRequests
      BY <1>0, <1>6, <3>2
    <3>. QED BY <1>5, <2>1, <3>1, <3>2, <3>3, BucketTyped
  <2>2. CASE ~hit(a)
    <3>1. bucket'[a] = bucket[a]
      BY <1>4, <2>2
    <3>2. 1 .. clock \subseteq 1 .. clock'
      BY <1>0, <1>6
    <3>. QED BY <1>7, <3>1, <3>2
  <2>. QED BY <2>1, <2>2
<1>9. bucket' \in [Limiters -> SUBSET (1 .. MaxRequests)]
  BY <1>4, <1>8
<1>10. conf' = conf /\ look' = look /\ agreed' \subseteq agreed
  BY DEF Submit, Parting
<1>11. TypeOK'
  BY <1>0, <1>1, <1>3, <1>6, <1>8, <1>9, <1>10 DEF TypeOK, AllRows
<1>. QED BY <1>2, <1>8, <1>10, <1>11 DEF TypeInv, Listing

\* PUT /reports/{id}/status.
LEMMA UpdateTyped ==
  ASSUME TypeInv, NEW i, NEW body \in Bodies, UpdateStatus(i, body) PROVE TypeInv'
<1>1. Store(Restated(i, body)) /\ Restated(i, body) \in AllRows
  BY UpdateStores, RestatedRows
<1>2. sent' \in [Adapter -> SUBSET Messages]
  <2>1. sent \in [Adapter -> SUBSET Messages] /\ StateSent \in Messages
    BY DEF TypeInv, StateSent, Messages
  <2>2. \E S \in SUBSET Adapter :
          sent' = [a \in Adapter |-> IF a \in S THEN sent[a] \cup {StateSent} ELSE sent[a]]
    <3>. DEFINE S == {a \in Adapter : StatusSaid(a, i, body) = Ok /\ conf.sync /\ rows[a][i].linked}
    <3>1. sent' = [a \in Adapter |-> IF a \in S THEN sent[a] \cup {StateSent} ELSE sent[a]]
      BY DEF UpdateStatus
    <3>. QED BY <3>1
  <2>. QED BY <2>1, <2>2
<1>3. UNCHANGED <<conf, nextNo, bucket, look>> /\ agreed' \subseteq agreed /\ Numbered
  BY DEF UpdateStatus, Parting
<1>. QED BY <1>1, <1>2, <1>3, StoreStep DEF AllRows

\* DELETE /reports/{id}.
LEMMA DeleteTyped ==
  ASSUME TypeInv, NEW i, Delete(i) PROVE TypeInv'
<1>1. Store(Removed(i)) /\ Removed(i) \in AllRows
  BY DeleteStores, RemovedRows
<1>2. sent' \in [Adapter -> SUBSET Messages]
  BY DEF Delete, TypeInv
<1>3. UNCHANGED <<conf, nextNo, bucket, look>> /\ agreed' \subseteq agreed /\ Numbered
  BY DEF Delete, Parting
<1>. QED BY <1>1, <1>2, <1>3, StoreStep DEF AllRows

\* What the bulk requests leave alone.
LEMMA BulkLeaves ==
  ASSUME BulkCloseFixed \/ BulkArchiveClosed
  PROVE  UNCHANGED <<conf, nextNo, bucket, look>> /\ agreed' \subseteq agreed /\ Numbered
         /\ sent' = sent
<1>1. CASE BulkCloseFixed
  BY <1>1 DEF BulkCloseFixed, Bulk, Parting
<1>2. CASE BulkArchiveClosed
  BY <1>2 DEF BulkArchiveClosed, Bulk, Parting
<1>. QED BY <1>1, <1>2

\* POST /bulk-close-fixed and POST /bulk-archive-closed.
LEMMA BulkTyped ==
  ASSUME TypeInv, BulkCloseFixed \/ BulkArchiveClosed PROVE TypeInv'
<1>1. \E new \in AllRows : Store(new)
  BY CloseStores, ArchiveStores, ClosedRows, ArchivedRows
<1>2. sent' \in [Adapter -> SUBSET Messages]
  BY BulkLeaves DEF TypeInv
<1>. QED BY <1>1, <1>2, BulkLeaves, StoreStep DEF AllRows

\* What a count adds to a listing.
CountOf(a) == Cardinality(Matches(a, CardStatus, look.env))

\* A count makes a listing of a listing.
LEMMA CountShape ==
  ASSUME TypeInv, CountCard
  PROVE  /\ Listing(look) /\ look.step \in 1 .. 5
         /\ look' = [step |-> look.step + 1, status |-> look.status, env |-> look.env,
                     paging |-> look.paging, items |-> look.items, total |-> look.total,
                     cards |-> [a \in Adapter |-> Append(look.cards[a], CountOf(a))]]
         /\ \A a \in Adapter : CountOf(a) \in Nat
<1>1. Listing(look)
  <2>1. look # NoListing
    BY DEF CountCard, Busy, NoListing
  <2>. QED BY <2>1 DEF TypeInv
<1>2. look.step \in 1 .. 5
  BY <1>1, Constants DEF CountCard, Listing
<1>3. ASSUME NEW a \in Adapter PROVE CountOf(a) \in Nat
  <2>1. Matches(a, CardStatus, look.env) \subseteq Ids
    BY DEF Matches, Live
  <2>. QED BY <2>1, IdsFinite DEF CountOf
<1>4. look' = [look EXCEPT !.step = @ + 1,
           !.cards = [a \in Adapter |-> Append(@[a], CountOf(a))]]
  BY Zenon DEF CountCard, CountOf
<1>. DEFINE more == [a \in Adapter |-> Append(look.cards[a], CountOf(a))]
<1>5. look' = [look EXCEPT !.step = look.step + 1, !.cards = more]
  BY <1>4, Zenon
<1>. HIDE DEF more
<1>6. look' = [step |-> look.step + 1, status |-> look.status, env |-> look.env,
               paging |-> look.paging, items |-> look.items, total |-> look.total,
               cards |-> more]
  <2>1. PICK s, st, e, p, it, t, c : look = [step |-> s, status |-> st, env |-> e,
               paging |-> p, items |-> it, total |-> t, cards |-> c]
    BY <1>1, Zenon DEF Listing
  <2>. QED BY <1>5, <2>1
<1>. QED BY <1>1, <1>2, <1>3, <1>6 DEF more

\* The listing keeps its shape.
LEMMA CountTyped ==
  ASSUME TypeInv, CountCard PROVE TypeInv'
<1>. DEFINE more == [a \in Adapter |-> Append(look.cards[a], CountOf(a))]
<1>1. /\ Listing(look) /\ look.step \in 1 .. 5
      /\ look' = [step |-> look.step + 1, status |-> look.status, env |-> look.env,
                  paging |-> look.paging, items |-> look.items, total |-> look.total,
                  cards |-> more]
      /\ \A a \in Adapter : CountOf(a) \in Nat
  BY CountShape
<1>2. /\ more \in [Adapter -> Seq(Nat)]
      /\ \A a \in Adapter : Len(more[a]) = (look.step + 1) - 1
  <2>1. \A a \in Adapter : look.cards[a] \in Seq(Nat) /\ Len(look.cards[a]) = look.step - 1
    BY <1>1 DEF Listing
  <2>2. \A a \in Adapter : more[a] \in Seq(Nat) /\ Len(more[a]) = Len(look.cards[a]) + 1
    BY <1>1, <2>1
  <2>. QED BY <1>1, <2>1, <2>2
<1>. HIDE DEF more
<1>3. Listing(look')
  <2>1. /\ look'.step = look.step + 1 /\ look'.status = look.status /\ look'.env = look.env
        /\ look'.paging = look.paging /\ look'.items = look.items
        /\ look'.total = look.total /\ look'.cards = more
    BY <1>1
  <2>. QED BY <1>1, <1>2, <2>1 DEF Listing
<1>4. UNCHANGED <<conf, rows, nextNo, bucket, sent, clock, agreed, moved>>
  BY DEF CountCard
<1>5. look'.step \in 0 .. (Len(Cards) + 2)
  BY <1>3, Constants DEF Listing
<1>. QED BY <1>3, <1>4, <1>5 DEF TypeInv, TypeOK

\* The first step of a listing, and its last.
LEMMA ListTyped ==
  ASSUME TypeInv, NEW q \in Queries, List(q) PROVE TypeInv' /\ Listing(look')
<1>. DEFINE page == [a \in Adapter |-> Paging(a, q.page, q.size)]
            all == [a \in Adapter |-> Matches(a, q.status, q.env)]
            items == [a \in Adapter |-> PageOf(all[a], page[a])]
            total == [a \in Adapter |-> Cardinality(all[a])]
            cards == [a \in Adapter |-> << >>]
<1>1. look' = [step |-> 1, status |-> q.status, env |-> q.env, paging |-> page,
               items |-> items, total |-> total, cards |-> cards]
  BY DEF List
<1>2. total \in [Adapter -> Nat]
  <2>1. \A a \in Adapter : all[a] \subseteq Ids
    BY DEF Matches, Live
  <2>. QED BY <2>1, IdsFinite
<1>3. cards \in [Adapter -> Seq(Nat)] /\ \A a \in Adapter : Len(cards[a]) = 0
  OBVIOUS
<1>4. q.status \in Status \cup {"any"} /\ q.env \in BOOLEAN
  <2>1. q \in Query
    BY AdaptersAssumption
  <2>. QED BY <2>1 DEF Query
<1>. HIDE DEF page, items, total, cards
<1>5. Listing(look')
  <2>1. /\ look'.step = 1 /\ look'.status = q.status /\ look'.env = q.env
        /\ look'.paging = page /\ look'.items = items
        /\ look'.total = total /\ look'.cards = cards
    BY <1>1
  <2>. QED BY <1>1, <1>2, <1>3, <1>4, <2>1 DEF Listing
<1>6. /\ UNCHANGED <<conf, rows, nextNo, bucket, sent, clock>> /\ agreed' \subseteq agreed
      /\ moved' = [a \in Adapter |-> 0]
  BY DEF List, Parting
<1>7. look'.step \in 0 .. (Len(Cards) + 2) /\ moved' \in [Adapter -> Nat]
  BY <1>5, <1>6, Constants DEF Listing
<1>. QED BY <1>5, <1>6, <1>7 DEF TypeInv, TypeOK

\* The listing is answered.
LEMMA DoneTyped ==
  ASSUME TypeInv, ListDone PROVE TypeInv'
<1>1. look' = NoListing /\ look'.step = 0 /\ moved' \in [Adapter -> Nat]
  BY DEF ListDone, NoListing
<1>2. look'.step \in 0 .. (Len(Cards) + 2)
  BY <1>1, Constants
<1>. QED BY <1>1, <1>2 DEF ListDone, TypeInv, TypeOK

\* The types hold at first.
LEMMA InitTyped == Init => TypeInv
<1>. SUFFICES ASSUME Init PROVE TypeInv
  OBVIOUS
<1>1. look = NoListing /\ look.step \in 0 .. (Len(Cards) + 2)
  BY Constants DEF Init, NoListing
<1>2. /\ nextNo \in [Limiters -> 1 .. (MaxReports + 1)] /\ clock \in 0 .. MaxRequests
      /\ \A a \in Limiters : bucket[a] = {} /\ Cardinality(bucket[a]) <= RateMax
  BY Constants, FS_EmptySet DEF Init
<1>. QED BY <1>1, <1>2 DEF Init, TypeInv, TypeOK

\* Every step keeps the types.
LEMMA StepTyped ==
  ASSUME TypeInv, [Next]_vars PROVE TypeInv'
<1>1. CASE UNCHANGED vars
  BY <1>1 DEF vars, TypeInv, TypeOK, Listing
<1>2. CASE Next
  BY <1>2, SubmitTyped, WindowTyped, DeleteTyped, UpdateTyped, BulkTyped, ListTyped,
     CountTyped,
     DoneTyped DEF Next
<1>. QED BY <1>1, <1>2

\* Every variable keeps its type, and no limiter ever holds more than it may
\* (Adapters.TypeOK).
THEOREM TypesHold == Spec => []TypeOK
<1>1. Init => TypeInv
  BY InitTyped
<1>2. TypeInv /\ [Next]_vars => TypeInv'
  BY StepTyped
<1>3. TypeInv => TypeOK
  BY DEF TypeInv
<1>. QED BY <1>1, <1>2, <1>3, PTL DEF Spec

-----------------------------------------------------------------------------
(* What is kept and sent was vetted.                                       *)

\* A report, and a message, that adapter a may have kept and sent.
RowVetted(a, r) ==
  /\ r.sound
  /\ conf.redact => "title" \notin r.pii
  /\ ~conf.gates /\ a \in Limiters => r.status = "open" /\ ~r.archived
MessageVetted(a, m) ==
  /\ conf.redact => "title" \notin m.pii
  /\ ~conf.gates /\ a \in Limiters => m.to \in {"issue", "hook"}
AllVetted == \A a \in Adapter :
  /\ \A i \in Ids : rows[a][i] # NoRow => RowVetted(a, rows[a][i])
  /\ \A m \in sent[a] : MessageVetted(a, m)

\* That is KeptVetted, said of one report and one message at a time.
LEMMA VettedIs == AllVetted <=> KeptVetted
<1>1. Limiters \subseteq Adapter
  BY Constants
<1>2. \A a \in Adapter : \A i : i \in Live(a) <=> i \in Ids /\ rows[a][i] # NoRow
  BY DEF Live
<1>3. ASSUME AllVetted PROVE KeptVetted
  <2>1. OnlySoundStored
    BY <1>2, <1>3 DEF AllVetted, OnlySoundStored, RowVetted
  <2>2. NothingRaw
    BY <1>2, <1>3 DEF AllVetted, NothingRaw, RowVetted, MessageVetted
  <2>3. GatesHold
    BY <1>1, <1>2, <1>3 DEF AllVetted, GatesHold, RowVetted, MessageVetted
  <2>. QED BY <2>1, <2>2, <2>3 DEF KeptVetted
<1>4. ASSUME KeptVetted, NEW a \in Adapter
      PROVE  /\ \A i \in Ids : rows[a][i] # NoRow => RowVetted(a, rows[a][i])
             /\ \A m \in sent[a] : MessageVetted(a, m)
  <2>1. ASSUME NEW i \in Ids, rows[a][i] # NoRow PROVE RowVetted(a, rows[a][i])
    <3>1. i \in Live(a)
      BY <1>2, <2>1
    <3>2. rows[a][i].sound
      BY <1>4, <3>1 DEF KeptVetted, OnlySoundStored
    <3>3. conf.redact => "title" \notin rows[a][i].pii
      BY <1>4, <3>1 DEF KeptVetted, NothingRaw
    <3>4. ~conf.gates /\ a \in Limiters => rows[a][i].status = "open" /\ ~rows[a][i].archived
      BY <1>4, <3>1 DEF KeptVetted, GatesHold
    <3>. QED BY <3>2, <3>3, <3>4 DEF RowVetted
  <2>2. ASSUME NEW m \in sent[a] PROVE MessageVetted(a, m)
    BY <1>4, <2>2 DEF KeptVetted, NothingRaw, GatesHold, MessageVetted
  <2>. QED BY <2>1, <2>2
<1>5. KeptVetted => AllVetted
  BY <1>4, Zenon DEF AllVetted
<1>. QED BY <1>3, <1>5

\* A report that storage is handed was vetted, and what is said of it too.
LEMMA NewRowVetted ==
  ASSUME conf \in Settings, NEW a \in Adapter, NEW f \in Forms, Keeps(a, f)
  PROVE  /\ RowVetted(a, NewRow(a, f))
         /\ \A m \in Outgoing(NewRow(a, f)) : MessageVetted(a, m)
<1>1. f \in Form
  BY Constants
<1>2. /\ f.length # "huge" /\ f.parts # "partial"
      /\ f.meta \notin {"long", "garbled", "version", "invalid"}
      /\ f.shot \notin {"long", "other", "empty"}
  BY Accepts DEF Keeps
<1>3. f.parts = "both" /\ f.shot = "png" /\ f.meta = "ok"
  BY <1>1, <1>2 DEF Form
<1>4. /\ NewRow(a, f).sound
      /\ NewRow(a, f).status = "open" /\ ~NewRow(a, f).archived
      /\ NewRow(a, f).pii = IF conf.redact THEN Redacted(f.pii) ELSE f.pii
      /\ NewRow(a, f) \in Row
  BY <1>2, <1>3, NewRowTyped
<1>5. conf.redact => "title" \notin NewRow(a, f).pii
  BY <1>4 DEF Redacted
<1>6. \A m \in Outgoing(NewRow(a, f)) : m.pii = NewRow(a, f).pii /\ m.to \in {"issue", "hook"}
  BY <1>4, OutgoingTyped
<1>. QED BY <1>4, <1>5, <1>6 DEF RowVetted, MessageVetted

\* Reports and messages that are the old ones, or vetted, are all vetted.
LEMMA VettedStep ==
  ASSUME AllVetted, conf' = conf,
         \A a \in Adapter, i \in Ids : \/ rows'[a][i] \in {rows[a][i], NoRow}
                                       \/ RowVetted(a, rows'[a][i]),
         \A a \in Adapter : \A m \in sent'[a] : m \in sent[a] \/ MessageVetted(a, m)
  PROVE  AllVetted'
<1>1. ASSUME NEW a \in Adapter, NEW i \in Ids, rows'[a][i] # NoRow
      PROVE  RowVetted(a, rows'[a][i])
  BY <1>1 DEF AllVetted
<1>2. ASSUME NEW a \in Adapter, NEW m \in sent'[a] PROVE MessageVetted(a, m)
  BY <1>2 DEF AllVetted
<1>3. ASSUME NEW a \in Adapter, NEW i \in Ids, rows'[a][i] # NoRow
      PROVE  RowVetted(a, rows[a][i])'
  BY <1>1, <1>3 DEF RowVetted
<1>4. ASSUME NEW a \in Adapter, NEW m \in sent'[a] PROVE MessageVetted(a, m)'
  BY <1>2, <1>4 DEF MessageVetted
<1>. QED BY <1>3, <1>4, Zenon DEF AllVetted

\* A report that a handler of adapter a changes stays vetted, if the handler
\* of a let the change through.
LEMMA AmendedVetted ==
  ASSUME NEW a \in Adapter, NEW r \in Row, NEW st \in Status, RowVetted(a, r),
         a = "django" \/ conf.gates
  PROVE  RowVetted(a, [r EXCEPT !.status = st]) /\ RowVetted(a, [r EXCEPT !.archived = TRUE])
<1>1. a \notin Limiters \/ conf.gates
  BY DEF Limiters
<1>. QED BY <1>1, RowAmended DEF RowVetted

\* POST /bug-reports.
LEMMA SubmitVetted ==
  ASSUME TypeInv, AllVetted, NEW f \in Forms, Submit(f) PROVE AllVetted'
<1>1. conf \in Settings /\ conf' = conf /\ TypeOK
  BY Constants DEF TypeInv, TypeOK, Submit
<1>2. rows' = Submitted(f)
  BY SubmitStores DEF Store
<1>3. \A a \in Adapter, i \in Ids : \/ rows'[a][i] = rows[a][i]
                                    \/ RowVetted(a, rows'[a][i])
  BY <1>1, <1>2, SubmittedRows, NewRowVetted
<1>4. \A a \in Adapter : \A m \in sent'[a] : m \in sent[a] \/ MessageVetted(a, m)
  BY <1>1, NewRowVetted DEF Submit
<1>. QED BY <1>1, <1>3, <1>4, VettedStep

\* PUT /reports/{id}/status.
LEMMA UpdateVetted ==
  ASSUME TypeInv, AllVetted, NEW j, NEW body \in Bodies, UpdateStatus(j, body) PROVE AllVetted'
<1>1. conf \in Settings /\ conf' = conf /\ TypeOK
  BY Constants DEF TypeInv, TypeOK, UpdateStatus
<1>2. rows' = Restated(j, body)
  BY UpdateStores DEF Store
<1>3. ASSUME NEW a \in Adapter, StatusSaid(a, j, body) = Ok
      PROVE  body \in Status /\ j \in Live(a) /\ (a = "django" \/ conf.gates)
  BY <1>1, <1>3, Changes DEF Bodies
<1>4. ASSUME NEW a \in Adapter, NEW i \in Ids
      PROVE  rows'[a][i] = rows[a][i] \/ RowVetted(a, rows'[a][i])
  <2>1. CASE i = j /\ StatusSaid(a, j, body) = Ok
    <3>1. rows'[a][i] = [rows[a][i] EXCEPT !.status = body]
      BY <1>2, <2>1, RestatedRows
    <3>2. rows[a][i] \in Row /\ rows[a][i] # NoRow
      BY <1>1, <1>3, <2>1, RowTyped
    <3>3. RowVetted(a, rows[a][i])
      BY <3>2 DEF AllVetted
    <3>4. body \in Status /\ (a = "django" \/ conf.gates)
      BY <1>3, <2>1
    <3>. QED BY <3>1, <3>2, <3>3, <3>4, AmendedVetted
  <2>2. CASE ~(i = j /\ StatusSaid(a, j, body) = Ok)
    <3>1. rows'[a][i] = rows[a][i]
      BY <1>2, <2>2, RestatedRows
    <3>. QED BY <3>1
  <2>. QED BY <2>1, <2>2
<1>5. ASSUME NEW a \in Adapter, NEW m \in sent'[a] PROVE m \in sent[a] \/ MessageVetted(a, m)
  <2>1. \/ sent'[a] = sent[a]
        \/ sent'[a] = sent[a] \cup {StateSent} /\ StatusSaid(a, j, body) = Ok
    BY DEF UpdateStatus
  <2>2. CASE sent'[a] = sent[a]
    BY <1>5, <2>2
  <2>3. CASE sent'[a] = sent[a] \cup {StateSent} /\ StatusSaid(a, j, body) = Ok
    <3>1. a \notin Limiters \/ conf.gates
      BY <1>3, <2>3 DEF Limiters
    <3>2. MessageVetted(a, StateSent)
      BY <3>1 DEF MessageVetted, StateSent
    <3>. QED BY <1>5, <2>3, <3>2
  <2>. QED BY <2>1, <2>2, <2>3
<1>. QED BY <1>1, <1>4, <1>5, VettedStep

\* DELETE /reports/{id}.
LEMMA DeleteVetted ==
  ASSUME TypeInv, AllVetted, NEW j, Delete(j) PROVE AllVetted'
<1>1. conf' = conf /\ sent' = sent
  BY DEF Delete
<1>2. rows' = Removed(j)
  BY DeleteStores DEF Store
<1>3. \A a \in Adapter, i \in Ids : rows'[a][i] \in {rows[a][i], NoRow}
  BY <1>2, RemovedRows
<1>. QED BY <1>1, <1>3, VettedStep

\* POST /bulk-close-fixed and POST /bulk-archive-closed.
LEMMA BulkVetted ==
  ASSUME TypeInv, AllVetted, BulkCloseFixed \/ BulkArchiveClosed PROVE AllVetted'
<1>1. conf \in Settings /\ conf' = conf /\ sent' = sent
  BY BulkLeaves, Constants DEF TypeInv, TypeOK
<1>2. rows' = Closed \/ rows' = Archived
  BY CloseStores, ArchiveStores DEF Store
<1>3. ASSUME NEW a \in Adapter, NEW i \in Ids, rows[a][i] \in Row,
             i \in BulkHit(a, FixedReports(a)) \/ i \in BulkHit(a, ClosedReports(a))
      PROVE  /\ RowVetted(a, [rows[a][i] EXCEPT !.status = "closed"])
             /\ RowVetted(a, [rows[a][i] EXCEPT !.archived = TRUE])
  <2>1. a = "django" \/ conf.gates
    BY <1>1, <1>3, BulkHitIs
  <2>2. rows[a][i] # NoRow
    BY <1>3, RowTyped DEF TypeInv
  <2>3. RowVetted(a, rows[a][i])
    BY <2>2 DEF AllVetted
  <2>. QED BY <1>3, <2>1, <2>3, AmendedVetted DEF Status
<1>4. ASSUME NEW a \in Adapter, NEW i \in Ids
      PROVE  rows'[a][i] = rows[a][i] \/ RowVetted(a, rows'[a][i])
  <2>1. CASE rows' = Closed
    BY <1>3, <2>1, ClosedRows
  <2>2. CASE rows' = Archived
    BY <1>3, <2>2, ArchivedRows
  <2>. QED BY <1>2, <2>1, <2>2
<1>. QED BY <1>1, <1>4, VettedStep

\* Every step keeps what is kept and sent vetted.
LEMMA StepVetted ==
  ASSUME TypeInv, AllVetted, [Next]_vars PROVE AllVetted'
<1>1. ASSUME UNCHANGED <<conf, rows, sent>> PROVE AllVetted'
  BY <1>1 DEF AllVetted, RowVetted, MessageVetted
<1>2. CASE UNCHANGED vars
  BY <1>1, <1>2 DEF vars
<1>3. CASE \E k \in 1 .. MaxRequests : WindowMoves(k)
  BY <1>1, <1>3 DEF WindowMoves
<1>4. CASE (\E q \in Queries : List(q)) \/ CountCard \/ ListDone
  BY <1>1, <1>4 DEF List, CountCard, ListDone
<1>. QED BY <1>2, <1>3, <1>4, SubmitVetted, DeleteVetted, UpdateVetted,
            BulkVetted DEF Next

\* Whatever requests are made, no report is stored that failed a check of the
\* intake, redaction leaves nothing it scans in storage or in what was sent, and
\* a permission that is off protects every report of FastAPI and Flask
\* (Adapters.KeptVetted).
THEOREM VettedHolds == Spec => []KeptVetted
<1>1. Init => TypeInv
  BY InitTyped
<1>2. Init => AllVetted
  BY DEF Init, AllVetted
<1>3. TypeInv /\ [Next]_vars => TypeInv'
  BY StepTyped
<1>4. TypeInv /\ AllVetted /\ [Next]_vars => AllVetted'
  BY StepVetted
<1>5. AllVetted => KeptVetted
  BY VettedIs
<1>. QED BY <1>1, <1>2, <1>3, <1>4, <1>5, PTL DEF Spec

-----------------------------------------------------------------------------
(* The adapters agree.                                                     *)

\* The largest id of a set, which Max finds.
LEMMA MaxFound ==
  ASSUME NEW S, S \subseteq Ids, S # {}
  PROVE  Max(S) \in S /\ \A y \in S : y <= Max(S)
<1>. DEFINE below == {MaxReports - y : y \in S}
<1>1. MaxReports \in Nat /\ \A y \in S : y \in Nat /\ MaxReports - y \in Nat
  BY Constants DEF Ids
<1>2. below \subseteq Nat /\ below # {}
  BY <1>1
<1>3. PICK m \in below : \A y \in below : m <= y
  BY <1>2, MinFound
<1>4. PICK x \in S : m = MaxReports - x
  BY <1>3
<1>5. ASSUME NEW y \in S PROVE x >= y
  <2>1. MaxReports - x <= MaxReports - y
    BY <1>3, <1>4
  <2>2. x \in Nat /\ y \in Nat /\ MaxReports \in Nat
    BY <1>1, <1>4
  <2>. QED BY <2>1, <2>2
<1>6. Max(S) \in S /\ \A y \in S : Max(S) >= y
  BY <1>4, <1>5 DEF Max
<1>7. \A y \in S : Max(S) \in Nat /\ y \in Nat
  BY <1>1, <1>6
<1>. HIDE DEF Max
<1>. QED BY <1>6, <1>7

\* Max is the element that is largest.
LEMMA MaxIs ==
  ASSUME NEW S, S \subseteq Nat, NEW x \in S, \A y \in S : y <= x
  PROVE  Max(S) = x
<1>1. \A y \in S : x >= y
  OBVIOUS
<1>2. Max(S) \in S /\ \A y \in S : Max(S) >= y
  BY <1>1 DEF Max
<1>3. Max(S) \in Nat /\ x \in Nat /\ Max(S) >= x /\ Max(S) <= x
  BY <1>2
<1>. HIDE DEF Max
<1>. QED BY <1>3

\* The ids in use among the reports r, and the id Django gives out next.
LiveIn(r) == {i \in Ids : r[i] # NoRow}
NextOf(S) == IF S = {} THEN 1 ELSE Max(S) + 1

\* It is the NewId of the Django adapter, before a step and after it.
LEMMA DjangoNewId ==
  /\ NewId("django") = NextOf(LiveIn(rows["django"]))
  /\ NewId("django")' = NextOf(LiveIn(rows'["django"]))
BY DEF NewId, NextOf, LiveIn, Live, Limiters

\* It is larger than every id in use, and the next one follows it.
LEMMA NextFollows ==
  ASSUME NEW S, S \subseteq Ids
  PROVE  /\ NextOf(S) \in Nat /\ \A i \in S : i < NextOf(S)
         /\ NextOf(S) \in Ids => NextOf(S \cup {NextOf(S)}) = NextOf(S) + 1
         /\ \A i : S # {} /\ i # Max(S) => NextOf(S \ {i}) = NextOf(S)
<1>1. Ids \subseteq Nat
  BY DEF Ids
<1>2. CASE S = {}
  <2>1. NextOf(S) = 1
    BY <1>2 DEF NextOf
  <2>2. Max({1}) = 1
    BY MaxIs
  <2>3. NextOf(S \cup {1}) = 2
    <3>1. S \cup {1} = {1} /\ {1} # {}
      BY <1>2
    <3>2. NextOf({1}) = Max({1}) + 1
      BY <3>1 DEF NextOf
    <3>. QED BY <2>2, <3>1, <3>2
  <2>4. NextOf(S \cup {NextOf(S)}) = NextOf(S) + 1
    BY <2>1, <2>3
  <2>. QED BY <1>2, <2>1, <2>4
<1>3. CASE S # {}
  <2>1. Max(S) \in S /\ \A y \in S : y <= Max(S)
    BY <1>3, MaxFound
  <2>2. NextOf(S) = Max(S) + 1 /\ Max(S) \in Nat
    BY <1>1, <1>3, <2>1 DEF NextOf
  <2>. DEFINE m == Max(S)
  <2>3. m \in S /\ m \in Nat /\ NextOf(S) = m + 1 /\ \A y \in S : y \in Nat /\ y <= m
    BY <1>1, <2>1, <2>2
  <2>. HIDE DEF m
  <2>4. NextOf(S) \in Nat /\ \A i \in S : i < NextOf(S)
    BY <2>3
  <2>5. NextOf(S \cup {NextOf(S)}) = NextOf(S) + 1
    <3>. DEFINE T == S \cup {m + 1}
    <3>1. T \subseteq Nat /\ m + 1 \in T /\ (\A y \in T : y <= m + 1) /\ T # {}
      BY <2>3
    <3>. HIDE DEF T
    <3>2. Max(T) = m + 1
      BY <3>1, MaxIs
    <3>3. NextOf(T) = (m + 1) + 1
      BY <3>1, <3>2 DEF NextOf
    <3>. QED BY <2>3, <3>3 DEF T
  <2>6. ASSUME NEW i, i # m PROVE NextOf(S \ {i}) = NextOf(S)
    <3>. DEFINE T == S \ {i}
    <3>1. T \subseteq Nat /\ m \in T /\ (\A y \in T : y <= m) /\ T # {}
      BY <2>3, <2>6
    <3>. HIDE DEF T
    <3>2. Max(T) = m
      BY <3>1, MaxIs
    <3>3. NextOf(T) = m + 1
      BY <3>1, <3>2 DEF NextOf
    <3>. QED BY <2>3, <3>3 DEF T
  <2>. QED BY <2>4, <2>5, <2>6 DEF m
<1>. QED BY <1>2, <1>3

\* Three adapters with the same reports find the same of them.
LEMMA LiveAlike ==
  ASSUME NEW a \in Adapter, NEW b \in Adapter, rows[a] = rows[b]
  PROVE  /\ Live(a) = Live(b) /\ Live(a) = LiveIn(rows[a])
         /\ \A status, env : Matches(a, status, env) = Matches(b, status, env)
BY DEF Live, LiveIn, Matches

\* What an adapter not set apart says to a submission before storage is asked.
LEMMA VerdictAlike ==
  ASSUME NEW a \in Adapter, SameState(a), NEW f \in Forms, ~SubmitParts(a, f)
  PROVE  /\ SubmitVerdict(a, f) = SubmitVerdict("fastapi", f)
         /\ a \in Limiters => /\ ReachesLimiter(a, f) <=> ReachesLimiter("fastapi", f)
                              /\ LimiterFull(a) <=> LimiterFull("fastapi")
<1>1. CASE a = "fastapi"
  BY <1>1
<1>2. /\ BeforeLimiter[a][f] = BeforeSays(a, f) /\ AfterLimiter[a][f] = AfterSays(a, f)
      /\ BeforeLimiter["fastapi"][f] = BeforeSays("fastapi", f)
      /\ AfterLimiter["fastapi"][f] = AfterSays("fastapi", f)
  BY Constants, HandlerSays
<1>3. CASE a = "flask"
  <2>1. f.parts # "partial" /\ f.shot # "empty" /\ (~conf.limiter \/ f.length # "huge")
    BY <1>3 DEF SubmitParts
  <2>2. bucket[a] = bucket["fastapi"]
    BY <1>3 DEF SameState
  <2>3. LimiterFull(a) <=> LimiterFull("fastapi")
    BY <1>3, <2>2 DEF LimiterFull, Limiters
  <2>4. CASE f.length # "huge"
    <3>1. BeforeSays(a, f) = Created /\ BeforeSays("fastapi", f) = Created
      BY <1>3, <2>1, <2>4 DEF BeforeSays
    <3>2. AfterSays(a, f) = AfterSays("fastapi", f)
      BY <1>3, <2>1, <2>4 DEF AfterSays
    <3>. QED BY <1>2, <1>3, <2>3, <3>1, <3>2 DEF SubmitVerdict, ReachesLimiter, Limiters
  <2>5. CASE f.length = "huge"
    <3>1. ~LimiterFull(a) /\ ~LimiterFull("fastapi") /\ ~conf.limiter
      BY <2>1, <2>5 DEF LimiterFull
    <3>2. /\ BeforeSays(a, f) = Created /\ BeforeSays("fastapi", f) = TooLarge
          /\ AfterSays(a, f) = TooLarge /\ TooLarge # Created
      BY <1>3, <2>5, AnswersDiffer DEF BeforeSays, AfterSays
    <3>3. SubmitVerdict(a, f) = TooLarge /\ SubmitVerdict("fastapi", f) = TooLarge
      BY <1>2, <3>1, <3>2 DEF SubmitVerdict
    <3>. QED BY <2>3, <3>1, <3>3 DEF ReachesLimiter
  <2>. QED BY <2>4, <2>5
<1>4. CASE a = "django"
  <2>1. f.parts # "partial" /\ ~conf.limiter
    BY <1>4 DEF SubmitParts
  <2>2. ~LimiterFull(a) /\ ~LimiterFull("fastapi")
    BY <2>1 DEF LimiterFull
  <2>3. /\ BeforeSays(a, f) = BeforeSays("fastapi", f)
        /\ AfterSays(a, f) = AfterSays("fastapi", f)
    BY <1>4, <2>1 DEF BeforeSays, AfterSays
  <2>. QED BY <1>2, <1>4, <2>2, <2>3 DEF SubmitVerdict, Limiters
<1>. QED BY <1>1, <1>3, <1>4 DEF Adapter

\* Its answer once storage was asked, the report it stores and the id of it.
LEMMA SubmitAlike ==
  ASSUME NEW a \in Adapter, SameState(a), NEW f \in Forms, ~SubmitParts(a, f)
  PROVE  /\ SubmitSaid(a, f) = SubmitSaid("fastapi", f)
         /\ Takes(a, f) <=> Takes("fastapi", f)
         /\ Keeps(a, f) <=> Keeps("fastapi", f)
         /\ NewRow(a, f) = NewRow("fastapi", f)
         /\ NewId(a) = NewId("fastapi")
<1>1. CASE a = "fastapi"
  BY <1>1
<1>2. f \in Form /\ SubmitVerdict(a, f) = SubmitVerdict("fastapi", f)
  BY Constants, VerdictAlike
<1>3. ASSUME SubmitHandler(a, f).env = SubmitHandler("fastapi", f).env
      PROVE  NewRow(a, f) = NewRow("fastapi", f)
  BY <1>3, Zenon DEF NewRow
<1>4. /\ SubmitHandler("fastapi", f).env = (f.env \in {"context", "top"})
      /\ SubmitHandler("fastapi", f).unread = Failed
  BY DEF SubmitHandler, FastApiSubmit
<1>5. (Takes(a, f) <=> Takes("fastapi", f)) /\ (Keeps(a, f) <=> Keeps("fastapi", f))
  BY <1>2 DEF Takes, Keeps
<1>6. CASE a = "flask"
  <2>0. SubmitHandler(a, f) = FlaskSubmit(f)
    BY <1>6 DEF SubmitHandler
  <2>1. /\ SubmitHandler(a, f).env = (f.env \in {"context", "top"})
        /\ SubmitHandler(a, f).unread = Failed
    BY <2>0 DEF FlaskSubmit
  <2>2. NewRow(a, f) = NewRow("fastapi", f)
    BY <1>3, <1>4, <2>1, Zenon
  <2>3. SubmitSaid(a, f) = SubmitSaid("fastapi", f)
    BY <1>2, <1>4, <2>1 DEF SubmitSaid
  <2>4. NewId(a) = NewId("fastapi")
    BY <1>6 DEF SameState, NewId, Limiters
  <2>. QED BY <1>5, <2>2, <2>3, <2>4
<1>7. CASE a = "django"
  <2>1. f.env # "top" /\ f.fault # "gone"
    BY <1>7 DEF SubmitParts
  <2>2. SubmitHandler(a, f).env = (f.env = "context")
    <3>1. SubmitHandler(a, f) = DjangoSubmit(f)
      BY <1>7 DEF SubmitHandler
    <3>. QED BY <3>1 DEF DjangoSubmit
  <2>3. (f.env \in {"context", "top"}) = (f.env = "context")
    BY <2>1
  <2>4. NewRow(a, f) = NewRow("fastapi", f)
    BY <1>3, <1>4, <2>2, <2>3, Zenon
  <2>5. SubmitSaid(a, f) = SubmitSaid("fastapi", f)
    BY <1>2, <2>1 DEF SubmitSaid, Form
  <2>6. NewId(a) = NewId("fastapi")
    BY <1>7 DEF SameState, NewId, Limiters
  <2>. QED BY <1>5, <2>4, <2>5, <2>6
<1>. QED BY <1>1, <1>6, <1>7 DEF Adapter

\* Its answers to the viewer.
LEMMA ViewerAlike ==
  ASSUME conf \in Settings, NEW a \in Adapter, rows[a] = rows["fastapi"], NEW i
  PROVE  /\ ReadSaid(a, i) = ReadSaid("fastapi", i)
         /\ ~DeleteParts(a, i) => DeleteSaid(a, i) = DeleteSaid("fastapi", i)
         /\ \A body : ~StatusParts(a, body) =>
              StatusSaid(a, i, body) = StatusSaid("fastapi", i, body)
<1>1. "fastapi" \in Adapter
  BY Constants
<1>2. Live(a) = Live("fastapi")
  BY <1>1, LiveAlike
<1>3. /\ \A good : ThereSays(a, i, good) = ThereSays("fastapi", i, good)
      /\ \A good : NamedSays(a, i, good) = NamedSays("fastapi", i, good)
      /\ \A good : AllowedSays(a, i, good) = AllowedSays("fastapi", i, good)
  BY <1>2 DEF ThereSays, NamedSays, AllowedSays
<1>4. a = "django" /\ conf.gates =>
        \A good : NamedSays(a, i, good) = AllowedSays("fastapi", i, good)
  BY <1>3 DEF AllowedSays
<1>5. ~DeleteParts(a, i) => DeleteSays(a, i) = DeleteSays("fastapi", i)
  BY <1>3, <1>4 DEF DeleteParts, DeleteSays
<1>6. ASSUME NEW body, ~StatusParts(a, body)
      PROVE  StatusSays(a, i, body) = StatusSays("fastapi", i, body)
  <2>1. CASE a = "fastapi"
    BY <2>1
  <2>2. CASE a = "flask"
    <3>1. body \notin {"garbled", "invalid"}
      BY <1>6, <2>2 DEF StatusParts
    <3>. QED BY <1>3, <2>2, <3>1 DEF StatusSays, AllowedSays, NamedSays
  <2>3. CASE a = "django"
    <3>1. body \notin {"garbled", "invalid"} /\ conf.gates
      BY <1>6, <2>3 DEF StatusParts
    <3>. QED BY <1>3, <2>3, <3>1 DEF StatusSays, AllowedSays, NamedSays
  <2>. QED BY <2>1, <2>2, <2>3 DEF Adapter
<1>. QED BY <1>1, <1>3, <1>5, <1>6, ReadSaidIs, DeleteSaidIs, StatusSaidIs

\* The reports its bulk requests reach.
LEMMA BulkAlike ==
  ASSUME conf \in Settings, NEW a \in Adapter, rows[a] = rows["fastapi"]
  PROVE  /\ ~CloseParts(a) =>
              BulkHit(a, FixedReports(a)) = BulkHit("fastapi", FixedReports("fastapi"))
         /\ ~ArchiveParts(a) =>
              BulkHit(a, ClosedReports(a)) = BulkHit("fastapi", ClosedReports("fastapi"))
<1>1. "fastapi" \in Adapter /\ Live(a) = Live("fastapi")
  BY Constants, LiveAlike
<1>2. ClosedReports(a) = ClosedReports("fastapi")
  BY <1>1 DEF ClosedReports
<1>3. ~CloseParts(a) => FixedReports(a) = FixedReports("fastapi")
  <2>1. CASE a \in Limiters
    BY <1>1, <2>1 DEF FixedReports, Limiters
  <2>2. CASE a = "django"
    BY <1>1, <2>2 DEF FixedReports, CloseParts, Limiters
  <2>. QED BY <2>1, <2>2 DEF Adapter, Limiters
<1>4. (~CloseParts(a) \/ ~ArchiveParts(a)) /\ a = "django" => conf.gates
  BY DEF CloseParts, ArchiveParts
<1>. QED BY <1>1, <1>2, <1>3, <1>4, BulkHitIs

\* So an adapter that no request has set apart is in step with FastAPI.
LEMMA AgreeImplies == TypeInv /\ AgreeInv => AdaptersAgree
<1>. SUFFICES ASSUME TypeInv, AgreeInv PROVE AdaptersAgree
  OBVIOUS
<1>1. conf \in Settings /\ "fastapi" \in Adapter /\ agreed \subseteq Adapter
  BY Constants DEF TypeInv, TypeOK
<1>2. AcceptAlike
  <2>. SUFFICES ASSUME ~conf.limiter, NEW f \in Forms
                PROVE  {a \in Adapter : Takes(a, f)} \in {{}, Adapter}
    BY DEF AcceptAlike
  <2>1. \A a \in Adapter : ~LimiterFull(a)
    BY DEF LimiterFull
  <2>2. \A a \in Adapter : Takes(a, f) <=> Takes("fastapi", f)
    BY <1>1, <2>1, Accepts DEF Takes
  <2>3. CASE Takes("fastapi", f)
    BY <2>2, <2>3
  <2>4. CASE ~Takes("fastapi", f)
    BY <2>2, <2>4
  <2>. QED BY <2>3, <2>4
<1>3. ASSUME NEW a \in agreed
      PROVE  /\ rows[a] = rows["fastapi"] /\ sent[a] = sent["fastapi"]
             /\ Counted => SameListing(look, a)
             /\ SameAnswers(a, "fastapi")
  <2>1. a \in Adapter /\ SameState(a) /\ (Busy => SameListing(look, a))
    BY <1>1 DEF AgreeInv
  <2>2. rows[a] = rows["fastapi"] /\ sent[a] = sent["fastapi"]
    BY <2>1 DEF SameState
  <2>3. Counted => Busy
    BY Constants DEF Counted, Busy
  <2>4. \A f \in Forms : SubmitParts(a, f) \/ SubmitSaid(a, f) = SubmitSaid("fastapi", f)
    BY <2>1, SubmitAlike
  <2>5. /\ \A i : ReadSaid(a, i) = ReadSaid("fastapi", i)
        /\ \A i : DeleteParts(a, i) \/ DeleteSaid(a, i) = DeleteSaid("fastapi", i)
        /\ \A i, body :
             StatusParts(a, body) \/ StatusSaid(a, i, body) = StatusSaid("fastapi", i, body)
    BY <1>1, <2>1, <2>2, ViewerAlike
  <2>6. /\ \/ CloseParts(a)
           \/ BulkHit(a, FixedReports(a)) = BulkHit("fastapi", FixedReports("fastapi"))
        /\ \/ ArchiveParts(a)
           \/ BulkHit(a, ClosedReports(a)) = BulkHit("fastapi", ClosedReports("fastapi"))
    BY <1>1, <2>1, <2>2, BulkAlike
  <2>7. SameAnswers(a, "fastapi")
    BY <2>4, <2>5, <2>6 DEF SameAnswers
  <2>. QED BY <2>1, <2>2, <2>3, <2>7
<1>4. InStep
  BY <1>3 DEF InStep, SameListing
<1>. QED BY <1>2, <1>4 DEF AdaptersAgree

-----------------------------------------------------------------------------
(* Every step keeps them in step.                                          *)

\* A step that gives the same reports, and the same id to Django next, keeps an
\* adapter in step; the listing under way is another matter.
LEMMA SameAfter ==
  ASSUME NEW a \in Adapter, rows'[a] = rows'["fastapi"], sent'[a] = sent'["fastapi"],
         a = "flask" => /\ nextNo'[a] = nextNo'["fastapi"]
                        /\ bucket'[a] = bucket'["fastapi"],
         a = "django" => NextOf(LiveIn(rows'["django"])) = nextNo'["fastapi"]
  PROVE  SameState(a)'
BY DjangoNewId DEF SameState

\* POST /bug-reports.
LEMMA SubmitAgrees ==
  ASSUME TypeInv, NEW f \in Forms, Submit(f),
         NEW a \in Adapter, SameState(a), ~SubmitParts(a, f)
  PROVE  SameState(a)'
<1>0. "fastapi" \in Limiters /\ "fastapi" \in Adapter /\ "flask" \in Limiters
  BY DEF Limiters, Adapter
<1>1. /\ (Takes(a, f) <=> Takes("fastapi", f)) /\ (Keeps(a, f) <=> Keeps("fastapi", f))
      /\ NewRow(a, f) = NewRow("fastapi", f) /\ NewId(a) = NewId("fastapi")
  BY SubmitAlike
<1>2. rows[a] = rows["fastapi"] /\ sent[a] = sent["fastapi"]
  BY DEF SameState
<1>3. rows' = Submitted(f)
  BY SubmitStores DEF Store
<1>4. rows'[a] = rows'["fastapi"]
  BY <1>0, <1>1, <1>2, <1>3 DEF Submitted
<1>5. sent'[a] = sent'["fastapi"]
  <2>1. sent' = [b \in Adapter |-> IF conf.sync /\ Keeps(b, f)
                                   THEN sent[b] \cup Outgoing(NewRow(b, f)) ELSE sent[b]]
    BY DEF Submit
  <2>. QED BY <1>0, <1>1, <1>2, <2>1
<1>6. nextNo' = [b \in Limiters |-> IF Takes(b, f) THEN nextNo[b] + 1 ELSE nextNo[b]]
  BY Constants, Zenon DEF Submit
<1>7. a = "flask" => nextNo'[a] = nextNo'["fastapi"] /\ bucket'[a] = bucket'["fastapi"]
  <2>. SUFFICES ASSUME a = "flask"
                PROVE  nextNo'[a] = nextNo'["fastapi"] /\ bucket'[a] = bucket'["fastapi"]
    OBVIOUS
  <2>1. nextNo[a] = nextNo["fastapi"] /\ bucket[a] = bucket["fastapi"]
    BY DEF SameState
  <2>2. bucket' = [b \in Limiters |-> IF ReachesLimiter(b, f) /\ ~LimiterFull(b)
                                      THEN bucket[b] \cup {clock + 1} ELSE bucket[b]]
    BY DEF Submit
  <2>3. /\ ReachesLimiter(a, f) <=> ReachesLimiter("fastapi", f)
        /\ LimiterFull(a) <=> LimiterFull("fastapi")
    BY <1>0, VerdictAlike
  <2>. QED BY <1>0, <1>1, <1>6, <2>1, <2>2, <2>3
<1>8. a = "django" => NextOf(LiveIn(rows'["django"])) = nextNo'["fastapi"]
  <2>. SUFFICES ASSUME a = "django"
                PROVE  NextOf(LiveIn(rows'["django"])) = nextNo'["fastapi"]
    OBVIOUS
  <2>. DEFINE S == LiveIn(rows["django"])
              n == NextOf(S)
  <2>1. NewId("django") = n /\ nextNo["fastapi"] = n /\ S \subseteq Ids
    BY DjangoNewId DEF SameState, LiveIn
  <2>2. CASE Takes("django", f)
    <3>1. Keeps("django", f) /\ Takes("fastapi", f)
      <4>1. f \in Form /\ f.fault # "gone"
        BY Constants DEF SubmitParts
      <4>. QED BY <1>1, <2>2, <4>1 DEF Takes, Keeps, Form
    <3>2. n \in Ids
      BY <2>1, <2>2 DEF Submit
    <3>3. NewRow("django", f) # NoRow
      <4>1. NewRow("django", f) \in Row /\ NoRow \notin Row
        <5>1. conf \in Settings
          BY Constants DEF TypeInv, TypeOK
        <5>2. \A r \in Row : r.status \in Status
          BY DEF Row
        <5>3. NoRow.status \notin Status
          BY DEF NoRow, Status
        <5>. QED BY <5>1, <5>2, <5>3, NewRowTyped DEF Adapter
      <4>. QED BY <4>1
    <3>4. \A i \in Ids : rows'["django"][i] = IF i = n THEN NewRow("django", f)
                                              ELSE rows["django"][i]
      BY <1>3, <2>1, <3>1, SubmittedRows DEF Adapter
    <3>5. LiveIn(rows'["django"]) = S \cup {n}
      <4>. HIDE DEF n
      <4>. QED BY <3>2, <3>3, <3>4 DEF LiveIn
    <3>6. NextOf(S \cup {n}) = n + 1
      BY <2>1, <3>2, NextFollows
    <3>7. nextNo'["fastapi"] = n + 1
      BY <1>0, <1>6, <2>1, <3>1
    <3>. QED BY <3>5, <3>6, <3>7
  <2>3. CASE ~Takes("django", f)
    <3>1. ~Keeps("django", f) /\ ~Takes("fastapi", f)
      BY <1>1, <2>3 DEF Takes, Keeps
    <3>2. \A i \in Ids : rows'["django"][i] = rows["django"][i]
      BY <1>3, <3>1, SubmittedRows DEF Adapter
    <3>3. LiveIn(rows'["django"]) = S
      BY <3>2 DEF LiveIn
    <3>4. nextNo'["fastapi"] = nextNo["fastapi"]
      BY <1>0, <1>6, <3>1
    <3>. QED BY <2>1, <3>3, <3>4
  <2>. QED BY <2>2, <2>3
<1>. QED BY <1>4, <1>5, <1>7, <1>8, SameAfter

\* A change to reports that are there, alike for a and FastAPI.
LEMMA ChangeAgrees ==
  ASSUME NEW a \in Adapter, SameState(a), rows'[a] = rows'["fastapi"],
         sent'[a] = sent'["fastapi"], UNCHANGED <<nextNo, bucket>>,
         NextOf(LiveIn(rows'[a])) = NextOf(LiveIn(rows[a]))
  PROVE  SameState(a)'
<1>1. a = "django" => NextOf(LiveIn(rows'["django"])) = nextNo'["fastapi"]
  BY DjangoNewId DEF SameState
<1>. QED BY <1>1, SameAfter DEF SameState

\* DELETE /reports/{id}.
LEMMA DeleteAgrees ==
  ASSUME TypeInv, NEW j, Delete(j), NEW a \in Adapter, SameState(a), ~DeleteParts(a, j)
  PROVE  SameState(a)'
<1>0. conf \in Settings /\ "fastapi" \in Adapter
  BY Constants DEF TypeInv, TypeOK
<1>1. rows[a] = rows["fastapi"] /\ sent[a] = sent["fastapi"]
  BY DEF SameState
<1>2. DeleteSaid(a, j) = DeleteSaid("fastapi", j)
  BY <1>0, <1>1, ViewerAlike
<1>3. rows' = Removed(j)
  BY DeleteStores DEF Store
<1>4. rows'[a] = rows'["fastapi"]
  BY <1>0, <1>1, <1>2, <1>3 DEF Removed
<1>5. UNCHANGED <<nextNo, bucket, sent>>
  BY DEF Delete
<1>6. a = "django" => NextOf(LiveIn(rows'["django"])) = nextNo'["fastapi"]
  <2>. SUFFICES ASSUME a = "django"
                PROVE  NextOf(LiveIn(rows'["django"])) = nextNo'["fastapi"]
    OBVIOUS
  <2>. DEFINE S == LiveIn(rows["django"])
  <2>1. NextOf(S) = nextNo["fastapi"] /\ S \subseteq Ids /\ S = Live("django")
    BY DjangoNewId DEF SameState, LiveIn, Live
  <2>2. \A i \in Ids : rows'["django"][i] = IF i = j /\ DeleteSaid("django", j) = Gone
                                            THEN NoRow ELSE rows["django"][i]
    BY <1>3, RemovedRows DEF Adapter
  <2>3. CASE DeleteSaid("django", j) = Gone
    <3>1. j # Malformed /\ j \in S
      BY <1>0, <2>1, <2>3, Changes DEF Adapter
    <3>2. j # Max({0} \cup S)
      BY <2>1, <3>1 DEF DeleteParts
    <3>3. Max({0} \cup S) = Max(S)
      <4>1. Max(S) \in S /\ \A y \in S : y <= Max(S)
        BY <2>1, <3>1, MaxFound
      <4>2. PICK m : m = Max(S)
        OBVIOUS
      <4>3. {0} \cup S \subseteq Nat /\ m \in {0} \cup S /\ \A y \in {0} \cup S : y <= m
        BY <2>1, <4>1, <4>2 DEF Ids
      <4>4. Max({0} \cup S) = m
        BY <4>3, MaxIs
      <4>. QED BY <4>2, <4>4
    <3>4. LiveIn(rows'["django"]) = S \ {j}
      BY <2>2, <2>3 DEF LiveIn
    <3>5. NextOf(S \ {j}) = NextOf(S)
      BY <2>1, <3>1, <3>2, <3>3, NextFollows
    <3>. QED BY <1>5, <2>1, <3>4, <3>5
  <2>4. CASE DeleteSaid("django", j) # Gone
    <3>1. LiveIn(rows'["django"]) = S
      BY <2>2, <2>4 DEF LiveIn
    <3>. QED BY <1>5, <2>1, <3>1
  <2>. QED BY <2>3, <2>4
<1>. QED BY <1>1, <1>4, <1>5, <1>6, SameAfter DEF SameState

\* A report stays there when it is changed.
LEMMA AmendedThere ==
  ASSUME TypeInv, NEW new, NEW a \in Adapter, NEW S,
         \A i \in Ids : i \notin S => new[i] = rows[a][i],
         \A i \in Ids : i \in S => rows[a][i] \in Row /\ new[i] \in Row
  PROVE  LiveIn(new) = LiveIn(rows[a])
<1>1. NoRow \notin Row
  <2>1. \A r \in Row : r.status \in Status
    BY DEF Row
  <2>2. NoRow.status \notin Status
    BY DEF NoRow, Status
  <2>. QED BY <2>1, <2>2
<1>. QED BY <1>1 DEF LiveIn

\* PUT /reports/{id}/status.
LEMMA UpdateAgrees ==
  ASSUME TypeInv, NEW j, NEW body \in Bodies, UpdateStatus(j, body),
         NEW a \in Adapter, SameState(a), ~StatusParts(a, body)
  PROVE  SameState(a)'
<1>0. conf \in Settings /\ "fastapi" \in Adapter /\ TypeOK
  BY Constants DEF TypeInv, TypeOK
<1>1. rows[a] = rows["fastapi"] /\ sent[a] = sent["fastapi"]
  BY DEF SameState
<1>2. StatusSaid(a, j, body) = StatusSaid("fastapi", j, body)
  BY <1>0, <1>1, ViewerAlike
<1>3. rows' = Restated(j, body)
  BY UpdateStores DEF Store
<1>4. rows'[a] = rows'["fastapi"]
  BY <1>0, <1>1, <1>2, <1>3 DEF Restated
<1>5. sent'[a] = sent'["fastapi"]
  <2>1. sent' = [b \in Adapter |-> IF /\ b \in {c \in Adapter : StatusSaid(c, j, body) = Ok}
                                      /\ conf.sync /\ rows[b][j].linked
                                   THEN sent[b] \cup {StateSent} ELSE sent[b]]
    BY DEF UpdateStatus
  <2>. QED BY <1>0, <1>1, <1>2, <2>1
<1>6. UNCHANGED <<nextNo, bucket>>
  BY DEF UpdateStatus
<1>7. LiveIn(rows'[a]) = LiveIn(rows[a])
  <2>1. CASE StatusSaid(a, j, body) = Ok
    <3>1. j \in Ids /\ rows[a][j] \in Row /\ body \in Status
      BY <1>0, <2>1, Changes, RowTyped DEF Bodies, Live
    <3>2. rows'[a][j] \in Row
      BY <1>3, <2>1, <3>1, RestatedRows, RowAmended
    <3>3. \A i \in Ids : i # j => rows'[a][i] = rows[a][i]
      BY <1>3, RestatedRows
    <3>4. /\ \A i \in Ids : i \notin {j} => rows'[a][i] = rows[a][i]
          /\ \A i \in Ids : i \in {j} => rows[a][i] \in Row /\ rows'[a][i] \in Row
      BY <3>1, <3>2, <3>3
    <3>. QED BY <3>4, AmendedThere
  <2>2. CASE StatusSaid(a, j, body) # Ok
    <3>1. \A i \in Ids : rows'[a][i] = rows[a][i]
      BY <1>3, <2>2, RestatedRows
    <3>. QED BY <3>1 DEF LiveIn
  <2>. QED BY <2>1, <2>2
<1>. QED BY <1>4, <1>5, <1>6, <1>7, ChangeAgrees

\* POST /bulk-close-fixed.
LEMMA CloseAgrees ==
  ASSUME TypeInv, BulkCloseFixed, NEW a \in Adapter, SameState(a), ~CloseParts(a)
  PROVE  SameState(a)'
<1>0. conf \in Settings /\ "fastapi" \in Adapter
  BY Constants DEF TypeInv, TypeOK
<1>1. rows[a] = rows["fastapi"] /\ sent[a] = sent["fastapi"]
  BY DEF SameState
<1>2. BulkHit(a, FixedReports(a)) = BulkHit("fastapi", FixedReports("fastapi"))
  BY <1>0, <1>1, BulkAlike
<1>3. rows' = Closed
  BY CloseStores DEF Store
<1>4. rows'[a] = rows'["fastapi"]
  BY <1>0, <1>1, <1>2, <1>3 DEF Closed
<1>5. UNCHANGED <<nextNo, bucket>> /\ sent' = sent
  BY BulkLeaves
<1>6. LiveIn(rows'[a]) = LiveIn(rows[a])
  <2>. DEFINE S == BulkHit(a, FixedReports(a))
  <2>1. /\ \A i \in Ids : i \notin S => rows'[a][i] = rows[a][i]
        /\ \A i \in Ids : i \in S => rows[a][i] \in Row
        /\ \A i \in Ids : i \in S => rows'[a][i] = [rows[a][i] EXCEPT !.status = "closed"]
    BY <1>3, ClosedRows
  <2>2. \A i \in Ids : i \in S => rows'[a][i] \in Row
    <3>1. "closed" \in Status
      BY DEF Status
    <3>. HIDE DEF S
    <3>2. ASSUME NEW i \in Ids, i \in S PROVE rows'[a][i] \in Row
      <4>1. PICK r \in Row : r = rows[a][i]
        BY <2>1, <3>2
      <4>2. rows'[a][i] = [r EXCEPT !.status = "closed"]
        BY <2>1, <3>2, <4>1
      <4>. QED BY <3>1, <4>1, <4>2, RowAmended
    <3>. QED BY <3>2
  <2>. HIDE DEF S
  <2>. QED BY <2>1, <2>2, AmendedThere
<1>. QED BY <1>1, <1>4, <1>5, <1>6, ChangeAgrees

\* POST /bulk-archive-closed.
LEMMA ArchiveAgrees ==
  ASSUME TypeInv, BulkArchiveClosed, NEW a \in Adapter, SameState(a), ~ArchiveParts(a)
  PROVE  SameState(a)'
<1>0. conf \in Settings /\ "fastapi" \in Adapter
  BY Constants DEF TypeInv, TypeOK
<1>1. rows[a] = rows["fastapi"] /\ sent[a] = sent["fastapi"]
  BY DEF SameState
<1>2. BulkHit(a, ClosedReports(a)) = BulkHit("fastapi", ClosedReports("fastapi"))
  BY <1>0, <1>1, BulkAlike
<1>3. rows' = Archived
  BY ArchiveStores DEF Store
<1>4. rows'[a] = rows'["fastapi"]
  BY <1>0, <1>1, <1>2, <1>3 DEF Archived
<1>5. UNCHANGED <<nextNo, bucket>> /\ sent' = sent
  BY BulkLeaves
<1>6. LiveIn(rows'[a]) = LiveIn(rows[a])
  <2>. DEFINE S == BulkHit(a, ClosedReports(a))
  <2>1. /\ \A i \in Ids : i \notin S => rows'[a][i] = rows[a][i]
        /\ \A i \in Ids : i \in S => rows[a][i] \in Row
        /\ \A i \in Ids : i \in S => rows'[a][i] = [rows[a][i] EXCEPT !.archived = TRUE]
    BY <1>3, ArchivedRows
  <2>2. \A i \in Ids : i \in S => rows'[a][i] \in Row
    <3>1. "closed" \in Status
      BY DEF Status
    <3>. HIDE DEF S
    <3>. QED BY <2>1, <3>1, RowAmended
  <2>. HIDE DEF S
  <2>. QED BY <2>1, <2>2, AmendedThere
<1>. QED BY <1>1, <1>4, <1>5, <1>6, ChangeAgrees

\* The page and the size of a listing that is asked for in order.
LEMMA PagingAlike ==
  ASSUME NEW a \in Adapter, NEW q \in Queries, ~ListParts(q.page, q.size)
  PROVE  Paging(a, q.page, q.size) = Paging("fastapi", q.page, q.size)
<1>. DEFINE page == q.page
            size == q.size
<1>1. page \in Nat \cup {Absent, Garbled} /\ size \in Nat \cup {Absent, Garbled}
  <2>1. q \in Query
    BY AdaptersAssumption
  <2>. QED BY <2>1 DEF Query
<1>2. /\ page # 0 /\ page # Garbled /\ size # 0 /\ size # Garbled
      /\ ~(size \in Nat /\ size > LargestSize)
  BY DEF ListParts
<1>3. LargestSize \in Nat /\ LargestSize > 0
  BY AdaptersAssumption
<1>. HIDE DEF page, size
<1>4. ASSUME page # Absent PROVE Max({page, 1}) = page
  <2>1. page \in Nat /\ page >= 1
    BY <1>1, <1>2, <1>4
  <2>2. {page, 1} \subseteq Nat /\ \A y \in {page, 1} : y <= page
    BY <2>1
  <2>. QED BY <2>2, MaxIs
<1>5. ASSUME size # Absent
      PROVE  Min({size, LargestSize}) = size /\ Max({size, 1}) = size
  <2>1. size \in Nat /\ size >= 1 /\ size <= LargestSize
    BY <1>1, <1>2, <1>3, <1>5
  <2>2. /\ {size, 1} \subseteq Nat /\ \A y \in {size, 1} : y <= size
        /\ {size, LargestSize} \subseteq Nat /\ \A y \in {size, LargestSize} : size <= y
    BY <1>3, <2>1
  <2>. QED BY <2>2, MaxIs, MinIs
<1>. DEFINE p == IF page = Absent THEN 1 ELSE page
            s == IF size = Absent THEN DefaultSize ELSE size
<1>6. FastApiPaging(page, size) = [said |-> Ok, page |-> p, size |-> s]
  BY <1>2 DEF FastApiPaging
<1>7. FlaskPaging(page, size) = [said |-> Ok, page |-> p, size |-> s]
  <2>1. (IF page \in {0, Absent, Garbled} THEN 1 ELSE page) = p
    BY <1>2
  <2>2. (IF size \in {0, Absent, Garbled} THEN DefaultSize ELSE Min({size, LargestSize})) = s
    BY <1>2, <1>5
  <2>. QED BY <2>1, <2>2, Zenon DEF FlaskPaging
<1>8. DjangoPaging(page, size) = [said |-> Ok, page |-> p, size |-> s]
  <2>1. (IF page = Absent THEN 1 ELSE Max({page, 1})) = p
    BY <1>4
  <2>2. (IF size = Absent THEN DefaultSize ELSE Max({Min({size, LargestSize}), 1})) = s
    BY <1>5
  <2>3. ~(Garbled \in {page, size})
    BY <1>2
  <2>. QED BY <2>1, <2>2, <2>3, Zenon DEF DjangoPaging
<1>. HIDE DEF p, s
<1>9. Paging(a, page, size) = Paging("fastapi", page, size)
  BY <1>6, <1>7, <1>8 DEF Paging, Adapter
<1>. QED BY <1>9 DEF page, size

\* A listing begins alike.
LEMMA ListAgrees ==
  ASSUME NEW q \in Queries, List(q), NEW a \in Adapter, a \in agreed', SameState(a)
  PROVE  SameListing(look', a)
<1>1. rows[a] = rows["fastapi"] /\ "fastapi" \in Adapter
  BY Constants DEF SameState
<1>2. CASE a = "fastapi"
  BY <1>2 DEF SameListing
<1>3. CASE a # "fastapi"
  <2>1. ~ListParts(q.page, q.size)
    BY <1>3 DEF List, Parting
  <2>2. Paging(a, q.page, q.size) = Paging("fastapi", q.page, q.size)
    BY <2>1, PagingAlike
  <2>3. Matches(a, q.status, q.env) = Matches("fastapi", q.status, q.env)
    BY <1>1, LiveAlike
  <2>. DEFINE page == [b \in Adapter |-> Paging(b, q.page, q.size)]
              all == [b \in Adapter |-> Matches(b, q.status, q.env)]
              items == [b \in Adapter |-> PageOf(all[b], page[b])]
              total == [b \in Adapter |-> Cardinality(all[b])]
              cards == [b \in Adapter |-> << >>]
  <2>4. look' = [step |-> 1, status |-> q.status, env |-> q.env, paging |-> page,
                 items |-> items, total |-> total, cards |-> cards]
    BY DEF List
  <2>5. page[a] = page["fastapi"] /\ all[a] = all["fastapi"] /\ cards[a] = cards["fastapi"]
    BY <1>1, <2>2, <2>3
  <2>6. items[a] = items["fastapi"] /\ total[a] = total["fastapi"]
    <3>. HIDE DEF page, all
    <3>. QED BY <1>1, <2>5
  <2>. HIDE DEF page, items, total, cards
  <2>. QED BY <2>4, <2>5, <2>6 DEF SameListing
<1>. QED BY <1>2, <1>3

\* A count counts alike.
LEMMA CountAgrees ==
  ASSUME TypeInv, CountCard, NEW a \in Adapter, SameState(a), SameListing(look, a)
  PROVE  SameListing(look', a)
<1>. DEFINE more == [b \in Adapter |-> Append(look.cards[b], CountOf(b))]
<1>1. look' = [step |-> look.step + 1, status |-> look.status, env |-> look.env,
               paging |-> look.paging, items |-> look.items, total |-> look.total,
               cards |-> more]
  BY CountShape
<1>2. CountOf(a) = CountOf("fastapi")
  BY Constants, LiveAlike DEF CountOf, SameState
<1>3. more[a] = more["fastapi"]
  BY <1>2, Constants DEF SameListing
<1>. HIDE DEF more
<1>. QED BY <1>1, <1>3 DEF SameListing

\* Every step keeps an adapter in step that it does not set apart.
LEMMA StepAgrees ==
  ASSUME TypeInv, AgreeInv, [Next]_vars PROVE AgreeInv'
<1>. SUFFICES ASSUME NEW a \in agreed' PROVE SameState(a)' /\ (Busy' => SameListing(look', a))
  BY DEF AgreeInv, SameListing
<1>1. a \in agreed
  BY DEF Next, vars, Submit, WindowMoves, Delete, UpdateStatus, BulkCloseFixed,
         BulkArchiveClosed, List, CountCard, ListDone, Parting
<1>2. a \in Adapter /\ SameState(a) /\ (Busy => SameListing(look, a))
  BY <1>1 DEF AgreeInv, TypeInv, TypeOK
<1>3. ASSUME look' = look PROVE Busy' => SameListing(look', a)
  BY <1>2, <1>3 DEF Busy
<1>4. ASSUME UNCHANGED <<rows, sent, nextNo, bucket>> PROVE SameState(a)'
  BY <1>2, <1>4 DEF SameState, NewId, Live
<1>5. CASE UNCHANGED vars
  BY <1>3, <1>4, <1>5 DEF vars
<1>6. ASSUME NEW f \in Forms, Submit(f) PROVE SameState(a)' /\ look' = look
  <2>1. ~SubmitParts(a, f)
    BY <1>2, <1>6 DEF Submit, Parting
  <2>. QED BY <1>2, <1>6, <2>1, SubmitAgrees DEF Submit
<1>7. ASSUME NEW k, WindowMoves(k) PROVE SameState(a)' /\ look' = look
  <2>1. bucket' = [b \in Limiters |-> {n \in bucket[b] : n > k}]
    BY <1>7 DEF WindowMoves
  <2>2. a = "flask" => bucket'[a] = bucket'["fastapi"]
    BY <1>2, <2>1 DEF SameState, Limiters
  <2>3. UNCHANGED <<rows, sent, nextNo, look>>
    BY <1>7 DEF WindowMoves
  <2>. QED BY <1>2, <2>2, <2>3 DEF SameState, NewId, Live
<1>8. ASSUME NEW i, Delete(i) PROVE SameState(a)' /\ look' = look
  <2>1. ~DeleteParts(a, i)
    BY <1>2, <1>8 DEF Delete, Parting
  <2>. QED BY <1>2, <1>8, <2>1, DeleteAgrees DEF Delete
<1>9. ASSUME NEW i, NEW body \in Bodies, UpdateStatus(i, body) PROVE SameState(a)' /\ look' = look
  <2>1. ~StatusParts(a, body)
    BY <1>2, <1>9 DEF UpdateStatus, Parting
  <2>. QED BY <1>2, <1>9, <2>1, UpdateAgrees DEF UpdateStatus
<1>10. ASSUME BulkCloseFixed PROVE SameState(a)' /\ look' = look
  <2>1. ~CloseParts(a)
    BY <1>2, <1>10 DEF BulkCloseFixed, Parting
  <2>. QED BY <1>2, <1>10, <2>1, CloseAgrees, BulkLeaves
<1>11. ASSUME BulkArchiveClosed PROVE SameState(a)' /\ look' = look
  <2>1. ~ArchiveParts(a)
    BY <1>2, <1>11 DEF BulkArchiveClosed, Parting
  <2>. QED BY <1>2, <1>11, <2>1, ArchiveAgrees, BulkLeaves
<1>12. ASSUME NEW q \in Queries, List(q) PROVE SameState(a)' /\ SameListing(look', a)
  <2>1. UNCHANGED <<rows, sent, nextNo, bucket>>
    BY <1>12 DEF List
  <2>. QED BY <1>2, <1>4, <1>12, <2>1, ListAgrees
<1>13. ASSUME CountCard PROVE SameState(a)' /\ SameListing(look', a)
  <2>1. UNCHANGED <<rows, sent, nextNo, bucket>> /\ Busy
    BY <1>13 DEF CountCard
  <2>. QED BY <1>2, <1>4, <1>13, <2>1, CountAgrees
<1>14. ASSUME ListDone PROVE SameState(a)' /\ ~Busy'
  BY <1>4, <1>14 DEF ListDone, Busy, NoListing
<1>15. CASE Next
  BY <1>3, <1>6, <1>7, <1>8, <1>9, <1>10, <1>11, <1>12, <1>13, <1>14, <1>15 DEF Next
<1>. QED BY <1>5, <1>15

\* The three adapters accept the same submissions when no limiter is on, and one
\* that no request has set apart from FastAPI stores and sends the same, lists
\* the same and answers the same (Adapters.AdaptersAgree).
THEOREM AgreementHolds == Spec => []AdaptersAgree
<1>1. Init => TypeInv
  BY InitTyped
<1>2. Init => AgreeInv
  <2>. SUFFICES ASSUME Init PROVE AgreeInv
    OBVIOUS
  <2>1. NewId("django") = 1
    BY DEF Init, NewId, Live, Limiters, Adapter
  <2>2. ~Busy
    BY DEF Init, Busy, NoListing
  <2>. QED BY <2>1, <2>2 DEF Init, AgreeInv, SameState, Adapter, Limiters
<1>3. TypeInv /\ [Next]_vars => TypeInv'
  BY StepTyped
<1>4. TypeInv /\ AgreeInv /\ [Next]_vars => AgreeInv'
  BY StepAgrees
<1>5. TypeInv /\ AgreeInv => AdaptersAgree
  BY AgreeImplies
<1>. QED BY <1>1, <1>2, <1>3, <1>4, <1>5, PTL DEF Spec

-----------------------------------------------------------------------------
(* The counts of a listing.                                                *)

\* Sets of ids that differ by members of D differ in size by no more than D's.
LEMMA SetsApart ==
  ASSUME NEW A, NEW B, NEW D, A \subseteq Ids, B \subseteq Ids, D \subseteq Ids,
         A \ B \subseteq D, B \ A \subseteq D
  PROVE  Apart(Cardinality(A), Cardinality(B)) <= Cardinality(D)
<1>1. /\ IsFiniteSet(A) /\ IsFiniteSet(B) /\ IsFiniteSet(D)
      /\ Cardinality(A) \in Nat /\ Cardinality(B) \in Nat /\ Cardinality(D) \in Nat
  BY IdsFinite
<1>2. ASSUME NEW S, NEW T, IsFiniteSet(S), IsFiniteSet(T), S \ T \subseteq D
      PROVE  Cardinality(S) <= Cardinality(T) + Cardinality(D)
  <2>1. S \subseteq T \cup D
    BY <1>2
  <2>2. /\ IsFiniteSet(T \cup D)
        /\ Cardinality(T \cup D) = Cardinality(T) + Cardinality(D) - Cardinality(T \cap D)
    BY <1>1, <1>2, FS_Union
  <2>3. Cardinality(S) <= Cardinality(T \cup D)
    BY <2>1, <2>2, FS_Subset
  <2>4. Cardinality(T \cap D) \in Nat
    <3>1. IsFiniteSet(T \cap D)
      BY <1>2, FS_Intersection
    <3>. QED BY <3>1, FS_CardinalityType
  <2>5. Cardinality(S) \in Nat /\ Cardinality(T) \in Nat /\ Cardinality(D) \in Nat
    BY <1>1, <1>2, FS_CardinalityType
  <2>. QED BY <2>2, <2>3, <2>4, <2>5
<1>3. /\ Cardinality(A) <= Cardinality(B) + Cardinality(D)
      /\ Cardinality(B) <= Cardinality(A) + Cardinality(D)
  BY <1>1, <1>2
<1>. QED BY <1>1, <1>3 DEF Apart

\* Distances add up.
LEMMA ApartAdds ==
  ASSUME NEW x \in Nat, NEW y \in Nat, NEW z \in Nat, NEW m \in Nat, NEW n \in Nat,
         Apart(x, y) <= m, Apart(y, z) <= n
  PROVE  Apart(x, z) <= m + n
BY DEF Apart

\* What a count finds is what list_reports finds.
LEMMA MatchesFound ==
  ASSUME NEW a \in Adapter, NEW status, NEW env
  PROVE  Matches(a, status, env) = Found(rows[a], status, env)
BY DEF Matches, Found, Live

\* What is found is among the ids; changed reports alone make it differ.
LEMMA FoundDiffers ==
  ASSUME NEW r, NEW s, NEW status, NEW env, NEW n
  PROVE  LET D == {i \in Ids : s[i] # r[i]}
         IN  /\ Found(r, status, env) \subseteq Ids /\ FoundUpTo(r, n, env) \subseteq Ids
             /\ Found(r, status, env) \ Found(s, status, env) \subseteq D
             /\ Found(s, status, env) \ Found(r, status, env) \subseteq D
             /\ FoundUpTo(r, n, env) \ FoundUpTo(s, n, env) \subseteq D
             /\ FoundUpTo(s, n, env) \ FoundUpTo(r, n, env) \subseteq D
BY DEF Found, FoundUpTo

\* How many are found, as numbers.
LEMMA FoundNumbers ==
  ASSUME NEW r, NEW status, NEW env, NEW n
  PROVE  Cardinality(Found(r, status, env)) \in Nat /\ Cardinality(FoundUpTo(r, n, env)) \in Nat
BY FoundDiffers, IdsFinite

\* The sum of the first counts is a number.
LEMMA SumTyped ==
  ASSUME NEW c \in Seq(Nat), NEW n \in 0 .. 5, Len(c) = n
  PROVE  /\ SumTo(c, n) \in Nat
         /\ \A k \in 1 .. n : c[k] \in Nat
<1>1. \A k \in 1 .. n : c[k] \in Nat
  OBVIOUS
<1>2. /\ n >= 1 => c[1] \in Nat
      /\ n >= 2 => c[2] \in Nat
      /\ n >= 3 => c[3] \in Nat
      /\ n >= 4 => c[4] \in Nat
  BY <1>1
<1>. QED BY <1>1, <1>2 DEF SumTo

\* A change to k reports shifts every count of a listing by no more than k.
LEMMA SkewedByChange ==
  ASSUME NEW r, NEW s, NEW m \in Nat, NEW l, NEW t \in Nat, NEW c \in Seq(Nat),
         NEW n \in 0 .. 5, Len(c) = n, Skewed(r, m, l, t, c, n)
  PROVE  Skewed(s, m + Cardinality({i \in Ids : s[i] # r[i]}), l, t, c, n)
<1>. DEFINE D == {i \in Ids : s[i] # r[i]}
            d == Cardinality(D)
            was == Cardinality(Found(r, l.status, l.env))
            now == Cardinality(Found(s, l.status, l.env))
            wasTo == Cardinality(FoundUpTo(r, n, l.env))
            nowTo == Cardinality(FoundUpTo(s, n, l.env))
            sum == SumTo(c, n)
<1>1. /\ d \in Nat /\ was \in Nat /\ now \in Nat /\ wasTo \in Nat /\ nowTo \in Nat /\ sum \in Nat
  BY IdsFinite, FoundNumbers, SumTyped
<1>2. Apart(was, now) <= d /\ Apart(wasTo, nowTo) <= d
  <2>1. /\ Found(r, l.status, l.env) \subseteq Ids /\ Found(s, l.status, l.env) \subseteq Ids
        /\ FoundUpTo(r, n, l.env) \subseteq Ids /\ FoundUpTo(s, n, l.env) \subseteq Ids
        /\ Found(r, l.status, l.env) \ Found(s, l.status, l.env) \subseteq D
        /\ Found(s, l.status, l.env) \ Found(r, l.status, l.env) \subseteq D
        /\ FoundUpTo(r, n, l.env) \ FoundUpTo(s, n, l.env) \subseteq D
        /\ FoundUpTo(s, n, l.env) \ FoundUpTo(r, n, l.env) \subseteq D
    BY FoundDiffers
  <2>2. D \subseteq Ids
    OBVIOUS
  <2>. HIDE DEF D
  <2>. QED BY <2>1, <2>2, SetsApart
<1>3. /\ Apart(t, was) <= m
      /\ n <= 4 => Apart(sum, wasTo) <= m
      /\ \A k \in 1 .. 4 : k <= n /\ l.status = Cards[k] => Apart(c[k], t) <= m
      /\ n = 5 => /\ Apart(t, c[5]) <= m
                  /\ l.status = "any" => Apart(CardSum(c), c[5]) <= m
  BY DEF Skewed
<1>. HIDE DEF d, was, now, wasTo, nowTo, sum
<1>4. Apart(t, now) <= m + d /\ (n <= 4 => Apart(sum, nowTo) <= m + d)
  BY <1>1, <1>2, <1>3, ApartAdds
<1>5. ASSUME NEW k \in 1 .. 4, k <= n, l.status = Cards[k] PROVE Apart(c[k], t) <= m + d
  <2>1. Apart(c[k], t) <= m /\ c[k] \in Nat
    BY <1>3, <1>5, SumTyped
  <2>. QED BY <1>1, <2>1 DEF Apart
<1>6. ASSUME n = 5
      PROVE  /\ Apart(t, c[5]) <= m + d
             /\ l.status = "any" => Apart(CardSum(c), c[5]) <= m + d
  <2>1. c[1] \in Nat /\ c[2] \in Nat /\ c[3] \in Nat /\ c[4] \in Nat /\ c[5] \in Nat
    <3>1. \A k \in 1 .. n : c[k] \in Nat
      BY SumTyped
    <3>. QED BY <1>6, <3>1
  <2>2. CardSum(c) \in Nat
    <3>1. SumTo(c, 5) \in Nat
      BY <1>6, SumTyped
    <3>2. CardSum(c) = SumTo(c, 5)
      BY DEF CardSum, SumTo
    <3>. QED BY <3>1, <3>2
  <2>. QED BY <1>1, <1>3, <1>6, <2>1, <2>2 DEF Apart
<1>7. Skewed(s, m + d, l, t, c, n)
  BY <1>4, <1>5, <1>6 DEF Skewed, now, nowTo, sum
<1>. QED BY <1>7 DEF d

\* The reports in the first n + 1 states: those in the first n, and apart from
\* them those in the next.
LEMMA FoundNext ==
  ASSUME NEW r \in [Ids -> Row \cup {NoRow}], NEW env, NEW n \in 0 .. 3
  PROVE  Cardinality(FoundUpTo(r, n + 1, env))
           = Cardinality(FoundUpTo(r, n, env)) + Cardinality(Found(r, Cards[n + 1], env))
<1>. DEFINE A == FoundUpTo(r, n, env)
            B == Found(r, Cards[n + 1], env)
<1>1. \A i \in Found(r, "any", env) : r[i].status \in Status
  BY DEF Found, Row
<1>2. /\ "any" \notin Status /\ \A k \in 1 .. 4 : Cards[k] \in Status
      /\ \A j, k \in 1 .. 4 : j # k => Cards[j] # Cards[k]
  BY DEF Status, Cards
<1>3. B = {i \in Found(r, "any", env) : r[i].status = Cards[n + 1]}
  <2>1. Cards[n + 1] # "any"
    BY <1>2
  <2>. QED BY <2>1 DEF Found
<1>4. FoundUpTo(r, n + 1, env) = A \cup B
  <2>1. 1 .. (n + 1) = (1 .. n) \cup {n + 1}
    OBVIOUS
  <2>. QED BY <1>3, <2>1 DEF FoundUpTo
<1>5. A \cap B = {}
  BY <1>2, <1>3 DEF FoundUpTo
<1>6. IsFiniteSet(A) /\ IsFiniteSet(B) /\ A \subseteq Ids /\ B \subseteq Ids
  BY FoundDiffers, IdsFinite
<1>. HIDE DEF A, B
<1>7. Cardinality(A \cup B) = Cardinality(A) + Cardinality(B) - Cardinality(A \cap B)
  BY <1>6, FS_Union
<1>8. Cardinality(A \cap B) = 0 /\ Cardinality(A) \in Nat /\ Cardinality(B) \in Nat
  BY <1>5, <1>6, FS_EmptySet, IdsFinite
<1>. QED BY <1>4, <1>7, <1>8 DEF A, B

\* The reports in the four states are all the reports.
LEMMA FoundAll ==
  ASSUME NEW r \in [Ids -> Row \cup {NoRow}], NEW env
  PROVE  FoundUpTo(r, 4, env) = Found(r, "any", env)
<1>1. \A i \in Found(r, "any", env) : r[i].status \in Status
  BY DEF Found, Row
<1>2. \A st \in Status : \E k \in 1 .. 4 : st = Cards[k]
  BY DEF Status, Cards
<1>. QED BY <1>1, <1>2 DEF FoundUpTo

\* One more count keeps the counts within what was moved.
LEMMA SkewedByCount ==
  ASSUME NEW r \in [Ids -> Row \cup {NoRow}], NEW m \in Nat, NEW l, NEW t \in Nat,
         NEW c \in Seq(Nat), NEW n \in 0 .. 4, Len(c) = n, Skewed(r, m, l, t, c, n),
         NEW x, x = Cardinality(Found(r, IF n <= 3 THEN Cards[n + 1] ELSE l.status, l.env))
  PROVE  Skewed(r, m, l, t, Append(c, x), n + 1)
<1>. DEFINE d == Append(c, x)
            found == Cardinality(Found(r, l.status, l.env))
<1>1. x \in Nat /\ found \in Nat
  BY FoundNumbers
<1>2. /\ d \in Seq(Nat) /\ Len(d) = n + 1 /\ d[n + 1] = x
      /\ \A k \in 1 .. n : d[k] = c[k] /\ c[k] \in Nat
  BY <1>1
<1>3. Apart(t, found) <= m
  BY DEF Skewed
<1>. HIDE DEF d, found
<1>4. ASSUME n + 1 <= 4
      PROVE  Apart(SumTo(d, n + 1), Cardinality(FoundUpTo(r, n + 1, l.env))) <= m
  <2>. DEFINE was == Cardinality(FoundUpTo(r, n, l.env))
  <2>1. Apart(SumTo(c, n), was) <= m
    BY <1>4 DEF Skewed
  <2>2. SumTo(d, n + 1) = SumTo(c, n) + x
    <3>1. n \in {0, 1, 2, 3}
      BY <1>4
    <3>2. CASE n = 0
      BY <1>1, <1>2, <3>2 DEF SumTo
    <3>3. CASE n = 1
      <4>1. d[1] = c[1] /\ d[2] = x /\ c[1] \in Nat
        BY <1>2, <3>3
      <4>. QED BY <1>1, <3>3, <4>1 DEF SumTo
    <3>4. CASE n = 2
      <4>1. d[1] = c[1] /\ d[2] = c[2] /\ d[3] = x /\ c[1] \in Nat /\ c[2] \in Nat
        BY <1>2, <3>4
      <4>. QED BY <1>1, <3>4, <4>1 DEF SumTo
    <3>5. CASE n = 3
      <4>1. /\ d[1] = c[1] /\ d[2] = c[2] /\ d[3] = c[3] /\ d[4] = x
            /\ c[1] \in Nat /\ c[2] \in Nat /\ c[3] \in Nat
        BY <1>2, <3>5
      <4>. QED BY <1>1, <3>5, <4>1 DEF SumTo
    <3>. QED BY <3>1, <3>2, <3>3, <3>4, <3>5
  <2>3. Cardinality(FoundUpTo(r, n + 1, l.env)) = was + x
    <3>1. n <= 3 /\ n \in 0 .. 3
      BY <1>4
    <3>. QED BY <3>1, FoundNext
  <2>4. SumTo(c, n) \in Nat /\ was \in Nat
    <3>1. n \in 0 .. 5
      OBVIOUS
    <3>. QED BY <3>1, SumTyped, FoundNumbers
  <2>. HIDE DEF was
  <2>. QED BY <1>1, <2>1, <2>2, <2>3, <2>4 DEF Apart
<1>5. ASSUME NEW k \in 1 .. 4, k <= n + 1, l.status = Cards[k] PROVE Apart(d[k], t) <= m
  <2>1. CASE k <= n
    <3>1. Apart(c[k], t) <= m
      BY <1>5, <2>1 DEF Skewed
    <3>. QED BY <1>2, <2>1, <3>1
  <2>2. CASE k = n + 1
    <3>1. n <= 3 /\ d[k] = x /\ x = found
      BY <1>2, <1>5, <2>2 DEF found
    <3>. QED BY <1>1, <1>3, <3>1 DEF Apart
  <2>. QED BY <1>5, <2>1, <2>2
<1>6. ASSUME n + 1 = 5
      PROVE  /\ Apart(t, d[5]) <= m
             /\ l.status = "any" => Apart(CardSum(d), d[5]) <= m
  <2>1. n = 4 /\ d[5] = x /\ x = found
    BY <1>2, <1>6 DEF found
  <2>2. d[1] = c[1] /\ d[2] = c[2] /\ d[3] = c[3] /\ d[4] = c[4]
    BY <1>2, <2>1
  <2>3. Apart(SumTo(c, 4), Cardinality(FoundUpTo(r, 4, l.env))) <= m
    BY <2>1 DEF Skewed
  <2>4. CardSum(d) = SumTo(c, 4)
    BY <2>2 DEF CardSum, SumTo
  <2>5. l.status = "any" => Cardinality(FoundUpTo(r, 4, l.env)) = x
    BY <2>1, FoundAll DEF found
  <2>. QED BY <1>3, <2>1, <2>3, <2>4, <2>5
<1>7. Skewed(r, m, l, t, d, n + 1)
  BY <1>3, <1>4, <1>5, <1>6 DEF Skewed, found
<1>. QED BY <1>7 DEF d

\* A request that stores other reports during a listing.
LEMMA StoreSkews ==
  ASSUME TypeInv, SkewInv, NEW new \in AllRows, Store(new), look' = look
  PROVE  SkewInv'
<1>. SUFFICES ASSUME Busy, NEW a \in Adapter
              PROVE  Skewed(rows'[a], moved'[a], look, look.total[a], look.cards[a],
              look.step - 1)
  BY DEF SkewInv, Busy, Skewed
<1>. DEFINE D == {i \in Ids : new[a][i] # rows[a][i]}
<1>1. rows' = new /\ moved'[a] = moved[a] + Cardinality(D)
  BY StoreTyped DEF AllRows, TypeInv
<1>2. /\ Skewed(rows[a], moved[a], look, look.total[a], look.cards[a], look.step - 1)
      /\ moved[a] \in Nat
  BY DEF SkewInv, TypeInv, TypeOK
<1>3. Listing(look)
  BY DEF TypeInv, Busy, NoListing
<1>4. /\ look.total[a] \in Nat /\ look.cards[a] \in Seq(Nat)
      /\ look.step - 1 \in 0 .. 5 /\ Len(look.cards[a]) = look.step - 1
  BY <1>3 DEF Listing
<1>5. Skewed(new[a], moved[a] + Cardinality(D), look, look.total[a], look.cards[a], look.step - 1)
  BY <1>2, <1>4, SkewedByChange
<1>. QED BY <1>1, <1>5

\* The first step of a listing.
LEMMA ListSkews ==
  ASSUME TypeInv, NEW q \in Queries, List(q) PROVE SkewInv'
<1>. SUFFICES ASSUME NEW a \in Adapter
              PROVE  Skewed(rows[a], 0, look', look'.total[a], look'.cards[a],
              look'.step - 1)
  BY DEF SkewInv, List, Skewed
<1>. DEFINE found == Found(rows[a], q.status, q.env)
<1>1. /\ look'.step = 1 /\ look'.status = q.status /\ look'.env = q.env
      /\ look'.total[a] = Cardinality(Matches(a, q.status, q.env)) /\ look'.cards[a] = << >>
  BY DEF List
<1>2. look'.total[a] = Cardinality(found) /\ Cardinality(found) \in Nat
  BY <1>1, MatchesFound, FoundNumbers
<1>3. FoundUpTo(rows[a], 0, q.env) = {} /\ Cardinality({}) = 0
  BY FS_EmptySet DEF FoundUpTo
<1>4. SumTo(look'.cards[a], 0) = 0
  BY DEF SumTo
<1>5. /\ Apart(look'.total[a], Cardinality(found)) <= 0
      /\ Apart(SumTo(look'.cards[a], 0), Cardinality(FoundUpTo(rows[a], 0, q.env))) <= 0
  BY <1>2, <1>3, <1>4 DEF Apart
<1>6. look'.step - 1 = 0
  BY <1>1
<1>7. Skewed(rows[a], 0, look', look'.total[a], look'.cards[a], 0)
  BY <1>1, <1>5 DEF Skewed
<1>. QED BY <1>6, <1>7

\* Another count.
LEMMA CountSkews ==
  ASSUME TypeInv, SkewInv, CountCard PROVE SkewInv'
<1>1. /\ Listing(look) /\ look.step \in 1 .. 5
      /\ look' = [step |-> look.step + 1, status |-> look.status, env |-> look.env,
                  paging |-> look.paging, items |-> look.items, total |-> look.total,
                  cards |-> [a \in Adapter |-> Append(look.cards[a], CountOf(a))]]
  BY CountShape
<1>2. UNCHANGED <<rows, moved>> /\ Busy
  BY DEF CountCard
<1>. SUFFICES ASSUME NEW a \in Adapter
              PROVE  Skewed(rows[a], moved[a], look', look'.total[a], look'.cards[a],
              look'.step - 1)
  BY <1>2 DEF SkewInv, Skewed
<1>. DEFINE n == look.step - 1
            c == look.cards[a]
            t == look.total[a]
            x == CountOf(a)
<1>3. /\ look'.step - 1 = n + 1 /\ look'.status = look.status /\ look'.env = look.env
      /\ look'.total[a] = t /\ look'.cards[a] = Append(c, x)
  BY <1>1
<1>4. /\ n \in 0 .. 4 /\ c \in Seq(Nat) /\ Len(c) = n /\ t \in Nat
      /\ rows[a] \in [Ids -> Row \cup {NoRow}] /\ moved[a] \in Nat
  BY <1>1 DEF Listing, TypeInv, TypeOK
<1>5. Skewed(rows[a], moved[a], look, t, c, n)
  BY <1>2 DEF SkewInv
<1>6. x = Cardinality(Found(rows[a], IF n <= 3 THEN Cards[n + 1] ELSE look.status, look.env))
  <2>1. CardStatus = IF n <= 3 THEN Cards[n + 1] ELSE look.status
    <3>1. (look.step <= Len(Cards)) = (n <= 3) /\ n + 1 = look.step
      BY <1>1, Constants
    <3>. QED BY <3>1 DEF CardStatus
  <2>. QED BY <2>1, MatchesFound DEF CountOf
<1>. HIDE DEF n, c, t, x
<1>7. Skewed(rows[a], moved[a], look, t, Append(c, x), n + 1)
  BY <1>4, <1>5, <1>6, SkewedByCount
<1>8. Skewed(rows[a], moved[a], look', t, Append(c, x), n + 1)
  BY <1>3, <1>7 DEF Skewed
<1>. QED BY <1>3, <1>8

\* Every step keeps the counts within what was moved.
LEMMA StepSkews ==
  ASSUME TypeInv, SkewInv, [Next]_vars PROVE SkewInv'
<1>1. ASSUME UNCHANGED <<rows, moved, look>> PROVE SkewInv'
  BY <1>1 DEF SkewInv, Skewed, Busy
<1>2. CASE UNCHANGED vars
  BY <1>1, <1>2 DEF vars
<1>3. ASSUME NEW k, WindowMoves(k) PROVE SkewInv'
  BY <1>1, <1>3 DEF WindowMoves
<1>4. ASSUME NEW f \in Forms, Submit(f) PROVE SkewInv'
  <2>1. Store(Submitted(f)) /\ Submitted(f) \in AllRows /\ look' = look
    BY <1>4, SubmitStores, SubmittedRows DEF Submit
  <2>. QED BY <2>1, StoreSkews
<1>5. ASSUME NEW i, Delete(i) PROVE SkewInv'
  <2>1. Store(Removed(i)) /\ Removed(i) \in AllRows /\ look' = look
    BY <1>5, DeleteStores, RemovedRows DEF Delete
  <2>. QED BY <2>1, StoreSkews
<1>6. ASSUME NEW i, NEW body \in Bodies, UpdateStatus(i, body) PROVE SkewInv'
  <2>1. Store(Restated(i, body)) /\ Restated(i, body) \in AllRows /\ look' = look
    BY <1>6, UpdateStores, RestatedRows DEF UpdateStatus
  <2>. QED BY <2>1, StoreSkews
<1>7. ASSUME BulkCloseFixed \/ BulkArchiveClosed PROVE SkewInv'
  <2>1. look' = look /\ \E new \in AllRows : Store(new)
    BY <1>7, BulkLeaves, CloseStores, ArchiveStores, ClosedRows, ArchivedRows
  <2>. QED BY <2>1, StoreSkews
<1>8. ASSUME ListDone PROVE SkewInv'
  BY <1>8 DEF ListDone, SkewInv, Busy, NoListing
<1>9. CASE Next
  BY <1>3, <1>4, <1>5, <1>6, <1>7, <1>8, <1>9, ListSkews, CountSkews DEF Next
<1>. QED BY <1>2, <1>9

\* However many requests come in between, the counts of a listing disagree by no
\* more than the reports that were changed while it was made
\* (Adapters.StatsSkewBounded).
THEOREM SkewHolds == Spec => []StatsSkewBounded
<1>1. Init => TypeInv
  BY InitTyped
<1>2. Init => SkewInv
  BY DEF Init, SkewInv, Busy, NoListing
<1>3. TypeInv /\ [Next]_vars => TypeInv'
  BY StepTyped
<1>4. TypeInv /\ SkewInv /\ [Next]_vars => SkewInv'
  BY StepSkews
<1>5. TypeInv /\ SkewInv => StatsSkewBounded
  <2>. SUFFICES ASSUME TypeInv, SkewInv, Counted, NEW a \in Adapter
                PROVE  LET cards == look.cards[a]
                       IN  /\ Apart(look.total[a], cards[5]) <= moved[a]
                           /\ look.status = "any" => Apart(CardSum(cards), cards[5]) <= moved[a]
                           /\ \A k \in 1 .. Len(Cards) :
                                look.status = Cards[k] => Apart(cards[k], look.total[a]) <= moved[a]
    BY DEF StatsSkewBounded
  <2>1. Busy /\ look.step - 1 = 5
    BY Constants DEF Counted, Busy
  <2>2. Skewed(rows[a], moved[a], look, look.total[a], look.cards[a], 5)
    BY <2>1 DEF SkewInv
  <2>. QED BY <2>2, Constants DEF Skewed
<1>. QED BY <1>1, <1>2, <1>3, <1>4, <1>5, PTL DEF Spec

-----------------------------------------------------------------------------
(* The storage lock, for any calls on any loops: it excludes the calls of   *)
(* one loop from each other although asyncio.Lock is not thread-safe, it is *)
(* not left locked with nobody inside, and it strands one thread at most.   *)

\* What the steps read and write, without the queue: it is of no account to
\* the safety of the lock.
LockShape ==
  /\ pc \in [Calls -> Labels]
  /\ loopOf \in [Calls -> Loops]
  /\ bound \in Loops \cup {None}

\* A loop runs one coroutine at a time: the reason why two calls of one loop
\* are never inside together, whatever the lock says.
OneRuns == \A c, d \in Calls :
  loopOf[c] = loopOf[d] /\ pc[c] \notin Suspended /\ pc[d] \notin Suspended => c = d

\* Who waits does so on the loop that the lock is bound to.
WaitersBound == \A c \in Calls :
  pc[c] \in {"awaiting", "asleep"} => bound = loopOf[c]

LockInv == LockShape /\ OneRuns /\ WaitersBound /\ LockNotLeaked

\* The invariant holds at first, and every step keeps it.
LEMMA InitLockInv == LockInit => LockInv
BY DEF LockInit, LockInv, LockShape, OneRuns, WaitersBound, LockNotLeaked, Labels,
   Suspended

\* What a step of call c does to the labels: only c moves, and where it starts
\* to run, nothing else runs on its loop.
Moves(c, label) ==
  /\ pc' = [pc EXCEPT ![c] = label] /\ loopOf' = loopOf
  /\ label \in Labels
  /\ label \notin Suspended => MayRun(c)

\* A call that moves by the rule keeps the loops to one coroutine.
LEMMA MovesKeepsOneRuns ==
  ASSUME LockInv, NEW c \in Calls, NEW label, Moves(c, label)
  PROVE  OneRuns' /\ pc' \in [Calls -> Labels] /\ loopOf' \in [Calls -> Loops]
<1>1. pc' \in [Calls -> Labels] /\ loopOf' \in [Calls -> Loops]
  BY DEF Moves, LockInv, LockShape
<1>2. ASSUME NEW d \in Calls, NEW e \in Calls, loopOf'[d] = loopOf'[e],
             pc'[d] \notin Suspended, pc'[e] \notin Suspended
      PROVE  d = e
  <2>1. CASE d = c /\ e # c
    BY <1>2, <2>1 DEF Moves, MayRun, LockInv, LockShape
  <2>2. CASE e = c /\ d # c
    BY <1>2, <2>2 DEF Moves, MayRun, LockInv, LockShape
  <2>3. CASE d # c /\ e # c
    BY <1>2, <2>3 DEF Moves, LockInv, LockShape, OneRuns
  <2>. QED BY <2>1, <2>2, <2>3
<1>. QED BY <1>1, <1>2 DEF OneRuns, Suspended

\* No step of a call that moves by the rule and neither binds the lock, waits
\* nor leaves a locked lock disturbs the rest.
LEMMA MovesKeepsRest ==
  ASSUME LockInv, NEW c \in Calls, NEW label, Moves(c, label), bound' = bound,
         label = "asleep" => pc[c] = "awaiting",
         label # "awaiting",
         \/ label = "inside"
         \/ locked' = locked /\ pc[c] # "inside"
         \/ ~locked'
  PROVE  WaitersBound' /\ LockNotLeaked' /\ bound' \in Loops \cup {None}
<1>1. WaitersBound'
  BY DEF WaitersBound, Moves, LockInv, LockShape
<1>2. LockNotLeaked'
  <2>1. CASE label = "inside"
    BY <2>1 DEF LockNotLeaked, Moves, LockInv, LockShape
  <2>2. CASE locked' = locked /\ pc[c] # "inside"
    BY <2>2 DEF LockNotLeaked, Moves, LockInv, LockShape
  <2>3. CASE ~locked'
    BY <2>3 DEF LockNotLeaked
  <2>. QED BY <2>1, <2>2, <2>3
<1>. QED BY <1>1, <1>2 DEF LockInv, LockShape

\* The inductive invariant is kept by every step.
LEMMA StepLockInv ==
  ASSUME LockInv, [LockNext]_lockVars PROVE LockInv'
<1>1. ASSUME NEW c \in Calls, Arrive(c) PROVE LockInv'
  <2>1. Moves(c, "start")
    BY <1>1 DEF Arrive, Goto, Moves, Labels, Suspended
  <2>. QED BY <1>1, <2>1, MovesKeepsOneRuns, MovesKeepsRest DEF Arrive, LockInv,
              LockShape
<1>2. ASSUME NEW c \in Calls, Test(c) PROVE LockInv'
  <2>1. PICK label \in {"take", "queue"} : Moves(c, label)
    BY <1>2 DEF Test, Goto, Moves, Labels
  <2>. QED BY <1>2, <2>1, MovesKeepsOneRuns, MovesKeepsRest DEF Test, LockInv, LockShape
<1>3. ASSUME NEW c \in Calls, Take(c) PROVE LockInv'
  <2>1. Moves(c, "inside")
    BY <1>3 DEF Take, Goto, Moves, Labels
  <2>. QED BY <1>3, <2>1, MovesKeepsOneRuns, MovesKeepsRest DEF Take, LockInv, LockShape
<1>4. ASSUME NEW c \in Calls, Queue(c) PROVE LockInv'
  <2>1. CASE MayWait(c) /\ bound' = loopOf[c] /\ Goto(c, "awaiting")
    <3>1. Moves(c, "awaiting")
      BY <2>1 DEF Goto, Moves, Labels, Suspended
    <3>2. WaitersBound'
      BY <2>1, StorageLockAssumption DEF WaitersBound, MayWait, Goto, LockInv, LockShape
    <3>3. LockNotLeaked'
      BY <1>4, <2>1 DEF LockNotLeaked, Queue, Goto, LockInv, LockShape
    <3>. QED BY <2>1, <3>1, <3>2, <3>3, MovesKeepsOneRuns DEF LockInv, LockShape
  <2>2. CASE ~MayWait(c) /\ Goto(c, "error") /\ bound' = bound
    <3>1. Moves(c, "error")
      BY <2>2 DEF Goto, Moves, Labels, Suspended
    <3>. QED BY <1>4, <2>2, <3>1, MovesKeepsOneRuns, MovesKeepsRest DEF Queue, LockInv,
                LockShape
  <2>. QED BY <1>4, <2>1, <2>2 DEF Queue
<1>5. ASSUME NEW c \in Calls, Doze(c) PROVE LockInv'
  <2>1. Moves(c, "asleep")
    BY <1>5 DEF Doze, Goto, Moves, Labels, Suspended
  <2>. QED BY <1>5, <2>1, MovesKeepsOneRuns, MovesKeepsRest DEF Doze, LockInv, LockShape
<1>6. ASSUME NEW c \in Calls, Resume(c) PROVE LockInv'
  <2>1. Moves(c, "inside")
    BY <1>6 DEF Resume, Goto, Moves, Labels
  <2>. QED BY <1>6, <2>1, MovesKeepsOneRuns, MovesKeepsRest DEF Resume, LockInv,
              LockShape
<1>7. ASSUME NEW c \in Calls, Exit(c) PROVE LockInv'
  <2>1. PICK label \in {"out", "error"} : Moves(c, label)
    BY <1>7 DEF Exit, Goto, Moves, Labels, Suspended
  <2>2. ~locked'
    BY <1>7 DEF Exit, Unlocked
  <2>. QED BY <1>7, <2>1, <2>2, MovesKeepsOneRuns, MovesKeepsRest DEF Exit, LockInv,
              LockShape
<1>8. CASE UNCHANGED lockVars
  BY <1>8 DEF lockVars, LockInv, LockShape, OneRuns, WaitersBound, LockNotLeaked
<1>. QED BY <1>1, <1>2, <1>3, <1>4, <1>5, <1>6, <1>7, <1>8 DEF LockNext, Step

\* The invariant says what is promised: the threads that hang are all of the
\* loop to which the lock is bound.
LEMMA InvSound == LockInv => LockSound
<1>. SUFFICES ASSUME LockInv PROVE LockSound
  OBVIOUS
<1>. DEFINE hung == {loopOf[c] : c \in {d \in Calls : pc[d] = "asleep"}}
<1>1. LoopExclusion
  BY DEF LockInv, OneRuns, LoopExclusion, Suspended
<1>2. hung \subseteq {bound}
  BY DEF LockInv, WaitersBound
<1>3. IsFiniteSet({bound}) /\ Cardinality({bound}) = 1
  BY FS_Singleton
<1>4. Cardinality(hung) <= 1
  BY <1>2, <1>3, FS_Subset
<1>. QED BY <1>1, <1>4 DEF LockSound, AtMostOneHangs, LockInv

\* Whatever calls arrive on whatever loops, calls of one loop exclude each
\* other, the lock is never left locked with nobody inside, and at most one
\* thread hangs (FileStorage's "async with self._lock").
THEOREM LockHolds == LockSpec => []LockSound
<1>1. LockSpec => []LockInv
  BY InitLockInv, StepLockInv, PTL DEF LockSpec
<1>. QED BY <1>1, InvSound, PTL

-----------------------------------------------------------------------------
(* The queue.                                                              *)

\* Who is woken is in the queue: it leaves the queue itself, when its loop runs
\* it on.
Queued(c) == \E i \in 1 .. Len(waiters) : waiters[i] = c

WokenQueued == \A c \in woken : Queued(c)

QueueInv == LockTypeOK /\ WokenQueued

\* A queue without one of its entries.
LEMMA RemoveAtProperties ==
  ASSUME NEW S, NEW s \in Seq(S), NEW i \in 1 .. Len(s)
  PROVE  /\ RemoveAt(s, i) \in Seq(S)
         /\ Len(RemoveAt(s, i)) = Len(s) - 1
         /\ \A j \in 1 .. i - 1 : RemoveAt(s, i)[j] = s[j]
         /\ \A j \in i + 1 .. Len(s) : RemoveAt(s, i)[j - 1] = s[j]
<1>. DEFINE front == SubSeq(s, 1, i - 1)
            back == SubSeq(s, i + 1, Len(s))
<1>1. /\ front \in Seq(S) /\ Len(front) = i - 1
      /\ \A j \in 1 .. i - 1 : front[j] = s[j]
  OBVIOUS
<1>2. /\ back \in Seq(S) /\ Len(back) = Len(s) - i
      /\ \A j \in 1 .. Len(s) - i : back[j] = s[i + j]
  OBVIOUS
<1>. HIDE DEF front, back
<1>3. /\ front \o back \in Seq(S) /\ Len(front \o back) = Len(s) - 1
      /\ \A j \in 1 .. i - 1 : (front \o back)[j] = front[j]
      /\ \A j \in i + 1 .. Len(s) : (front \o back)[j - 1] = back[j - i]
  <2>1. /\ front \o back \in Seq(S) /\ Len(front \o back) = Len(front) + Len(back)
        /\ \A j \in 1 .. Len(front) + Len(back) :
             (front \o back)[j] = IF j <= Len(front) THEN front[j] ELSE back[j - Len(front)]
    <3>1. front \in Seq(S) /\ back \in Seq(S)
      BY <1>1, <1>2
    <3>. QED BY <3>1, ConcatProperties
  <2>3. ASSUME NEW j \in i + 1 .. Len(s) PROVE (front \o back)[j - 1] = back[j - i]
    <3>1. /\ j - 1 \in 1 .. Len(front) + Len(back) /\ ~(j - 1 <= Len(front))
          /\ j - 1 - Len(front) = j - i
      BY <1>1, <1>2
    <3>. QED BY <2>1, <3>1
  <2>4. ASSUME NEW j \in 1 .. i - 1 PROVE (front \o back)[j] = front[j]
    BY <1>1, <1>2, <2>1
  <2>5. Len(front) + Len(back) = Len(s) - 1
    BY <1>1, <1>2
  <2>. QED BY <2>1, <2>3, <2>4, <2>5
<1>4. RemoveAt(s, i) = front \o back
  BY DEF RemoveAt, front, back
<1>5. ASSUME NEW j \in i + 1 .. Len(s) PROVE back[j - i] = s[j]
  <2>1. j - i \in 1 .. Len(s) - i /\ i + (j - i) = j
    OBVIOUS
  <2>. QED BY <1>2, <2>1
<1>. QED BY <1>1, <1>3, <1>4, <1>5

\* A call runs on: the others stay in the queue.
LEMMA ResumeTyped ==
  ASSUME QueueInv, NEW c \in Calls, Resume(c) PROVE QueueInv'
<1>1. PICK i \in 1 .. Len(waiters) : waiters[i] = c /\ waiters' = RemoveAt(waiters, i)
  BY DEF Resume, QueueInv, LockTypeOK
<1>2. /\ waiters' \in Seq(Calls) /\ Len(waiters') = Len(waiters) - 1
      /\ \A j \in 1 .. i - 1 : waiters'[j] = waiters[j]
      /\ \A j \in i + 1 .. Len(waiters) : waiters'[j - 1] = waiters[j]
  BY <1>1, RemoveAtProperties DEF QueueInv, LockTypeOK
<1>3. ASSUME NEW d \in woken, d # c PROVE Queued(d)'
  <2>1. PICK j \in 1 .. Len(waiters) : waiters[j] = d
    BY DEF QueueInv, WokenQueued, Queued
  <2>2. CASE j < i
    <3>1. j \in 1 .. Len(waiters') /\ waiters'[j] = d
      BY <1>2, <2>1, <2>2 DEF QueueInv, LockTypeOK
    <3>. QED BY <3>1 DEF Queued
  <2>3. CASE j > i
    <3>1. j - 1 \in 1 .. Len(waiters') /\ waiters'[j - 1] = d
      BY <1>2, <2>1, <2>3 DEF QueueInv, LockTypeOK
    <3>. QED BY <3>1 DEF Queued
  <2>. QED BY <1>1, <1>3, <2>1, <2>2, <2>3
<1>4. WokenQueued'
  BY <1>3 DEF WokenQueued, Resume
<1>5. pc' \in [Calls -> Labels] /\ loopOf' = loopOf
  BY DEF QueueInv, LockTypeOK, Resume, Goto, Labels
<1>. QED BY <1>2, <1>4, <1>5 DEF QueueInv, LockTypeOK, Resume

\* The type invariant is inductive.
LEMMA StepQueueInv ==
  ASSUME QueueInv, [LockNext]_lockVars PROVE QueueInv'
<1>. /\ locked \in BOOLEAN /\ waiters \in Seq(Calls) /\ bound \in Loops \cup {None}
     /\ woken \subseteq Calls /\ pc \in [Calls -> Labels] /\ loopOf \in [Calls -> Loops]
  BY DEF QueueInv, LockTypeOK
<1>1. ASSUME NEW c \in Calls, NEW label \in Labels, Goto(c, label)
      PROVE  pc' \in [Calls -> Labels] /\ loopOf' \in [Calls -> Loops]
  BY <1>1 DEF Goto
<1>2. ASSUME NEW c \in Calls, Arrive(c) \/ Test(c) \/ Take(c) \/ Doze(c) PROVE QueueInv'
  <2>1. \E label \in Labels : Goto(c, label)
    BY <1>2 DEF Arrive, Test, Take, Doze, Labels
  <2>2. UNCHANGED <<waiters, bound, woken>> /\ locked' \in BOOLEAN
    BY <1>2 DEF Arrive, Test, Take, Doze
  <2>. QED BY <1>1, <2>1, <2>2 DEF QueueInv, LockTypeOK, WokenQueued, Queued
<1>3. ASSUME NEW c \in Calls, Queue(c) PROVE QueueInv'
  <2>1. \E label \in Labels : Goto(c, label)
    BY <1>3 DEF Queue, Labels
  <2>2. CASE waiters' = Append(waiters, c) /\ bound' = loopOf[c]
    <3>1. /\ waiters' \in Seq(Calls) /\ Len(waiters') = Len(waiters) + 1
          /\ \A i \in 1 .. Len(waiters) : waiters'[i] = waiters[i]
      BY <2>2
    <3>2. \A d \in woken : Queued(d)'
      BY <3>1 DEF QueueInv, WokenQueued, Queued
    <3>. QED BY <1>1, <1>3, <2>1, <2>2, <3>1, <3>2 DEF Queue, QueueInv, LockTypeOK,
                WokenQueued
  <2>3. CASE UNCHANGED <<waiters, bound>>
    BY <1>1, <1>3, <2>1, <2>3 DEF Queue, QueueInv, LockTypeOK, WokenQueued, Queued
  <2>. QED BY <1>3, <2>2, <2>3 DEF Queue
<1>4. ASSUME NEW c \in Calls, Exit(c) PROVE QueueInv'
  <2>1. \E label \in Labels : Goto(c, label)
    BY <1>4 DEF Exit, Labels
  <2>2. UNCHANGED <<waiters, bound>> /\ locked' \in BOOLEAN
        /\ woken' \subseteq woken \cup Noticing(c)
    BY <1>4 DEF Exit, Unlocked
  <2>3. ASSUME NEW d \in Noticing(c) PROVE d \in Calls /\ Queued(d)
    <3>1. d \in Calls /\ waiters # << >> /\ d = Head(waiters)
      BY <2>3 DEF Noticing
    <3>2. 1 \in 1 .. Len(waiters) /\ waiters[1] = d
      BY <3>1
    <3>. QED BY <3>1, <3>2 DEF Queued
  <2>. QED BY <1>1, <2>1, <2>2, <2>3 DEF QueueInv, LockTypeOK, WokenQueued, Queued
<1>5. CASE UNCHANGED lockVars
  BY <1>5 DEF lockVars, QueueInv, LockTypeOK, WokenQueued, Queued
<1>. QED BY <1>2, <1>3, <1>4, <1>5, ResumeTyped DEF LockNext, Step

\* Every variable has its type, in particular the queue of the lock, however
\* calls wait, are woken, run on or fail (asyncio.Lock as FileStorage uses it).
THEOREM LockTypesHold == LockSpec => []LockTypeOK
<1>1. LockInit => QueueInv
  <2>. SUFFICES ASSUME LockInit PROVE QueueInv
    OBVIOUS
  <2>1. pc \in [Calls -> Labels] /\ waiters = << >> /\ woken = {}
    BY DEF LockInit, Labels
  <2>2. waiters \in Seq(Calls)
    BY <2>1
  <2>. QED BY <2>1, <2>2 DEF LockInit, QueueInv, LockTypeOK, WokenQueued
<1>2. QueueInv /\ [LockNext]_lockVars => QueueInv'
  BY StepQueueInv
<1>3. QueueInv => LockTypeOK
  BY DEF QueueInv
<1>. QED BY <1>1, <1>2, <1>3, PTL DEF LockSpec
=============================================================================
