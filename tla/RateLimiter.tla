---------------------------- MODULE RateLimiter ----------------------------
(***************************************************************************)
(* bug_fab/_rate_limit.py: the sliding-window limiter the submit router     *)
(* asks before it reads a report.                                           *)
(*                                                                         *)
(* check(ip) reads the clock before it takes the lock, so two threads may   *)
(* enter the critical section in the other order than they read the clock.  *)
(* Behaviours that are "ordered" are those of a server that handles requests *)
(* one at a time (FastAPI's event loop: check has no await).                *)
(***************************************************************************)
EXTENDS Integers, Sequences, FiniteSets

CONSTANTS Callers,  \* threads that call check
          Ips,      \* the keys resolve_client_ip returns
          Max,      \* max_per_window; 0 or less would disable the limiter
          Window,   \* window_seconds
          None,     \* "no key"
          MaxTime   \* bound on the clock (model only)

ASSUME RateLimiterAssumption ==
  /\ Max \in Nat \ {0} /\ Window \in Nat \ {0} /\ MaxTime \in Nat
  /\ None \notin Ips

VARIABLES
  clock,      \* time.monotonic()
  events,     \* _events; a key that is absent is the empty sequence
  lastSweep,  \* _last_sweep
  call,       \* what each caller is doing
  admitted,   \* history: per key, every timestamp check said yes to
  latest,     \* history: the latest time anybody entered the lock with
  ordered     \* history: so far everybody entered in the order of the clock

vars == <<clock, events, lastSweep, call, admitted, latest, ordered>>

Call == [at : {"idle", "waiting", "admitted", "refused"},
         ip : Ips \cup {None}, now : Nat]

Init ==
  /\ clock = 0 /\ lastSweep = 0
  /\ events = [ip \in Ips |-> <<>>]
  /\ call = [c \in Callers |-> [at |-> "idle", ip |-> None, now |-> 0]]
  /\ admitted = [ip \in Ips |-> <<>>]
  /\ latest = 0 /\ ordered = TRUE

Tick == /\ clock < MaxTime
        /\ clock' = clock + 1
        /\ UNCHANGED <<events, lastSweep, call, admitted, latest, ordered>>

\* check, up to the lock: the time is read.
Arrive(c) ==
  /\ call[c].at # "waiting"
  /\ \E ip \in Ips :
       call' = [call EXCEPT ![c] = [at |-> "waiting", ip |-> ip, now |-> clock]]
  /\ UNCHANGED <<clock, events, lastSweep, admitted, latest, ordered>>

\* Variants for mutation: entries become the window's start; a sweep drops every
\* bucket.
LiveSinceCutoff(ts, cutoff) == [k \in DOMAIN ts |-> cutoff]
SweptAll(now) == [ip \in Ips |-> <<>>]

\* The entries of a bucket that are still inside the window, in their order:
\* the j-th is at the position up to which j entries are kept.
Live(ts, cutoff) ==
  LET kept == {k \in DOMAIN ts : ts[k] > cutoff}
      Rank(k) == Cardinality({i \in kept : i <= k})
  IN  [j \in 1 .. Cardinality(kept) |-> ts[CHOOSE k \in kept : Rank(k) = j]]

\* _sweep's deletions: buckets whose last entry is no longer inside the window.
Swept(now) ==
  [ip \in Ips |->
     IF events[ip] = <<>> \/ events[ip][Len(events[ip])] <= now - Window
     THEN <<>> ELSE events[ip]]

Due(now) == now - lastSweep >= Window

Full(fresh) == Len(fresh) >= Max

\* check, under the lock: the sweep if one is due, then the verdict.
Enter(c) ==
  LET now == call[c].now
      ip  == call[c].ip
      evs == IF Due(now) THEN Swept(now) ELSE events
      fresh == Live(evs[ip], now - Window)
  IN
  /\ call[c].at = "waiting"
  /\ lastSweep' = IF Due(now) THEN now ELSE lastSweep
  /\ \/ /\ Full(fresh)
        /\ events' = [evs EXCEPT ![ip] = fresh]
        /\ call' = [call EXCEPT ![c].at = "refused"]
        /\ UNCHANGED admitted
     \/ /\ ~Full(fresh)
        /\ events' = [evs EXCEPT ![ip] = Append(fresh, now)]
        /\ call' = [call EXCEPT ![c].at = "admitted"]
        /\ admitted' = [admitted EXCEPT ![ip] = Append(@, now)]
  /\ latest' = IF now > latest THEN now ELSE latest
  /\ ordered' = (ordered /\ now >= latest)
  /\ UNCHANGED clock

\* reset, by a caller that is not inside check: all is forgotten, earlier
\* verdicts included.
Reset(c) ==
  /\ call[c].at # "waiting"
  /\ events' = [ip \in Ips |-> <<>>]
  /\ lastSweep' = clock
  /\ admitted' = [ip \in Ips |-> <<>>]
  /\ call' = [d \in Callers |->
                IF call[d].at = "waiting" THEN call[d]
                ELSE [call[d] EXCEPT !.at = "idle"]]
  /\ latest' = clock
  /\ ordered' = (ordered /\ \A d \in Callers : call[d].at # "waiting")
  /\ UNCHANGED clock

Next == Tick \/ \E c \in Callers : Arrive(c) \/ Enter(c) \/ Reset(c)

Spec == Init /\ [][Next]_vars

-----------------------------------------------------------------------------
TypeOK ==
  /\ clock \in Nat /\ lastSweep \in Nat
  /\ events \in [Ips -> Seq(Nat)]
  /\ call \in [Callers -> Call]
  /\ admitted \in [Ips -> Seq(Nat)]
  /\ latest \in Nat /\ ordered \in BOOLEAN

\* How many of the timestamps ts lie in the window that ends at t.
InWindow(ts, t) ==
  Cardinality({k \in 1 .. Len(ts) : t - Window < ts[k] /\ ts[k] <= t})

\* "Maximum number of allowed events per source IP within window_seconds":
\* no window of that width holds more admissions than Max, whatever was pruned
\* or swept in between.
WindowRespected == \A ip \in Ips : \A k \in 1 .. Len(admitted[ip]) :
  InWindow(admitted[ip], admitted[ip][k]) <= Max

\* It is so as long as callers enter the lock in the order of the clock, which
\* they do when requests are handled one at a time.
WindowRespectedInOrder == ordered => WindowRespected

\* A caller is refused only if Max admissions are still inside its window:
\* expired entries never count against anybody, not even when threads enter
\* the lock out of order.
RefusedOnlyWhenFull == \A c \in Callers : call[c].at = "refused" =>
  Cardinality({k \in 1 .. Len(admitted[call[c].ip]) :
                 admitted[call[c].ip][k] > call[c].now - Window}) >= Max

\* Entered in order, sources that fell silent are forgotten: the newest entry of
\* every bucket is younger than the last sweep less one window, so the map holds
\* only keys seen in the last two windows before the last check.
NoIdleBucket == ordered => \A ip \in Ips : events[ip] # <<>> =>
  events[ip][Len(events[ip])] > lastSweep - Window

\* Nobody gets through too often, nobody is turned away too early, and who fell
\* silent is forgotten.
LimitExact == WindowRespectedInOrder /\ RefusedOnlyWhenFull /\ NoIdleBucket
=============================================================================
