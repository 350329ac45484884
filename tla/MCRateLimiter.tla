--------------------------- MODULE MCRateLimiter ---------------------------
(* Instances of RateLimiter for TLC. *)
EXTENDS RateLimiter, TLC

\* Keys and threads are interchangeable.
MCSymmetry == Permutations(Ips) \cup Permutations(Callers)

\* The history is kept short by stopping at this many admissions per key.
MaxAdmitted == 4
MCBound == \A ip \in Ips : Len(admitted[ip]) <= MaxAdmitted
=============================================================================
