-------------------------- MODULE MCDjangoStorage --------------------------
(* Instances of DjangoStorage for TLC. *)
EXTENDS DjangoStorage, TLC

MCTwoIds == 1 .. 2
MCThreeIds == 1 .. 3

\* Threads and payloads are interchangeable; ids are not, they are ordered.
MCSymmetry == Permutations(Workers) \cup Permutations(Submissions)
=============================================================================
