--------------------------- MODULE MCFileStorage ---------------------------
(* Instances of FileStorage for TLC. *)
EXTENDS FileStorage, TLC

MCTwoIds == 1 .. 2

\* Threads and payloads are interchangeable; ids are not, they are ordered.
MCSymmetry == Permutations(Workers) \cup Permutations(Submissions)
=============================================================================
