---------------------------- MODULE MCSubmitFlow ----------------------------
(* Instances of SubmitFlow for TLC. *)
EXTENDS SubmitFlow, TLC

MCSymmetry == Permutations(Ids) \cup Permutations(Submissions)
                \cup Permutations(Links) \cup Permutations(Viewers)
=============================================================================
