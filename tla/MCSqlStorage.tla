---------------------------- MODULE MCSqlStorage ----------------------------
(* Instances of SqlStorage for TLC. *)
EXTENDS SqlStorage, FiniteSets, TLC

MCTwoIds == 1 .. 2

\* Threads and payloads are interchangeable; ids are not, they are ordered.
MCSymmetry == Permutations(Workers) \cup Permutations(Submissions)

\* One thing out of a crash, a linked report and a call that links one.
MCBound == crashes + Cardinality({i \in Ids : Exists(i) /\ rows[i].link # None})
                   + Cardinality({w \in Workers : op[w].at = "link"}) <= 1
=============================================================================
