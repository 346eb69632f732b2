------------------------------- MODULE MCGame -------------------------------
(* Instances of Game for TLC. *)
EXTENDS GameRound, TLC

\* Players are interchangeable: no action compares two of them but for equality.
Symmetry == Permutations(Player)

\* Bounds: nobody joins a game whose round is over, and nothing follows a crash
\* (TLC checks the states it does not follow).
RoundOnly == crash = "none" /\ ~(fPc = "done" /\ oPc = "join")

\* Bound: at most two exits that were taken for exits from the lobby, or answered
\* with nothing (one that was both counts twice).  A third exit may still be
\* under way, as many as a round needs players here.
FewUnheard == RoundOnly /\ Cardinality(hist.early) + Cardinality(hist.quiet) <= 2

\* Bound of the liveness run: one player at most left without hearing of it, or
\* got its entry while the roles were being given out or later.
OneAstray == RoundOnly /\ Cardinality(hist.early \cup hist.quiet \cup hist.late) <= 1

=============================================================================
