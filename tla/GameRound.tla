----------------------------- MODULE GameRound -----------------------------
(* Game implements Round: the refinement mapping. *)
EXTENDS Game

Phase ==
    IF crash # "none" THEN "dead"
    ELSE CASE fPc = "none" -> IF sPc = "done" THEN "cancelled" ELSE "lobby"
           [] fPc \in {"spawned", "armed"} /\ ~GameDone -> "playing"
           [] fPc \in {"published", "done"} -> "over"
           [] OTHER -> "closing"

R == INSTANCE Round WITH
        phase <- Phase,
        surprised <- Surprised,
        catchers <- {p \in Player : "reached" \in told[p]},
        heard <- {p \in Player : "finish" \in told[p]}

\* Every step of the goroutines is a step of the round or changes nothing in it.
ImplementsRound == R!Spec

\* Under the fairness of the scheduler a round that is played reaches its end.
ImplementsFairRound == R!FairSpec

=============================================================================
