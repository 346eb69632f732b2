------------------------------- MODULE Round -------------------------------
(***************************************************************************)
(* What a game promises to its players, whatever its goroutines do: it     *)
(* goes through its phases once and in order, its target is caught by one  *)
(* player at most, who thereby stops the round, its end is announced once, *)
(* to somebody, and unless the round was surprised it does not die before  *)
(* it was told to stop.  Game implements it (GameRound).                   *)
(***************************************************************************)
CONSTANT Player

VARIABLES
    phase,      \* "lobby", "playing", "closing" (told to stop), "over", or ended
                \* early: "cancelled" from the lobby, "dead" with the process
    surprised,  \* players left during the start, or a stop was lost
    catchers,   \* who was told that it reached the target
    heard       \* who was told the rank

roundVars == <<phase, surprised, catchers, heard>>

Init ==
    /\ phase = "lobby"
    /\ surprised = FALSE
    /\ catchers = {}
    /\ heard = {}

Begin ==
    /\ phase = "lobby"
    /\ phase' = "playing"
    /\ UNCHANGED <<surprised, catchers, heard>>

GiveUp ==
    /\ phase = "lobby"
    /\ phase' = "cancelled"
    /\ UNCHANGED <<surprised, catchers, heard>>

Surprise ==
    /\ phase \in {"lobby", "playing"}
    /\ surprised' = TRUE
    /\ UNCHANGED <<phase, catchers, heard>>

Close ==
    /\ phase = "playing"
    /\ phase' = "closing"
    /\ UNCHANGED <<surprised, catchers, heard>>

\* A capture stops the round, or its stop is lost.  A capture under way when the
\* round ends is still told, even after the rank.
Catch(p) ==
    /\ phase \in {"playing", "closing", "over"}
    /\ catchers = {}
    /\ catchers' = {p}
    /\ \/ phase = "playing" /\ phase' = "closing" /\ UNCHANGED surprised
       \/ phase = "playing" /\ surprised' = TRUE /\ UNCHANGED phase
       \/ phase # "playing" /\ UNCHANGED <<phase, surprised>>
    /\ UNCHANGED heard

Announce ==
    /\ phase = "closing"
    /\ phase' = "over"
    /\ heard' \in (SUBSET Player) \ {{}}
    /\ UNCHANGED <<surprised, catchers>>

\* The process dies.
Die ==
    /\ phase # "dead"
    /\ phase = "playing" => surprised
    /\ phase' = "dead"
    /\ UNCHANGED <<surprised, catchers, heard>>

Next ==
    \/ Begin \/ GiveUp \/ Surprise \/ Close \/ Announce \/ Die
    \/ \E p \in Player : Catch(p)

Spec == Init /\ [][Next]_roundVars

\* Once it is being played it goes on to its end.
Fairness ==
    /\ WF_roundVars(Close)
    /\ WF_roundVars(Announce \/ (phase = "closing" /\ Die))

FairSpec == Spec /\ Fairness

=============================================================================
