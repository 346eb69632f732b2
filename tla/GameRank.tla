------------------------------ MODULE GameRank ------------------------------
(***************************************************************************)
(* The rank of a finished round: ByPlayersDistanceToTarget of game.go and  *)
(* what OnGameFinish of gamewatcher.go sends.  Go ranges over a map in any *)
(* order; the distances are whole meters, so two players may be at the     *)
(* same one.  An empty map, on which the code panics, is the subject of    *)
(* Game (RankPlayers).                                                     *)
(***************************************************************************)
EXTENDS Naturals, Sequences, SequencesExt, FiniteSets

CONSTANTS
    Player,
    NoPlayer,
    Dist       \* the distances to the target, in whole meters

ASSUME RankAssumption ==
    Dist \subseteq Nat /\ NoPlayer \notin Player /\ IsFiniteSet(Player)

VARIABLES
    players,   \* g.players: the players still in the game -> distance to the target
    todo,      \* players the first loop has yet to visit
    byDist,    \* playersDistToTarget
    ids,       \* rank.PlayerIDs
    rows,      \* rank.PlayerRank
    sent       \* the PlayersRank of the message game:finish

vars == <<players, todo, byDist, ids, rows, sent>>

Init ==
    /\ \E S \in SUBSET Player : S # {} /\ players \in [S -> Dist]
    /\ todo = DOMAIN players
    /\ byDist = [d \in Dist |-> NoPlayer]
    /\ ids = <<>> /\ rows = <<>> /\ sent = <<>>

\* playersDistToTarget[int(dist)] = *p
Group(p) ==
    /\ p \in todo
    /\ todo' = todo \ {p}
    /\ byDist' = [byDist EXCEPT ![players[p]] = p]
    /\ ids' = Append(ids, p)
    /\ UNCHANGED <<players, rows, sent>>

\* The keys of playersDistToTarget.
Keys == {d \in Dist : byDist[d] # NoPlayer}

\* Mutant: the zero distance of the target itself is taken for an empty slot.
DistancesAboveZero ==
    {ds \in [1..Cardinality(Keys \ {0}) -> Keys \ {0}] :
        \A i, j \in DOMAIN ds : i < j => ds[i] < ds[j]}

\* Mutant: the keys are left unsorted.
DistancesUnsorted ==
    {ds \in [1..Cardinality(Keys) -> Keys] : \A i, j \in DOMAIN ds : i # j => ds[i] # ds[j]}

\* dists: the one sequence of all the keys that is sorted.
Distances ==
    {ds \in [1..Cardinality(Keys) -> Keys] : \A i, j \in DOMAIN ds : i < j => ds[i] < ds[j]}

\* 100 * (maxDist - dist) / maxDist, where maxDist is one more than the largest.
Points(dist, largest) == (100 * (largest + 1 - dist)) \div (largest + 1)

PlayerRank(ds) ==
    [i \in DOMAIN ds |-> [player |-> byDist[ds[i]],
                          points |-> Points(ds[i], ds[Cardinality(DOMAIN ds)])]]

RankRows ==
    /\ todo = {} /\ rows = <<>>
    /\ \E ds \in Distances : rows' = PlayerRank(ds)
    /\ UNCHANGED <<players, todo, byDist, ids, sent>>

\* The loop takes the address of its one variable: when the message is encoded,
\* every row names the player of the last one.
Publish ==
    /\ rows # <<>> /\ sent = <<>>
    /\ sent' = [i \in DOMAIN rows |-> [rows[i] EXCEPT !.player = Last(rows).player]]
    /\ UNCHANGED <<players, todo, byDist, ids, rows>>

Published == sent # <<>> /\ UNCHANGED vars

Next == RankRows \/ Publish \/ Published \/ \E p \in Player : Group(p)

Spec == Init /\ [][Next]_vars

-----------------------------------------------------------------------------
(* Properties *)

\* Who is closer comes first, and has the share of 100 points, rounded down,
\* that the distance leaves of the largest one and a meter.
RankIsByDistance ==
    \A i \in DOMAIN rows :
        LET d(j) == players[rows[j].player]
        IN  /\ \A j \in 1..(i - 1) : d(j) < d(i)
            /\ \E p \in DOMAIN players :
                LET maxDist == players[p] + 1
                    left    == 100 * (maxDist - d(i))
                IN  /\ \A q \in DOMAIN players : players[q] <= players[p]
                    /\ rows[i].points * maxDist <= left
                    /\ left < (rows[i].points + 1) * maxDist

\* Every player of the map is sent the rank, and only misses it when another one at
\* its distance is in it.
OnlyTiesAreDropped ==
    rows # <<>> => \A p \in DOMAIN players :
        /\ p \in ToSet(ids)
        /\ \E i \in DOMAIN rows : players[rows[i].player] = players[p]

\* "points_per_player": what is sent says whose points each row holds.
PointsArePerPlayer ==
    sent # <<>> => \A i \in DOMAIN rows : sent[i] = rows[i]

=============================================================================
