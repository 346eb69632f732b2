--------------------------- MODULE GameRankProofs ---------------------------
(***************************************************************************)
(* The rank of a round, for any finite set of players and any distances.   *)
(***************************************************************************)
EXTENDS GameRank, FiniteSetTheorems, FunctionTheorems, SequenceTheorems, TLAPS

\* What the map of distances holds is a player at that distance, and every player
\* that was visited has an id and left somebody at its distance.
GroupInv ==
    /\ DOMAIN players \subseteq Player /\ DOMAIN players # {}
    /\ \A p \in DOMAIN players : players[p] \in Dist
    /\ todo \subseteq DOMAIN players
    /\ byDist \in [Dist -> Player \cup {NoPlayer}]
    /\ \A d \in Keys : byDist[d] \in DOMAIN players /\ players[byDist[d]] = d
    /\ ids \in Seq(Player)
    /\ \A p \in DOMAIN players \ todo : players[p] \in Keys /\ p \in ToSet(ids)

\* The rows are made once every player was visited, from the sorted distances.
RowsInv ==
    rows # <<>> => todo = {} /\ \E ds \in Distances : rows = PlayerRank(ds)

IInv == GroupInv /\ RowsInv

-----------------------------------------------------------------------------
(* Arithmetic, and the sorted distances *)

\* What rounding down loses is less than one.
LEMMA Division ==
    ASSUME NEW x \in Nat, NEW y \in Nat \ {0}
    PROVE  /\ x \div y \in Nat
           /\ (x \div y) * y <= x
           /\ x < ((x \div y) + 1) * y
<1>1. x \div y \in Nat
    OBVIOUS
<1>2. x = y * (x \div y) + (x % y) /\ x % y \in 0..(y - 1)
    OBVIOUS
<1> QED
    BY <1>1, <1>2

LEMMA PointsOf ==
    ASSUME NEW d \in Nat, NEW largest \in Nat, d <= largest
    PROVE  LET maxDist == largest + 1
               left    == 100 * (maxDist - d)
           IN  /\ Points(d, largest) * maxDist <= left
               /\ left < (Points(d, largest) + 1) * maxDist
<1> DEFINE maxDist == largest + 1
           left    == 100 * (maxDist - d)
<1>1. maxDist \in Nat \ {0} /\ left \in Nat
    OBVIOUS
<1>2. Points(d, largest) = left \div maxDist
    BY DEF Points
<1> HIDE DEF maxDist, left
<1>3. (left \div maxDist) * maxDist <= left /\ left < ((left \div maxDist) + 1) * maxDist
    BY <1>1, Division
<1> QED
    BY <1>2, <1>3 DEF maxDist, left

\* A sorted sequence of as many numbers of a set as there are has them all, and the
\* largest one at its end.
LEMMA Sorted ==
    ASSUME NEW K \in SUBSET Nat, IsFiniteSet(K), NEW ds \in [1..Cardinality(K) -> K],
           \A i, j \in DOMAIN ds : i < j => ds[i] < ds[j]
    PROVE  /\ \A k \in K : \E i \in 1..Cardinality(K) : ds[i] = k
           /\ K # {} => Cardinality(K) \in 1..Cardinality(K)
           /\ \A k \in K : k <= ds[Cardinality(K)]
<1>1. PICK n \in Nat : n = Cardinality(K) /\ (n = 0 <=> K = {})
    BY FS_CardinalityType, FS_EmptySet
<1>2. /\ ds \in [1..n -> K] /\ \A i, j \in 1..n : i < j => ds[i] < ds[j]
      /\ \A i \in 1..n : ds[i] \in Nat
    BY <1>1
<1>3. ds \in Injection(1..n, K)
  <2>1. ASSUME NEW i \in 1..n, NEW j \in 1..n, i # j PROVE ds[i] # ds[j]
    <3>1. i < j \/ j < i
      BY <2>1
    <3> QED
      BY <1>2, <3>1
  <2> QED
    BY <1>2, <2>1 DEF Injection, IsInjective
<1>4. Cardinality(1..n) = Cardinality(K)
    BY <1>1, FS_Interval
<1>5. ds \in Surjection(1..n, K)
    BY <1>3, <1>4, FS_Injection
<1>6. \A k \in K : \E i \in 1..n : ds[i] = k
    BY <1>5 DEF Surjection
<1>7. K # {} => n \in 1..n
  <2>1. n # 0 => n \in 1..n
    OBVIOUS
  <2> QED
    BY <1>1, <2>1
<1>8. ASSUME NEW k \in K PROVE k <= ds[n]
  <2>1. PICK i \in 1..n : ds[i] = k
    BY <1>6
  <2>2. n \in 1..n /\ (i = n \/ i < n)
    BY <2>1
  <2> QED
    BY <1>2, <2>1, <2>2
<1> QED
    BY <1>1, <1>6, <1>7, <1>8

-----------------------------------------------------------------------------
(* The steps *)

LEMMA InitIInv == Init => IInv
<1> SUFFICES ASSUME Init PROVE IInv
    OBVIOUS
<1>1. PICK S \in SUBSET Player : S # {} /\ players \in [S -> Dist]
    BY DEF Init
<1>2. /\ todo = DOMAIN players /\ byDist = [d \in Dist |-> NoPlayer] /\ ids = <<>> /\ rows = <<>>
      /\ Keys = {} /\ ids \in Seq(Player)
    BY DEF Init, Keys
<1> QED
    BY <1>1, <1>2 DEF IInv, GroupInv, RowsInv

LEMMA GroupStep == ASSUME IInv, NEW p \in Player, Group(p) PROVE IInv'
<1> USE DEF IInv, GroupInv
<1>1. /\ p \in todo /\ todo' = todo \ {p}
      /\ byDist' = [byDist EXCEPT ![players[p]] = p]
      /\ ids' = Append(ids, p)
      /\ UNCHANGED <<players, rows, sent>>
    BY DEF Group
<1>2. p \in DOMAIN players /\ players[p] \in Dist /\ p # NoPlayer
    BY <1>1, RankAssumption
<1>3. byDist' \in [Dist -> Player \cup {NoPlayer}]
    BY <1>1
<1>4. byDist'[players[p]] = p /\ \A d \in Dist \ {players[p]} : byDist'[d] = byDist[d]
    BY <1>1, <1>2
<1>5. Keys' = Keys \cup {players[p]}
    BY <1>2, <1>4 DEF Keys
<1>6. \A d \in Keys' : byDist'[d] \in DOMAIN players /\ players[byDist'[d]] = d
    BY <1>2, <1>4, <1>5 DEF Keys
<1>7. ids' \in Seq(Player) /\ p \in ToSet(ids') /\ ToSet(ids) \subseteq ToSet(ids')
  <2>1. /\ ids' \in Seq(Player) /\ Len(ids') = Len(ids) + 1 /\ ids'[Len(ids) + 1] = p
        /\ \A i \in 1..Len(ids) : ids'[i] = ids[i]
    BY <1>1, AppendProperties
  <2>2. Len(ids) \in Nat /\ DOMAIN ids = 1..Len(ids) /\ DOMAIN ids' = 1..(Len(ids) + 1)
    BY <2>1, LenProperties
  <2>3. Len(ids) + 1 \in DOMAIN ids' /\ \A i \in DOMAIN ids : i \in DOMAIN ids'
    BY <2>2
  <2> QED
    BY <2>1, <2>2, <2>3 DEF ToSet
<1>8. \A q \in DOMAIN players \ todo' : players[q] \in Keys' /\ q \in ToSet(ids')
    BY <1>1, <1>5, <1>7
<1>9. RowsInv'
    BY <1>1 DEF RowsInv
<1> QED
    BY <1>1, <1>3, <1>6, <1>7, <1>8, <1>9

LEMMA RankRowsStep == ASSUME IInv, RankRows PROVE IInv'
<1>1. UNCHANGED <<players, todo, byDist, ids>> /\ todo = {}
    BY DEF RankRows
<1>2. GroupInv'
    BY <1>1 DEF IInv, GroupInv, Keys, ToSet
<1>3. PICK ds \in Distances : rows' = PlayerRank(ds)
    BY DEF RankRows
<1>4. ds \in Distances' /\ rows' = PlayerRank(ds)'
    BY <1>1, <1>3 DEF Distances, Keys, PlayerRank
<1> QED
    BY <1>1, <1>2, <1>4 DEF IInv, RowsInv

LEMMA PublishStep == ASSUME IInv, Publish \/ UNCHANGED vars PROVE IInv'
<1>1. UNCHANGED <<players, todo, byDist, ids, rows>>
    BY DEF Publish, vars
<1>2. GroupInv'
    BY <1>1 DEF IInv, GroupInv, Keys, ToSet
<1>3. Keys' = Keys /\ \A ds : PlayerRank(ds)' = PlayerRank(ds)
    BY <1>1 DEF Keys, PlayerRank
<1>4. Distances' = Distances
    BY <1>3 DEF Distances
<1>5. RowsInv'
    BY <1>1, <1>3, <1>4 DEF IInv, RowsInv
<1> QED
    BY <1>2, <1>5 DEF IInv

\* Whatever the order Go visits the map in, the map of distances keeps a player of
\* each distance, and the rows are those of its sorted keys: ByPlayersDistanceToTarget.
THEOREM Inductive == Spec => []IInv
<1>1. IInv /\ [Next]_vars => IInv'
    BY GroupStep, RankRowsStep, PublishStep DEF Next, Published
<1> QED
    BY <1>1, InitIInv, PTL DEF Spec

-----------------------------------------------------------------------------
(* The rank *)

\* The rows: one for each distance at which there is a player, the closest first.
LEMMA RowsOfRank ==
    ASSUME IInv, rows # <<>>
    PROVE  \E ds : \E n \in Nat \ {0} :
             /\ DOMAIN rows = 1..n /\ DOMAIN ds = 1..n
             /\ \A i \in 1..n : /\ ds[i] \in Nat
                                /\ rows[i].player \in DOMAIN players
                                /\ players[rows[i].player] = ds[i]
                                /\ rows[i].points = Points(ds[i], ds[n])
             /\ \A i, j \in 1..n : i < j => ds[i] < ds[j]
             /\ \A p \in DOMAIN players :
                    players[p] <= ds[n] /\ \E i \in 1..n : ds[i] = players[p]
<1> USE DEF IInv, GroupInv
<1>1. PICK ds \in Distances : rows = PlayerRank(ds)
    BY DEF RowsInv
<1>2. todo = {} /\ \A p \in DOMAIN players : players[p] \in Keys
    BY DEF RowsInv
<1>3. Keys \in SUBSET Nat /\ Keys # {}
    BY <1>2, RankAssumption DEF Keys
<1>4. IsFiniteSet(Keys)
  <2> DEFINE f == [d \in Keys |-> byDist[d]]
  <2>1. f \in Injection(Keys, Player)
    BY DEF Injection, IsInjective
  <2> QED
    BY <2>1, RankAssumption, FS_Injection
<1>5. PICK n \in Nat : n = Cardinality(Keys)
    BY <1>4, FS_CardinalityType
<1>6. /\ ds \in [1..n -> Keys] /\ DOMAIN ds = 1..n
      /\ \A i, j \in 1..n : i < j => ds[i] < ds[j]
    BY <1>1, <1>5 DEF Distances
<1>7. /\ \A k \in Keys : k <= ds[n] /\ \E i \in 1..n : ds[i] = k
      /\ n \in 1..n
    BY <1>3, <1>4, <1>5, <1>6, Sorted
<1>8. Cardinality(DOMAIN ds) = n
    BY <1>6, FS_Interval
<1>9. /\ DOMAIN rows = 1..n
      /\ \A i \in 1..n : rows[i].player = byDist[ds[i]] /\ rows[i].points = Points(ds[i], ds[n])
    BY <1>1, <1>6, <1>8 DEF PlayerRank
<1>10. \A i \in 1..n : ds[i] \in Keys /\ ds[i] \in Nat
    BY <1>3, <1>6
<1>11. n \in Nat \ {0}
    BY <1>7
<1>12. \A i \in 1..n : rows[i].player \in DOMAIN players /\ players[rows[i].player] = ds[i]
    BY <1>9, <1>10
<1>13. \A p \in DOMAIN players :
            players[p] <= ds[n] /\ \E i \in 1..n : ds[i] = players[p]
    BY <1>2, <1>7
<1> HIDE DEF IInv, GroupInv
<1> QED
    BY <1>6, <1>9, <1>10, <1>11, <1>12, <1>13

\* The rank of a round goes from the closest to the farthest, with the points that
\* the distance leaves of the largest one: ByPlayersDistanceToTarget.
THEOREM RankIsByDistanceAlways == Spec => []RankIsByDistance
<1>1. IInv => RankIsByDistance
  <2> SUFFICES ASSUME IInv, rows # <<>> PROVE RankIsByDistance
    BY DEF RankIsByDistance
  <2>1. PICK ds : \E n \in Nat \ {0} :
             /\ DOMAIN rows = 1..n /\ DOMAIN ds = 1..n
             /\ \A i \in 1..n : /\ ds[i] \in Nat
                                /\ rows[i].player \in DOMAIN players
                                /\ players[rows[i].player] = ds[i]
                                /\ rows[i].points = Points(ds[i], ds[n])
             /\ \A i, j \in 1..n : i < j => ds[i] < ds[j]
             /\ \A p \in DOMAIN players :
                    players[p] <= ds[n] /\ \E i \in 1..n : ds[i] = players[p]
    BY RowsOfRank
  <2>2. PICK n \in Nat \ {0} :
             /\ DOMAIN rows = 1..n
             /\ \A i \in 1..n : /\ ds[i] \in Nat
                                /\ rows[i].player \in DOMAIN players
                                /\ players[rows[i].player] = ds[i]
                                /\ rows[i].points = Points(ds[i], ds[n])
             /\ \A i, j \in 1..n : i < j => ds[i] < ds[j]
             /\ \A p \in DOMAIN players : players[p] <= ds[n]
    BY <2>1
  <2>3. n \in 1..n
    OBVIOUS
  <2>4. ASSUME NEW i \in 1..n
        PROVE  /\ \A j \in 1..(i - 1) : players[rows[j].player] < players[rows[i].player]
               /\ \E p \in DOMAIN players :
                   LET maxDist == players[p] + 1
                       left    == 100 * (maxDist - players[rows[i].player])
                   IN  /\ \A q \in DOMAIN players : players[q] <= players[p]
                       /\ rows[i].points * maxDist <= left
                       /\ left < (rows[i].points + 1) * maxDist
    <3>1. \A j \in 1..(i - 1) : j \in 1..n /\ j < i
      BY <2>2
    <3>2. \A j \in 1..(i - 1) : players[rows[j].player] < players[rows[i].player]
      BY <2>2, <3>1
    <3>3. rows[n].player \in DOMAIN players /\ players[rows[n].player] = ds[n] /\ ds[n] \in Nat
      BY <2>2, <2>3
    <3>4. ds[i] \in Nat /\ ds[i] <= ds[n]
      BY <2>2
    <3>5. LET maxDist == ds[n] + 1
              left    == 100 * (maxDist - ds[i])
          IN  /\ rows[i].points * maxDist <= left
              /\ left < (rows[i].points + 1) * maxDist
      BY <2>2, <3>3, <3>4, PointsOf
    <3> QED
      BY <2>2, <3>2, <3>3, <3>5
  <2> QED
    BY <2>2, <2>4 DEF RankIsByDistance
<1> QED
    BY <1>1, Inductive, PTL

\* Nobody who was still in the round is left out of the message or, but for a player
\* at the same distance, of the rank: ByPlayersDistanceToTarget.
THEOREM OnlyTiesAreDroppedAlways == Spec => []OnlyTiesAreDropped
<1>1. IInv => OnlyTiesAreDropped
  <2> SUFFICES ASSUME IInv, rows # <<>>, NEW p \in DOMAIN players
               PROVE  /\ p \in ToSet(ids)
                      /\ \E i \in DOMAIN rows : players[rows[i].player] = players[p]
    BY DEF OnlyTiesAreDropped
  <2>1. p \in ToSet(ids)
    BY DEF IInv, GroupInv, RowsInv
  <2>2. \E i \in DOMAIN rows : players[rows[i].player] = players[p]
    BY RowsOfRank
  <2> QED
    BY <2>1, <2>2
<1> QED
    BY <1>1, Inductive, PTL

=============================================================================
