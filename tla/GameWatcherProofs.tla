------------------------- MODULE GameWatcherProofs -------------------------
(***************************************************************************)
(* The registry of games, for any number of fences and of detections: the  *)
(* safety properties of GameWatcher are consequences of one inductive      *)
(* invariant.                                                              *)
(***************************************************************************)
EXTENDS GameWatcher, TLAPS

\* Whoever has not created a game has none; entries are games of their fence, and
\* only games are cancelled.
GamesAreMade ==
    /\ \A w \in Watch : wPc[w] \in {"off", "check", "create"} => phase[w] = "none"
    /\ \A f \in Fence : games[f] # NoWatch =>
           phase[games[f]] # "none" /\ fence[games[f]] = f
    /\ \A w \in Watch : cancelled[w] => phase[w] # "none"

\* Whoever is inside cancel() holds a game of its own fence.
CallsHoldGames ==
    \A k \in Canceller :
        IF at[k] = "look" THEN held[k] = NoWatch
        ELSE /\ Cancelling(k)
             /\ held[k] \in Watch
             /\ phase[held[k]] # "none"
             /\ fence[held[k]] = fence[k[1]]

\* watchGame cancels the games whose observer failed, and no others.
FailedAreCancelled ==
    \A w \in Watch :
        /\ wPc[w] \in {"cancel", "cancelAgain"} => w \in hist.failed
        /\ w \in hist.failed => wPc[w] \in {"cancel", "cancelAgain", "ended"}

\* A detection about to create a game where there is one was overtaken.
OvertakenAreLate ==
    \A w \in Watch : wPc[w] = "create" /\ games[fence[w]] # NoWatch => w \in hist.late

\* Once watchGame has deleted the entry, its caller cannot find that game again.
SecondCancelMisses ==
    \A w \in Watch :
        LET k == <<w, "watch">>
        IN  /\ wPc[w] = "cancel" /\ at[k] = "cancel" => games[fence[w]] # w
            /\ wPc[w] = "cancelAgain" => games[fence[w]] # w /\ held[k] # w

\* At a fence without trouble a game that is not over has its entry until its own
\* finish deletes it, and nobody cancels it.
SoundGamesAreTheirs ==
    \A w \in Watch : Live(w) /\ ~Troubled(fence[w]) =>
        LET k == <<w, "finish">>
        IN  /\ ~cancelled[w]
            /\ at[k] # "cancel" => games[fence[w]] = w
            /\ at[k] # "look" => held[k] = w

IInv ==
    /\ TypeOK /\ GamesAreMade /\ CallsHoldGames /\ FailedAreCancelled
    /\ OvertakenAreLate /\ SecondCancelMisses /\ FailuresAreFatal
    /\ SoundGamesAreTheirs /\ LiveGamesAreRegistered

-----------------------------------------------------------------------------

LEMMA InitIInv == Init => IInv
<1> SUFFICES ASSUME Init PROVE IInv
    OBVIOUS
<1>1. TypeOK
    BY DEF Init, TypeOK, History
<1>2. GamesAreMade /\ CallsHoldGames /\ FailedAreCancelled /\ OvertakenAreLate
    BY DEF Init, GamesAreMade, CallsHoldGames, FailedAreCancelled, OvertakenAreLate
<1>3. SecondCancelMisses /\ FailuresAreFatal
    BY DEF Init, SecondCancelMisses, FailuresAreFatal
<1>4. SoundGamesAreTheirs /\ LiveGamesAreRegistered
    BY DEF Init, SoundGamesAreTheirs, Live, LiveGamesAreRegistered
<1> QED
    BY <1>1, <1>2, <1>3, <1>4 DEF IInv

\* A step that leaves the games, their contexts, the registry and the calls of
\* cancel() alone, and moves no goroutine back before the creation of its game, to
\* a creation over an entry, or to a cancellation.
LEMMA QuietStep ==
    ASSUME IInv, TypeOK',
           UNCHANGED <<games, fence, cancelled, phase, callVars, hist>>,
           \A w \in Watch : parentDone[w] /\ ~(wPc[w] \in {"off", "check", "create"}) => parentDone'[w],
           \A w \in Watch : wPc'[w] # wPc[w] =>
               /\ wPc[w] \in {"off", "check"}
               /\ ~(wPc'[w] \in {"cancel", "cancelAgain"})
               /\ wPc'[w] = "create" => games[fence[w]] = NoWatch
    PROVE  IInv'
<1> USE DEF IInv, callVars
<1>1. GamesAreMade' /\ OvertakenAreLate'
    BY DEF GamesAreMade, OvertakenAreLate
<1>2. CallsHoldGames'
  <2> SUFFICES ASSUME NEW k \in Canceller
               PROVE  IF at'[k] = "look" THEN held'[k] = NoWatch
                      ELSE Cancelling(k)' /\ held'[k] \in Watch
                           /\ phase'[held'[k]] # "none" /\ fence'[held'[k]] = fence'[k[1]]
    BY DEF CallsHoldGames
  <2>1. k[1] \in Watch
    BY DEF Canceller
  <2>2. Cancelling(k) => Cancelling(k)'
    BY <2>1 DEF Cancelling
  <2> QED
    BY <2>2 DEF CallsHoldGames
<1>3. FailedAreCancelled'
    BY DEF FailedAreCancelled
<1>4. SecondCancelMisses'
    BY DEF SecondCancelMisses
<1>5. FailuresAreFatal'
    BY DEF FailuresAreFatal, FailedAreCancelled, TypeOK, History
<1>6. SoundGamesAreTheirs'
    BY DEF SoundGamesAreTheirs, Live, Troubled
<1>7. LiveGamesAreRegistered'
    BY DEF LiveGamesAreRegistered, Live, CtxDone, GamesAreMade
<1> QED
    BY <1>1, <1>2, <1>3, <1>4, <1>5, <1>6, <1>7

\* The loop and what cancels its context, the checks, the observers, and what ends
\* the process.
LEMMA QuietActionsPreserve ==
    ASSUME IInv,
           \/ LoopStep \/ Clear \/ Shutdown \/ MapFault
           \/ \E w \in Watch : GameDies(w) \/ Check(w) \/ Detect(w) \/ ObserverMoves(w)
    PROVE  IInv'
<1> USE DEF loopVars, gameVars, callVars
<1>1. CASE LoopStep
    BY <1>1, QuietStep DEF LoopStep, LoopTurn, LoopDials, LoopStops, IInv, TypeOK
<1>2. CASE Clear \/ Shutdown
  <2>1. /\ cleared' \in BOOLEAN /\ shutdown' \in BOOLEAN
        /\ parentDone' = [w \in Watch |-> parentDone[w] \/ wPc[w] # "off"]
        /\ UNCHANGED <<loop, games, wPc, fence, cancelled, obs, phase, at, held,
                       crash, hist>>
    BY <1>2 DEF Clear, Shutdown, CancelParents, IInv, TypeOK
  <2>2. TypeOK'
    BY <2>1 DEF IInv, TypeOK
  <2> QED
    BY <2>1, <2>2, QuietStep
<1>3. CASE MapFault
    BY <1>3, QuietStep DEF MapFault, IInv, TypeOK
<1>4. ASSUME NEW w \in Watch, GameDies(w) PROVE IInv'
    BY <1>4, QuietStep DEF GameDies, IInv, TypeOK
<1>5. ASSUME NEW w \in Watch, Check(w) PROVE IInv'
    BY <1>5, QuietStep DEF Check, IInv, TypeOK
<1>6. ASSUME NEW w \in Watch, Detect(w) PROVE IInv'
    BY <1>6, QuietStep DEF Detect, IInv, TypeOK
<1>7. ASSUME NEW w \in Watch, ObserverMoves(w) PROVE IInv'
    BY <1>7, QuietStep DEF ObserverMoves, IInv, TypeOK
<1> QED
    BY <1>1, <1>2, <1>3, <1>4, <1>5, <1>6, <1>7

\* A new game takes a free entry, or it replaces the entry of a game made since its
\* detection found none, which is noted.
LEMMA CreatePreserves ==
    ASSUME IInv, NEW w \in Watch, Create(w)
    PROVE  IInv'
<1> USE WatcherAssumption DEF loopVars, gameVars, callVars, IInv
<1> DEFINE f == fence[w]
<1>1. /\ phase[w] = "none" /\ ~cancelled[w] /\ f \in Fence /\ wPc[w] = "create"
      /\ w \notin hist.failed
    BY DEF Create, GamesAreMade, TypeOK, FailedAreCancelled
<1>2. /\ hist'.failed = hist.failed /\ hist'.robbed = hist.robbed
      /\ hist'.late = hist.late \cup {v \in Watch : wPc[v] = "create" /\ fence[v] = f}
      /\ hist'.doubled = hist.doubled \cup ({games[f]} \ {NoWatch})
      /\ hist' \in History
  <2> DEFINE L == hist.late \cup {v \in Watch : wPc[v] = "create" /\ fence[v] = f}
             D == IF w \in hist.late THEN hist.doubled \cup ({games[f]} \ {NoWatch})
                                     ELSE hist.doubled
  <2>1. hist' = [hist EXCEPT !.late = L, !.doubled = D]
    BY DEF Create
  <2>2. D = hist.doubled \cup ({games[f]} \ {NoWatch})
    BY <1>1 DEF OvertakenAreLate
  <2>3. games[f] \in Watch \cup {NoWatch} /\ hist \in History
    BY <1>1 DEF TypeOK
  <2>4. L \subseteq Watch /\ D \subseteq Watch
    BY <2>2, <2>3 DEF History
  <2> HIDE DEF L, D
  <2>5. /\ hist'.failed = hist.failed /\ hist'.robbed = hist.robbed
        /\ hist'.late = L /\ hist'.doubled = D /\ hist' \in History
    BY <2>1, <2>3, <2>4 DEF History
  <2> QED
    BY <2>2, <2>5 DEF L
<1>3. /\ wPc' = [wPc EXCEPT ![w] = "wait"]
      /\ games' = [games EXCEPT ![f] = w]
      /\ obs' = [obs EXCEPT ![w] = "dialing"]
      /\ phase' = [phase EXCEPT ![w] = "lobby"]
      /\ UNCHANGED <<loopVars, fence, parentDone, cancelled, callVars, crash>>
    BY DEF Create
<1>4. TypeOK'
    BY <1>2, <1>3 DEF TypeOK
<1>5. GamesAreMade'
    BY <1>1, <1>3 DEF GamesAreMade, TypeOK
<1>6. CallsHoldGames'
  <2> SUFFICES ASSUME NEW k \in Canceller
               PROVE  IF at'[k] = "look" THEN held'[k] = NoWatch
                      ELSE Cancelling(k)' /\ held'[k] \in Watch
                           /\ phase'[held'[k]] # "none" /\ fence'[held'[k]] = fence'[k[1]]
    BY DEF CallsHoldGames
  <2>1. k[1] \in Watch
    BY DEF Canceller
  <2>2. Cancelling(k) => Cancelling(k)'
    BY <1>1, <1>3, <2>1 DEF Cancelling, TypeOK
  <2> QED
    BY <1>3, <2>2 DEF CallsHoldGames, TypeOK
<1>7. FailedAreCancelled'
    BY <1>1, <1>2, <1>3 DEF FailedAreCancelled, TypeOK
<1>8. OvertakenAreLate'
    BY <1>1, <1>2, <1>3 DEF OvertakenAreLate, TypeOK
<1>9. SecondCancelMisses'
    BY <1>1, <1>3 DEF SecondCancelMisses, TypeOK
<1>10. FailuresAreFatal'
    BY <1>1, <1>2, <1>3 DEF FailuresAreFatal, TypeOK, History
<1>11. SoundGamesAreTheirs'
  <2> SUFFICES ASSUME NEW v \in Watch, Live(v)', ~Troubled(fence[v])'
               PROVE  /\ ~cancelled'[v]
                      /\ at'[<<v, "finish">>] # "cancel" => games'[fence'[v]] = v
                      /\ at'[<<v, "finish">>] # "look" => held'[<<v, "finish">>] = v
    BY <1>3 DEF SoundGamesAreTheirs
  <2>1. CASE v = w
    <3>1. at[<<w, "finish">>] = "look"
      BY <1>1 DEF CallsHoldGames, Canceller, Cancelling
    <3> QED
      BY <1>1, <1>3, <2>1, <3>1 DEF TypeOK
  <2>2. CASE v # w
    <3>1. Live(v) /\ ~Troubled(fence[v])
      BY <1>2, <1>3, <2>2 DEF Live, Troubled, TypeOK
    <3>2. fence[v] # f \/ at[<<v, "finish">>] = "cancel"
      <4> SUFFICES ASSUME fence[v] = f, at[<<v, "finish">>] # "cancel" PROVE FALSE
        OBVIOUS
      <4>1. games[f] = v
        BY <3>1 DEF SoundGamesAreTheirs
      <4>2. v \in hist'.doubled
        BY <1>2, <4>1
      <4> QED
        BY <1>3, <4>2 DEF Troubled
    <3> QED
      BY <1>3, <3>1, <3>2 DEF SoundGamesAreTheirs, TypeOK
  <2> QED
    BY <2>1, <2>2
<1>12. LiveGamesAreRegistered'
  <2> SUFFICES ASSUME NEW v \in Watch, Live(v)', ~CtxDone(v)'
               PROVE  \/ games'[fence'[v]] = v
                      \/ \E k \in Canceller : at'[k] = "cancel" /\ held'[k] = v
                      \/ v \in hist'.robbed \/ v \in hist'.doubled
    BY DEF LiveGamesAreRegistered
  <2>1. CASE v = w
    BY <1>1, <1>3, <2>1 DEF TypeOK
  <2>2. CASE v # w
    <3>1. Live(v) /\ ~CtxDone(v)
      BY <1>3, <2>2 DEF Live, CtxDone, TypeOK
    <3>2. \/ games[fence[v]] = v
          \/ \E k \in Canceller : at[k] = "cancel" /\ held[k] = v
          \/ v \in hist.robbed \/ v \in hist.doubled
      BY <3>1 DEF LiveGamesAreRegistered
    <3>3. CASE games[fence[v]] = v
      BY <1>1, <1>2, <1>3, <3>3 DEF TypeOK
    <3> QED
      BY <1>2, <1>3, <3>2, <3>3
  <2> QED
    BY <2>1, <2>2
<1> QED
    BY <1>4, <1>5, <1>6, <1>7, <1>8, <1>9, <1>10, <1>11, <1>12

\* What the observer returned is received, and an error noted.
LEMMA ReceivePreserves ==
    ASSUME IInv, NEW w \in Watch, Receive(w)
    PROVE  IInv'
<1> USE DEF loopVars, gameVars, callVars, IInv
<1>1. /\ wPc[w] = "wait"
      /\ \/ wPc' = [wPc EXCEPT ![w] = "ended"] /\ hist' = hist
         \/ /\ wPc' = [wPc EXCEPT ![w] = "cancel"]
            /\ hist' = [hist EXCEPT !.failed = @ \cup {w}]
      /\ UNCHANGED <<loopVars, games, fence, parentDone, cancelled, gameVars,
                     callVars, crash>>
    BY DEF Receive
<1>2. /\ hist'.late = hist.late /\ hist'.robbed = hist.robbed
      /\ hist'.doubled = hist.doubled /\ hist' \in History
      /\ hist.failed \subseteq hist'.failed
    BY <1>1 DEF TypeOK, History
<1>3. at[<<w, "watch">>] = "look" /\ held[<<w, "watch">>] = NoWatch
    BY <1>1 DEF CallsHoldGames, Canceller, Cancelling
<1>4. TypeOK'
    BY <1>1, <1>2 DEF TypeOK
<1>5. GamesAreMade'
    BY <1>1 DEF GamesAreMade, TypeOK
<1>6. CallsHoldGames'
  <2> SUFFICES ASSUME NEW k \in Canceller
               PROVE  IF at'[k] = "look" THEN held'[k] = NoWatch
                      ELSE Cancelling(k)' /\ held'[k] \in Watch
                           /\ phase'[held'[k]] # "none" /\ fence'[held'[k]] = fence'[k[1]]
    BY DEF CallsHoldGames
  <2>1. k[1] \in Watch
    BY DEF Canceller
  <2>2. Cancelling(k) => Cancelling(k)'
    BY <1>1, <2>1 DEF Cancelling, TypeOK
  <2> QED
    BY <1>1, <2>2 DEF CallsHoldGames, TypeOK
<1>7. FailedAreCancelled'
    BY <1>1 DEF FailedAreCancelled, TypeOK, History
<1>8. OvertakenAreLate'
    BY <1>1, <1>2 DEF OvertakenAreLate, TypeOK
<1>9. SecondCancelMisses'
    BY <1>1, <1>3 DEF SecondCancelMisses, TypeOK
<1>10. FailuresAreFatal'
  <2> SUFFICES ASSUME NEW v \in Watch, v \in hist'.failed, wPc'[v] = "ended"
               PROVE  \E u \in Watch \ {v} : fence'[u] = fence'[v] /\ cancelled'[u]
    BY <1>2 DEF FailuresAreFatal, History
  <2>1. v \in hist.failed /\ wPc[v] = "ended"
    BY <1>1 DEF FailedAreCancelled, TypeOK, History
  <2> QED
    BY <1>1, <2>1 DEF FailuresAreFatal
<1>11. SoundGamesAreTheirs'
    BY <1>1, <1>2 DEF SoundGamesAreTheirs, Live, Troubled
<1>12. LiveGamesAreRegistered'
    BY <1>1, <1>2 DEF LiveGamesAreRegistered, Live, CtxDone
<1> QED
    BY <1>4, <1>5, <1>6, <1>7, <1>8, <1>9, <1>10, <1>11, <1>12

\* The game moves on, up to the end of the round.
LEMMA MovePreserves ==
    ASSUME IInv, NEW w \in Watch, GameMoves(w)
    PROVE  IInv'
<1> USE DEF loopVars, gameVars, callVars, IInv
<1>1. /\ \/ phase[w] = "lobby" /\ phase' = [phase EXCEPT ![w] = "playing"]
         \/ phase[w] = "lobby" /\ phase' = [phase EXCEPT ![w] = "cancelled"]
         \/ phase[w] = "playing" /\ phase' = [phase EXCEPT ![w] = "closing"]
      /\ UNCHANGED <<loopVars, games, wPc, fence, parentDone, cancelled, obs,
                     callVars, crash, hist>>
    BY DEF GameMoves
<1>2. TypeOK'
    BY <1>1 DEF TypeOK
<1>3. GamesAreMade' /\ FailedAreCancelled' /\ OvertakenAreLate'
    BY <1>1 DEF GamesAreMade, FailedAreCancelled, OvertakenAreLate, TypeOK
<1>4. CallsHoldGames'
  <2> SUFFICES ASSUME NEW k \in Canceller
               PROVE  IF at'[k] = "look" THEN held'[k] = NoWatch
                      ELSE Cancelling(k)' /\ held'[k] \in Watch
                           /\ phase'[held'[k]] # "none" /\ fence'[held'[k]] = fence'[k[1]]
    BY DEF CallsHoldGames
  <2>1. k[1] \in Watch
    BY DEF Canceller
  <2>2. Cancelling(k) => Cancelling(k)'
    BY <1>1, <2>1 DEF Cancelling, TypeOK
  <2> QED
    BY <1>1, <2>2 DEF CallsHoldGames, TypeOK
<1>5. SecondCancelMisses' /\ FailuresAreFatal'
    BY <1>1 DEF SecondCancelMisses, FailuresAreFatal
<1>6. SoundGamesAreTheirs'
    BY <1>1 DEF SoundGamesAreTheirs, Live, Troubled, TypeOK
<1>7. LiveGamesAreRegistered'
    BY <1>1 DEF LiveGamesAreRegistered, Live, CtxDone, TypeOK
<1> QED
    BY <1>2, <1>3, <1>4, <1>5, <1>6, <1>7

-----------------------------------------------------------------------------
(* cancel(), for the game k[1] *)

\* The lookup: a goroutine that has none but its own game at its fence finds it.
LEMMA LooksPreserves ==
    ASSUME IInv, NEW k \in Canceller, Looks(k)
    PROVE  IInv'
<1> USE WatcherAssumption DEF loopVars, gameVars, IInv
<1> DEFINE w == k[1]
           owner == games[fence[w]]
<1>1. /\ w \in Watch /\ fence[w] \in Fence /\ owner \in Watch \cup {NoWatch}
      /\ k = <<w, "watch">> \/ k = <<w, "finish">>
    BY DEF Canceller, TypeOK
<1>2. /\ Cancelling(k) /\ at[k] = "look"
      /\ UNCHANGED <<loopVars, games, wPc, fence, parentDone, cancelled, gameVars, hist>>
    BY DEF Looks
<1>3. CASE owner = NoWatch /\ crash' = "nilEntry" /\ UNCHANGED callVars
  <2>1. TypeOK'
    BY <1>2, <1>3 DEF callVars, TypeOK
  <2>2. /\ GamesAreMade' /\ CallsHoldGames' /\ FailedAreCancelled'
        /\ OvertakenAreLate' /\ SecondCancelMisses' /\ FailuresAreFatal'
    BY <1>2, <1>3 DEF callVars, GamesAreMade, CallsHoldGames, Cancelling,
       FailedAreCancelled, OvertakenAreLate, SecondCancelMisses, FailuresAreFatal
  <2>3. SoundGamesAreTheirs' /\ LiveGamesAreRegistered'
    BY <1>2, <1>3 DEF callVars, SoundGamesAreTheirs, Live, Troubled,
       LiveGamesAreRegistered, CtxDone
  <2> QED
    BY <2>1, <2>2, <2>3
<1>4. CASE owner # NoWatch /\ at' = [at EXCEPT ![k] = "delete"]
           /\ held' = [held EXCEPT ![k] = owner] /\ UNCHANGED crash
  <2>1. TypeOK'
    BY <1>1, <1>2, <1>4 DEF TypeOK
  <2>2. GamesAreMade' /\ FailedAreCancelled' /\ OvertakenAreLate' /\ FailuresAreFatal'
    BY <1>2 DEF GamesAreMade, FailedAreCancelled, OvertakenAreLate, FailuresAreFatal
  <2>3. CallsHoldGames'
    <3>1. phase[owner] # "none" /\ fence[owner] = fence[w]
      BY <1>1, <1>4 DEF GamesAreMade
    <3> QED
      BY <1>1, <1>2, <1>4, <3>1 DEF CallsHoldGames, Cancelling, TypeOK
  <2>4. SecondCancelMisses'
    <3> SUFFICES ASSUME NEW v \in Watch
                 PROVE  LET j == <<v, "watch">>
                        IN  /\ wPc'[v] = "cancel" /\ at'[j] = "cancel" => games'[fence'[v]] # v
                            /\ wPc'[v] = "cancelAgain" => games'[fence'[v]] # v /\ held'[j] # v
      BY DEF SecondCancelMisses
    <3>1. <<v, "watch">> \in Canceller /\ (k = <<v, "watch">> => w = v)
      BY DEF Canceller
    <3> QED
      BY <1>2, <1>4, <3>1 DEF SecondCancelMisses, TypeOK
  <2>5. SoundGamesAreTheirs'
    <3> SUFFICES ASSUME NEW v \in Watch, Live(v)', ~Troubled(fence[v])'
                 PROVE  LET j == <<v, "finish">>
                        IN  /\ ~cancelled'[v]
                            /\ at'[j] # "cancel" => games'[fence'[v]] = v
                            /\ at'[j] # "look" => held'[j] = v
      BY <1>2 DEF SoundGamesAreTheirs
    <3>1. Live(v) /\ ~Troubled(fence[v])
      BY <1>2 DEF Live, Troubled
    <3>2. <<v, "finish">> \in Canceller /\ (k = <<v, "finish">> => w = v)
      BY DEF Canceller
    <3> QED
      BY <1>2, <1>4, <3>1, <3>2 DEF SoundGamesAreTheirs, TypeOK
  <2>6. LiveGamesAreRegistered'
    <3> SUFFICES ASSUME NEW v \in Watch, Live(v)', ~CtxDone(v)'
                 PROVE  \/ games'[fence'[v]] = v
                        \/ \E j \in Canceller : at'[j] = "cancel" /\ held'[j] = v
                        \/ v \in hist'.robbed \/ v \in hist'.doubled
      BY DEF LiveGamesAreRegistered
    <3>1. \/ games[fence[v]] = v
          \/ \E j \in Canceller : at[j] = "cancel" /\ held[j] = v
          \/ v \in hist.robbed \/ v \in hist.doubled
      BY <1>2 DEF LiveGamesAreRegistered, Live, CtxDone
    <3>2. ASSUME NEW j \in Canceller, at[j] = "cancel", held[j] = v
          PROVE  at'[j] = "cancel" /\ held'[j] = v
      BY <1>2, <1>4, <3>2 DEF TypeOK
    <3> QED
      BY <1>2, <3>1, <3>2
  <2> QED
    BY <2>1, <2>2, <2>3, <2>4, <2>5, <2>6
<1> QED
    BY <1>2, <1>3, <1>4 DEF Looks

\* The deletion: whoever loses its entry is about to be cancelled, or was robbed.
LEMMA DeletesPreserves ==
    ASSUME IInv, NEW k \in Canceller, Deletes(k)
    PROVE  IInv'
<1> USE WatcherAssumption DEF loopVars, gameVars, IInv
<1> DEFINE w == k[1]
           f == fence[w]
<1>1. /\ w \in Watch /\ f \in Fence /\ games[f] \in Watch \cup {NoWatch}
      /\ k = <<w, "watch">> \/ k = <<w, "finish">>
    BY DEF Canceller, TypeOK
<1>2. /\ at[k] = "delete"
      /\ at' = [at EXCEPT ![k] = "cancel"]
      /\ games' = [games EXCEPT ![f] = NoWatch]
      /\ UNCHANGED <<loopVars, wPc, fence, parentDone, cancelled, gameVars, held, crash>>
    BY DEF Deletes
<1>3. /\ Cancelling(k) /\ held[k] \in Watch /\ fence[held[k]] = f
    BY <1>2 DEF CallsHoldGames
<1>4. /\ hist'.failed = hist.failed /\ hist'.late = hist.late
      /\ hist'.doubled = hist.doubled /\ hist' \in History
      /\ hist'.robbed = hist.robbed \cup ({games[f]} \ {NoWatch, held[k]})
    BY <1>1 DEF Deletes, TypeOK, History
<1>5. TypeOK'
    BY <1>1, <1>2, <1>4 DEF TypeOK
<1>6. GamesAreMade' /\ OvertakenAreLate'
    BY <1>1, <1>2, <1>4 DEF GamesAreMade, OvertakenAreLate, TypeOK
<1>7. FailedAreCancelled' /\ FailuresAreFatal'
    BY <1>2, <1>4 DEF FailedAreCancelled, FailuresAreFatal
<1>8. CallsHoldGames'
    BY <1>2, <1>3 DEF CallsHoldGames, Cancelling, TypeOK
<1>9. SecondCancelMisses'
  <2> SUFFICES ASSUME NEW v \in Watch
               PROVE  LET j == <<v, "watch">>
                      IN  /\ wPc'[v] = "cancel" /\ at'[j] = "cancel" => games'[fence'[v]] # v
                          /\ wPc'[v] = "cancelAgain" => games'[fence'[v]] # v /\ held'[j] # v
    BY DEF SecondCancelMisses
  <2>1. <<v, "watch">> \in Canceller /\ (k = <<v, "watch">> => w = v)
    BY DEF Canceller
  <2> QED
    BY <1>1, <1>2, <2>1 DEF SecondCancelMisses, TypeOK
<1>10. SoundGamesAreTheirs'
  <2> SUFFICES ASSUME NEW v \in Watch, Live(v)', ~Troubled(fence[v])'
               PROVE  LET j == <<v, "finish">>
                      IN  /\ ~cancelled'[v]
                          /\ at'[j] # "cancel" => games'[fence'[v]] = v
                          /\ at'[j] # "look" => held'[j] = v
    BY <1>2 DEF SoundGamesAreTheirs
  <2>1. Live(v) /\ ~Troubled(fence[v])
    BY <1>2, <1>4 DEF Live, Troubled
  <2>2. <<v, "finish">> \in Canceller
    BY DEF Canceller
  <2>3. fence[v] = f => k = <<v, "finish">> \/ at[<<v, "finish">>] = "cancel"
    <3> SUFFICES ASSUME fence[v] = f, at[<<v, "finish">>] # "cancel"
                 PROVE  k = <<v, "finish">>
      OBVIOUS
    <3>1. games[f] = v
      BY <2>1 DEF SoundGamesAreTheirs
    <3>2. k # <<w, "watch">>
      <4> SUFFICES ASSUME k = <<w, "watch">> PROVE FALSE
        OBVIOUS
      <4>1. w \in hist.failed
        BY <1>1, <1>3 DEF Cancelling, FailedAreCancelled
      <4> QED
        BY <2>1, <4>1 DEF Troubled
    <3>3. k = <<w, "finish">> /\ Live(w)
      BY <1>1, <1>3, <3>2 DEF Cancelling, Live
    <3>4. games[f] = w
      BY <1>1, <1>2, <2>1, <3>3 DEF SoundGamesAreTheirs
    <3> QED
      BY <3>1, <3>3, <3>4
  <2> QED
    BY <1>1, <1>2, <2>1, <2>2, <2>3 DEF SoundGamesAreTheirs, TypeOK
<1>11. LiveGamesAreRegistered'
  <2> SUFFICES ASSUME NEW v \in Watch, Live(v)', ~CtxDone(v)'
               PROVE  \/ games'[fence'[v]] = v
                      \/ \E j \in Canceller : at'[j] = "cancel" /\ held'[j] = v
                      \/ v \in hist'.robbed \/ v \in hist'.doubled
    BY DEF LiveGamesAreRegistered
  <2>1. \/ games[fence[v]] = v
        \/ \E j \in Canceller : at[j] = "cancel" /\ held[j] = v
        \/ v \in hist.robbed \/ v \in hist.doubled
    BY <1>2 DEF LiveGamesAreRegistered, Live, CtxDone
  <2>2. ASSUME NEW j \in Canceller, at[j] = "cancel", held[j] = v
        PROVE  at'[j] = "cancel" /\ held'[j] = v
    BY <1>2, <2>2 DEF TypeOK
  <2>3. CASE games[fence[v]] = v
    <3>1. CASE fence[v] # f
      BY <1>1, <1>2, <2>3, <3>1 DEF TypeOK
    <3>2. CASE fence[v] = f /\ held[k] = v
      <4>1. at'[k] = "cancel" /\ held'[k] = v
        BY <1>2, <3>2 DEF TypeOK
      <4> QED
        BY <4>1
    <3>3. CASE fence[v] = f /\ held[k] # v
      <4>1. v \in hist'.robbed
        BY <1>4, <2>3, <3>3
      <4> QED
        BY <4>1
    <3> QED
      BY <3>1, <3>2, <3>3
  <2> QED
    BY <1>4, <2>1, <2>2, <2>3
<1> QED
    BY <1>5, <1>6, <1>7, <1>8, <1>9, <1>10, <1>11

\* The cancellation: at a fence without trouble only a finish comes here, and its
\* own game is over.
LEMMA CancelsPreserves ==
    ASSUME IInv, NEW k \in Canceller, Cancels(k)
    PROVE  IInv'
<1> USE WatcherAssumption DEF loopVars, gameVars, IInv
<1> DEFINE w == k[1]
           g == held[k]
<1>1. /\ w \in Watch /\ at[k] = "cancel"
      /\ k = <<w, "watch">> \/ k = <<w, "finish">>
    BY DEF Canceller, Cancels
<1>2. Cancelling(k) /\ g \in Watch /\ phase[g] # "none" /\ fence[g] = fence[w]
    BY <1>1 DEF CallsHoldGames
<1>3. /\ cancelled' = [cancelled EXCEPT ![g] = TRUE]
      /\ at' = [at EXCEPT ![k] = "look"] /\ held' = [held EXCEPT ![k] = NoWatch]
      /\ UNCHANGED <<loopVars, games, fence, parentDone, obs, crash, hist>>
    BY DEF Cancels
<1>4. \/ /\ k = <<w, "watch">> /\ UNCHANGED phase
         /\ \/ wPc[w] = "cancel" /\ wPc' = [wPc EXCEPT ![w] = "cancelAgain"]
            \/ wPc[w] = "cancelAgain" /\ wPc' = [wPc EXCEPT ![w] = "ended"]
      \/ /\ k = <<w, "finish">> /\ UNCHANGED wPc
         /\ phase[w] = "closing" /\ phase' = [phase EXCEPT ![w] = "over"]
  <2>1. CASE k[2] = "watch"
    BY <1>1, <1>2, <2>1 DEF Cancels, Cancelling, TypeOK
  <2>2. CASE k[2] = "finish"
    BY <1>1, <1>2, <2>2 DEF Cancels, Cancelling, TypeOK
  <2> QED
    BY <1>1, <2>1, <2>2
<1>5. TypeOK'
    BY <1>1, <1>2, <1>3, <1>4 DEF TypeOK
<1>6. GamesAreMade' /\ OvertakenAreLate'
    BY <1>1, <1>2, <1>3, <1>4 DEF GamesAreMade, OvertakenAreLate, TypeOK
<1>7. FailedAreCancelled'
    BY <1>1, <1>2, <1>3, <1>4 DEF FailedAreCancelled, TypeOK
<1>8. CallsHoldGames'
  <2> SUFFICES ASSUME NEW j \in Canceller
               PROVE  IF at'[j] = "look" THEN held'[j] = NoWatch
                      ELSE Cancelling(j)' /\ held'[j] \in Watch
                           /\ phase'[held'[j]] # "none" /\ fence'[held'[j]] = fence'[j[1]]
    BY DEF CallsHoldGames
  <2>1. CASE j = k
    BY <1>3, <2>1 DEF TypeOK
  <2>2. CASE j # k
    <3>1. at'[j] = at[j] /\ held'[j] = held[j]
      BY <1>3, <2>2 DEF TypeOK
    <3>2. j[1] \in Watch /\ j = <<j[1], j[2]>> /\ j[2] \in {"watch", "finish"}
      BY DEF Canceller
    <3>3. Cancelling(j) => Cancelling(j)'
      BY <1>1, <1>4, <2>2, <3>2 DEF Cancelling, TypeOK
    <3>4. held[j] \in Watch /\ phase[held[j]] # "none" => phase'[held[j]] # "none"
      BY <1>1, <1>4 DEF TypeOK
    <3> QED
      BY <1>3, <3>1, <3>3, <3>4 DEF CallsHoldGames
  <2> QED
    BY <2>1, <2>2
<1>9. SecondCancelMisses'
  <2> SUFFICES ASSUME NEW v \in Watch
               PROVE  LET j == <<v, "watch">>
                      IN  /\ wPc'[v] = "cancel" /\ at'[j] = "cancel" => games'[fence'[v]] # v
                          /\ wPc'[v] = "cancelAgain" => games'[fence'[v]] # v /\ held'[j] # v
    BY DEF SecondCancelMisses
  <2>1. <<v, "watch">> \in Canceller /\ (k = <<v, "watch">> <=> v = w /\ k = <<w, "watch">>)
    BY DEF Canceller
  <2>2. CASE k = <<v, "watch">>
    BY <1>1, <1>3, <1>4, <2>1, <2>2 DEF SecondCancelMisses, TypeOK
  <2>3. CASE k # <<v, "watch">>
    <3>1. wPc'[v] = wPc[v] /\ at'[<<v, "watch">>] = at[<<v, "watch">>]
          /\ held'[<<v, "watch">>] = held[<<v, "watch">>]
      BY <1>3, <1>4, <2>1, <2>3 DEF TypeOK
    <3> QED
      BY <1>3, <3>1 DEF SecondCancelMisses
  <2> QED
    BY <2>2, <2>3
<1>10. FailuresAreFatal'
  <2> SUFFICES ASSUME NEW v \in hist.failed, wPc'[v] = "ended"
               PROVE  \E u \in Watch \ {v} : fence[u] = fence[v] /\ cancelled'[u]
    BY <1>3 DEF FailuresAreFatal
  <2>1. v \in Watch
    BY DEF TypeOK, History
  <2>2. CASE wPc[v] = "ended"
    <3>1. PICK u \in Watch \ {v} : fence[u] = fence[v] /\ cancelled[u]
      BY <2>2 DEF FailuresAreFatal
    <3> QED
      BY <1>3, <3>1 DEF TypeOK
  <2>3. CASE wPc[v] # "ended"
    <3>1. v = w /\ k = <<w, "watch">> /\ wPc[w] = "cancelAgain"
      BY <1>1, <1>4, <2>1, <2>3 DEF TypeOK
    <3>2. g # v
      BY <2>1, <3>1 DEF SecondCancelMisses
    <3> QED
      BY <1>2, <1>3, <3>1, <3>2 DEF TypeOK
  <2> QED
    BY <2>2, <2>3
<1>11. SoundGamesAreTheirs'
  <2> SUFFICES ASSUME NEW v \in Watch, Live(v)', ~Troubled(fence[v])'
               PROVE  LET j == <<v, "finish">>
                      IN  /\ ~cancelled'[v]
                          /\ at'[j] # "cancel" => games'[fence'[v]] = v
                          /\ at'[j] # "look" => held'[j] = v
    BY <1>3 DEF SoundGamesAreTheirs
  <2>1. Live(v) /\ ~Troubled(fence[v])
    BY <1>1, <1>3, <1>4 DEF Live, Troubled, TypeOK
  <2>2. <<v, "finish">> \in Canceller
    BY DEF Canceller
  <2>3. k # <<v, "finish">>
    <3> SUFFICES ASSUME k = <<v, "finish">> PROVE FALSE
      OBVIOUS
    <3>1. phase'[v] = "over"
      BY <1>1, <1>4 DEF TypeOK
    <3> QED
      BY <3>1 DEF Live
  <2>4. g # v
    <3> SUFFICES ASSUME g = v PROVE FALSE
      OBVIOUS
    <3>1. ~Troubled(fence[w])
      BY <1>2, <2>1
    <3>2. k # <<w, "watch">>
      <4> SUFFICES ASSUME k = <<w, "watch">> PROVE FALSE
        OBVIOUS
      <4>1. w \in hist.failed
        BY <1>1, <1>2 DEF Cancelling, FailedAreCancelled
      <4> QED
        BY <3>1, <4>1 DEF Troubled
    <3>3. k = <<w, "finish">> /\ Live(w)
      BY <1>1, <1>2, <3>2 DEF Cancelling, Live
    <3>4. g = w
      BY <1>1, <3>1, <3>3 DEF SoundGamesAreTheirs
    <3> QED
      BY <2>3, <3>3, <3>4
  <2> QED
    BY <1>2, <1>3, <2>1, <2>2, <2>3, <2>4 DEF SoundGamesAreTheirs, TypeOK
<1>12. LiveGamesAreRegistered'
  <2> SUFFICES ASSUME NEW v \in Watch, Live(v)', ~CtxDone(v)'
               PROVE  \/ games'[fence'[v]] = v
                      \/ \E j \in Canceller : at'[j] = "cancel" /\ held'[j] = v
                      \/ v \in hist'.robbed \/ v \in hist'.doubled
    BY DEF LiveGamesAreRegistered
  <2>1. g # v /\ Live(v) /\ ~CtxDone(v)
    BY <1>1, <1>2, <1>3, <1>4 DEF Live, CtxDone, TypeOK
  <2>2. \/ games[fence[v]] = v
        \/ \E j \in Canceller : at[j] = "cancel" /\ held[j] = v
        \/ v \in hist.robbed \/ v \in hist.doubled
    BY <2>1 DEF LiveGamesAreRegistered
  <2>3. ASSUME NEW j \in Canceller, at[j] = "cancel", held[j] = v
        PROVE  at'[j] = "cancel" /\ held'[j] = v
    BY <1>3, <2>1, <2>3 DEF TypeOK
  <2> QED
    BY <1>3, <2>2, <2>3
<1> QED
    BY <1>5, <1>6, <1>7, <1>8, <1>9, <1>10, <1>11, <1>12

-----------------------------------------------------------------------------

\* The inductive invariant.
THEOREM Inductive == Spec => []IInv
<1>1. Init => IInv
    BY InitIInv
<1>2. IInv /\ [Next]_vars => IInv'
  <2> SUFFICES ASSUME IInv, [Next]_vars PROVE IInv'
    OBVIOUS
  <2>1. CASE UNCHANGED vars
    <3>1. TypeOK'
      BY <2>1 DEF vars, loopVars, gameVars, callVars, IInv, TypeOK
    <3> QED
      BY <2>1, <3>1, QuietStep DEF vars, loopVars, gameVars, callVars
  <2>2. CASE Step
    <3>1. ASSUME NEW w \in Watch, WatchStep(w) \/ CancelStep(<<w, "finish">>)
          PROVE  IInv'
      <4>1. <<w, "watch">> \in Canceller /\ <<w, "finish">> \in Canceller
        BY DEF Canceller
      <4>2. ASSUME NEW k \in Canceller, CancelStep(k) PROVE IInv'
        BY <4>2, LooksPreserves, DeletesPreserves, CancelsPreserves DEF CancelStep
      <4> QED
        BY <3>1, <4>1, <4>2, QuietActionsPreserve, CreatePreserves, ReceivePreserves
           DEF WatchStep
    <3> QED
      BY <2>2, <3>1, QuietActionsPreserve, MovePreserves DEF Step
  <2> QED
    BY <2>1, <2>2 DEF Next, Ended
<1> QED
    BY <1>1, <1>2, PTL DEF Spec

\* A game whose context is alive is the one in the registry, unless it is just being
\* cancelled, was robbed of its entry or was replaced by a detection that had
\* found none.
THEOREM LiveGamesAreRegisteredAlways == Spec => []LiveGamesAreRegistered
BY Inductive, PTL DEF IInv

\* At a fence without trouble nobody cancels a game before its round is over, and
\* its finish finds its own entry.
THEOREM RoundsAreNotCutShortAlways == Spec => []RoundsAreNotCutShort
<1>1. IInv => RoundsAreNotCutShort
    BY DEF IInv, SoundGamesAreTheirs, RoundsAreNotCutShort
<1> QED
    BY <1>1, Inductive, PTL

\* An observer that fails ends the server, or another game of its fence.
THEOREM FailuresAreFatalAlways == Spec => []FailuresAreFatal
BY Inductive, PTL DEF IInv

\* Every variable has its type.
THEOREM TypeCorrect == Spec => []TypeOK
BY Inductive, PTL DEF IInv

=============================================================================
