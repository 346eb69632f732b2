---------------------------- MODULE GameWatcher ----------------------------
(***************************************************************************)
(* The registry of games of src/catchcatch-server/gamewatcher.go: the loop *)
(* that listens to detections (WatchGamesForever, WatchGames), one         *)
(* goroutine per detection (watchGame), which may create a game and then   *)
(* waits for its observer, the games themselves, and admin:clear and the   *)
(* shutdown of the server, which cancel contexts.  gw.games is shared by   *)
(* all of them without a lock.                                             *)
(*                                                                         *)
(* A game is known by the goroutine that created it and is in one of the   *)
(* phases of Round; when its players let it begin and how it ends are the  *)
(* subject of Game.  Of the observer it matters whether it runs and how it *)
(* returned: nil once its context is done, an error when its connection is *)
(* refused or, in a round that has begun, when SetPlayer fails.  The       *)
(* starter's only error, ErrAlreadyStarted, cannot occur (Game, PcInv).    *)
(*                                                                         *)
(* gw.games[id].cancel() is three steps, between which others run: the     *)
(* lookup, the deletion of whatever entry the fence has by then, and the   *)
(* cancellation of the game that was looked up.                            *)
(***************************************************************************)
EXTENDS FiniteSets

CONSTANTS
    Fence,    \* ids of geofences, the keys of gw.games
    Watch,    \* the goroutines that detections may spawn: bounds their number
    NoWatch   \* no entry

ASSUME WatcherAssumption == NoWatch \notin Watch

VARIABLES
    loop,        \* where WatchGamesForever is
    cleared,     \* the context of the current WatchGames was cancelled
    shutdown,    \* the root context was cancelled
    games,       \* gw.games: fence -> the goroutine that made the entry
    wPc,         \* where each watchGame goroutine is
    fence,       \* the fence of each detection
    parentDone,  \* the watcher context it was given was cancelled
    cancelled,   \* the context of its game was cancelled by GameContext.cancel
    obs,         \* the observer of its game
    phase,       \* the phase of its game
    at,          \* where a goroutine is in gw.games[id].cancel()
    held,        \* the game whose entry it looked up
    crash,       \* why the process died
    hist         \* history: what went wrong, and to whom (see History)

loopVars == <<loop, cleared, shutdown>>
gameVars == <<obs, phase>>
callVars == <<at, held>>
vars == <<loopVars, games, wPc, fence, parentDone, cancelled, gameVars, callVars,
          crash, hist>>

\* The goroutines that cancel the game of w: watchGame after an error, with its
\* caller, and the finisher.
Canceller == Watch \X {"watch", "finish"}

\* What the history variable records; no action reads it.
\*   failed   games whose observer returned an error
\*   late     detections that found no entry where another has made one since
\*   doubled  games whose entry such a detection replaced
\*   robbed   games whose entry was deleted for another game
History == [failed : SUBSET Watch, late : SUBSET Watch, doubled : SUBSET Watch,
            robbed : SUBSET Watch]

Init ==
    /\ loop = "top" /\ cleared = FALSE /\ shutdown = FALSE
    /\ games = [f \in Fence |-> NoWatch]
    /\ wPc = [w \in Watch |-> "off"]
    /\ fence \in [Watch -> Fence]
    /\ parentDone = [w \in Watch |-> FALSE]
    /\ cancelled = [w \in Watch |-> FALSE]
    /\ obs = [w \in Watch |-> "off"]
    /\ phase = [w \in Watch |-> "none"]
    /\ at = [k \in Canceller |-> "look"] /\ held = [k \in Canceller |-> NoWatch]
    /\ crash = "none"
    /\ hist = [failed |-> {}, late |-> {}, doubled |-> {}, robbed |-> {}]

CtxDone(w) == parentDone[w] \/ cancelled[w]

-----------------------------------------------------------------------------
(* The loop, and what cancels its context *)

\* A turn of WatchGamesForever: it ends with the root context, or WatchGames
\* makes a context of its own and stores its cancel function in gw.Clear.
LoopTurn ==
    /\ loop = "top"
    /\ IF shutdown THEN loop' = "ended" /\ UNCHANGED cleared
                   ELSE loop' = "dialing" /\ cleared' = FALSE
    /\ UNCHANGED <<shutdown, games, wPc, fence, parentDone, cancelled, gameVars,
                   callVars, crash, hist>>

\* The stream connects, or WatchGames returns the error, WatchGamesForever
\* returns it too and main panics.
LoopDials ==
    /\ loop = "dialing"
    /\ \/ loop' = "streaming" /\ UNCHANGED crash
       \/ loop' = "ended" /\ crash' = "watcherError"
    /\ UNCHANGED <<cleared, shutdown, games, wPc, fence, parentDone, cancelled,
                   gameVars, callVars, hist>>

\* A player is detected near a fence: a goroutine is spawned.  The rest of a
\* chunk is still handled after the context is done.
Detect(w) ==
    /\ loop = "streaming"
    /\ wPc[w] = "off"
    /\ wPc' = [wPc EXCEPT ![w] = "check"]
    /\ parentDone' = [parentDone EXCEPT ![w] = cleared \/ shutdown]
    /\ UNCHANGED <<loopVars, games, fence, cancelled, gameVars, callVars, crash, hist>>

\* The stream sees that its context is done; WatchGames returns nil.
LoopStops ==
    /\ loop = "streaming" /\ (cleared \/ shutdown)
    /\ loop' = "top"
    /\ UNCHANGED <<cleared, shutdown, games, wPc, fence, parentDone, cancelled,
                   gameVars, callVars, crash, hist>>

CancelParents == parentDone' = [w \in Watch |-> parentDone[w] \/ wPc[w] # "off"]

\* admin:clear calls gw.Clear, which cancels the current context, or between two
\* turns the previous one, to no effect.
Clear ==
    /\ ~cleared
    /\ cleared' = TRUE
    /\ CancelParents
    /\ UNCHANGED <<loop, shutdown, games, wPc, fence, cancelled, gameVars, callVars, crash,
                   hist>>

Shutdown ==
    /\ ~shutdown
    /\ shutdown' = TRUE
    /\ CancelParents
    /\ UNCHANGED <<loop, cleared, games, wPc, fence, cancelled, gameVars, callVars, crash,
                   hist>>

-----------------------------------------------------------------------------
(* watchGame *)

\* Mutant: watchGame does not look whether the fence has a game.
CheckForgets(w) ==
    /\ wPc[w] = "check"
    /\ wPc' = [wPc EXCEPT ![w] = "create"]
    /\ UNCHANGED <<loopVars, games, fence, parentDone, cancelled, gameVars,
                   callVars, crash, hist>>

\* _, exists := gw.games[gameID]
Check(w) ==
    /\ wPc[w] = "check"
    /\ wPc' = [wPc EXCEPT ![w] =
                   IF games[fence[w]] = NoWatch THEN "create" ELSE "ended"]
    /\ UNCHANGED <<loopVars, games, fence, parentDone, cancelled, gameVars,
                   callVars, crash, hist>>

\* The game and its entry are made, over any entry made since the check, and
\* its observer and its starter are spawned.
Create(w) ==
    /\ wPc[w] = "create"
    /\ wPc' = [wPc EXCEPT ![w] = "wait"]
    /\ games' = [games EXCEPT ![fence[w]] = w]
    /\ obs' = [obs EXCEPT ![w] = "dialing"]
    /\ phase' = [phase EXCEPT ![w] = "lobby"]
    /\ hist' = [hist EXCEPT
           !.late = @ \cup {v \in Watch : wPc[v] = "create" /\ fence[v] = fence[w]},
           !.doubled = IF w \in hist.late THEN @ \cup ({games[fence[w]]} \ {NoWatch})
                                          ELSE @]
    /\ UNCHANGED <<loopVars, fence, parentDone, cancelled, callVars, crash>>

\* Mutant: whatever the observer returns, watchGame cancels the game.
ReceiveCancelsAlways(w) ==
    /\ wPc[w] = "wait" /\ obs[w] \in {"nil", "err"}
    /\ wPc' = [wPc EXCEPT ![w] = "cancel"]
    /\ hist' = IF obs[w] = "err" THEN [hist EXCEPT !.failed = @ \cup {w}] ELSE hist
    /\ UNCHANGED <<loopVars, games, fence, parentDone, cancelled, gameVars,
                   callVars, crash>>

\* Mutant: what the observer returns is not looked at.
ReceiveIgnoresErrors(w) ==
    /\ wPc[w] = "wait" /\ obs[w] \in {"nil", "err"}
    /\ wPc' = [wPc EXCEPT ![w] = "ended"]
    /\ hist' = IF obs[w] = "err" THEN [hist EXCEPT !.failed = @ \cup {w}] ELSE hist
    /\ UNCHANGED <<loopVars, games, fence, parentDone, cancelled, gameVars,
                   callVars, crash>>

\* err := <-errChan
Receive(w) ==
    /\ wPc[w] = "wait"
    /\ \/ obs[w] = "nil" /\ wPc' = [wPc EXCEPT ![w] = "ended"] /\ UNCHANGED hist
       \/ /\ obs[w] = "err"
          /\ wPc' = [wPc EXCEPT ![w] = "cancel"]
          /\ hist' = [hist EXCEPT !.failed = @ \cup {w}]
    /\ UNCHANGED <<loopVars, games, fence, parentDone, cancelled, gameVars,
                   callVars, crash>>

-----------------------------------------------------------------------------
(* gw.games[id].cancel(), for the game k[1]: called by watchGame after an    *)
(* error, again by its caller, to which it returns the error, and by         *)
(* OnGameFinish                                                              *)

Cancelling(k) ==
    \/ k[2] = "watch" /\ wPc[k[1]] \in {"cancel", "cancelAgain"}
    \/ k[2] = "finish" /\ phase[k[1]] = "closing"

\* The entry of the fence is looked up, whosever it is.  With no entry a nil
\* pointer is dereferenced in a goroutine that recovers nothing.
Looks(k) ==
    LET owner == games[fence[k[1]]]
    IN  /\ Cancelling(k) /\ at[k] = "look"
        /\ \/ owner = NoWatch /\ crash' = "nilEntry" /\ UNCHANGED callVars
           \/ /\ owner # NoWatch
              /\ at' = [at EXCEPT ![k] = "delete"]
              /\ held' = [held EXCEPT ![k] = owner]
              /\ UNCHANGED crash
        /\ UNCHANGED <<loopVars, games, wPc, fence, parentDone, cancelled,
                       gameVars, hist>>

\* Mutant: cancel leaves the entry.
DeletesNothing(k) ==
    /\ at[k] = "delete"
    /\ at' = [at EXCEPT ![k] = "cancel"]
    /\ UNCHANGED <<loopVars, games, wPc, fence, parentDone, cancelled, gameVars,
                   held, crash, hist>>

\* delete(gw.games, gameID): the entry the fence has now.
Deletes(k) ==
    LET f == fence[k[1]]
    IN  /\ at[k] = "delete"
        /\ at' = [at EXCEPT ![k] = "cancel"]
        /\ games' = [games EXCEPT ![f] = NoWatch]
        /\ hist' = [hist EXCEPT !.robbed = @ \cup ({games[f]} \ {NoWatch, held[k]})]
        /\ UNCHANGED <<loopVars, wPc, fence, parentDone, cancelled, gameVars,
                       held, crash>>

\* cancel() of the game that was looked up, and the call returns.
Cancels(k) ==
    /\ at[k] = "cancel"
    /\ cancelled' = [cancelled EXCEPT ![held[k]] = TRUE]
    /\ at' = [at EXCEPT ![k] = "look"] /\ held' = [held EXCEPT ![k] = NoWatch]
    /\ \/ /\ k[2] = "watch"
          /\ wPc' = [wPc EXCEPT ![k[1]] =
                         IF @ = "cancel" THEN "cancelAgain" ELSE "ended"]
          /\ UNCHANGED phase
       \/ /\ k[2] = "finish"
          /\ phase' = [phase EXCEPT ![k[1]] = "over"]
          /\ UNCHANGED wPc
    /\ UNCHANGED <<loopVars, games, fence, parentDone, obs, crash, hist>>

-----------------------------------------------------------------------------
(* The game of w and its observer *)

\* The stream connects or is refused, whenever Tile38 answers; SetPlayer fails; or
\* the stream sees that its context is done.
ObserverMoves(w) ==
    /\ \/ obs[w] = "dialing" /\ obs' \in {[obs EXCEPT ![w] = o] : o \in {"run", "err"}}
       \/ /\ obs[w] = "run" /\ phase[w] \in {"playing", "closing", "over"}
          /\ obs' = [obs EXCEPT ![w] = "err"]
       \/ obs[w] = "run" /\ CtxDone(w) /\ obs' = [obs EXCEPT ![w] = "nil"]
    /\ UNCHANGED <<loopVars, games, wPc, fence, parentDone, cancelled, phase,
                   callVars, crash, hist>>

\* Mutant: the starter does not look at its context.
GameMovesOn(w) ==
    /\ \/ /\ phase[w] = "lobby" /\ obs[w] \in {"run", "nil"}
          /\ phase' = [phase EXCEPT ![w] = "playing"]
       \/ phase[w] = "playing" /\ phase' = [phase EXCEPT ![w] = "closing"]
    /\ UNCHANGED <<loopVars, games, wPc, fence, parentDone, cancelled, obs,
                   callVars, crash, hist>>

\* Begin, GiveUp and Close of Round: Start, once the observer has brought
\* players, and the end of the starter's and of the finisher's wait.
GameMoves(w) ==
    /\ \/ /\ phase[w] = "lobby" /\ obs[w] \in {"run", "nil"}
          /\ phase' = [phase EXCEPT ![w] = "playing"]
       \/ phase[w] = "lobby" /\ CtxDone(w) /\ phase' = [phase EXCEPT ![w] = "cancelled"]
       \/ phase[w] = "playing" /\ phase' = [phase EXCEPT ![w] = "closing"]
    /\ UNCHANGED <<loopVars, games, wPc, fence, parentDone, cancelled, obs,
                   callVars, crash, hist>>

\* Die of Round, for the starter and the finisher; what the observer's error does
\* is in Receive and Looks.
GameDies(w) ==
    /\ phase[w] \in {"lobby", "closing"}
    /\ crash' = "game"
    /\ UNCHANGED <<loopVars, games, wPc, fence, parentDone, cancelled, gameVars,
                   callVars, hist>>

\* Two goroutines touch gw.games at once, and not both to read.
Writing(k) == at[k] = "delete" \/ (k[2] = "watch" /\ wPc[k[1]] = "create")

Touching(k) ==
    \/ Writing(k)
    \/ Cancelling(k) /\ at[k] = "look"
    \/ k[2] = "watch" /\ wPc[k[1]] = "check"

MapFault ==
    /\ \E j, k \in Canceller : j # k /\ Writing(j) /\ Touching(k)
    /\ crash' = "mapFault"
    /\ UNCHANGED <<loopVars, games, wPc, fence, parentDone, cancelled, gameVars,
                   callVars, hist>>

-----------------------------------------------------------------------------

LoopStep == LoopTurn \/ LoopDials \/ LoopStops

CancelStep(k) == Looks(k) \/ Deletes(k) \/ Cancels(k)

WatchStep(w) ==
    Check(w) \/ Create(w) \/ Receive(w) \/ CancelStep(<<w, "watch">>)

Step ==
    \/ LoopStep \/ Clear \/ Shutdown \/ MapFault
    \/ \E w \in Watch :
        \/ Detect(w) \/ WatchStep(w) \/ ObserverMoves(w)
        \/ GameMoves(w) \/ CancelStep(<<w, "finish">>) \/ GameDies(w)

Idle(w) ==
    wPc[w] = "ended" /\ obs[w] \in {"off", "nil", "err"}
                     /\ phase[w] \in {"none", "over", "cancelled"}

\* The process died, or was shut down with nothing left to do.
Ended ==
    /\ \/ crash # "none"
       \/ shutdown /\ loop = "ended" /\ \A w \in Watch : wPc[w] = "off" \/ Idle(w)
    /\ UNCHANGED vars

Next == (crash = "none" /\ Step) \/ Ended

Spec == Init /\ [][Next]_vars

\* Every goroutine that can run runs.  A lobby whose context is done is left
\* (the select of the starter is random, and the players need not come), and so
\* is a stream that has connected; a round times out.  Nothing makes a stream
\* connect or fail, and nothing is assumed of the loop: no game waits for it.
GameTurn(w) ==
    \/ GameMoves(w) /\ (phase[w] = "lobby" => CtxDone(w))
    \/ CancelStep(<<w, "finish">>)

Fairness ==
    \A w \in Watch :
        /\ WF_vars(crash = "none" /\ WatchStep(w))
        /\ WF_vars(crash = "none" /\ GameTurn(w))
        /\ WF_vars(crash = "none" /\ CtxDone(w) /\ obs[w] = "run" /\ ObserverMoves(w))

FairSpec == Spec /\ Fairness

-----------------------------------------------------------------------------
(* Properties *)

TypeOK ==
    /\ loop \in {"top", "dialing", "streaming", "ended"}
    /\ cleared \in BOOLEAN /\ shutdown \in BOOLEAN
    /\ games \in [Fence -> Watch \cup {NoWatch}]
    /\ wPc \in [Watch -> {"off", "check", "create", "wait", "cancel",
                          "cancelAgain", "ended"}]
    /\ fence \in [Watch -> Fence]
    /\ parentDone \in [Watch -> BOOLEAN] /\ cancelled \in [Watch -> BOOLEAN]
    /\ obs \in [Watch -> {"off", "dialing", "run", "nil", "err"}]
    /\ phase \in [Watch -> {"none", "lobby", "playing", "closing", "over",
                            "cancelled"}]
    /\ at \in [Canceller -> {"look", "delete", "cancel"}]
    /\ held \in [Canceller -> Watch \cup {NoWatch}]
    /\ crash \in {"none", "watcherError", "nilEntry", "game", "mapFault"}
    /\ hist \in History

Live(w) == phase[w] \in {"lobby", "playing", "closing"}

\* A game whose context is alive is the one in the registry, from its creation to
\* its finish, so a fence has one at most, but for three cases: its entry was just
\* deleted and its context is about to be cancelled; it was deleted by a
\* goroutine that had looked up another game of the fence; or it was replaced by
\* a detection that had found none.
LiveGamesAreRegistered ==
    \A w \in Watch : Live(w) /\ ~CtxDone(w) =>
        \/ games[fence[w]] = w
        \/ \E k \in Canceller : at[k] = "cancel" /\ held[k] = w
        \/ w \in hist.robbed
        \/ w \in hist.doubled

\* An observer failed at f, or two detections made a game of f at once.
Troubled(f) == \E w \in hist.failed \cup hist.doubled : fence[w] = f

\* At a fence without trouble nobody cancels a game before its round is over, and
\* its finish finds its own entry, neither another's nor none.
RoundsAreNotCutShort ==
    \A w \in Watch : Live(w) /\ ~Troubled(fence[w]) =>
        /\ ~cancelled[w]
        /\ LET k == <<w, "finish">>
           IN  IF at[k] = "look" THEN games[fence[w]] = w ELSE held[k] = w

\* An observer that fails takes the server with it: the game is cancelled once by
\* watchGame and once by its caller, and the second finds no entry.  When the
\* process survives, another game of the fence was cancelled in its stead.
FailuresAreFatal ==
    \A w \in hist.failed : wPc[w] = "ended" =>
        \E v \in Watch \ {w} : fence[v] = fence[w] /\ cancelled[v]

\* Every goroutine of a cancelled game ends, but for an observer whose stream never
\* gets its answer, and the watchGame that waits for it.
WatchesEnd ==
    \A w \in Watch : (phase[w] # "none" /\ CtxDone(w)) ~>
        \/ crash # "none"
        \/ /\ phase[w] \in {"over", "cancelled"}
           /\ wPc[w] = "ended" \/ obs[w] = "dialing"

\* A game that began gives its fence up, cleared or not.
PlayedGamesLeave ==
    \A w \in Watch : (phase[w] = "playing" /\ games[fence[w]] = w)
        ~> (games[fence[w]] # w \/ crash # "none")

\* "GameWatcher is made to start/stop games by player presence": the entry of a
\* game that admin:clear cancelled goes away, so that a detection at a fence of
\* that name, drawn again, can start a game there.
CancelledGamesLeave ==
    \A w \in Watch : (games[fence[w]] = w /\ CtxDone(w) /\ ~shutdown)
        ~> (games[fence[w]] # w \/ shutdown \/ crash # "none")

=============================================================================
