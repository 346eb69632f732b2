-------------------------------- MODULE Game --------------------------------
(***************************************************************************)
(* One Game object of src/catchcatch-server/game.go, with the goroutines   *)
(* that gamewatcher.go runs over it and that share it without a lock:      *)
(*                                                                         *)
(*   O  observeGamePlayers: reads the geofence stream, calls SetPlayer and *)
(*      RemovePlayer, one detection at a time; when it returns an error,   *)
(*      the watchGame goroutine that waits for it cancels the game         *)
(*   S  startGameWhenReady: polls the number of players, calls Start       *)
(*   F  handleGameFinishEvent: spawned by Start, waits for the end of the  *)
(*      round and finishes it                                              *)
(*                                                                         *)
(* plus one goroutine per asynchronous "game:loose" message, the timer of  *)
(* the round, and whoever cancels the context of the game or takes its     *)
(* entry in the registry (GameWatcher).                                    *)
(*                                                                         *)
(* A step is what a goroutine does between two points at which another     *)
(* goroutine could tell the difference.  g.players is the function role:   *)
(* "out" stands for no entry, so the entry of a player who left and came   *)
(* back is a new object whose role is "undefined", even when g.target      *)
(* still points to the object of its first visit.  Positions and distances *)
(* are not kept: a chase chooses its outcome.  Messages are the set told   *)
(* of what was emitted to each player.  The message game:target:near and   *)
(* the moves of a player that change nothing are left out.                 *)
(***************************************************************************)
EXTENDS Naturals, FiniteSets

CONSTANTS
    Player,      \* the ids the stream may report inside the geofence
    NoPlayer,    \* stands for a nil *GamePlayer
    MinPlayers   \* MinPlayersPerGame

ASSUME GameAssumption ==
    /\ IsFiniteSet(Player)
    /\ NoPlayer \notin Player
    /\ MinPlayers \in Nat /\ MinPlayers >= 2

VARIABLES
    role,      \* g.players: id -> role of its entry, "out" when it has none
    started,   \* g.started
    target,    \* the id of *g.target
    sPc,       \* where S is
    todo,      \* S: the ids it collected, then the ids its loop still visits
    extra,     \* S: entries made during its loop, which the loop may visit
    sPlayer,   \* S: the player its loop is at, until it was told its role
    sRole,     \* S: the role of that player
    fPc,       \* where F is
    expired,   \* the timer fired, or g.stop ran once it was the round's own
    ranked,    \* F: the players of the rank
    ctxDone,   \* the context of the game is cancelled
    oPc,       \* where O is, and where watchGame is once O has failed
    oPlayer,   \* O: the player of the detection in progress
    oRole,     \* O: the role of the entry RemovePlayer took out
    told,      \* the messages emitted to each player
    loosing,   \* players with a pending "go OnPlayerLoose"
    crash,     \* why the process died, "none" while it runs
    hist       \* history: which races happened, and to whom (see History)

starterVars == <<sPc, todo, extra, sPlayer, sRole>>
finisherVars == <<fPc, expired, ranked>>
observerVars == <<oPc, oPlayer, oRole>>
vars == <<role, started, target, starterVars, finisherVars, ctxDone,
          observerVars, told, loosing, crash, hist>>

Role == {"out", "undefined", "hunter", "target"}
Message == {"hunter", "target",   \* game:started, with that role
            "reached", "loose", "win", "finish"}
StarterPc == {"waiting", "collect", "pick", "brief", "tell", "done", "refused"}
FinisherPc == {"none", "spawned", "armed", "flagged", "ranking", "ranked",
               "found", "cancelled", "published", "done"}
ObserverPc == {"dialing", "idle", "join", "chase", "aim", "grab", "jeer",
               "left", "count", "count0", "error", "refused", "found",
               "reported", "ended", "stopped"}
Crash == {"none", "noPlayers", "noTarget", "emptyRank", "noEntry", "mapFault"}

\* What the history variable records; no action reads it.
\*   late   players in the map whose entry was made while the roles were being
\*          given out or later, or was put back without a role
\*   early  players whose exit was taken for an exit from the lobby while S was
\*          starting
\*   quiet  players with a role whose exit was answered with no message to them
\*   lost   an exit or a capture called the g.stop of NewGame, a no-op
History == [late : SUBSET Player, early : SUBSET Player, quiet : SUBSET Player,
            lost : BOOLEAN]

Members == {p \in Player : role[p] # "out"}
Briefing == sPc \in {"brief", "tell"}
Starting == sPc \in {"collect", "pick"} \/ Briefing

\* g.stop is assigned by F (line 91): until then it is the no-op of NewGame.
Armed == fPc \notin {"none", "spawned"}

\* Mutant: the round gets WithCancel, not WithTimeout.
GameDoneOnlyByParent == Armed /\ ctxDone

\* gameCtx.Done(): g.stop, the timer, or the cancellation of the parent.
GameDone == Armed /\ (expired \/ ctxDone)

\* The ids of the rank are fixed: who enters the map now is in no rank.
RankMade == fPc \in {"ranked", "found", "cancelled", "published", "done"}

Tell(p, m) == told' = [told EXCEPT ![p] = @ \cup {m}]

\* p was given a role to play.
Briefed(p) == told[p] \cap {"hunter", "target"} # {}

\* RemovePlayer has deleted the entry of p and not yet decided what follows.
Leaving(p) == oPc \in {"left", "count", "count0"} /\ oPlayer = p

With(S, p, condition) == IF condition THEN S \cup {p} ELSE S

Init ==
    /\ role = [p \in Player |-> "out"]
    /\ started = FALSE
    /\ target = NoPlayer
    /\ sPc = "waiting" /\ todo = {} /\ extra = {}
    /\ sPlayer = NoPlayer /\ sRole = "out"
    /\ fPc = "none" /\ expired = FALSE /\ ranked = {}
    /\ ctxDone = FALSE
    /\ oPc = "dialing" /\ oPlayer = NoPlayer /\ oRole = "out"
    /\ told = [p \in Player |-> {}]
    /\ loosing = {}
    /\ crash = "none"
    /\ hist = [late |-> {}, early |-> {}, quiet |-> {}, lost |-> FALSE]

-----------------------------------------------------------------------------
(* O, the observer of the geofence *)

\* What only the observer's place and its player change.
ObserverAlone ==
    UNCHANGED <<role, started, target, starterVars, finisherVars, ctxDone,
                told, loosing, crash, hist>>

\* The stream connects, or fails.  Nothing bounds the time this takes.
Dial ==
    /\ oPc = "dialing"
    /\ oPc' \in {"idle", "refused"}
    /\ UNCHANGED <<oPlayer, oRole>> /\ ObserverAlone

\* SetPlayer reads g.started, then looks the player up.  A known player before
\* the start, an unknown one after it, and a player who is no hunter change
\* nothing here.
ObserveMove(p) ==
    /\ oPc = "idle"
    /\ \/ ~started /\ role[p] = "out" /\ oPc' = "join"
       \/ started /\ role[p] = "hunter" /\ oPc' = "chase"
    /\ oPlayer' = p
    /\ UNCHANGED oRole /\ ObserverAlone

\* SetPlayer makes the entry, whatever happened since it read g.started.
Join(p) ==
    /\ oPc = "join" /\ oPlayer = p
    /\ oPc' = "idle" /\ oPlayer' = NoPlayer
    /\ role' = [role EXCEPT ![p] = "undefined"]
    /\ extra' = With(extra, p, Briefing)
    /\ hist' = [hist EXCEPT !.late = With(@, p, Briefing \/ started)]
    /\ UNCHANGED <<started, target, sPc, todo, sPlayer, sRole, finisherVars,
                   ctxDone, oRole, told, loosing, crash>>

\* delete(g.players, p); a running loop of S does not visit p any more.
Delete(p) ==
    /\ role' = [role EXCEPT ![p] = "out"]
    /\ todo' = IF Briefing THEN todo \ {p} ELSE todo
    /\ extra' = extra \ {p}
    /\ hist' = [hist EXCEPT !.late = @ \ {p}]

\* g.stop()
Stop == expired' = (expired \/ Armed)

\* The hunter's chase looks the target up.  When it has no entry any more,
\* ErrPlayerIsNotInTheGame ends the observer.
ChaseLooks(h) ==
    /\ oPc = "chase" /\ oPlayer = h
    /\ oPc' = IF role[target] # "out" THEN "aim" ELSE "error"
    /\ UNCHANGED <<oPlayer, oRole>> /\ ObserverAlone

\* The distance to the target is too large to catch it (nothing, or
\* game:target:near).
ChaseMisses(h) ==
    /\ oPc = "aim" /\ oPlayer = h
    /\ oPc' = "idle" /\ oPlayer' = NoPlayer
    /\ UNCHANGED oRole /\ ObserverAlone

\* Mutant: the capture does not delete the target.
ChaseReachesKeepsTarget(h) ==
    /\ oPc = "aim" /\ oPlayer = h
    /\ oPc' = "grab"
    /\ UNCHANGED <<role, todo, extra, hist>>
    /\ UNCHANGED <<started, target, sPc, sPlayer, sRole, finisherVars, ctxDone,
                   oPlayer, oRole, told, loosing, crash>>

\* The hunter is within 20 meters: the target leaves the map ...
ChaseReaches(h) ==
    /\ oPc = "aim" /\ oPlayer = h
    /\ oPc' = "grab"
    /\ Delete(target)
    /\ UNCHANGED <<started, target, sPc, sPlayer, sRole, finisherVars, ctxDone,
                   oPlayer, oRole, told, loosing, crash>>

\* ... is told that it lost (OnPlayerLoose) ...
TellCaught(h) ==
    /\ oPc = "grab" /\ oPlayer = h
    /\ oPc' = "jeer"
    /\ Tell(target, "loose")
    /\ UNCHANGED <<role, started, target, starterVars, finisherVars, ctxDone,
                   oPlayer, oRole, loosing, crash, hist>>

\* ... and the hunter that it won (OnTargetReached), and the round is stopped.
TellReached(h) ==
    /\ oPc = "jeer" /\ oPlayer = h
    /\ oPc' = "idle" /\ oPlayer' = NoPlayer
    /\ Tell(h, "reached")
    /\ Stop
    /\ hist' = [hist EXCEPT !.lost = @ \/ ~Armed]
    /\ UNCHANGED <<role, started, target, starterVars, fPc, ranked, ctxDone,
                   oRole, loosing, crash>>

\* RemovePlayer finds the player and deletes the entry.
ObserveExit(p) ==
    /\ oPc = "idle"
    /\ role[p] # "out"
    /\ oPc' = "left" /\ oPlayer' = p /\ oRole' = role[p]
    /\ Delete(p)
    /\ UNCHANGED <<started, target, sPc, sPlayer, sRole, finisherVars, ctxDone,
                   told, loosing, crash>>

\* RemovePlayer reads g.started: from a lobby a player just leaves.
ExitReadsStarted(p) ==
    /\ oPc = "left" /\ oPlayer = p
    /\ \/ started /\ oPc' = "count" /\ UNCHANGED <<oPlayer, oRole, hist>>
       \/ /\ ~started
          /\ oPc' = "idle" /\ oPlayer' = NoPlayer /\ oRole' = "out"
          /\ hist' = [hist EXCEPT !.early = With(@, p, Starting),
                                  !.quiet = With(@, p, Briefed(p) \/ p = sPlayer)]
    /\ UNCHANGED <<role, started, target, starterVars, finisherVars, ctxDone,
                   told, loosing, crash>>

\* RemovePlayer goes on, whatever became of g.started: one player is left, ...
LeavesOneBehind(p) ==
    /\ Cardinality(Members) = 1
    /\ Stop
    /\ oPc' = "idle" /\ oPlayer' = NoPlayer /\ oRole' = "out"
    /\ hist' = [hist EXCEPT !.quiet = With(@, p, Briefed(p)), !.lost = @ \/ ~Armed]
    /\ UNCHANGED loosing

\* Mutant: the exit of the target is ignored.
TargetLeavesIgnored(p) ==
    /\ Cardinality(Members) # 1 /\ p = target
    /\ oPc' = "idle" /\ oPlayer' = NoPlayer /\ oRole' = "out"
    /\ UNCHANGED <<expired, hist, loosing>>

\* ... or it is the target that leaves, ...
TargetLeaves(p) ==
    /\ Cardinality(Members) # 1 /\ p = target
    /\ loosing' = loosing \cup {p}
    /\ Stop
    /\ oPc' = "idle" /\ oPlayer' = NoPlayer /\ oRole' = "out"
    /\ hist' = [hist EXCEPT !.lost = @ \/ ~Armed]

\* ... or the players are counted again.
OtherLeaves(p) ==
    /\ Cardinality(Members) # 1 /\ p # target
    /\ oPc' = "count0"
    /\ UNCHANGED <<expired, oPlayer, oRole, hist, loosing>>

ExitCounts(p) ==
    /\ oPc = "count" /\ oPlayer = p
    /\ LeavesOneBehind(p) \/ TargetLeaves(p) \/ OtherLeaves(p)
    /\ UNCHANGED <<role, started, target, starterVars, fPc, ranked, ctxDone,
                   told, crash>>

\* Mutant: the entry is not put back.
LastHunterLeavesForGood(p) ==
    /\ Members = {}
    /\ UNCHANGED role
    /\ hist' = [hist EXCEPT !.late = With(@, p, oRole = "undefined"),
                            !.quiet = With(@, p, Briefed(p) /\ RankMade),
                            !.lost = @ \/ ~Armed]
    /\ Stop
    /\ UNCHANGED loosing

\* Mutant: a nil entry is put back.
LastHunterLeavesNil(p) ==
    /\ Members = {}
    /\ role' = [role EXCEPT ![p] = NoPlayer]
    /\ hist' = [hist EXCEPT !.late = With(@, p, oRole = "undefined"),
                            !.quiet = With(@, p, Briefed(p) /\ RankMade),
                            !.lost = @ \/ ~Armed]
    /\ Stop
    /\ UNCHANGED loosing

\* Nobody is left: the entry is put back, into whichever map g.players is now.
LastHunterLeaves(p) ==
    /\ Members = {}
    /\ role' = [role EXCEPT ![p] = oRole]
    /\ hist' = [hist EXCEPT !.late = With(@, p, oRole = "undefined"),
                            !.quiet = With(@, p, Briefed(p) /\ RankMade),
                            !.lost = @ \/ ~Armed]
    /\ Stop
    /\ UNCHANGED loosing

\* Mutant: the hunter that leaves is not told that it lost.
HunterLeavesSilently(p) ==
    /\ Members # {}
    /\ UNCHANGED <<role, expired, hist, loosing>>

HunterLeaves(p) ==
    /\ Members # {}
    /\ loosing' = loosing \cup {p}
    /\ UNCHANGED <<role, expired, hist>>

ExitCountsAgain(p) ==
    /\ oPc = "count0" /\ oPlayer = p
    /\ LastHunterLeaves(p) \/ HunterLeaves(p)
    /\ oPc' = "idle" /\ oPlayer' = NoPlayer /\ oRole' = "out"
    /\ UNCHANGED <<started, target, starterVars, fPc, ranked, ctxDone, told,
                   crash>>

\* Mutant: the context is only looked at before the stream connects.
ObserverStopsEarly ==
    /\ oPc = "dialing" /\ ctxDone
    /\ oPc' = "stopped"
    /\ UNCHANGED <<oPlayer, oRole>> /\ ObserverAlone

\* Between two detections the stream may see that its context is done.
ObserverStops ==
    /\ oPc = "idle" /\ ctxDone
    /\ oPc' = "stopped"
    /\ UNCHANGED <<oPlayer, oRole>> /\ ObserverAlone

\* go g.events.OnPlayerLoose(g, *gamePlayer)
TellLoose(p) ==
    /\ p \in loosing
    /\ loosing' = loosing \ {p}
    /\ Tell(p, "loose")
    /\ UNCHANGED <<role, started, target, starterVars, finisherVars, ctxDone,
                   observerVars, crash, hist>>

-----------------------------------------------------------------------------
(* watchGame, once O returned an error: it cancels the game through the      *)
(* registry, and the goroutine that called it does so again                  *)

\* gw.games[gameID] is looked up: it is the entry of this game ("found"), that of
\* another game of the fence, or nil, which ends the process.  What the registry
\* holds is modelled by GameWatcher, and any outcome here.
WatcherLooks ==
    /\ oPc \in {"error", "refused"}
    /\ \/ oPc' \in {"found", "reported"} /\ UNCHANGED crash
       \/ crash' = "noEntry" /\ UNCHANGED oPc
    /\ UNCHANGED <<role, started, target, starterVars, finisherVars, ctxDone,
                   oPlayer, oRole, told, loosing, hist>>

\* cancel() cancels the context.
WatcherCancels ==
    /\ oPc = "found"
    /\ oPc' = "reported"
    /\ ctxDone' = TRUE
    /\ UNCHANGED <<role, started, target, starterVars, finisherVars, oPlayer,
                   oRole, told, loosing, crash, hist>>

\* The caller of watchGame looks the entry up again, for its own cancel().
WatcherLooksAgain ==
    /\ oPc = "reported"
    /\ \/ oPc' = "ended" /\ UNCHANGED crash
       \/ crash' = "noEntry" /\ UNCHANGED oPc
    /\ UNCHANGED <<role, started, target, starterVars, finisherVars, ctxDone,
                   oPlayer, oRole, told, loosing, hist>>

-----------------------------------------------------------------------------
(* S, the starter *)

\* A tick of startGameWhenReady counts the players and calls Start, which
\* refuses a game already started.
Ready ==
    /\ sPc = "waiting"
    /\ Cardinality(Members) >= MinPlayers
    /\ sPc' = IF started THEN "refused" ELSE "collect"
    /\ UNCHANGED <<role, started, target, todo, extra, sPlayer, sRole,
                   finisherVars, ctxDone, observerVars, told, loosing, crash,
                   hist>>

\* sortTargetPlayer lists the ids; rand.Intn(0) panics when there are none.
Collect ==
    /\ sPc = "collect"
    /\ \/ /\ Members = {}
          /\ crash' = "noPlayers"
          /\ UNCHANGED <<sPc, todo>>
       \/ /\ Members # {}
          /\ sPc' = "pick"
          /\ todo' = Members
          /\ UNCHANGED crash
    /\ UNCHANGED <<role, started, target, extra, sPlayer, sRole, finisherVars,
                   ctxDone, observerVars, told, loosing, hist>>

\* One of the ids, looked up again, becomes the target, and the loop over the
\* players begins; when its entry is gone, g.target.Role dereferences nil.
Pick(t) ==
    /\ sPc = "pick"
    /\ t \in todo
    /\ target' = IF role[t] = "out" THEN NoPlayer ELSE t
    /\ \/ /\ role[t] = "out"
          /\ crash' = "noTarget"
          /\ UNCHANGED <<role, sPc, todo>>
       \/ /\ role[t] # "out"
          /\ role' = [role EXCEPT ![t] = "target"]
          /\ sPc' = "brief"
          /\ todo' = Members
          /\ UNCHANGED crash
    /\ UNCHANGED <<started, extra, sPlayer, sRole, finisherVars, ctxDone,
                   observerVars, told, loosing, hist>>

\* Mutant: the test for the id of the target is inverted.
BriefInverted(p) ==
    /\ sPc = "brief"
    /\ p \in todo \cup extra
    /\ todo' = todo \ {p} /\ extra' = extra \ {p}
    /\ role' = IF p # target THEN role ELSE [role EXCEPT ![p] = "hunter"]
    /\ sPc' = "tell" /\ sPlayer' = p /\ sRole' = role'[p]
    /\ UNCHANGED <<started, target, finisherVars, ctxDone, observerVars, told,
                   loosing, crash, hist>>

\* The loop of setPlayersRoles comes to p: everybody but the id of the target
\* becomes a hunter ...
Brief(p) ==
    /\ sPc = "brief"
    /\ p \in todo \cup extra
    /\ todo' = todo \ {p} /\ extra' = extra \ {p}
    /\ role' = IF p = target THEN role ELSE [role EXCEPT ![p] = "hunter"]
    /\ sPc' = "tell" /\ sPlayer' = p /\ sRole' = role'[p]
    /\ UNCHANGED <<started, target, finisherVars, ctxDone, observerVars, told,
                   loosing, crash, hist>>

\* ... and is told the role of its object, be it in the map or not.  A target that
\* left and came back is sent the role "undefined", which tells it nothing.
TellRole ==
    /\ sPc = "tell"
    /\ sPc' = "brief" /\ sPlayer' = NoPlayer /\ sRole' = "out"
    /\ IF sRole \in Message THEN Tell(sPlayer, sRole) ELSE UNCHANGED told
    /\ UNCHANGED <<role, started, target, todo, extra, finisherVars, ctxDone,
                   observerVars, loosing, crash, hist>>

\* The loop ends (it may skip entries made meanwhile), the game is started and
\* F is spawned.
Launch ==
    /\ sPc = "brief" /\ todo = {}
    /\ sPc' = "done" /\ extra' = {}
    /\ started' = TRUE
    /\ fPc' = "spawned"
    /\ UNCHANGED <<role, target, todo, sPlayer, sRole, expired, ranked,
                   ctxDone, observerVars, told, loosing, crash, hist>>

\* startGameWhenReady sees that the context is done.
StarterStops ==
    /\ sPc = "waiting" /\ ctxDone
    /\ sPc' = "done"
    /\ UNCHANGED <<role, started, target, todo, extra, sPlayer, sRole,
                   finisherVars, ctxDone, observerVars, told, loosing, crash,
                   hist>>

-----------------------------------------------------------------------------
(* F, the finisher *)

\* handleGameFinishEvent makes the context of the round and assigns g.stop.
Arm ==
    /\ fPc = "spawned"
    /\ fPc' = "armed"
    /\ UNCHANGED <<role, started, target, starterVars, expired, ranked, ctxDone,
                   observerVars, told, loosing, crash, hist>>

\* The duration of the game is over.
Timeout ==
    /\ fPc = "armed" /\ ~expired
    /\ expired' = TRUE
    /\ UNCHANGED <<role, started, target, starterVars, fPc, ranked, ctxDone,
                   observerVars, told, loosing, crash, hist>>

\* Mutant: F does not clear g.started.
FlagLate ==
    /\ fPc = "armed" /\ GameDone
    /\ fPc' = "flagged"
    /\ UNCHANGED started
    /\ UNCHANGED <<role, target, starterVars, expired, ranked, ctxDone,
                   observerVars, told, loosing, crash, hist>>

\* F wakes up: from here on SetPlayer and RemovePlayer see a lobby again.
Flag ==
    /\ fPc = "armed" /\ GameDone
    /\ fPc' = "flagged"
    /\ started' = FALSE
    /\ UNCHANGED <<role, target, starterVars, expired, ranked, ctxDone,
                   observerVars, told, loosing, crash, hist>>

\* finish tells the target that it won when its id still has an entry.
TargetWins ==
    /\ fPc = "flagged"
    /\ fPc' = "ranking"
    /\ IF role[target] # "out" THEN Tell(target, "win") ELSE UNCHANGED told
    /\ UNCHANGED <<role, started, target, starterVars, expired, ranked, ctxDone,
                   observerVars, loosing, crash, hist>>

\* ByPlayersDistanceToTarget: dists[len(dists)-1] panics on an empty map.
RankPlayers ==
    /\ fPc = "ranking"
    /\ \/ /\ Members = {}
          /\ crash' = "emptyRank"
          /\ UNCHANGED <<fPc, ranked>>
       \/ /\ Members # {}
          /\ ranked' = Members
          /\ fPc' = "ranked"
          /\ UNCHANGED crash
    /\ UNCHANGED <<role, started, target, starterVars, expired, ctxDone,
                   observerVars, told, loosing, hist>>

\* OnGameFinish looks up gw.games[rank.Game], with the same three outcomes.
FinishLooks ==
    /\ fPc = "ranked"
    /\ \/ fPc' \in {"found", "cancelled"} /\ UNCHANGED crash
       \/ crash' = "noEntry" /\ UNCHANGED fPc
    /\ UNCHANGED <<role, started, target, starterVars, expired, ranked, ctxDone,
                   observerVars, told, loosing, hist>>

\* cancel() cancels the context.
FinishCancels ==
    /\ fPc = "found"
    /\ fPc' = "cancelled"
    /\ ctxDone' = TRUE
    /\ UNCHANGED <<role, started, target, starterVars, expired, ranked,
                   observerVars, told, loosing, crash, hist>>

\* The rank is sent to everybody in it.
Publish ==
    /\ fPc = "cancelled"
    /\ fPc' = "published"
    /\ told' = [p \in Player |-> IF p \in ranked THEN told[p] \cup {"finish"}
                                                 ELSE told[p]]
    /\ ranked' = {}
    /\ UNCHANGED <<role, started, target, starterVars, expired, ctxDone,
                   observerVars, loosing, crash, hist>>

\* g.players = make(map[string]*GamePlayer)
Reset ==
    /\ fPc = "published"
    /\ fPc' = "done"
    /\ role' = [p \in Player |-> "out"]
    /\ UNCHANGED <<started, target, starterVars, expired, ranked, ctxDone,
                   observerVars, told, loosing, crash, hist>>

-----------------------------------------------------------------------------
(* The surroundings *)

\* The context is cancelled: by admin:clear, at shutdown, or by the cancel() of
\* another game of the fence that found the entry of this one.
Cancel ==
    /\ ~ctxDone
    /\ ctxDone' = TRUE
    /\ UNCHANGED <<role, started, target, starterVars, finisherVars,
                   observerVars, told, loosing, crash, hist>>

\* O is about to write to g.players (a delete from an empty map writes nothing).
Writing ==
    \/ oPc = "join"
    \/ oPc \in {"idle", "aim"} /\ Members # {}
    \/ oPc = "count0" /\ Members = {}

\* The runtime aborts the process when a write to a map meets another
\* goroutine that ranges over the map or looks up a key in it.
MapFault ==
    /\ Writing
    /\ sPc \in {"collect", "pick", "brief"} \/ fPc \in {"flagged", "ranking"}
    /\ crash' = "mapFault"
    /\ UNCHANGED <<role, started, target, starterVars, finisherVars, ctxDone,
                   observerVars, told, loosing, hist>>

-----------------------------------------------------------------------------

\* What O does once it has begun with a detection, and watchGame with an error.
ChaseStep(p) ==
    \/ ChaseLooks(p) \/ ChaseMisses(p) \/ ChaseReaches(p)
    \/ TellCaught(p) \/ TellReached(p)
ExitStep(p) == ExitReadsStarted(p) \/ ExitCounts(p) \/ ExitCountsAgain(p)
WatcherStep == WatcherLooks \/ WatcherCancels \/ WatcherLooksAgain

ObserverStep(p) ==
    ObserveMove(p) \/ Join(p) \/ ChaseStep(p) \/ ObserveExit(p) \/ ExitStep(p)

StarterStep == Ready \/ Collect \/ TellRole \/ Launch \/ StarterStops

FinisherStep ==
    \/ Arm \/ Flag \/ TargetWins \/ RankPlayers
    \/ FinishLooks \/ FinishCancels \/ Publish \/ Reset

Step ==
    \/ Dial \/ ObserverStops \/ WatcherStep
    \/ \E p \in Player : ObserverStep(p) \/ TellLoose(p) \/ Pick(p) \/ Brief(p)
    \/ StarterStep \/ FinisherStep \/ Timeout \/ Cancel \/ MapFault

\* A crash ends the process: nothing happens after it.
Alive == crash = "none" /\ Step

\* S, F and the pending messages have ended.
RoundOver == sPc = "done" /\ fPc \in {"none", "done"} /\ loosing = {}

\* Everything has ended: the only way to stop.
Ended ==
    /\ \/ crash # "none"
       \/ oPc \in {"ended", "stopped"} /\ RoundOver /\ ctxDone
    /\ UNCHANGED vars

Next == Alive \/ Ended

StarterTurn == StarterStep \/ \E p \in Player : Pick(p) \/ Brief(p)

ObserverTurn ==
    WatcherStep \/ \E p \in Player : Join(p) \/ ChaseStep(p) \/ ExitStep(p)

\* The scheduler runs every goroutine that can run, and a timer fires.  The
\* selects of O and S choose at random among the ready cases, so a cancelled
\* context is seen in the end however many detections keep coming: strong
\* fairness for O, which is not always at its select.  A range over a map ends
\* however many entries are made meanwhile: strong fairness for Launch.  No
\* detection is owed, nor that the stream ever connects or fails.
Fairness ==
    /\ WF_vars(crash = "none" /\ ObserverTurn)
    /\ SF_vars(crash = "none" /\ ObserverStops)
    /\ WF_vars(crash = "none" /\ StarterTurn)
    /\ SF_vars(crash = "none" /\ Launch)
    /\ WF_vars(crash = "none" /\ FinisherStep)
    /\ WF_vars(crash = "none" /\ Timeout)
    /\ WF_vars(crash = "none" /\ \E p \in Player : TellLoose(p))

Spec == Init /\ [][Next]_vars

FairSpec == Spec /\ Fairness

-----------------------------------------------------------------------------
(* Properties *)

TypeOK ==
    /\ role \in [Player -> Role]
    /\ started \in BOOLEAN
    /\ target \in Player \cup {NoPlayer}
    /\ sPc \in StarterPc /\ todo \subseteq Player /\ extra \subseteq Player
    /\ sPlayer \in Player \cup {NoPlayer} /\ sRole \in Role
    /\ fPc \in FinisherPc /\ expired \in BOOLEAN /\ ranked \subseteq Player
    /\ ctxDone \in BOOLEAN
    /\ oPc \in ObserverPc /\ oPlayer \in Player \cup {NoPlayer} /\ oRole \in Role
    /\ told \in [Player -> SUBSET Message]
    /\ loosing \subseteq Player
    /\ crash \in Crash
    /\ hist \in History

\* Players left while S was starting, or a stop came before F assigned g.stop.
Surprised == hist.early # {} \/ hist.lost

\* In a running round a player without a role got its entry while the roles
\* were being given out or later: the loop of setPlayersRoles misses nobody else.
RolesGiven ==
    started => {p \in Player : role[p] = "undefined"} \subseteq hist.late

\* Roles are final and known to their holders: once S has finished, a hunter or
\* target in the map was told that very role, and only g.target is a target.
HoldersKnowTheirRole ==
    \A p \in Player : role[p] \in {"hunter", "target"} /\ sPc = "done" =>
        /\ role[p] \in told[p]
        /\ role[p] = "target" <=> p = target

\* At most one player ever catches the target, and it was told to be a hunter.
OneCatcher ==
    LET Catchers == {p \in Player : "reached" \in told[p]}
    IN  /\ \A p, q \in Catchers : p = q
        /\ \A p \in Catchers : "hunter" \in told[p] /\ p # target

\* "GameWatcher is made to start/stop games by player presence": when O is
\* between two detections of a running round with one player or none, or with
\* no target, the round has been told to stop.
Abandoned == started /\ oPc = "idle"
             /\ (Cardinality(Members) <= 1 \/ role[target] = "out")

StopsByPresence == Abandoned => GameDone

\* The same, for the rounds that no exit surprised: no player left while S was
\* starting, and no g.stop came before F assigned it.
StopsUnlessSurprised ==
    Abandoned => GameDone \/ Surprised

\* SetPlayer returns its error, which ends the process sooner or later (watchGame
\* cancels the game, and its caller dereferences the entry that is gone), only
\* in a round already told to stop, or surprised as above.
ErrorOnlyWhenStopping ==
    oPc = "error" => GameDone \/ Surprised

\* p was told that it lost or soon will be (its capture or its exit is being
\* handled), or RemovePlayer let it go without a word (in a lobby, as the last but
\* one, or as the last one when the rank had been made).
Heard(p) ==
    \/ "loose" \in told[p] \/ p \in loosing
    \/ oPc = "grab" /\ p = target
    \/ Leaving(p)
    \/ p \in hist.quiet

\* Whoever was given a role is sent the rank, unless it heard that it lost.
BriefedHear ==
    fPc \in {"published", "done"} =>
        \A p \in Player : Briefed(p) => "finish" \in told[p] \/ Heard(p)

\* The target, once told its role, is told that it won before the rank is made,
\* unless it heard that it lost.
TargetHearsVerdict ==
    fPc = "ranking" \/ RankMade =>
        ("target" \in told[target] => "win" \in told[target] \/ Heard(target))

\* No goroutine of the game dies in the middle of a round: the draw, the rank and
\* the map only do around its start and its finish, and the draw of exits
\* that it took for exits from a lobby.  While started holds only the error of O ends
\* the process, in a round told to stop or surprised.
CrashOnlyAtEdges ==
    LET Surprise == hist.early \cup {p \in Player : Leaving(p)}
    IN  /\ crash # "none" /\ started => crash = "noEntry" /\ (GameDone \/ Surprised)
        /\ crash = "noTarget" => Surprise # {}
        /\ crash = "noPlayers" => Cardinality(Surprise) >= MinPlayers

\* RemovePlayer keeps the last hunter in the map for the rank: at rest, the map
\* of a running round is empty only when the target was caught or left last, or
\* after an exit while S was starting.
RoundKeepsAPlayer ==
    started /\ oPc = "idle" /\ Members = {} =>
        \/ "loose" \in told[target] \/ target \in loosing
        \/ hist.early # {}

\* Whoever was given a role is told in the end how the round ended for it, unless
\* RemovePlayer let it go without a word.
BriefedHearInTheEnd ==
    \A p \in Player : Briefed(p) ~>
        told[p] \cap {"finish", "loose"} # {} \/ p \in hist.quiet \/ crash # "none"

\* A cancelled game leaves no goroutine behind, but for an observer whose stream
\* never gets its answer.
GoroutinesEnd ==
    ctxDone ~> \/ crash # "none"
               \/ RoundOver /\ oPc \in {"ended", "stopped", "dialing"}

=============================================================================
