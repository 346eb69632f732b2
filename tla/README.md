# CatchCatch in TLA+

CatchCatch is a game of catch played on the streets. Players send their position
to a server over a websocket; when enough of them are inside a geofence a game
begins there, one of them is the target and the others hunt it for a minute.
This directory models the server (Go, `src/catchcatch-server`): TLA+ modules,
configurations for TLC, and proofs for TLAPS.

The server is made of goroutines that share maps and pointers without locks.
Which of them runs first decides who plays what, who is told what, and whether
the process survives; a unit test sees one order, and this is about all of them.

## 1. The system

| part | source | state | operations |
|---|---|---|---|
| Game | `game.go` | `players`, `started`, `target`, `stop` | `Start`, `SetPlayer`, `RemovePlayer`, `handleGameFinishEvent`, `finish` |
| Rank | `game.go:117-157` | none | `ByPlayersDistanceToTarget` |
| Game watcher | `gamewatcher.go` | `games`, `Clear` | `WatchGamesForever`, `WatchGames`, `watchGame`, `observeGamePlayers`, `startGameWhenReady`, `WatchCheckpoints`, the game events |
| Event stream | `eventstream.go` | one TCP connection per stream | `StreamNearByEvents`, `StreamIntersects` |
| Websocket server | `websocket.go`, `websocket_driver.go` | `connections`; per connection callbacks, `stop`, `onDisconnected`, `buffer` | `Listen`, `Add`, `Remove`, `Emit`, `Broadcast`, `CloseAll` |
| Event handler | `eventhandler.go` | the `player` each connection closes over | player and admin events |
| Location service | `service.go`, `model/` | Tile38 | `Update`, `Remove`, `Players`, `Features`, `Clear` |
| Life cycle | `main.go` | the root context | start, `onExit`, `withRecover` |
| Metrics, messages | `metrics.go`, `protobuf/` | none that matters | output, generated encoders |
| Clients | `android/`, `web/`, `catchcatch-client/` | the socket and its callbacks | game, radar, reconnection |

How they meet:

* A position goes `player:update` -> event handler -> location service -> Tile38.
  Tile38 reports detections on the connections of the event stream.
* `WatchGames` gets the detections of players near geofences and spawns a
  goroutine `watchGame` for each. The first one at a fence makes the `Game`, its
  entry in `games`, an observer (`observeGamePlayers`: its own stream, which
  calls `SetPlayer` and `RemovePlayer`) and a starter (`startGameWhenReady`).
* `Start` gives out the roles and spawns the finisher
  (`handleGameFinishEvent`), which waits for the timer, `g.stop` or the parent
  context, ranks the players and resets the game.
* Game events go back through the watcher to the websocket server. The finish
  also cancels the context of the game and deletes its entry.
* `admin:clear` cancels the context of the current `WatchGames`, empties Tile38
  and closes the connections. An interrupt cancels the root context.

What is hard, and what makes each part correct:

* **Game.** Observer, starter and finisher share the players and two flags.
  Roles must be given once and be known to their holders; a target is caught
  once; an abandoned round stops; everybody who played hears the end; the
  process dies of it as seldom as can be.
* **Rank.** Players at equal distances, rounding, the empty map.
* **Watcher.** Check-then-act on the registry, a cancel function that goes
  through the registry in three steps, two cancellations after an error (the second
  of which finds nothing and ends the server), contexts cancelled at any point, one unbuffered channel with two senders.
* **Stream.** Chunks that split messages, errors that are retried for ever, an answer
  that arrives together with the first notification, lines handled after the end of the
  context.
* **Websocket server.** A map that is copied after it was changed in place,
  `Broadcast` meeting a removal, `Close` called twice or too early, a buffer
  that is reused and may be too small.
* **Event handler and service.** An update that races the disconnection of its
  player, a disconnection that comes before its callback is registered, a list that is
  sent while players come and go, the order of the three steps of `admin:clear`, errors
  of Tile38 that are ignored.
* **Pages.** They show what the broadcasts and the list told them, which may be late, cut
  short, or about somebody who has left.

`PROJECT.json` lists every hazard at its line with the properties that cover it.

## 2. The modules

    Round <--refines-- GameRound --extends--> Game        GameWatcher         GameRank
                           ^                   ^               ^                 ^
                         MCGame            GameProofs   GameWatcherProofs  GameRankProofs
                           GameRoundProofs ----^        MCGameWatcher
                           (extends GameRound and GameProofs)

    Group <--refines-- WSServer       Sessions         EventStream          Inbox
                          ^              ^                  ^                 ^
                    WSServerProofs  SessionsProofs  EventStreamProofs   InboxProofs
                                      MCSessions

The modules meet at promises rather than in one large composition: `Round` is what
`Game` implements and what `GameWatcher` takes a game for; `EventStream` justifies the
detections that `Game` and `GameWatcher` take in any order; `Group` is what `WSServer`
implements and what `Sessions` takes in large steps.

**Game** is one `Game` object. Its processes are

* *O*, the observer. `oPc` says where it is: connecting (`dialing`, which it may be for
  ever), between detections (`idle`), after `SetPlayer` read `started` and before it makes
  the entry (`join`), inside a chase (`chase` before the lookup of the target, `aim` after
  it, `grab` once the target was deleted, `jeer` once it was told), or inside
  `RemovePlayer` (`left` once the entry was deleted, `count` once `started` was read,
  `count0` once the players were counted). An error of its stream or of `SetPlayer` is
  followed into `watchGame`: `gw.games[id].cancel()` (`WatcherLooks`, `WatcherCancels`),
  and the second one of its caller (`WatcherLooksAgain`). What the registry holds at these
  lookups is left open, the nil dereference that ends the process included (`noEntry`);
  `GameWatcher` says when it is which.
* *S*, the starter (`sPc`): the tick that counts the players, the list of ids,
  the draw of the target, the loop that gives roles (`Brief`, one
  player at a time, in any order) and tells them (`TellRole`), and `started = true`
  (`Launch`).
* *F*, the finisher (`fPc`): `Arm` assigns `g.stop`, `Flag` clears `started`,
  then the verdict of the target, the rank, the cancellation through the registry
  (`FinishLooks`, `FinishCancels`), the announcement and the reset.
* the pending goroutines `go OnPlayerLoose` (`loosing`), the timer, and whoever
  cancels the context.

A step is what a goroutine does between two points at which another one could
tell the difference. `role` is the map: `"out"` is no entry. An entry holds an
object, and a player that comes back gets a new one with the role `"undefined"`
while `g.target` still points to the old: the role is per entry, `target` is the
id. A range over a map that changes may or may not visit what is added (`extra`),
and never visits what was deleted. A write to the map that meets a range or a
lookup may kill the process (`MapFault`), as the Go runtime does. `hist` is a
history variable that no action reads: properties use it to say which race
excuses what.

**Round** says what a game promises: it goes through its phases in order, is
caught once at most, is announced once and to somebody, and does not die while it is
played unless it was surprised. **GameRound** maps `Game` to it.

**GameWatcher** is the registry. A game is known by the `watchGame` goroutine
that made it (`games` maps fences to them), and is reduced to the phase `Round`
gives it; of its observer it matters whether it runs and how it returned. The cancel
function of a game goes through the registry, as `gw.games[id].cancel()` does, in three steps
between which others run: the entry is looked up, whosever it is, and is a nil dereference
when there is none (`Looks`); the entry the fence has by then is deleted (`Deletes`); the game
that was looked up is cancelled (`Cancels`). `at` and `held` say where each of the two callers
of a game is in it: `watchGame` after an error, followed by its caller, and the finisher.
`hist` is the history variable: games whose observer failed, detections that were overtaken,
games they replaced, and games whose entry was deleted for another's.

**GameRank** is `ByPlayersDistanceToTarget` with the range over the map in any
order, its sorted keys as the one increasing sequence of all of them (`Distances`), and the
conversion of its rows in `OnGameFinish`. The rows of the message
all hold the address of one loop variable; that is what the Go of this code (it
predates modules, and so Go 1.22) makes of it.

**WSServer** is the connection group. Its processes are one goroutine for each
connection (`Conn`: `Accept`, the writes of `Add`, `Connect` for the callback
`onConnection`, `Hangup` for the end of the read loop and the deferred `Remove`) and
other goroutines (`Caller`) that call `Remove`, `Broadcast` and `CloseAll`; both kinds
share `Lock`, `Change`, `Store`, the steps of `getConnectionsForChange`. `group` is the
stored map, which `Change` alters in place before it is copied (`copy`) and the copy
stored. A range keeps the map it loaded: it sees the change of the first writer
after that, while its map is still the stored one (`fresh`), and no later one. `owed` is
the history variable of a `Broadcast`: who has been in the group since it began and
was not sent the message yet. `MapFault` is the runtime's answer to a range or a
lookup that meets the change.

**Group** says what a connection group promises, without maps and copies: connections come,
enter once, are closed and leave, in this order; a call of `Broadcast` knows whom it owes its
message (`due`) and whom it will look for in vain (`missed`). The mapping is at the end of
`WSServer`: a connection is in the group from the change in place on, whoever holds the
mutex, and `Missed` is what is left of the range and is no longer in the group. `Audiences` of
`Sessions` is what `Group` leaves of a broadcast that is taken in one step: everybody, or,
while somebody is about to leave, any part.

**Sessions** is the event handler over the connection group and the store, from
`onConnection` to `onPlayerDisconnect`. A player is its connection (`Conn`); some of them
are administration pages (`Admin`), which show the players (`page`) and may disconnect
them or clear everything. The processes are the goroutine of each connection (`pc`: the
steps of `newPlayer` and `onConnection`, then one message at a time), the `go
sendPlayerList` of a page (`listing`, `todo`), and the `go onDisconnected` of every
`Close` (`farewell` before its broadcast, `forget` before its removal; they are counters,
as a connection may be closed twice). `store` is Tile38's collection of players; its
commands may fail (`Refuse`, `ScanFails`, the second disjuncts of `Update` and `Forget`, and
the second outcome of `Disconnect` and `Clear`). `listed` notes the pages whose list was
answered. A broadcast reaches
the whole group, or any part of it while a connection in the group is closed and about to be
deleted (`Audiences`). `cause` notes, for each player, what went wrong: `"store"`, Tile38
failed; `"cut"`, a broadcast stopped early; `"late"`, something about the player was still
stored or sent after it was closed (an update, its announcement, its entry in a list); `"early"`, it was closed before its callback was registered.

**EventStream** is one `StreamIntersects`: `Dial` and `Handshake` are `listenTo`, the other
actions the loop of `streamDetection`. A notification travels in three parts (its event,
the id, the position, in the order of the JSON); a read takes up to `Chunk` of what has
arrived and may cut it anywhere. `chunk` holds the parts of it that the loop has not come
to, `Lines` are the lines the loop takes (those that have the event), and `Detection` is what
`handleDetection` makes of one, with or without its id and its position. `view` is what the callback has been told. Tile38 may be down from the
beginning, accept and say nothing, or go away, with what the network did not
deliver lost. `cut` notes whose notifications were cut.

**Inbox** is the read side of one connection, with either driver: `XNetRead` replaces the
buffer, `GobwasRead` reads at least the body, and at most what has arrived, into the 512
bytes it is given. `Dispatch` is the rest of `readMessage`. `spilled` notes that a read took
the beginning of the next frame, after which the stream is read out of step
(`GobwasMisread`).

Operators marked "Mutant" are plausible bugs: each one, put in the place of the
definition that follows it, breaks a property named in `PROJECT.json`.

## 3. The runs

| run | instance | what it shows |
|---|---|---|
| `game` | 3 players, `MinPlayers` 3 | all safety properties of `Game` |
| `game_live` | 2 players, `MinPlayers` 2, fairness | `Game` implements `Round` with its liveness; who was given a role hears the end; a cancelled game leaves no goroutine but an observer without an answer |
| `game_stop_lost` | as `game` | `StopsByPresence` fails |
| `watcher` | 1 fence, 2 detections, fairness | all properties of `GameWatcher` but one |
| `watcher_clear` | as `watcher` | `CancelledGamesLeave` fails |
| `rank` | up to 3 players, 5 distances | the rank is right but for ties |
| `rank_names` | as `rank` | `PointsArePerPlayer` fails |
| `server` | 2 connections, 1 caller, fairness | all properties of `WSServer` |
| `server_broadcast` | as `server` | `BroadcastReachesAll` fails |
| `sessions` | 1 page, 1 other player, fairness | all properties of `Sessions` |
| `stream` | 2 players, chunks of 4 parts, 3 notifications, fairness | all properties of `EventStream` |
| `inbox` | buffer of 2 units, 3 messages of up to 3 | all properties of `Inbox` |

The properties of `Game`:

* `RolesGiven`, `HoldersKnowTheirRole`: after the start the only players without
  a role came in while roles were given or later (`hist.late`); whoever has a
  role was told that one; nobody but `g.target` is a target.
* `OneCatcher`: the target is reached once, by a hunter.
* `StopsUnlessSurprised`: between two detections of a running round that lost its
  target or its last opponents, the round has been told to stop. The exceptions
  are exits taken for exits from a lobby while the starter ran (`hist.early`), and
  a stop before `g.stop` was assigned (`hist.lost`). Without them the property is
  `StopsByPresence`, which fails.
* `ErrorOnlyWhenStopping`: `SetPlayer` fails in such rounds only: rounds that were told to
  stop, or were surprised. This matters to everybody: its error ends the process
  (`FailuresAreFatal`).
* `BriefedHear`, `TargetHearsVerdict`: who played hears the end, and the target
  hears a verdict before the rank, unless it is about to hear that it lost (the chase
  that deleted it has yet to tell it, or `RemovePlayer` to decide), or `RemovePlayer` told it
  nothing: in a lobby, when one player is left, or as the last one when the rank had
  been made (`hist.quiet`). The finisher may run between any two steps of a capture or an
  exit, so a target may be ranked away before it is told that it was caught.
* `RoundKeepsAPlayer`, `CrashOnlyAtEdges`: when the map of a running round is
  empty, and when and why a goroutine can die. The server does die: of the draw or
  the rank of an empty map, of a target that left while it was drawn, of the
  unlocked map, and of every error of the observer. The properties say that the
  first four only happen around the start and the finish, those of the draw after exits that
  were taken for exits from a lobby; and that only the error ends the process in the middle
  of a round (`noEntry` while `started`), when the round was told to
  stop and the finisher has not run yet, or was surprised.
* `BriefedHearInTheEnd`, `GoroutinesEnd`: whoever was given a role is sent the rank or
  that it lost in the end, whoever cancels the context; a cancelled game leaves no
  goroutine behind but an observer that waits for the answer of its stream.

The properties of `GameWatcher`:

* `LiveGamesAreRegistered`: a game whose context is alive is the registered one, but
  in three cases: between the deletion and the cancellation of its cancel; when a
  canceller that had looked up another game of the fence deleted its entry; when a
  detection that had found no entry replaced it.
* `RoundsAreNotCutShort`: at a fence where no observer failed and no game was made
  twice, a game is not cancelled before its finish, and that finds its own entry.
* `FailuresAreFatal`: where one failed, the server does not survive it: `watchGame` cancels
  the game and deletes its entry, and its caller dereferences it again. The only ways
  around are another game of the fence, whose entry is found instead and is cancelled
  for nothing.
* `WatchesEnd`, `PlayedGamesLeave`: every goroutine of a cancelled game ends, but an
  observer without an answer and the `watchGame` that waits for it; a game that began gives its
  fence up. One that was cancelled in its lobby by
  `admin:clear` does not (`CancelledGamesLeave`).

The properties of `WSServer`:

* `ImplementsGroup`: it is a `Group`. A `Broadcast` that returns no error was sent to everybody
  who stayed in the group, though the map it ranges over may be out of date
  (`SilentBroadcastReachesAll`, which the theorems also state by itself); one that returns an
  error was not (`BroadcastReachesAll`), and returns it only when somebody left under it.
  `CloseAll` closes everybody it found; whoever comes while it runs may stay open.
* `OpenConnectionsAreAddressed`: no writer loses the connection of another: from the end
  of `Add` on, whoever is open is found by `Emit`.
* `GoneConnectionsAreForgotten`, `ClosedConnectionsLeave`: no map, stored or about to be,
  keeps a connection whose goroutine has ended, and whoever is closed leaves in the end.
* `DisconnectionsAreHandled`: the goroutine of a connection does not end before its
  `onDisconnected` was called; a `Remove` that comes before `onConnection` registered it
  calls the no-op of `Add`, and then nobody calls the real one (`handled` is `"early"`).

The properties of `GameRank`: closer players come first with the points their distance
leaves (`RankIsByDistance`), everybody in the map is addressed, and only misses a row when
another player at the same whole meter has it (`OnlyTiesAreDropped`: the code keeps one
row per meter). That the rows name the right player fails in the message
(`PointsArePerPlayer`).

The properties of `Sessions`:

* `NobodyIsInvisible`: the list and the announcements together miss nobody: a page that
  was answered a list shows every player that is connected and stored, unless a broadcast
  about it was cut. A page whose lists all failed knows only who came or moved since, and
  is excepted.
* `OpenPlayersAreStored`: a connected player that is not in Tile38 is one that a page is
  just disconnecting or clearing, or Tile38 failed.
* `GhostsHaveACause`, `StalePagesHaveACause`: when nothing is left to be done about a player,
  it is neither stored nor shown, but for the causes above. The code has no other way
  to make a ghost, a stored player without a connection that takes part in games; it does have
  these: an update handled while the player is being disconnected, a disconnection before
  `OnDisconnected` was called, an error of Tile38 that nobody looks at. A page also keeps a
  player whose announcement or list entry was sent after it was closed.
* `ClosedPlayersDepart`: whoever is closed, by whomever, ends with its callbacks run.

The properties of `EventStream`:

* `ViewIsExact`: when all was handled, the callback knows who is inside and where, but for
  players with a notification that was cut: such a player may be at (0, 0), or be
  reported without an id.
* `LeaksAreFailedHandshakes`: only a stream that fails its handshake leaves its connection
  open.
* `CancelledStreamsEnd`: a cancelled stream ends, also when Tile38 went away, unless it is
  still waiting for an answer. Until then a stream whose Tile38 went away reads on and never
  reports it (`ReadFails`); no property asks that it does.

The properties of `Inbox`:

* `HandledInOrder`: every message that has a callback is handled once and in order, whatever
  lies in between, as long as no read spilled over its frame.
* `OnlyOlderLeftovers`: callbacks are given the whole buffer; with x/net it holds the message
  alone, with gobwas what older, longer messages left.

**Bounds.** Three players are the threshold of the code (`MinPlayersPerGame`) and
the least number with a target, a hunter who catches and a hunter left behind; all
branches of `RemovePlayer` are reached. `MCGame` has three bounds: `RoundOnly`, nothing
follows a crash and nobody joins a game whose round is over; `FewUnheard`, two exits at
most that were taken for exits from the lobby or were answered with nothing (one that was both
counts twice), while a third may be under way; `OneAstray`, for liveness, one player at most that left unheard or came late. Two
players and a threshold of two do for liveness, where no symmetry may be used: fewer branches,
the same loops. In `GameWatcher` two detections are one that makes a game and one that races
it or comes after it; the theorems hold for any number of them. `MCGameWatcher` numbers
them, so that they come in order (`InOrder`, in place of a symmetry that liveness forbids), does
not go on after a crash (`Running`; every property that asks for an end allows the crash),
has `admin:clear` or the shutdown but not both, the shutdown once all detections were made
(`OneCancel`), and does not call `WatchGames` again when no detection is left
(`NoIdleTurn`; nothing is assumed of the loop, so this hides no loss of progress). Fences share only the map,
and what two of them could do to each other is `MapFault`, which ends the run. In `WSServer` two connections and
a caller are three writers of the group, two of them under the range of the
third; a range over two has a connection left when the first is missing. `Dist` has 0 (the
target itself), neighbours that round to close points, and two large values.
A page and a player in `Sessions` are a page
that sees itself and somebody else, both of whom it can clear, and one of whom it can
disconnect; the safety properties relate one page and one player, and their
theorems hold for any number. `OneCause` (`MCSessions`) stops the search where a second thing
goes wrong about a player: the safety properties are proved without it, and
`ClosedPlayersDepart` mentions no cause. In `EventStream` a notification has three parts and a chunk
four, so that a chunk can hold the end of one and the beginning of the next; three
notifications bring a player in, move it, and take it out. In `Inbox` a buffer of two
units is overrun by a body of three, and spilled into by shorter ones. Deadlock is checked in
every run: the steps `Ended`, `Finished`, `Returned` and `Published` stand for a system
that has stopped.

**Fairness.** Every goroutine that can run is run (weak fairness on each), and a
timer fires. The `select` of the stream chooses at random among its ready cases,
so a cancelled context is noticed in the end however many detections come: strong
fairness for `ObserverStops`. A range over a map ends however many entries are made
meanwhile: strong fairness for `Launch`. Nothing is assumed of the handshake, which has no
deadline and does not look at the context: a stream that is connecting, an observer's (`Dial`
of `Game`, `obs = "dialing"` of `GameWatcher`) or the loop's, may do so for ever. Of the loop of
`WatchGamesForever` nothing at all is assumed: no game waits for it. Go's mutex
starves nobody: strong fairness for `Lock`. A read of a closed socket fails (`FailedRead`). In
`Sessions` the goroutines of connections, of lists and of callbacks run. In `EventStream` the
select picks the context in the end (strong fairness for `Stop`), and Tile38 owes nothing. No
player has to move, no detection has to arrive, nobody has to cancel anything; the stream
need not refuse nor accept.

## 4. The findings

Four runs end in a violation of what a comment of the code says; the entries of
`PROJECT.json` quote it.

1. A stop that comes before the finisher goroutine has run is lost, and the
   round goes on for its minute with nobody in it.
2. `admin:clear` leaves games that had not begun in the registry. It flushes the fences as
   well, so this bites when a fence of the same name is drawn again: it never gets a game.
3. Every row of the published rank names the same player.
4. `Broadcast` gives up at a connection that has just left, and those after it hear
   nothing.

The models hold more that no comment contradicts, and that the properties carve out by
name: `RemovePlayer` puts the last player back into the map, for the sake of the rank;
every error of an observer ends the server, a hunter's move
after the target left included; players at the same whole meter share one row; ghosts are made in the three ways
`cause` names; a stream whose Tile38 went away stays deaf without an error, and one whose
answer arrives together with a notification fails and leaks its connection; the gobwas
driver ends at a message of more than 512 bytes and garbles two that arrive together.

## 5. The proofs

For any finite set of players and any `MinPlayers >= 2` (`GameAssumption`; the code
has 3), `GameProofs` proves `Spec => []P` for `TypeOK`, `RolesGiven`,
`HoldersKnowTheirRole`, `OneCatcher`, `StopsUnlessSurprised` and
`ErrorOnlyWhenStopping`.

None of them but `TypeOK` is inductive. The invariant `IInv` has six parts:

* `PcInv`: which positions of S, F and O go together, and when `started` holds. It
  also says that `Start` is called once, so `ErrAlreadyStarted` never occurs.
* `RoleInv`: who holds a role, in the map or in the entry `RemovePlayer` just took
  out, holds it rightly and was told, or is still in the `todo` of the running loop.
* `BriefInv`: a player without a role is one the loop has yet to visit, or came
  late; the loop never visits a deleted entry.
* `CatchInv`: from the deletion of a capture on the target has no entry, and gets none
  that a hunter could chase: there is no second catcher.
* `PresenceInv`: how many players a round without surprises has, step by step of
  the start, so that losing the last but one is always noticed by `RemovePlayer`.
* `ErrorInv`: an error of O comes from its connection, before anybody was seen, or from a
  round that was told to stop or was surprised, and remains so until the process ends.

`Inductive` proves that every action keeps `IInv`, one step per action; the theorems
follow from it. `GameRoundProofs` proves `GameImplementsRound`, `Spec =>
ImplementsRound`: each action of `Game` is a step of `Round` or a stutter under the
mapping of `GameRound`. It needs `RankedSomebody`, that the rank which is announced
names somebody, and `OneCatcher`.

The second half of `GameProofs` proves what remains of the safety of `Game`: `CrashOnlyAtEdges`,
`RoundKeepsAPlayer`, `BriefedHear` and `TargetHearsVerdict`, each from a part of its own,
preserved together with `IInv` (`EndInductive`): `EdgeInv`, that the players S counted are
in the map or among those whose exit was, or may still be, taken for one from a lobby, and
what a running round may die of; `KeepInv`, that the
entry `RemovePlayer` took out can be put back, and what emptied a map; `HearInv`, that who
was given a role, or is being told one, is in the map until the rank is made, then in the rank, then told of the
finish, unless it heard that it lost or is about to (`Accounted`), and that the target was told that it won
under the same exception (`Judged`).

For any sets of connections and callers (`ServerAssumption`: they are disjoint),
`WSServerProofs` proves all the safety properties of `WSServer` that hold. Its `IInv`
says that only the holder of the mutex is between its change and its store
(`LockInv`); what each place says of the connection a goroutine is busy with
(`PlaceInv`, which even the types need: only connections enter the group); that a
copy equals the group until it is stored, and that whoever is being deleted, or is out
of the group, was closed (`MapInv`); and that a running `Broadcast` still visits everybody
whom it owes its message (`CastInv`). `ServerImplementsGroup` is `Spec => ImplementsGroup`, for
any connections and callers. It needs more (`FullInv`): that a connection that is being added is
open and out of the group until its change (`ComingInv`), so that it enters open and only once;
that a range visits nobody who has yet to enter, and, until the map was copied, nobody who left
(`RangeInv`), so that a broadcast misses exactly those who left under it; and that `CloseAll` has
yet to visit whomever it found and did not close. The hard step is `Change`
(`ChangeRefines`): a deletion is `Leave` when the connection is there, and nothing when another
`Remove` was first.

For any fences and detections, `GameWatcherProofs` proves all the safety properties of
`GameWatcher`. Its `IInv` adds that entries and cancellations are of games that were made
(`GamesAreMade`), that whoever is inside `cancel` holds a game of its own fence (`CallsHoldGames`),
that `watchGame` cancels the games whose observer failed and no others (`FailedAreCancelled`),
that a detection about to make a second game is noted (`OvertakenAreLate`), that the caller of
`watchGame` cannot find the game that was already cancelled (`SecondCancelMisses`, from which
`FailuresAreFatal` follows), and the key: at a fence without trouble every game that is not over
has its own entry until its finish deletes it, whatever became of its context
(`SoundGamesAreTheirs`).

For any connections and pages (`SessionsAssumption`: pages are connections), `SessionsProofs`
proves all the safety properties of `Sessions`, one lemma per action. `IInv` follows what is
still owed about a player: `GhostInv` says that a stored player without a cause is open, or
will find itself in the group when it hangs up, or has a callback pending, and that one
whom a page deletes from the group has a callback pending; `PageInv` says the same of
players that are shown; `ShownInv` that an announced player is shown by
every page that was answered a list, or is still to be sent to it; `StoredInv` that who left the store is about to be
closed; `OpenInv`, `BoundInv` and `OffInv` relate sockets, group, callbacks and places.

`EventStreamProofs` proves all the safety properties of `EventStream`, for any players, chunk
size and number of notifications. `IInv` is about the connection, and is enough for
`LeaksAreFailedHandshakes`. `TypeOK` and `ViewIsExact` need `StreamInv`, which follows the
notifications: the answer is the first thing on the wire and is gone when the loop begins
(`AnswerInv`, without which the loop could take it for a detection); the parts of a notification
follow each other on the wire, and all three are there while Tile38 is (`PartsInv`); what a read
left in the chunk is whole but for the players in `cut` (`ChunkInv`); and, while Tile38 is there,
the last line about a player that was not cut, on the wire, else in the chunk, else what the
callback was told, says whether the player is inside (`KnowledgeInv`). That invariant speaks of the positions of lines, so that each step is a shift
of indices, and no induction over the sequence is needed.

`InboxProofs` proves both properties of `Inbox`, for any buffer, messages and number of them.
They are stated with `Unread`, the first message that the wire still begins. The wire is a
sequence of frames, which is a recursive thing to say; `WireInv` says it unit by unit instead: where
the rest of the unit's message is, and that the next message, or the end, follows its last
one. `BufferInv` says that nothing in the buffer is newer than what was read. Both end with the first
read that spills, and nothing is claimed after that.

`GameRankProofs` proves both properties of `GameRank` that hold, for any finite set of players
(`RankAssumption`; a map of the program is finite) and any whole distances. `GroupInv` says that
what is at a distance is a player at it, and that everybody visited left somebody at its distance and
has an id; `RowsInv` that rows are made from sorted keys. The lemmas are the division that rounds
the points, and that an increasing sequence of `Cardinality(Keys)` keys holds them all
(`Sorted`): it is injective, so its range is as large as `Keys`.

So every safety property, action property and refinement that a passing run checks is a theorem,
but for the fairness half of `ImplementsFairRound`. Only model-checked is liveness, which
needs fairness and `ENABLED` and is beyond the prover: `ImplementsFairRound`,
`BriefedHearInTheEnd`, `GoroutinesEnd`, `WatchesEnd`, `PlayedGamesLeave`,
`ClosedConnectionsLeave`, `ClosedPlayersDepart`, `CancelledStreamsEnd`; and the counterexamples
of the four findings.

## 6. What is not modelled, and the plan

* Metrics and generated encoders: output, and data.
* Tile38 itself, positions and the haversine distance (a chase chooses its outcome),
  `game:target:near`, wording and logging.
* Features: `onAddFeature`, `onRequestFeatures`, `onPlayerRequestGames` hand on what Tile38
  answers and keep nothing; `WatchCheckpoints` turns a detection into an `Emit` and a
  `Broadcast`, and its error is that of `server_broadcast`.
* Upgrades that fail and are served nevertheless (`websocket_driver.go:26-32`), and two
  goroutines that write to one socket.
* The Android client: it speaks the text protocol of an earlier server. It turns binary
  frames into their debug text (`WebSocketClient.kt:63-71`), which is no event it knows,
  and sends text that `readMessage` cannot decode: nothing of this server reaches its
  game.
* The drawing of the pages, and the load generator.

Next, in this order:

1. That `Sessions` takes of a broadcast what `Group` allows: a `Sessions` whose broadcasts are
   `Begin`, `Deliver`, and `Return` or `Fail`, and the properties of the pages over it.
2. The registry of `GameWatcher` as an abstract one, a game at each fence, at the fences without
   the trouble that `RoundsAreNotCutShort` names, and with `Game` in the place of its phases.
