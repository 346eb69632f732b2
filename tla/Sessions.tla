------------------------------ MODULE Sessions ------------------------------
(***************************************************************************)
(* The players behind the connections: src/catchcatch-server/eventhandler. *)
(* go over the connection group of websocket.go and the store of           *)
(* service.go (Tile38), seen by the administration pages of                *)
(* src/web/catchcatch.js.  A player is its connection.                     *)
(*                                                                         *)
(* Add, Close and the deletion from the group are atomic here, as is a     *)
(* broadcast: it reaches the whole group, or any part of it when a         *)
(* connection that was closed may be deleted under it (WSServer says how). *)
(* A page is what it shows once everything sent to it has arrived.         *)
(* Positions, features and game events are left out.                       *)
(***************************************************************************)
EXTENDS Naturals

CONSTANTS
    Conn,     \* connections, each with its goroutine and its player
    Admin,    \* those of an administration page, which shows the players
    NoConn    \* nobody

ASSUME SessionsAssumption == Admin \subseteq Conn /\ NoConn \notin Conn

VARIABLES
    pc,         \* where the goroutine of each connection is
    arg,        \* whom the admin:disconnect a page sent names
    group,      \* the connections of the server
    open,       \* the socket is open
    bound,      \* onPlayerDisconnect is the callback of its disconnection
    store,      \* the players that Tile38 holds
    farewell,   \* runs of onPlayerDisconnect that did not broadcast yet,
    forget,     \*   and those that have yet to remove the player
    listing,    \* the sendPlayerList to a page: "none", "scan" or "send"
    todo,       \* the players it has yet to send
    listed,     \* history: the pages whose list Tile38 answered; no action reads it
    page,       \* the players each page shows
    cause       \* history: what went wrong about each player; no action reads it

connVars == <<group, open, bound, farewell>>
listVars == <<listing, todo, listed>>
vars == <<pc, arg, connVars, store, forget, listVars, page, cause>>

Init ==
    /\ pc = [c \in Conn |-> "off"] /\ arg = [c \in Admin |-> NoConn]
    /\ group = {} /\ store = {}
    /\ open = [c \in Conn |-> FALSE] /\ bound = [c \in Conn |-> FALSE]
    /\ farewell = [c \in Conn |-> 0] /\ forget = [c \in Conn |-> 0]
    /\ listing = [c \in Admin |-> "none"] /\ todo = [c \in Admin |-> {}]
    /\ listed = {} /\ page = [c \in Admin |-> {}]
    /\ cause = [c \in Conn |-> {}]

Goto(c, place) == pc' = [pc EXCEPT ![c] = place]

Blame(p, what) == [cause EXCEPT ![p] = @ \cup {what}]

\* What is still stored or sent about a player whose connection was closed: an
\* update under way, its announcement, or its entry in a list.
BlameLate(p) == IF open[p] THEN cause ELSE Blame(p, "late")

\* Close: the socket, the page behind it, and a goroutine for the callback.
CloseEach(gone) ==
    /\ open' = [c \in Conn |-> open[c] /\ c \notin gone]
    /\ farewell' = [c \in Conn |-> IF c \in gone /\ bound[c] THEN farewell[c] + 1
                                                             ELSE farewell[c]]
    /\ page' = [c \in Admin |-> IF c \in gone THEN {} ELSE page[c]]
    /\ UNCHANGED bound

\* Whom a Broadcast reaches.
Audiences == {R \in SUBSET group : R = group \/ \E c \in group : ~open[c]}

\* remote-player:new and remote-player:updated; remote-player:destroy.
Shows(p, R) == [v \in Admin |-> IF v \in R /\ open[v] THEN page[v] \cup {p} ELSE page[v]]
Drops(p, R) == [v \in Admin |-> IF v \in R /\ open[v] THEN page[v] \ {p} ELSE page[v]]

-----------------------------------------------------------------------------
(* A new connection: Listen, onConnection, newPlayer *)

Accept(c) ==
    /\ pc[c] = "off"
    /\ Goto(c, "register")
    /\ group' = group \cup {c}
    /\ open' = [open EXCEPT ![c] = TRUE]
    /\ UNCHANGED <<arg, bound, farewell, store, forget, listVars, page, cause>>

Register(c) ==
    /\ pc[c] = "register"
    /\ Goto(c, "announce")
    /\ store' = store \cup {c}
    /\ UNCHANGED <<arg, connVars, forget, listVars, page, cause>>

\* Register returns an error, be the command lost or only its answer: the
\* connection is closed, and listened to.
Refuse(c) ==
    /\ pc[c] = "register"
    /\ Goto(c, "listen")
    /\ store' \in {store, store \cup {c}}
    /\ CloseEach({c})
    /\ cause' = Blame(c, "store")
    /\ UNCHANGED <<arg, group, forget, listVars>>

\* Mutant: the others are not told.
AnnounceSilently(c) ==
    /\ pc[c] = "announce"
    /\ Goto(c, "bind")
    /\ UNCHANGED <<arg, connVars, store, forget, listVars, page, cause>>

Announce(c) ==
    /\ pc[c] = "announce"
    /\ Goto(c, "bind")
    /\ \E R \in Audiences :
        /\ page' = Shows(c, R)
        /\ cause' = IF R = group THEN BlameLate(c) ELSE Blame(c, "cut")
    /\ UNCHANGED <<arg, connVars, store, forget, listVars>>

\* The callbacks, and go h.sendPlayerList(c), which only a page looks at.
Bind(c) ==
    /\ pc[c] = "bind"
    /\ Goto(c, "listen")
    /\ bound' = [bound EXCEPT ![c] = TRUE]
    /\ listing' = [v \in Admin |-> IF v = c THEN "scan" ELSE listing[v]]
    /\ UNCHANGED <<arg, group, open, farewell, store, forget, todo, listed, page, cause>>

-----------------------------------------------------------------------------
(* sendPlayerList *)

\* Players: the answer of Tile38.
Scan(v) ==
    /\ listing[v] = "scan"
    /\ listing' = [listing EXCEPT ![v] = "send"]
    /\ todo' = [todo EXCEPT ![v] = store]
    /\ listed' = listed \cup {v}
    /\ UNCHANGED <<pc, arg, connVars, store, forget, page, cause>>

\* A player is sent; an error of the closed socket ends the list.
Send(v, p) ==
    /\ listing[v] = "send" /\ p \in todo[v]
    /\ todo' = [todo EXCEPT ![v] = IF open[v] THEN @ \ {p} ELSE {}]
    /\ page' = Shows(p, {v})
    /\ cause' = BlameLate(p)
    /\ UNCHANGED <<pc, arg, connVars, store, forget, listing, listed>>

\* The goroutine ends, or the callback returns.
ListEnds(v) ==
    /\ listing' = [listing EXCEPT ![v] = "none"]
    /\ IF pc[v] = "answer" THEN Goto(v, "listen") ELSE UNCHANGED pc

ListDone(v) ==
    /\ listing[v] = "send" /\ todo[v] = {}
    /\ ListEnds(v)
    /\ UNCHANGED <<arg, connVars, store, forget, todo, listed, page, cause>>

\* Players returns an error: nothing is sent.
ScanFails(v) ==
    /\ listing[v] = "scan"
    /\ ListEnds(v)
    /\ UNCHANGED <<arg, connVars, store, forget, todo, listed, page, cause>>

-----------------------------------------------------------------------------
(* Messages: one at a time, by the goroutine of the connection *)

Receives(c) == pc[c] = "listen" /\ open[c]

\* onPlayerRequestRemotes; not while the first list is sent, to which a second
\* one would add nothing.
RequestRemotes(v) ==
    /\ Receives(v) /\ listing[v] = "none"
    /\ Goto(v, "answer")
    /\ listing' = [listing EXCEPT ![v] = "scan"]
    /\ UNCHANGED <<arg, connVars, store, forget, todo, listed, page, cause>>

\* onPlayerUpdate, of a position that is not null.
ReceiveUpdate(c) ==
    /\ Receives(c)
    /\ Goto(c, "update")
    /\ UNCHANGED <<arg, connVars, store, forget, listVars, page, cause>>

\* Update; its error is ignored.
Update(c) ==
    /\ pc[c] = "update"
    /\ Goto(c, "tell")
    /\ \/ store' = store \cup {c} /\ cause' = BlameLate(c)
       \/ store' = store /\ cause' = Blame(c, "store")
    /\ UNCHANGED <<arg, connVars, forget, listVars, page>>

Tell(c) ==
    /\ pc[c] = "tell"
    /\ Goto(c, "listen")
    /\ \E R \in Audiences :
        /\ page' = Shows(c, R \cup {c})
        /\ cause' = IF R = group THEN BlameLate(c) ELSE Blame(c, "cut")
    /\ UNCHANGED <<arg, connVars, store, forget, listVars>>

\* onDisconnectByID, of another player that the page shows: it is removed from the
\* store, an error of which is ignored, closed, deleted from the group and
\* announced as gone.
Disconnect(v, d) ==
    /\ Receives(v) /\ d \in page[v] \ {v}
    /\ Goto(v, "close")
    /\ arg' = [arg EXCEPT ![v] = d]
    /\ store' \in {store \ {d}, store}
    /\ UNCHANGED <<connVars, forget, listVars, page, cause>>

DisconnectCloses(v) ==
    /\ pc[v] = "close"
    /\ IF arg[v] \in group
       THEN Goto(v, "delete") /\ CloseEach({arg[v]})
       ELSE Goto(v, "dismiss") /\ UNCHANGED <<open, bound, farewell, page>>
    /\ cause' = IF bound[arg[v]] THEN cause ELSE Blame(arg[v], "early")
    /\ UNCHANGED <<arg, group, store, forget, listVars>>

DisconnectDeletes(v) ==
    /\ pc[v] = "delete"
    /\ Goto(v, "dismiss")
    /\ group' = group \ {arg[v]}
    /\ UNCHANGED <<arg, open, bound, farewell, store, forget, listVars, page, cause>>

DisconnectTells(v) ==
    /\ pc[v] = "dismiss"
    /\ Goto(v, "listen")
    /\ arg' = [arg EXCEPT ![v] = NoConn]
    /\ \E R \in Audiences : page' = Drops(arg[v], R)
    /\ UNCHANGED <<connVars, store, forget, listVars, cause>>

\* Mutant: the connections are left alone.
ClearOnly(v) ==
    /\ Receives(v)
    /\ store' = {}
    /\ UNCHANGED <<pc, arg, connVars, forget, listVars, page, cause>>

\* onClear: the games (GameWatcher), the store, whose error nobody looks at, and
\* then the connections.
Clear(v) ==
    /\ Receives(v)
    /\ Goto(v, "closeAll")
    /\ store' \in {{}, store}
    /\ UNCHANGED <<arg, connVars, forget, listVars, page, cause>>

CloseAll(v) ==
    /\ pc[v] = "closeAll"
    /\ Goto(v, "listen")
    /\ CloseEach(group)
    /\ UNCHANGED <<arg, group, store, forget, listVars, cause>>

-----------------------------------------------------------------------------
(* The end of a connection *)

\* Mutant: a read of a socket that somebody else closed is tried again.
HangupAgain(c) ==
    /\ pc[c] = "listen"
    /\ IF open[c]
       THEN Goto(c, "leave") /\ CloseEach({c})
       ELSE UNCHANGED <<pc, open, bound, farewell, page>>
    /\ UNCHANGED <<arg, group, store, forget, listVars, cause>>

\* A read fails, by itself or because the connection was closed: Remove.
Hangup(c) ==
    /\ pc[c] = "listen"
    /\ IF c \in group
       THEN Goto(c, "leave") /\ CloseEach({c})
       ELSE Goto(c, "gone") /\ UNCHANGED <<open, bound, farewell, page>>
    /\ UNCHANGED <<arg, group, store, forget, listVars, cause>>

Leave(c) ==
    /\ pc[c] = "leave"
    /\ Goto(c, "gone")
    /\ group' = group \ {c}
    /\ UNCHANGED <<arg, open, bound, farewell, store, forget, listVars, page, cause>>

\* Mutant: the player is only removed when the broadcast succeeds.
FarewellOrError(c) ==
    /\ farewell[c] > 0
    /\ farewell' = [farewell EXCEPT ![c] = @ - 1]
    /\ \E R \in Audiences :
        /\ page' = Drops(c, R)
        /\ forget' = IF R = group THEN [forget EXCEPT ![c] = @ + 1] ELSE forget
        /\ cause' = IF R = group THEN cause ELSE Blame(c, "cut")
    /\ UNCHANGED <<pc, arg, group, open, bound, store, listVars>>

\* Mutant: nobody is told.
FarewellSilently(c) ==
    /\ farewell[c] > 0
    /\ farewell' = [farewell EXCEPT ![c] = @ - 1]
    /\ forget' = [forget EXCEPT ![c] = @ + 1]
    /\ UNCHANGED <<pc, arg, group, open, bound, store, listVars, page, cause>>

\* onPlayerDisconnect, in a goroutine of its own.
Farewell(c) ==
    /\ farewell[c] > 0
    /\ farewell' = [farewell EXCEPT ![c] = @ - 1]
    /\ forget' = [forget EXCEPT ![c] = @ + 1]
    /\ \E R \in Audiences :
        /\ page' = Drops(c, R)
        /\ cause' = IF R = group THEN cause ELSE Blame(c, "cut")
    /\ UNCHANGED <<pc, arg, group, open, bound, store, listVars>>

\* Mutant: the player is removed whether or not somebody said farewell.
ForgetAnyway(c) ==
    /\ forget' = [forget EXCEPT ![c] = @ - 1]
    /\ store' = store \ {c}
    /\ UNCHANGED <<pc, arg, connVars, listVars, page, cause>>

\* Remove; its error is ignored.
Forget(c) ==
    /\ forget[c] > 0
    /\ forget' = [forget EXCEPT ![c] = @ - 1]
    /\ \/ store' = store \ {c} /\ UNCHANGED cause
       \/ store' = store /\ cause' = Blame(c, "store")
    /\ UNCHANGED <<pc, arg, connVars, listVars, page>>

-----------------------------------------------------------------------------

Connects(c) == Register(c) \/ Refuse(c) \/ Announce(c) \/ Bind(c)

Updates(c) == Update(c) \/ Tell(c)

Lists(v) == Scan(v) \/ ScanFails(v) \/ ListDone(v) \/ \E p \in Conn : Send(v, p)

Asks(v) == RequestRemotes(v) \/ Clear(v) \/ \E d \in Conn : Disconnect(v, d)

Handles(v) ==
    CloseAll(v) \/ DisconnectCloses(v) \/ DisconnectDeletes(v) \/ DisconnectTells(v)

Dismissed(c) == Farewell(c) \/ Forget(c)

Finished ==
    /\ \A c \in Conn : pc[c] = "gone" /\ farewell[c] = 0 /\ forget[c] = 0
    /\ \A v \in Admin : listing[v] = "none"
    /\ UNCHANGED vars

Next ==
    \/ \E c \in Conn : Accept(c) \/ Connects(c) \/ ReceiveUpdate(c) \/ Updates(c)
    \/ \E c \in Conn : Hangup(c) \/ Leave(c) \/ Dismissed(c)
    \/ \E v \in Admin : Lists(v) \/ Asks(v) \/ Handles(v)
    \/ Finished

Spec == Init /\ [][Next]_vars

FailedRead(c) == ~open[c] /\ Hangup(c)

\* What the goroutine of a connection does by itself.
Goroutine(c) ==
    Connects(c) \/ Updates(c) \/ FailedRead(c) \/ Leave(c) \/ (c \in Admin /\ Handles(c))

\* Goroutines run, and a read of a closed socket fails.  Nobody has to connect,
\* to ask for anything or to leave.
Fairness ==
    /\ \A c \in Conn : WF_vars(Goroutine(c)) /\ WF_vars(Dismissed(c))
    /\ \A v \in Admin : WF_vars(Lists(v))

FairSpec == Spec /\ Fairness

-----------------------------------------------------------------------------
(* Properties *)

TypeOK ==
    /\ pc \in [Conn -> {"off", "register", "announce", "bind", "listen", "answer",
                        "update", "tell", "close", "delete", "dismiss", "closeAll",
                        "leave", "gone"}]
    /\ arg \in [Admin -> Conn \cup {NoConn}]
    /\ group \subseteq Conn /\ store \subseteq Conn
    /\ open \in [Conn -> BOOLEAN] /\ bound \in [Conn -> BOOLEAN]
    /\ farewell \in [Conn -> Nat] /\ forget \in [Conn -> Nat]
    /\ listing \in [Admin -> {"none", "scan", "send"}]
    /\ listed \subseteq Admin
    /\ todo \in [Admin -> SUBSET Conn] /\ page \in [Admin -> SUBSET Conn]
    /\ cause \in [Conn -> SUBSET {"store", "cut", "late", "early"}]

Settled(c) == pc[c] = "listen" /\ open[c]

\* A page that was answered a list shows every player that is connected and stored,
\* be it older or younger than the page, unless a broadcast about it was cut.  (A
\* page whose lists all failed only shows the players that came or moved since.)
NobodyIsInvisible ==
    \A v \in Admin, p \in Conn :
        v \in listed /\ Settled(v) /\ listing[v] = "none" /\ Settled(p) /\ p \in store =>
            p \in page[v] \/ "cut" \in cause[p]

\* A player that is connected but not stored, which no detection can find, is one
\* whom a page is about to disconnect, or Tile38 failed.
OpenPlayersAreStored ==
    \A p \in Conn :
        Settled(p) => \/ p \in store \/ "store" \in cause[p]
                      \/ \E v \in Admin : pc[v] = "closeAll" \/ (pc[v] = "close" /\ arg[v] = p)

\* Nothing is left to be done about a player.
Departed(p) == pc[p] = "gone" /\ farewell[p] = 0 /\ forget[p] = 0

\* A player that departed, and still is in the store, where it takes part in games,
\* is one that Tile38 failed to remove, about whom something was still stored or
\* sent after it was closed, or who was closed before onPlayerDisconnect was
\* registered.
GhostsHaveACause ==
    \A p \in Conn :
        Departed(p) /\ p \in store => cause[p] \cap {"store", "late", "early"} # {}

\* An open page shows a player that departed only if a broadcast about it was cut,
\* something about it was sent after it was closed, or as for ghosts.
StalePagesHaveACause ==
    \A v \in Admin, p \in Conn :
        Settled(v) /\ listing[v] = "none" /\ Departed(p) /\ p \in page[v] => cause[p] # {}

\* Whoever is closed ends, and with it its callbacks.
ClosedPlayersDepart ==
    \A p \in Conn : (pc[p] # "off" /\ ~open[p]) ~> Departed(p)

=============================================================================
