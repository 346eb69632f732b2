------------------------------ MODULE WSServer ------------------------------
(***************************************************************************)
(* The connections of src/catchcatch-server/websocket.go.  Each one has a  *)
(* goroutine that adds it to the group, reports it, reads from it and      *)
(* removes it in the end.  Other goroutines (callbacks of other            *)
(* connections, the watchers, shutdown) broadcast to the group, remove a   *)
(* connection from it, or close them all.                                  *)
(*                                                                         *)
(* The group is a map behind an atomic pointer.  A writer changes the map  *)
(* in place, then makes a copy and stores that: a goroutine that ranges    *)
(* over the map sees the change of the first writer after it loaded the    *)
(* map (it is fresh until then) and none of the later ones.                *)
(***************************************************************************)
EXTENDS FiniteSets

CONSTANTS
    Conn,     \* connections, and the goroutines of Listen that serve them
    Caller,   \* the other goroutines
    NoProc    \* nobody

Proc == Conn \cup Caller

ASSUME ServerAssumption == Conn \cap Caller = {} /\ NoProc \notin Proc

VARIABLES
    group,       \* the connections of the stored map
    lock,        \* who holds the mutex
    copy,        \* the copy each writer makes
    pc,          \* where each goroutine is
    job,         \* what it changes the group for: "add" or "delete"
    arg,         \* the connection it is busy with
    todo,        \* what its range over the group still visits
    fresh,       \* the map it ranges over was not copied yet
    open,        \* the socket is open
    registered,  \* OnDisconnected was called
    handled,     \* a Close ran its callback: "no", "early" (the no-op of Add), "yes"
    owed,        \* history: who is in the group since a Broadcast began, and was
                 \* not sent its message yet
    crash        \* the runtime killed the process

mapVars == <<group, lock, copy, job>>
rangeVars == <<todo, fresh, owed>>
connVars == <<open, registered, handled>>
vars == <<mapVars, pc, arg, rangeVars, connVars, crash>>

Init ==
    /\ group = {} /\ lock = NoProc /\ copy = [p \in Proc |-> {}]
    /\ pc = [p \in Proc |-> IF p \in Conn THEN "off" ELSE "idle"]
    /\ job = [p \in Proc |-> IF p \in Conn THEN "add" ELSE "delete"]
    /\ arg = [p \in Proc |-> IF p \in Conn THEN p ELSE NoProc]
    /\ todo = [p \in Caller |-> {}] /\ fresh = [p \in Caller |-> FALSE]
    /\ owed = [p \in Caller |-> {}]
    /\ open = [c \in Conn |-> FALSE] /\ registered = [c \in Conn |-> FALSE]
    /\ handled = [c \in Conn |-> "no"]
    /\ crash = FALSE

Goto(p, place) == pc' = [pc EXCEPT ![p] = place]

\* Where a goroutine is once it has nothing left to do.
Rest(p) == IF p \in Conn THEN "gone" ELSE "idle"

-----------------------------------------------------------------------------
(* getConnectionsForChange *)

\* Mutant: the mutex is not taken.
LockFree(p) ==
    /\ pc[p] = "lock"
    /\ Goto(p, "change")
    /\ UNCHANGED <<mapVars, arg, rangeVars, connVars, crash>>

Lock(p) ==
    /\ pc[p] = "lock" /\ lock = NoProc
    /\ lock' = p
    /\ Goto(p, "change")
    /\ UNCHANGED <<group, copy, job, arg, rangeVars, connVars, crash>>

\* fn(connections), on the map that is stored, and the copy of that map.  A range
\* under way skips a deleted entry and may skip a new one.
Change(p) ==
    /\ pc[p] = "change"
    /\ Goto(p, "store")
    /\ IF job[p] = "add"
       THEN /\ group' = group \cup {arg[p]}
            /\ \E seers \in SUBSET {b \in Caller : fresh[b]} :
                todo' = [b \in Caller |-> IF b \in seers THEN todo[b] \cup {arg[p]}
                                                         ELSE todo[b]]
            /\ UNCHANGED owed
       ELSE /\ group' = group \ {arg[p]}
            /\ todo' = [b \in Caller |-> IF fresh[b] THEN todo[b] \ {arg[p]}
                                                     ELSE todo[b]]
            /\ owed' = [b \in Caller |-> owed[b] \ {arg[p]}]
    /\ copy' = [copy EXCEPT ![p] = group']
    /\ UNCHANGED <<lock, job, arg, fresh, connVars, crash>>

Store(p) ==
    /\ pc[p] = "store"
    /\ group' = copy[p]
    /\ lock' = NoProc
    /\ copy' = [copy EXCEPT ![p] = {}]
    /\ fresh' = [b \in Caller |-> FALSE]
    /\ job' = [job EXCEPT ![p] = "delete"]
    /\ Goto(p, IF job[p] = "add" THEN "connecting" ELSE Rest(p))
    /\ UNCHANGED <<arg, todo, owed, connVars, crash>>

-----------------------------------------------------------------------------
(* Close and Remove *)

\* Mutant: the callback is not called.
CloseSilently(c) ==
    /\ open' = [open EXCEPT ![c] = FALSE]
    /\ UNCHANGED <<registered, handled>>

\* WSConnListener.Close: the socket is closed and onDisconnected, as it is now,
\* is called in a goroutine.
Close(c) ==
    /\ open' = [open EXCEPT ![c] = FALSE]
    /\ handled' = [handled EXCEPT ![c] =
                       IF registered[c] \/ @ = "yes" THEN "yes" ELSE "early"]
    /\ UNCHANGED registered

\* if c := wss.Get(id); c != nil
Find(p, c) ==
    /\ Goto(p, IF c \in group THEN "close" ELSE Rest(p))
    /\ arg' = [arg EXCEPT ![p] = c]
    /\ UNCHANGED <<mapVars, rangeVars, connVars, crash>>

\* Mutant: Remove closes the connection and leaves it in the group.
CloseKeepsEntry(p) ==
    /\ pc[p] = "close"
    /\ Close(arg[p])
    /\ Goto(p, Rest(p))
    /\ UNCHANGED <<mapVars, arg, rangeVars, crash>>

CloseFound(p) ==
    /\ pc[p] = "close"
    /\ Close(arg[p])
    /\ Goto(p, "lock")
    /\ UNCHANGED <<mapVars, arg, rangeVars, crash>>

-----------------------------------------------------------------------------
(* The goroutine of a connection: Listen and listen *)

Accept(c) ==
    /\ pc[c] = "off"
    /\ open' = [open EXCEPT ![c] = TRUE]
    /\ Goto(c, "lock")
    /\ UNCHANGED <<mapVars, arg, rangeVars, registered, handled, crash>>

\* onConnected: the callbacks are registered, or the player could not be and the
\* connection is closed.  Either way it is listened to.
Connect(c) ==
    /\ pc[c] = "connecting"
    /\ \/ registered' = [registered EXCEPT ![c] = TRUE] /\ UNCHANGED <<open, handled>>
       \/ Close(c)
    /\ Goto(c, "listening")
    /\ UNCHANGED <<mapVars, arg, rangeVars, crash>>

\* A read fails, as it does once the socket is closed, or a message is refused.
\* The deferred Remove follows.
Hangup(c) == pc[c] = "listening" /\ Find(c, c)

-----------------------------------------------------------------------------
(* The other goroutines *)

\* Remove of a connection whose id was announced.
CallRemove(b, c) == pc[b] = "idle" /\ job[c] = "delete" /\ Find(b, c)

\* Broadcast and CloseAll load the map and range over it.
Load(b, place) ==
    /\ pc[b] = "idle"
    /\ Goto(b, place)
    /\ todo' = [todo EXCEPT ![b] = group]
    /\ fresh' = [fresh EXCEPT ![b] = TRUE]
    /\ owed' = [owed EXCEPT ![b] = group]
    /\ UNCHANGED <<mapVars, arg, connVars, crash>>

BroadcastNext(b, c) ==
    /\ pc[b] = "broadcast" /\ c \in todo[b]
    /\ Goto(b, "emit")
    /\ arg' = [arg EXCEPT ![b] = c]
    /\ todo' = [todo EXCEPT ![b] = @ \ {c}]
    /\ UNCHANGED <<mapVars, fresh, owed, connVars, crash>>

\* Mutant: a missing connection ends the loop, not with an error.
EmitBreaks(b) ==
    /\ pc[b] = "emit"
    /\ Goto(b, "broadcast")
    /\ \/ /\ arg[b] \in group
          /\ owed' = [owed EXCEPT ![b] = @ \ {arg[b]}]
          /\ UNCHANGED todo
       \/ arg[b] \notin group /\ todo' = [todo EXCEPT ![b] = {}] /\ UNCHANGED owed
    /\ UNCHANGED <<mapVars, arg, fresh, connVars, crash>>

\* Emit looks the id up again.  What Send returns is ignored; a connection that
\* is missing is an error, which Broadcast returns.
Emit(b) ==
    /\ pc[b] = "emit"
    /\ \/ /\ arg[b] \in group
          /\ owed' = [owed EXCEPT ![b] = @ \ {arg[b]}]
          /\ Goto(b, "broadcast")
       \/ arg[b] \notin group /\ Goto(b, "failed") /\ UNCHANGED owed
    /\ UNCHANGED <<mapVars, arg, todo, fresh, connVars, crash>>

CloseNext(b, c) ==
    /\ pc[b] = "closeAll" /\ c \in todo[b]
    /\ Close(c)
    /\ todo' = [todo EXCEPT ![b] = @ \ {c}]
    /\ UNCHANGED <<mapVars, pc, arg, fresh, owed, crash>>

Return(b) ==
    /\ pc[b] = "failed" \/ (pc[b] \in {"broadcast", "closeAll"} /\ todo[b] = {})
    /\ Goto(b, "idle")
    /\ todo' = [todo EXCEPT ![b] = {}] /\ fresh' = [fresh EXCEPT ![b] = FALSE]
    /\ owed' = [owed EXCEPT ![b] = {}]
    /\ arg' = [arg EXCEPT ![b] = NoProc]
    /\ UNCHANGED <<mapVars, connVars, crash>>

\* The change in place meets a range over the same map, or a lookup in it.
MapFault ==
    /\ \E p \in Proc, q \in Proc :
        /\ pc[p] = "change" /\ p # q
        /\ pc[q] \in {"idle", "listening", "emit"} \/ (q \in Caller /\ fresh[q])
    /\ crash' = TRUE
    /\ UNCHANGED <<mapVars, pc, arg, rangeVars, connVars>>

-----------------------------------------------------------------------------

Writes(p) == Lock(p) \/ Change(p) \/ Store(p) \/ CloseFound(p)

Calls(b) ==
    \/ Load(b, "broadcast") \/ Load(b, "closeAll")
    \/ \E c \in Conn : CallRemove(b, c)

Loops(b) == Emit(b) \/ Return(b) \/ \E c \in Conn : BroadcastNext(b, c) \/ CloseNext(b, c)

Step ==
    \/ \E p \in Proc : Writes(p)
    \/ \E c \in Conn : Accept(c) \/ Connect(c) \/ Hangup(c)
    \/ \E b \in Caller : Calls(b) \/ Loops(b)
    \/ MapFault

Crashed == crash /\ UNCHANGED vars

Next == (~crash /\ Step) \/ Crashed

Spec == Init /\ [][Next]_vars

\* Every goroutine that can run runs; a mutex is given to everyone who waits for
\* it.  A read of a closed socket fails; nobody has to connect, leave or call.
FailedRead(c) == ~crash /\ ~open[c] /\ Hangup(c)

Fairness ==
    /\ \A p \in Proc : WF_vars(~crash /\ Writes(p)) /\ SF_vars(~crash /\ Lock(p))
    /\ \A c \in Conn : WF_vars(~crash /\ Connect(c)) /\ WF_vars(FailedRead(c))
    /\ \A b \in Caller : WF_vars(~crash /\ Loops(b))

FairSpec == Spec /\ Fairness

-----------------------------------------------------------------------------
(* Properties *)

TypeOK ==
    /\ group \subseteq Conn /\ lock \in Proc \cup {NoProc}
    /\ copy \in [Proc -> SUBSET Conn]
    /\ pc \in [Proc -> {"off", "idle", "lock", "change", "store", "connecting",
                        "listening", "close", "broadcast", "emit", "failed",
                        "closeAll", "gone"}]
    /\ job \in [Proc -> {"add", "delete"}]
    /\ arg \in [Proc -> Conn \cup {NoProc}]
    /\ todo \in [Caller -> SUBSET Conn] /\ fresh \in [Caller -> BOOLEAN]
    /\ owed \in [Caller -> SUBSET Conn]
    /\ open \in [Conn -> BOOLEAN] /\ registered \in [Conn -> BOOLEAN]
    /\ handled \in [Conn -> {"no", "early", "yes"}]
    /\ crash \in BOOLEAN

\* "Broadcast event message to all connections": whoever is in the group all the
\* while was sent the message when Broadcast returns.
BroadcastReachesAll ==
    \A b \in Caller :
        pc[b] = "failed" \/ (pc[b] = "broadcast" /\ todo[b] = {}) => owed[b] = {}

\* The same, for a Broadcast that returns no error: the maps that come and go
\* under its range cost nobody the message.
SilentBroadcastReachesAll ==
    \A b \in Caller :
        pc[b] = "broadcast" /\ todo[b] = {} => owed[b] = {}

\* A connection whose socket is open is in the group from the end of Add on: no
\* update of the group is lost, and nobody is deleted before it is closed.
OpenConnectionsAreAddressed ==
    \A c \in Conn : open[c] /\ job[c] = "delete" => c \in group

\* A connection whose goroutine has ended is in no map that will be stored.
GoneConnectionsAreForgotten ==
    \A c \in Conn : pc[c] = "gone" =>
        c \notin group /\ \A p \in Proc : pc[p] = "store" => c \notin copy[p]

\* When the goroutine of a connection has ended, its onDisconnected was called,
\* if only the no-op it had before it was registered.
DisconnectionsAreHandled ==
    \A c \in Conn : pc[c] = "gone" => handled[c] # "no" /\ ~open[c]

\* A connection that is closed leaves the group, whoever closed it.
ClosedConnectionsLeave ==
    \A c \in Conn : (c \in group /\ ~open[c] /\ job[c] = "delete") ~> (c \notin group \/ crash)

-----------------------------------------------------------------------------
(* The refinement mapping to Group *)

\* A connection is in the group from the change in place on, before its goroutine
\* stored the copy, and is out of it from the deletion in place on.
State(c) ==
    IF c \in group THEN IF open[c] THEN "in" ELSE "closing"
    ELSE IF job[c] = "delete" THEN "out"
    ELSE IF pc[c] = "off" THEN "new" ELSE "coming"

\* Remove is no call of the group's: it closes a connection, which then leaves.
Call(b) ==
    CASE pc[b] \in {"broadcast", "emit"} -> "broadcast"
      [] pc[b] \in {"failed", "closeAll"} -> pc[b]
      [] OTHER -> "idle"

\* Who left after the map was copied under the range of a Broadcast, which has
\* yet to look for it.
Missed(b) ==
    CASE pc[b] = "broadcast" -> todo[b] \ group
      [] pc[b] = "emit" -> (todo[b] \cup {arg[b]}) \ group
      [] OTHER -> {}

G == INSTANCE Group WITH
        state <- [c \in Conn |-> State(c)],
        call <- [b \in Caller |-> Call(b)],
        due <- owed,
        missed <- [b \in Caller |-> Missed(b)]

\* The map that is changed in place, copied and stored, under ranges and lookups
\* that take no lock, keeps the promises of a connection group.
ImplementsGroup == G!Spec

=============================================================================
