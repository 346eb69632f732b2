--------------------------- MODULE WSServerProofs ---------------------------
(***************************************************************************)
(* What holds of every WSServer, for any sets of connections and callers.  *)
(***************************************************************************)
EXTENDS WSServer, TLAPS

\* Only the holder of the mutex is between its change and its store.
LockInv == \A p \in Proc : pc[p] \in {"change", "store"} => lock = p

\* What a goroutine is busy with, by the place it is at.
PlaceInv ==
    /\ \A p \in Proc :
        /\ pc[p] \in {"lock", "change", "store", "close"} => arg[p] \in Conn
        /\ job[p] = "add" => p \in Conn /\ pc[p] \in {"off", "lock", "change", "store"}
        /\ pc[p] = "close" => job[p] = "delete" /\ job[arg[p]] = "delete"
    /\ \A c \in Conn : arg[c] = c /\ (pc[c] = "off" => job[c] = "add")

Closed(c) == ~open[c] /\ handled[c] # "no" /\ job[c] = "delete"

\* A copy is made of the whole group, and is stored before the group changes.
\* Whoever is being deleted, or is no longer in the group, was closed.
MapInv ==
    /\ \A p \in Proc :
        /\ pc[p] = "store" => /\ copy[p] = group
                              /\ IF job[p] = "add" THEN arg[p] \in group
                                                   ELSE arg[p] \notin group
        /\ pc[p] \in {"lock", "change", "store"} /\ job[p] = "delete" => Closed(arg[p])
    /\ \A c \in Conn : job[c] = "delete" => c \in group \/ Closed(c)
    /\ \A c \in Conn : pc[c] = "gone" => c \notin group

\* A running Broadcast still visits everybody whom it owes its message.
CastInv ==
    \A b \in Caller :
        /\ pc[b] = "broadcast" => owed[b] \subseteq todo[b]
        /\ pc[b] = "emit" => owed[b] \subseteq todo[b] \cup {arg[b]}

IInv == LockInv /\ PlaceInv /\ MapInv /\ CastInv

-----------------------------------------------------------------------------

\* The initial states have the right types ...
LEMMA TypeInit == Init => TypeOK
<1> USE ServerAssumption DEF TypeOK, Proc
<1> SUFFICES ASSUME Init PROVE TypeOK
  OBVIOUS
<1>1. copy \in [Proc -> SUBSET Conn] /\ todo \in [Caller -> SUBSET Conn]
      /\ owed \in [Caller -> SUBSET Conn]
  BY DEF Init
<1>2. /\ group \subseteq Conn /\ lock \in Proc \cup {NoProc} /\ crash \in BOOLEAN
      /\ fresh \in [Caller -> BOOLEAN]
  BY DEF Init
<1>3. /\ open \in [Conn -> BOOLEAN] /\ registered \in [Conn -> BOOLEAN]
      /\ handled \in [Conn -> {"no", "early", "yes"}]
  BY DEF Init
<1>4. arg \in [Proc -> Conn \cup {NoProc}]
  BY DEF Init
<1>5. job \in [Proc -> {"add", "delete"}]
  BY DEF Init
<1> HIDE DEF Proc
<1>6. \A p \in Proc : pc[p] \in {"off", "idle"}
  BY DEF Init
<1>7. pc \in [Proc -> {"off", "idle", "lock", "change", "store", "connecting",
                      "listening", "close", "broadcast", "emit", "failed",
                      "closeAll", "gone"}]
  BY <1>6 DEF Init
<1> QED
  BY <1>1, <1>2, <1>3, <1>4, <1>5, <1>7

\* ... and every step keeps them: only a connection enters the group.
LEMMA TypeStep ==
    ASSUME TypeOK, IInv, [Next]_vars
    PROVE  TypeOK'
<1> USE ServerAssumption DEF TypeOK, Proc, Goto, mapVars, rangeVars, connVars
<1>1. ASSUME NEW p \in Proc, Writes(p) PROVE TypeOK'
  <2>1. CASE Lock(p)
      BY <2>1 DEF Lock
  <2>2. CASE Change(p)
    <3>1. group' \subseteq Conn
      BY <2>2 DEF Change, IInv, PlaceInv
    <3> QED
      BY <2>2, <3>1 DEF Change
  <2>3. CASE Store(p)
    <3>1. copy' \in [Proc -> SUBSET Conn] /\ group' \subseteq Conn
      BY <2>3 DEF Store
    <3> QED
      BY <2>3, <3>1 DEF Store, Rest
  <2>4. CASE CloseFound(p)
      BY <2>4 DEF CloseFound, Close
  <2> QED
      BY <1>1, <2>1, <2>2, <2>3, <2>4 DEF Writes
<1>2. ASSUME NEW c \in Conn, Accept(c) \/ Connect(c) \/ Hangup(c) PROVE TypeOK'
  <2>1. CASE Accept(c)
      BY <2>1 DEF Accept
  <2>2. CASE Connect(c)
      BY <2>2 DEF Connect, Close
  <2>3. CASE Hangup(c)
      BY <2>3 DEF Hangup, Find, Rest
  <2> QED
      BY <1>2, <2>1, <2>2, <2>3
<1>3. ASSUME NEW b \in Caller, Calls(b) PROVE TypeOK'
  <2>1. ASSUME NEW place \in {"broadcast", "closeAll"}, Load(b, place) PROVE TypeOK'
      BY <2>1 DEF Load
  <2>2. ASSUME NEW c \in Conn, CallRemove(b, c) PROVE TypeOK'
      BY <2>2 DEF CallRemove, Find, Rest
  <2> QED
      BY <1>3, <2>1, <2>2 DEF Calls
<1>4. ASSUME NEW b \in Caller, Loops(b) PROVE TypeOK'
  <2>1. CASE Emit(b)
      BY <2>1 DEF Emit
  <2>2. CASE Return(b)
      BY <2>2 DEF Return
  <2>3. ASSUME NEW c \in Conn, BroadcastNext(b, c) PROVE TypeOK'
      BY <2>3 DEF BroadcastNext
  <2>4. ASSUME NEW c \in Conn, CloseNext(b, c) PROVE TypeOK'
      BY <2>4 DEF CloseNext, Close
  <2> QED
      BY <1>4, <2>1, <2>2, <2>3, <2>4 DEF Loops
<1>5. CASE MapFault
  BY <1>5 DEF MapFault
<1>6. CASE UNCHANGED vars
  BY <1>6 DEF vars
<1> QED
  BY <1>1, <1>2, <1>3, <1>4, <1>5, <1>6 DEF Next, Step, Crashed

-----------------------------------------------------------------------------

\* The steps of getConnectionsForChange and Close keep the invariant.
LEMMA WritesStep ==
    ASSUME TypeOK, IInv, NEW p \in Proc, Writes(p)
    PROVE  IInv'
<1> USE ServerAssumption DEF TypeOK, Proc, Goto, mapVars, rangeVars, connVars
<1>1. CASE Lock(p)
  <2> USE <1>1 DEF Lock, IInv
  <2>1. LockInv' /\ CastInv'
    BY DEF LockInv, CastInv
  <2>2. PlaceInv'
    BY DEF PlaceInv
  <2>3. MapInv'
    BY DEF MapInv, Closed
  <2> QED
    BY <2>1, <2>2, <2>3
<1>2. CASE Change(p)
  <2> USE <1>2 DEF Change, IInv
  <2>1. LockInv' /\ PlaceInv'
    BY DEF LockInv, PlaceInv
  <2>2. \A q \in Proc : q # p => pc[q] # "store"
    BY DEF LockInv
  <2>3. MapInv'
    BY <2>2 DEF PlaceInv, MapInv, Closed
  <2>4. CastInv'
    BY DEF CastInv
  <2> QED
    BY <2>1, <2>3, <2>4
<1>3. CASE Store(p)
  <2> USE <1>3 DEF Store, IInv, Rest
  <2>0. LockInv'
    BY DEF LockInv
  <2>1. PlaceInv'
    <3>1. \A q \in Proc : job'[q] = (IF q = p THEN "delete" ELSE job[q])
        BY DEF PlaceInv
    <3>2. pc'[p] \in {"connecting", "gone", "idle"} /\ \A q \in Proc \ {p} : pc'[q] = pc[q]
        OBVIOUS
    <3> HIDE DEF Store, Rest
    <3>3. arg' = arg
        BY DEF Store
    <3> QED
        BY <3>1, <3>2, <3>3 DEF PlaceInv
  <2>2. group' = group /\ \A q \in Proc : q # p => pc[q] # "store"
    BY DEF LockInv, MapInv
  <2>3. MapInv'
    BY <2>2 DEF PlaceInv, MapInv, Closed
  <2>4. CastInv'
    BY DEF CastInv
  <2> QED
    BY <2>0, <2>1, <2>3, <2>4
<1>4. CASE CloseFound(p)
  <2> USE <1>4 DEF CloseFound, Close, IInv
  <2>1. LockInv' /\ PlaceInv' /\ CastInv'
    BY DEF LockInv, PlaceInv, CastInv
  <2>2. MapInv'
    BY DEF PlaceInv, MapInv, Closed
  <2> QED
    BY <2>1, <2>2
<1> QED
    BY <1>1, <1>2, <1>3, <1>4 DEF Writes

\* So do the steps of Listen ...
LEMMA ListenStep ==
    ASSUME TypeOK, IInv, NEW c \in Conn, Accept(c) \/ Connect(c) \/ Hangup(c)
    PROVE  IInv'
<1> USE ServerAssumption DEF TypeOK, Proc, Goto, mapVars, rangeVars, connVars, IInv
<1>1. CASE Accept(c)
  <2> USE <1>1 DEF Accept
  <2>1. LockInv' /\ PlaceInv' /\ CastInv'
    BY DEF LockInv, PlaceInv, CastInv
  <2>2. MapInv'
    BY DEF PlaceInv, MapInv, Closed
  <2> QED
    BY <2>1, <2>2
<1>2. CASE Connect(c)
  <2> USE <1>2 DEF Connect
  <2>1. LockInv' /\ CastInv'
    BY DEF LockInv, CastInv
  <2>2. PlaceInv'
    BY DEF PlaceInv
  <2>3. \A d \in Conn : Closed(d) => Closed(d)'
    BY DEF Close, Closed
  <2>4. MapInv'
    BY <2>3 DEF Close, PlaceInv, MapInv
  <2> QED
    BY <2>1, <2>2, <2>4
<1>3. CASE Hangup(c)
  <2> USE <1>3 DEF Hangup, Find, Rest
  <2>1. LockInv' /\ CastInv'
    BY DEF LockInv, CastInv
  <2>2. PlaceInv'
    BY DEF PlaceInv
  <2>3. MapInv'
    BY DEF PlaceInv, MapInv, Closed
  <2> QED
    BY <2>1, <2>2, <2>3
<1> QED
    BY <1>1, <1>2, <1>3

\* ... and those of the other goroutines.
LEMMA CallerStep ==
    ASSUME TypeOK, IInv, NEW b \in Caller, Calls(b) \/ Loops(b)
    PROVE  IInv'
<1> USE ServerAssumption DEF TypeOK, Proc, Goto, mapVars, rangeVars, connVars, IInv
<1>1. ASSUME NEW place \in {"broadcast", "closeAll"}, Load(b, place) PROVE IInv'
  <2> USE <1>1 DEF Load
  <2>1. LockInv' /\ CastInv'
    BY DEF LockInv, CastInv
  <2>2. PlaceInv'
    BY DEF PlaceInv
  <2>3. MapInv'
    BY DEF PlaceInv, MapInv, Closed
  <2> QED
    BY <2>1, <2>2, <2>3
<1>2. ASSUME NEW c \in Conn, CallRemove(b, c) PROVE IInv'
  <2> USE <1>2 DEF CallRemove, Find, Rest
  <2>1. LockInv' /\ CastInv'
    BY DEF LockInv, CastInv
  <2>2. PlaceInv'
    BY DEF PlaceInv
  <2>3. MapInv'
    BY DEF PlaceInv, MapInv, Closed
  <2> QED
    BY <2>1, <2>2, <2>3
<1>3. CASE Emit(b)
  <2> USE <1>3 DEF Emit
  <2>1. LockInv' /\ CastInv'
    BY DEF LockInv, CastInv
  <2>2. PlaceInv'
    BY DEF PlaceInv
  <2>3. MapInv'
    BY DEF PlaceInv, MapInv, Closed
  <2> QED
    BY <2>1, <2>2, <2>3
<1>4. CASE Return(b)
  <2> USE <1>4 DEF Return
  <2>1. LockInv' /\ CastInv'
    BY DEF LockInv, CastInv
  <2>2. PlaceInv'
    BY DEF PlaceInv
  <2>3. MapInv'
    BY DEF PlaceInv, MapInv, Closed
  <2> QED
    BY <2>1, <2>2, <2>3
<1>5. ASSUME NEW c \in Conn, BroadcastNext(b, c) PROVE IInv'
  <2> USE <1>5 DEF BroadcastNext
  <2>1. LockInv' /\ CastInv'
    BY DEF LockInv, CastInv
  <2>2. PlaceInv'
    BY DEF PlaceInv
  <2>3. MapInv'
    BY DEF PlaceInv, MapInv, Closed
  <2> QED
    BY <2>1, <2>2, <2>3
<1>6. ASSUME NEW c \in Conn, CloseNext(b, c) PROVE IInv'
  <2> USE <1>6 DEF CloseNext, Close
  <2>1. LockInv' /\ CastInv'
    BY DEF LockInv, CastInv
  <2>2. PlaceInv'
    BY DEF PlaceInv
  <2>3. MapInv'
    BY DEF PlaceInv, MapInv, Closed
  <2> QED
    BY <2>1, <2>2, <2>3
<1> QED
    BY <1>1, <1>2, <1>3, <1>4, <1>5, <1>6 DEF Calls, Loops

\* The invariant, and with it the types, hold of every server.
THEOREM Inductive == Spec => [](TypeOK /\ IInv)
<1>1. Init => IInv
    BY ServerAssumption DEF Init, IInv, LockInv, PlaceInv, MapInv, CastInv, Closed, Proc
<1>2. TypeOK /\ IInv /\ [Next]_vars => IInv'
  <2> SUFFICES ASSUME TypeOK, IInv, [Next]_vars PROVE IInv'
    OBVIOUS
  <2>1. CASE MapFault \/ UNCHANGED vars
    <3> USE <2>1 DEF MapFault, vars, mapVars, rangeVars, connVars, IInv
    <3>1. LockInv' /\ PlaceInv' /\ CastInv'
        BY DEF LockInv, PlaceInv, CastInv
    <3>2. MapInv'
        BY DEF MapInv, Closed
    <3> QED
        BY <3>1, <3>2
  <2> QED
    BY <2>1, WritesStep, ListenStep, CallerStep DEF Next, Step, Crashed
<1> QED
    BY <1>1, <1>2, TypeInit, TypeStep, PTL DEF Spec

\* Every variable keeps its type.
THEOREM TypeCorrect == Spec => []TypeOK
BY Inductive, PTL

-----------------------------------------------------------------------------

\* A Broadcast that returns no error was sent to everybody who stayed, whatever
\* maps were stored under its range.
THEOREM BroadcastsReach == Spec => []SilentBroadcastReachesAll
<1>1. TypeOK /\ IInv => SilentBroadcastReachesAll
    BY DEF TypeOK, IInv, CastInv, SilentBroadcastReachesAll
<1> QED
    BY <1>1, Inductive, PTL

\* Writers that change the group at once lose none of each other's connections.
THEOREM NoUpdateIsLost == Spec => []OpenConnectionsAreAddressed
<1>1. IInv => OpenConnectionsAreAddressed
    BY DEF IInv, MapInv, Closed, OpenConnectionsAreAddressed
<1> QED
    BY <1>1, Inductive, PTL

\* No map, stored or about to be, keeps a connection whose goroutine has ended.
THEOREM NobodyLingers == Spec => []GoneConnectionsAreForgotten
<1>1. IInv => GoneConnectionsAreForgotten
    BY DEF IInv, MapInv, GoneConnectionsAreForgotten
<1> QED
    BY <1>1, Inductive, PTL

\* No goroutine of a connection ends without its socket closed and its
\* disconnection reported.
THEOREM EveryEndIsHandled == Spec => []DisconnectionsAreHandled
<1>1. TypeOK /\ IInv => DisconnectionsAreHandled
    BY DEF TypeOK, IInv, PlaceInv, MapInv, Closed, DisconnectionsAreHandled, Proc
<1> QED
    BY <1>1, Inductive, PTL

-----------------------------------------------------------------------------
(* WSServer implements Group *)

\* A connection that is being added is open and out of the group, until the change
\* in place puts it there.
ComingInv ==
    \A c \in Conn : job[c] = "add" =>
        /\ c \in group <=> pc[c] = "store"
        /\ pc[c] \in {"off", "lock", "change", "store"}
        /\ pc[c] \in {"lock", "change"} => open[c]

Entered(c) == c \in group \/ job[c] = "delete"

\* A range visits connections that entered the group, and those of the group alone
\* until the map was copied; CloseAll has yet to visit whom it found and did not close.
RangeInv ==
    \A b \in Caller :
        /\ fresh[b] => todo[b] \subseteq group
        /\ \A c \in todo[b] : Entered(c)
        /\ pc[b] = "emit" => arg[b] \in Conn /\ Entered(arg[b])
        /\ owed[b] \subseteq group
        /\ pc[b] = "closeAll" => \A c \in owed[b] : c \in todo[b] \/ ~open[c]

FullInv == TypeOK /\ IInv /\ ComingInv /\ RangeInv

\* The steps of the writers keep them: only one of them is in its change, and it
\* adds a connection that no range knows.
LEMMA WritesKeep ==
    ASSUME FullInv, NEW p \in Proc, Writes(p)
    PROVE  ComingInv' /\ RangeInv'
<1> USE ServerAssumption DEF TypeOK, Goto, mapVars, rangeVars, connVars, FullInv
<1>1. CASE Lock(p)
  <2> USE <1>1 DEF Lock
  <2>1. ComingInv'
    BY DEF ComingInv, Proc
  <2>2. RangeInv'
    BY DEF RangeInv, Entered, Proc
  <2> QED
    BY <2>1, <2>2
<1>2. CASE Change(p)
  <2>1. arg[p] \in Conn /\ (job[p] = "add" => p \in Conn /\ arg[p] = p /\ p \notin group)
    BY <1>2 DEF Change, IInv, PlaceInv, ComingInv
  <2>2. \A q \in Proc : pc'[q] = (IF q = p THEN "store" ELSE pc[q])
    BY <1>2 DEF Change
  <2>3. /\ UNCHANGED <<lock, job, arg, fresh, open>>
        /\ group' = IF job[p] = "add" THEN group \cup {arg[p]} ELSE group \ {arg[p]}
    BY <1>2 DEF Change
  <2>4. \A c \in Conn : job[c] = "add" => c # arg[p] \/ (job[p] = "add" /\ c = p)
    BY <1>2, <2>1 DEF Change, IInv, MapInv, Closed
  <2>5. ComingInv'
    BY <1>2, <2>1, <2>2, <2>3, <2>4 DEF Change, ComingInv, Proc
  <2>6. \A c \in Conn : Entered(c) => Entered(c)'
    BY <1>2, <2>1, <2>3, <2>4 DEF Change, Entered, Proc
  <2>7. CASE job[p] = "add"
    <3>1. \A b \in Caller :
            /\ todo'[b] \in SUBSET (todo[b] \cup {p}) /\ todo[b] \subseteq todo'[b]
            /\ owed'[b] = owed[b]
      BY <1>2, <2>1, <2>7 DEF Change
    <3>2. group' = group \cup {p} /\ Entered(p)'
      BY <2>1, <2>3, <2>7 DEF Entered
    <3> SUFFICES ASSUME NEW b \in Caller
                 PROVE  /\ fresh'[b] => todo'[b] \subseteq group'
                        /\ \A c \in todo'[b] : Entered(c)'
                        /\ pc'[b] = "emit" => arg'[b] \in Conn /\ Entered(arg[b])'
                        /\ owed'[b] \subseteq group'
                        /\ pc'[b] = "closeAll" =>
                             \A c \in owed'[b] : c \in todo'[b] \/ ~open'[c]
      BY <2>5 DEF RangeInv, Entered
    <3> b \in Proc /\ todo[b] \subseteq Conn
      BY DEF Proc
    <3>3. /\ fresh[b] => todo[b] \subseteq group
          /\ \A c \in todo[b] : Entered(c)
          /\ pc[b] = "emit" => arg[b] \in Conn /\ Entered(arg[b])
          /\ owed[b] \subseteq group
          /\ pc[b] = "closeAll" => \A c \in owed[b] : c \in todo[b] \/ ~open[c]
      BY DEF RangeInv
    <3>4. /\ \A c \in todo'[b] : Entered(c)'
          /\ pc'[b] = "emit" => arg'[b] \in Conn /\ Entered(arg[b])'
      BY <2>2, <2>3, <2>6, <3>1, <3>2, <3>3 DEF Entered
    <3>5. pc'[b] = "closeAll" => \A c \in owed'[b] : c \in todo'[b] \/ ~open'[c]
      BY <2>2, <2>3, <3>1, <3>2, <3>3
    <3> QED
      BY <2>3, <3>1, <3>2, <3>3, <3>4, <3>5
  <2>8. CASE job[p] = "delete"
    <3>0. PICK c \in Conn : c = arg[p]
      BY <2>1
    <3>1. \A b \in Caller :
            /\ todo'[b] \subseteq todo[b] /\ todo[b] \ todo'[b] \subseteq {c}
            /\ fresh[b] => c \notin todo'[b]
            /\ owed'[b] = owed[b] \ {c}
      BY <1>2, <2>8, <3>0 DEF Change
    <3>2. /\ ~open[c] /\ group' = group \ {c}
          /\ UNCHANGED <<arg, fresh, open>>
      BY <1>2, <2>3, <2>8, <3>0 DEF Change, IInv, MapInv, Closed
    <3> SUFFICES ASSUME NEW b \in Caller
                 PROVE  /\ fresh'[b] => todo'[b] \subseteq group'
                        /\ \A d \in todo'[b] : Entered(d)'
                        /\ pc'[b] = "emit" => arg'[b] \in Conn /\ Entered(arg[b])'
                        /\ owed'[b] \subseteq group'
                        /\ pc'[b] = "closeAll" =>
                             \A d \in owed'[b] : d \in todo'[b] \/ ~open'[d]
      BY <2>5 DEF RangeInv, Entered
    <3> b \in Proc /\ todo[b] \subseteq Conn
      BY DEF Proc
    <3>3. /\ fresh[b] => todo[b] \subseteq group
          /\ \A d \in todo[b] : Entered(d)
          /\ pc[b] = "emit" => arg[b] \in Conn /\ Entered(arg[b])
          /\ owed[b] \subseteq group
          /\ pc[b] = "closeAll" => \A d \in owed[b] : d \in todo[b] \/ ~open[d]
      BY DEF RangeInv
    <3>4. \A d \in todo'[b] : Entered(d)'
      BY <2>6, <3>1, <3>3
    <3>5. pc'[b] = "emit" => arg'[b] \in Conn /\ Entered(arg[b])'
      BY <2>2, <2>6, <3>2, <3>3 DEF Entered
    <3>6. pc'[b] = "closeAll" => \A d \in owed'[b] : d \in todo'[b] \/ ~open'[d]
      BY <2>2, <3>1, <3>2, <3>3
    <3>7. (fresh'[b] => todo'[b] \subseteq group') /\ owed'[b] \subseteq group'
      BY <3>1, <3>2, <3>3
    <3> QED
      BY <3>4, <3>5, <3>6, <3>7
  <2> QED
    BY <2>5, <2>7, <2>8
<1>3. CASE Store(p)
  <2>1. group' = group
    BY <1>3 DEF Store, IInv, MapInv
  <2>2. \A q \in Proc : /\ pc'[q] \notin {"emit", "closeAll"} \/ pc'[q] = pc[q]
                        /\ q # p => pc'[q] = pc[q] /\ job'[q] = job[q]
    BY <1>3 DEF Store, Rest
  <2>3. job'[p] = "delete" /\ \A b \in Caller : ~fresh'[b]
    BY <1>3 DEF Store
  <2>4. UNCHANGED <<arg, todo, owed, open>>
    BY <1>3 DEF Store
  <2>5. ComingInv'
    BY <2>1, <2>2, <2>3, <2>4 DEF ComingInv, Proc
  <2>6. \A c \in Conn : Entered(c) => Entered(c)'
    BY <2>1, <2>2, <2>3 DEF Entered, Proc
  <2>7. \A b \in Caller : b \in Proc /\ todo[b] \subseteq Conn
    BY DEF Proc
  <2>8. \A b \in Caller : pc[b] = "emit" => arg[b] \in Conn /\ Entered(arg[b])'
    BY <2>1, <2>2, <2>3, <2>4 DEF RangeInv, Entered, Proc
  <2> QED
    BY <2>1, <2>2, <2>3, <2>4, <2>5, <2>6, <2>7, <2>8 DEF RangeInv
<1>4. CASE CloseFound(p)
  <2>1. job[arg[p]] = "delete" /\ arg[p] \in Conn
    BY <1>4 DEF CloseFound, IInv, PlaceInv
  <2>2. ComingInv'
    BY <1>4, <2>1 DEF CloseFound, Close, ComingInv, Proc
  <2>3. RangeInv'
    BY <1>4 DEF CloseFound, Close, RangeInv, Entered, Proc
  <2> QED
    BY <2>2, <2>3
<1> QED
  BY <1>1, <1>2, <1>3, <1>4 DEF Writes

\* So do the steps of Listen: the socket is open before it is added ...
LEMMA ListenKeeps ==
    ASSUME FullInv, NEW c \in Conn, Accept(c) \/ Connect(c) \/ Hangup(c)
    PROVE  ComingInv' /\ RangeInv'
<1> USE ServerAssumption DEF TypeOK, Goto, mapVars, rangeVars, connVars, FullInv, Proc
<1>1. CASE Accept(c)
  <2>1. c \notin group
    BY <1>1 DEF Accept, IInv, PlaceInv, ComingInv
  <2>2. ComingInv'
    BY <1>1, <2>1 DEF Accept, ComingInv
  <2>3. RangeInv'
    BY <1>1, <2>1 DEF Accept, RangeInv, Entered
  <2> QED
    BY <2>2, <2>3
<1>2. CASE Connect(c)
  <2>1. job[c] = "delete"
    BY <1>2 DEF Connect, ComingInv
  <2>2. \A d \in Conn : open'[d] = open[d] \/ (d = c /\ ~open'[d])
    BY <1>2 DEF Connect, Close
  <2>3. ComingInv'
    BY <1>2, <2>1, <2>2 DEF Connect, ComingInv
  <2>4. RangeInv'
    BY <1>2, <2>2 DEF Connect, RangeInv, Entered
  <2> QED
    BY <2>3, <2>4
<1>3. CASE Hangup(c)
  <2>1. job[c] = "delete"
    BY <1>3 DEF Hangup, ComingInv
  <2>2. ComingInv'
    BY <1>3, <2>1 DEF Hangup, Find, ComingInv
  <2>3. RangeInv'
    BY <1>3 DEF Hangup, Find, Rest, RangeInv, Entered
  <2> QED
    BY <2>2, <2>3
<1> QED
  BY <1>1, <1>2, <1>3

\* ... and those of the callers, which find whom they visit in the group.
LEMMA CallersKeep ==
    ASSUME FullInv, NEW b \in Caller, Calls(b) \/ Loops(b)
    PROVE  ComingInv' /\ RangeInv'
<1> USE ServerAssumption DEF TypeOK, Goto, mapVars, rangeVars, connVars, FullInv, Proc
<1>1. ASSUME NEW place \in {"broadcast", "closeAll"}, Load(b, place)
      PROVE  ComingInv' /\ RangeInv'
  <2>1. ComingInv'
    BY <1>1 DEF Load, ComingInv
  <2>2. RangeInv'
    BY <1>1 DEF Load, RangeInv, Entered
  <2> QED
    BY <2>1, <2>2
<1>2. ASSUME NEW c \in Conn, CallRemove(b, c) PROVE ComingInv' /\ RangeInv'
  <2>1. ComingInv'
    BY <1>2 DEF CallRemove, Find, Rest, ComingInv
  <2>2. RangeInv'
    BY <1>2 DEF CallRemove, Find, Rest, RangeInv, Entered
  <2> QED
    BY <2>1, <2>2
<1>3. CASE Emit(b)
  <2>1. ComingInv'
    BY <1>3 DEF Emit, ComingInv
  <2>2. RangeInv'
    BY <1>3 DEF Emit, RangeInv, Entered
  <2> QED
    BY <2>1, <2>2
<1>4. CASE Return(b)
  <2>1. ComingInv'
    BY <1>4 DEF Return, ComingInv
  <2>2. RangeInv'
    BY <1>4 DEF Return, RangeInv, Entered
  <2> QED
    BY <2>1, <2>2
<1>5. ASSUME NEW c \in Conn, BroadcastNext(b, c) PROVE ComingInv' /\ RangeInv'
  <2>1. ComingInv'
    BY <1>5 DEF BroadcastNext, ComingInv
  <2>2. RangeInv'
    BY <1>5 DEF BroadcastNext, RangeInv, Entered
  <2> QED
    BY <2>1, <2>2
<1>6. ASSUME NEW c \in Conn, CloseNext(b, c) PROVE ComingInv' /\ RangeInv'
  <2>1. Entered(c)
    BY <1>6 DEF CloseNext, RangeInv
  <2>2. ComingInv'
    BY <1>6, <2>1 DEF CloseNext, Close, ComingInv, Entered
  <2>3. RangeInv'
    BY <1>6 DEF CloseNext, Close, RangeInv, Entered
  <2> QED
    BY <2>2, <2>3
<1> QED
  BY <1>1, <1>2, <1>3, <1>4, <1>5, <1>6 DEF Calls, Loops

\* The invariant that the refinement rests on.
LEMMA FullInductive == Spec => []FullInv
<1>1. Init => ComingInv /\ RangeInv
  BY ServerAssumption DEF Init, ComingInv, RangeInv, Entered, Proc
<1>2. FullInv /\ [Next]_vars => (ComingInv /\ RangeInv)'
  <2> SUFFICES ASSUME FullInv, [Next]_vars PROVE ComingInv' /\ RangeInv'
    OBVIOUS
  <2>1. CASE MapFault \/ UNCHANGED vars
    <3> USE <2>1 DEF MapFault, vars, mapVars, rangeVars, connVars, FullInv
    <3> QED
      BY DEF ComingInv, RangeInv, Entered
  <2> QED
    BY <2>1, WritesKeep, ListenKeeps, CallersKeep DEF Next, Step, Crashed
<1>3. TypeOK /\ IInv /\ ComingInv /\ RangeInv <=> FullInv
  BY DEF FullInv
<1> QED
  BY <1>1, <1>2, <1>3, Inductive, PTL DEF Spec

-----------------------------------------------------------------------------

\* What a step must leave alone to leave all calls alone, ...
SameCalls ==
    /\ \A b \in Caller : Call(b)' = Call(b) /\ Missed(b)' = Missed(b)
    /\ UNCHANGED <<owed, crash>>

LEMMA CallsStay ==
    ASSUME SameCalls
    PROVE  UNCHANGED <<G!callVars, crash>>
BY DEF SameCalls, G!callVars

\* ... and to leave the whole group alone.
LEMMA GroupStutters ==
    ASSUME SameCalls, \A c \in Conn : State(c)' = State(c)
    PROVE  UNCHANGED G!groupVars
BY CallsStay DEF G!groupVars

\* One connection moves.
LEMMA Moves ==
    ASSUME NEW c \in Conn, NEW to,
           State(c)' = to, \A d \in Conn \ {c} : State(d)' = State(d)
    PROVE  G!Move(c, State(c), to)
BY DEF G!Move

\* Close, of a connection that entered, closes it or finds it closed.
LEMMA CloseRefines ==
    ASSUME TypeOK, ~crash, NEW c \in Conn, Entered(c), SameCalls,
           UNCHANGED <<group, job>>,
           open' = [open EXCEPT ![c] = FALSE],
           \A d \in Conn : pc[d] = "off" <=> pc'[d] = "off"
    PROVE  G!Next \/ UNCHANGED G!groupVars
<1>1. \A d \in Conn \ {c} : State(d)' = State(d)
  BY DEF State, TypeOK
<1>2. CASE State(c)' = State(c)
  BY <1>1, <1>2, GroupStutters
<1>3. CASE State(c)' # State(c)
  <2>1. State(c) = "in" /\ State(c)' = "closing"
    BY <1>3 DEF State, TypeOK, Entered
  <2> QED
    BY <1>1, <2>1, Moves, CallsStay DEF G!Next, G!Close
<1> QED
  BY <1>2, <1>3

\* The writers: a change in place brings a connection into the group, or takes one
\* out of it that may have gone already.
LEMMA ChangeRefines ==
    ASSUME FullInv, ~crash, NEW p \in Proc, Change(p)
    PROVE  G!Next \/ UNCHANGED G!groupVars
<1> USE ServerAssumption DEF TypeOK, FullInv
<1>1. /\ arg[p] \in Conn /\ pc[p] = "change"
      /\ job[p] = "add" => p \in Conn /\ arg[p] = p /\ p \notin group
  BY DEF Change, IInv, PlaceInv, ComingInv
<1>2. /\ \A q \in Proc : pc'[q] = (IF q = p THEN "store" ELSE pc[q])
      /\ UNCHANGED <<job, arg, fresh, open, crash>>
      /\ group' = IF job[p] = "add" THEN group \cup {arg[p]} ELSE group \ {arg[p]}
  BY DEF Change, Goto, connVars
<1>3. /\ \A b \in Caller : Call(b)' = Call(b)
      /\ \A d \in Conn \ {arg[p]} : State(d)' = State(d)
  BY <1>1, <1>2 DEF Call, State, Proc
<1>4. \A b \in Caller : pc'[b] = pc[b] \/ {pc[b], pc'[b]} \subseteq {"change", "store"}
  BY <1>1, <1>2 DEF Proc
<1>5. CASE job[p] = "add"
  <2>1. State(p) = "coming" /\ State(p)' = "in"
    BY <1>1, <1>2, <1>5 DEF State, ComingInv
  <2>2. ASSUME NEW b \in Caller PROVE Missed(b)' = Missed(b)
    <3>1. todo'[b] \in SUBSET (todo[b] \cup {p}) /\ todo[b] \subseteq todo'[b]
      BY <1>1, <1>5 DEF Change
    <3>2. p \notin todo[b] /\ (pc[b] = "emit" => arg[b] # p)
      BY <1>1, <1>5 DEF RangeInv, Entered
    <3>3. pc'[b] = pc[b] /\ arg'[b] = arg[b]
      BY <1>1, <1>2, <1>5 DEF Proc
    <3>4. todo'[b] \ group' = todo[b] \ group
      BY <1>1, <1>2, <1>5, <3>1, <3>2
    <3>5. pc[b] = "emit" =>
            (todo'[b] \cup {arg'[b]}) \ group' = (todo[b] \cup {arg[b]}) \ group
      BY <1>1, <1>2, <1>5, <3>1, <3>2, <3>3
    <3> QED
      BY <3>3, <3>4, <3>5 DEF Missed
  <2>3. owed' = owed
    BY <1>5 DEF Change
  <2>4. SameCalls
    BY <1>2, <1>3, <2>2, <2>3 DEF SameCalls
  <2> QED
    BY <1>1, <1>3, <1>5, <2>1, <2>4, Moves, CallsStay DEF G!Next, G!Enter
<1>6. CASE job[p] = "delete"
  <2>0. PICK c \in Conn : c = arg[p]
    BY <1>1
  <2>1. /\ owed' = [b \in Caller |-> owed[b] \ {c}]
        /\ todo' = [b \in Caller |-> IF fresh[b] THEN todo[b] \ {c} ELSE todo[b]]
    BY <2>0, <1>6 DEF Change
  <2>2. group' = group \ {c} /\ ~open[c] /\ job[c] = "delete"
    BY <2>0, <1>1, <1>2, <1>6 DEF IInv, MapInv, Closed
  <2>3. CASE c \in group
    <3> DEFINE Meet == {b \in Caller : c \in Missed(b)'}
    <3>1. ASSUME NEW b \in Caller
          PROVE  /\ Missed(b)' = IF b \in Meet THEN Missed(b) \cup {c} ELSE Missed(b)
                 /\ b \in Meet => Call(b) = "broadcast"
      <4>1. /\ todo'[b] = IF fresh[b] THEN todo[b] \ {c} ELSE todo[b]
            /\ arg'[b] = arg[b]
        BY <1>2, <2>1
      <4>2. CASE pc[b] = "broadcast"
        <5>1. Missed(b) = todo[b] \ group /\ Missed(b)' = todo'[b] \ group'
          BY <1>4, <4>2 DEF Missed
        <5> QED
          BY <1>4, <2>2, <2>3, <4>1, <4>2, <5>1 DEF Call
      <4>3. CASE pc[b] = "emit"
        <5>1. /\ Missed(b) = (todo[b] \cup {arg[b]}) \ group
              /\ Missed(b)' = (todo'[b] \cup {arg[b]}) \ group'
          BY <1>4, <4>1, <4>3 DEF Missed
        <5> QED
          BY <1>4, <2>2, <2>3, <4>1, <4>3, <5>1 DEF Call
      <4>4. CASE pc[b] \notin {"broadcast", "emit"}
        <5>1. Missed(b) = {} /\ Missed(b)' = {}
          BY <1>4, <4>4 DEF Missed
        <5> QED
          BY <5>1
      <4> QED
        BY <4>2, <4>3, <4>4
    <3>2. State(c) = "closing" /\ State(c)' = "out"
      BY <2>0, <1>1, <1>2, <2>2, <2>3 DEF State
    <3>3. G!Move(c, "closing", "out")
      BY <2>0, <1>1, <1>3, <3>2, Moves
    <3>4. Meet \in SUBSET {b \in Caller : [a \in Caller |-> Call(a)][b] = "broadcast"}
      BY <3>1
    <3>5. G!Leave(c)
      <4>1. crash' = crash
        BY <1>2
      <4>2. [b \in Caller |-> Call(b)]' = [b \in Caller |-> Call(b)]
        BY <1>3
      <4>3. [b \in Caller |-> Missed(b)]' =
              [b \in Caller |-> IF b \in Meet THEN [a \in Caller |-> Missed(a)][b] \cup {c}
                                             ELSE [a \in Caller |-> Missed(a)][b]]
        BY <3>1
      <4> HIDE DEF Meet
      <4> QED
        BY <2>1, <3>3, <3>4, <4>1, <4>2, <4>3 DEF G!Leave
    <3> QED
      BY <1>1, <3>5 DEF G!Next
  <2>4. CASE c \notin group
    <3>1. owed' = owed
      BY <2>1, <2>4 DEF RangeInv
    <3>2. todo' = todo
      BY <2>1, <2>4 DEF RangeInv
    <3>3. \A b \in Caller : Missed(b)' = Missed(b)
      <4>1. group' = group /\ arg' = arg
        BY <1>2, <2>2, <2>4
      <4> QED
        BY <1>4, <3>2, <4>1 DEF Missed
    <3>4. State(c)' = State(c)
      BY <2>0, <1>2, <2>2, <2>4 DEF State
    <3> QED
      BY <2>0, <1>2, <1>3, <3>1, <3>3, <3>4, GroupStutters DEF SameCalls
  <2> QED
    BY <2>3, <2>4
<1> QED
  BY <1>5, <1>6 DEF Proc

\* The other steps of the writers change nothing, or close.
LEMMA WritesRefine ==
    ASSUME FullInv, ~crash, NEW p \in Proc, Writes(p)
    PROVE  G!Next \/ UNCHANGED G!groupVars
<1> USE ServerAssumption DEF TypeOK, FullInv, Goto, mapVars, rangeVars, connVars
<1>1. CASE Lock(p)
  <2>1. SameCalls
    BY <1>1 DEF Lock, SameCalls, Call, Missed, Proc
  <2>2. \A c \in Conn : State(c)' = State(c)
    BY <1>1 DEF Lock, State, Proc
  <2> QED
    BY <2>1, <2>2, GroupStutters
<1>2. CASE Store(p)
  <2>1. group' = group /\ (job[p] = "add" => p \in Conn /\ p \in group)
    BY <1>2 DEF Store, IInv, MapInv, PlaceInv
  <2>2. SameCalls
    BY <1>2, <2>1 DEF Store, Rest, SameCalls, Call, Missed, Proc
  <2>3. \A c \in Conn : State(c)' = State(c)
    BY <1>2, <2>1 DEF Store, Rest, State, Proc
  <2> QED
    BY <2>2, <2>3, GroupStutters
<1>3. CASE CloseFound(p)
  <2>1. arg[p] \in Conn /\ Entered(arg[p])
    BY <1>3 DEF CloseFound, IInv, PlaceInv, Entered
  <2>2. SameCalls
    BY <1>3 DEF CloseFound, Close, SameCalls, Call, Missed, Proc
  <2>3. \A d \in Conn : pc[d] = "off" <=> pc'[d] = "off"
    BY <1>3 DEF CloseFound, Proc
  <2>4. open' = [open EXCEPT ![arg[p]] = FALSE] /\ UNCHANGED <<group, job>>
    BY <1>3 DEF CloseFound, Close
  <2> QED
    BY <2>1, <2>2, <2>3, <2>4, CloseRefines
<1> QED
  BY <1>1, <1>2, <1>3, ChangeRefines DEF Writes

\* A goroutine of Listen brings its connection up to the group, and may close it.
LEMMA ListenRefines ==
    ASSUME FullInv, ~crash, NEW c \in Conn, Accept(c) \/ Connect(c) \/ Hangup(c)
    PROVE  G!Next \/ UNCHANGED G!groupVars
<1> USE ServerAssumption DEF TypeOK, FullInv, Goto, mapVars, rangeVars, connVars, Proc
<1>1. CASE Accept(c)
  <2>1. job[c] = "add" /\ c \notin group
    BY <1>1 DEF Accept, IInv, PlaceInv, ComingInv
  <2>2. SameCalls
    BY <1>1 DEF Accept, SameCalls, Call, Missed
  <2>3. State(c) = "new" /\ State(c)' = "coming"
    BY <1>1, <2>1 DEF Accept, State
  <2>4. \A d \in Conn \ {c} : State(d)' = State(d)
    BY <1>1 DEF Accept, State
  <2> QED
    BY <2>2, <2>3, <2>4, Moves, CallsStay DEF G!Next, G!Come
<1>2. CASE Connect(c)
  <2>1. Entered(c)
    BY <1>2 DEF Connect, ComingInv, Entered
  <2>2. SameCalls
    BY <1>2 DEF Connect, SameCalls, Call, Missed
  <2>3. /\ \A d \in Conn : pc[d] = "off" <=> pc'[d] = "off"
        /\ UNCHANGED <<group, job>>
        /\ open' = open \/ open' = [open EXCEPT ![c] = FALSE]
    BY <1>2 DEF Connect, Close
  <2>4. CASE open' = open
    BY <2>2, <2>3, <2>4, GroupStutters DEF State
  <2> QED
    BY <2>1, <2>2, <2>3, <2>4, CloseRefines
<1>3. CASE Hangup(c)
  <2>1. SameCalls
    BY <1>3 DEF Hangup, Find, Rest, SameCalls, Call, Missed
  <2>2. \A d \in Conn : State(d)' = State(d)
    BY <1>3 DEF Hangup, Find, Rest, State
  <2> QED
    BY <2>1, <2>2, GroupStutters
<1> QED
  BY <1>1, <1>2, <1>3

\* What the end of a call does to the calls.
LEMMA CallEnds ==
    ASSUME TypeOK, NEW b \in Caller, NEW place, Call(b)' = place, Missed(b)' = {},
           \A a \in Caller \ {b} : Call(a)' = Call(a) /\ Missed(a)' = Missed(a),
           \A c \in Conn : State(c)' = State(c), crash' = crash
    PROVE  G!Ends(b, place)
BY DEF G!Ends

\* A caller begins, delivers, fails and returns as the group allows.
LEMMA CallersRefine ==
    ASSUME FullInv, ~crash, NEW b \in Caller, Calls(b) \/ Loops(b)
    PROVE  G!Next \/ UNCHANGED G!groupVars
<1> USE ServerAssumption DEF TypeOK, FullInv, Goto, mapVars, rangeVars, connVars
<1>0. b \in Proc /\ b \notin Conn
  BY DEF Proc
<1>1. ASSUME NEW place \in {"broadcast", "closeAll"}, Load(b, place) PROVE G!Next
  <2>1. /\ Call(b) = "idle" /\ Call(b)' = place /\ Missed(b)' = {}
    BY <1>0, <1>1 DEF Load, Call, Missed
  <2>2. \A a \in Caller \ {b} : Call(a)' = Call(a) /\ Missed(a)' = Missed(a)
    BY <1>1 DEF Load, Call, Missed, Proc
  <2>3. \A c \in Conn : State(c)' = State(c)
    BY <1>0, <1>1 DEF Load, State, Proc
  <2>4. G!Ends(b, place)
    BY <1>1, <2>1, <2>2, <2>3, CallEnds DEF Load
  <2>5. G!Members = group
    BY DEF G!Members, State
  <2>6. owed' = [owed EXCEPT ![b] = G!Members]
    BY <1>1, <2>5 DEF Load
  <2>7. G!Begin(b)
    BY <2>1, <2>4, <2>6 DEF G!Begin
  <2> QED
    BY <2>7 DEF G!Next
<1>2. ASSUME NEW c \in Conn, CallRemove(b, c) PROVE UNCHANGED G!groupVars
  <2>1. SameCalls
    BY <1>2 DEF CallRemove, Find, Rest, SameCalls, Call, Missed, Proc
  <2>2. \A d \in Conn : State(d)' = State(d)
    BY <1>0, <1>2 DEF CallRemove, Find, State, Proc
  <2> QED
    BY <2>1, <2>2, GroupStutters
<1>3. CASE Emit(b)
  <2>1. \A c \in Conn : State(c)' = State(c)
    BY <1>0, <1>3 DEF Emit, State, Proc
  <2>2. \A a \in Caller \ {b} : Call(a)' = Call(a) /\ Missed(a)' = Missed(a)
    BY <1>3 DEF Emit, Call, Missed, Proc
  <2>3. /\ pc[b] = "emit" /\ Call(b) = "broadcast" /\ crash' = crash
        /\ Missed(b) = (todo[b] \cup {arg[b]}) \ group
    BY <1>3 DEF Emit, Call, Missed
  <2>4. CASE arg[b] \in group
    <3>1. pc'[b] = "broadcast" /\ UNCHANGED <<todo, group, arg>>
      BY <1>0, <1>3, <2>4 DEF Emit
    <3>2. Call(b)' = Call(b) /\ Missed(b)' = Missed(b)
      BY <2>3, <2>4, <3>1 DEF Call, Missed
    <3>3. owed' = [owed EXCEPT ![b] = @ \ {arg[b]}]
      BY <1>3, <2>4 DEF Emit
    <3>4. CASE arg[b] \in owed[b]
      <4>1. PICK c \in Conn : c = arg[b]
        BY <3>4
      <4>2. G!Deliver(b, c)
        BY <2>1, <2>2, <2>3, <3>2, <3>3, <3>4, <4>1 DEF G!Deliver
      <4> QED
        BY <4>2 DEF G!Next
    <3>5. CASE arg[b] \notin owed[b]
      <4>1. owed' = owed
        BY <3>3, <3>5
      <4> QED
        BY <2>1, <2>2, <2>3, <3>2, <4>1, GroupStutters DEF SameCalls
    <3> QED
      BY <3>4, <3>5
  <2>5. CASE arg[b] \notin group
    <3>1. pc'[b] = "failed" /\ owed' = owed
      BY <1>0, <1>3, <2>5 DEF Emit
    <3>2. Call(b)' = "failed" /\ Missed(b)' = {} /\ Missed(b) # {}
      BY <2>3, <2>5, <3>1 DEF Call, Missed
    <3>3. G!Ends(b, "failed")
      BY <2>1, <2>2, <2>3, <3>2, CallEnds
    <3>4. G!Fail(b)
      BY <2>3, <3>1, <3>2, <3>3 DEF G!Fail
    <3> QED
      BY <3>4 DEF G!Next
  <2> QED
    BY <2>4, <2>5
<1>4. CASE Return(b)
  <2>1. \A c \in Conn : State(c)' = State(c)
    BY <1>0, <1>4 DEF Return, State, Proc
  <2>2. \A a \in Caller \ {b} : Call(a)' = Call(a) /\ Missed(a)' = Missed(a)
    BY <1>4 DEF Return, Call, Missed, Proc
  <2>3. Call(b)' = "idle" /\ Missed(b)' = {} /\ crash' = crash
    BY <1>0, <1>4 DEF Return, Call, Missed
  <2>4. G!Ends(b, "idle")
    BY <2>1, <2>2, <2>3, CallEnds
  <2>5. \/ Call(b) = "failed"
        \/ Call(b) = "broadcast" /\ owed[b] = {} /\ Missed(b) = {}
        \/ Call(b) = "closeAll" /\ \A c \in owed[b] : State(c) # "in"
    BY <1>4 DEF Return, Call, Missed, State, IInv, CastInv, RangeInv
  <2>6. owed' = [owed EXCEPT ![b] = {}]
    BY <1>4 DEF Return
  <2>7. G!Return(b)
    BY <2>4, <2>5, <2>6 DEF G!Return
  <2> QED
    BY <2>7 DEF G!Next
<1>5. ASSUME NEW c \in Conn, BroadcastNext(b, c) PROVE UNCHANGED G!groupVars
  <2>1. \A d \in Conn : State(d)' = State(d)
    BY <1>0, <1>5 DEF BroadcastNext, State, Proc
  <2>2. \A a \in Caller \ {b} : Call(a)' = Call(a) /\ Missed(a)' = Missed(a)
    BY <1>5 DEF BroadcastNext, Call, Missed, Proc
  <2>3. /\ pc[b] = "broadcast" /\ pc'[b] = "emit" /\ arg'[b] = c /\ group' = group
        /\ todo'[b] = todo[b] \ {c} /\ c \in todo[b]
    BY <1>0, <1>5 DEF BroadcastNext
  <2>4. (todo'[b] \cup {arg'[b]}) \ group' = todo[b] \ group
    BY <2>3
  <2>5. Call(b)' = Call(b) /\ Missed(b)' = Missed(b)
    BY <2>3, <2>4 DEF Call, Missed
  <2> QED
    BY <1>5, <2>1, <2>2, <2>5, GroupStutters DEF SameCalls, BroadcastNext
<1>6. ASSUME NEW c \in Conn, CloseNext(b, c)
      PROVE  G!Next \/ UNCHANGED G!groupVars
  <2>1. Entered(c)
    BY <1>6 DEF CloseNext, RangeInv
  <2>2. SameCalls
    BY <1>6 DEF CloseNext, Close, SameCalls, Call, Missed
  <2> QED
    BY <1>6, <2>1, <2>2, CloseRefines DEF CloseNext, Close
<1> QED
  BY <1>1, <1>2, <1>3, <1>4, <1>5, <1>6 DEF Calls, Loops

\* A fault of the runtime is met by somebody who comes or goes.
LEMMA FaultRefines ==
    ASSUME FullInv, ~crash, MapFault
    PROVE  G!Next
<1> USE ServerAssumption DEF TypeOK, FullInv, mapVars, rangeVars, connVars
<1>1. PICK p \in Proc : pc[p] = "change"
  BY DEF MapFault
<1>2. PICK c \in Conn : c = arg[p]
  BY <1>1 DEF IInv, PlaceInv
<1>3. State(c) \notin {"new", "in"}
  BY <1>1, <1>2 DEF IInv, PlaceInv, MapInv, Closed, ComingInv, State, Proc
<1>4. /\ crash' = TRUE
      /\ [d \in Conn |-> State(d)]' = [d \in Conn |-> State(d)]
      /\ UNCHANGED G!callVars
  BY DEF MapFault, State, Call, Missed, G!callVars
<1>5. G!Die
  BY <1>3, <1>4 DEF G!Die
<1> QED
  BY <1>5 DEF G!Next

\* The map that is changed in place, copied and stored, under ranges and lookups
\* that take no lock, keeps what Group promises: nobody enters twice or leaves
\* unclosed, a Broadcast fails only when somebody left under it and is otherwise
\* sent to all who stayed, and CloseAll closes all whom it found.
THEOREM ServerImplementsGroup == Spec => ImplementsGroup
<1>1. Init => G!Init
  <2> SUFFICES ASSUME Init PROVE G!Init
    OBVIOUS
  <2>1. \A c \in Conn : State(c) = "new"
    BY DEF Init, State, Proc
  <2>2. \A b \in Caller : Call(b) = "idle" /\ Missed(b) = {}
    BY ServerAssumption DEF Init, Call, Missed, Proc
  <2> QED
    BY <2>1, <2>2 DEF Init, G!Init
<1>2. FullInv /\ [Next]_vars => [G!Next]_G!groupVars
  <2> SUFFICES ASSUME FullInv, [Next]_vars PROVE G!Next \/ UNCHANGED G!groupVars
    OBVIOUS
  <2>1. CASE UNCHANGED vars
    <3>1. SameCalls /\ \A c \in Conn : State(c)' = State(c)
      BY <2>1 DEF vars, mapVars, rangeVars, connVars, SameCalls, Call, Missed, State
    <3> QED
      BY <3>1, GroupStutters
  <2> QED
    BY <2>1, WritesRefine, ListenRefines, CallersRefine, FaultRefines
       DEF Next, Step, Crashed
<1> QED
  BY <1>1, <1>2, FullInductive, PTL DEF Spec, ImplementsGroup, G!Spec

=============================================================================
