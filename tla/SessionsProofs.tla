--------------------------- MODULE SessionsProofs ---------------------------
(***************************************************************************)
(* The players behind the connections, for any sets of connections and of  *)
(* pages: who is shown, who is stored, and whence the ghosts come.         *)
(***************************************************************************)
EXTENDS Sessions, TLAPS

Unsent(v, p) == listing[v] = "send" /\ p \in todo[v]
Pending(p) == farewell[p] > 0 \/ forget[p] > 0
Clean(p) == cause[p] \cap {"store", "late", "early"} = {}

\* Nobody knows of a connection whose player was not registered yet.
OffInv ==
    \A p \in Conn :
        /\ pc[p] = "off" => p \notin group /\ ~open[p]
        /\ pc[p] = "register" => p \in group
        /\ pc[p] \in {"off", "register"} =>
               /\ p \notin store /\ ~bound[p] /\ ~Pending(p)
               /\ \A v \in Admin : p \notin page[v] /\ p \notin todo[v] /\ arg[v] # p

\* Who is open is in the group and has not left; a callback only runs for who is
\* closed, and only who is closed is deleted and announced as gone.
OpenInv ==
    /\ \A p \in Conn : open[p] => p \in group /\ pc[p] \notin {"leave", "gone"}
    /\ \A p \in Conn : Pending(p) => ~open[p]
    /\ \A v \in Admin : ~open[v] => page[v] = {}
    /\ \A v \in Admin : pc[v] \in {"close", "delete", "dismiss"} => arg[v] \in Conn
    /\ \A v \in Admin : pc[v] \in {"delete", "dismiss"} => ~open[arg[v]]

\* A player that is listened to is one whose callback is registered, or was refused;
\* a page has no list before.
BoundInv ==
    /\ \A p \in Conn :
           bound[p] \/ "store" \in cause[p] \/ pc[p] \in {"off", "register", "announce", "bind"}
    /\ \A v \in Admin : pc[v] \in {"off", "register", "announce", "bind"} =>
           v \notin listed /\ listing[v] = "none"

\* Who is open and announced is stored, or somebody is about to close it.
StoredInv ==
    \A p \in Conn : open[p] /\ pc[p] \notin {"off", "register"} =>
        \/ p \in store \/ "store" \in cause[p]
        \/ \E v \in Admin : pc[v] = "closeAll" \/ (pc[v] = "close" /\ arg[v] = p)

\* A player that is stored for no bad cause is open, will find itself in the group
\* when it hangs up, or is being removed.
GhostInv ==
    /\ \A p \in Conn : p \in store /\ Clean(p) =>
           open[p] \/ Pending(p) \/ (p \in group /\ pc[p] \notin {"off", "leave", "gone"})
    /\ \A v \in Admin : pc[v] = "delete" /\ arg[v] \in store /\ Clean(arg[v]) => Pending(arg[v])

\* Who was announced is shown by every page that was answered a list, or is yet to
\* be sent to it.
ShownInv ==
    \A v \in Admin, p \in Conn :
        /\ open[v] /\ v \in listed
        /\ open[p] /\ pc[p] \notin {"off", "register", "announce", "tell"}
        /\ p \in store /\ "cut" \notin cause[p]
        => p \in page[v] \/ Unsent(v, p)

\* A player that a page shows for no cause at all is open, will find itself in the
\* group when it hangs up, or is about to be announced as gone.
PageInv ==
    /\ \A v \in Admin, p \in Conn : p \in page[v] /\ cause[p] = {} =>
           open[p] \/ farewell[p] > 0 \/ (p \in group /\ pc[p] \notin {"off", "leave", "gone"})
    /\ \A u, v \in Admin :
           pc[u] = "delete" /\ arg[u] \in page[v] /\ cause[arg[u]] = {} => farewell[arg[u]] > 0

IInv ==
    /\ TypeOK /\ OffInv /\ OpenInv /\ BoundInv /\ StoredInv /\ GhostInv /\ ShownInv /\ PageInv

-----------------------------------------------------------------------------

\* Nobody is connected yet.
LEMMA InitIInv == Init => IInv
<1> SUFFICES ASSUME Init PROVE IInv
    OBVIOUS
<1> USE SessionsAssumption DEF Init
<1>1. TypeOK
    BY DEF TypeOK
<1>2. OffInv /\ OpenInv
    BY DEF OffInv, OpenInv, Pending
<1>3. BoundInv /\ StoredInv
    BY DEF BoundInv, StoredInv
<1>4. GhostInv /\ ShownInv /\ PageInv
    BY DEF GhostInv, ShownInv, PageInv
<1> QED
    BY <1>1, <1>2, <1>3, <1>4 DEF IInv

\* Nobody knew of the connection before.
LEMMA AcceptPreserves ==
    ASSUME IInv, NEW c \in Conn, Accept(c)
    PROVE  IInv'
<1> USE SessionsAssumption DEF IInv, connVars, listVars, Goto, Accept
<1>1. TypeOK'
    BY DEF TypeOK
<1>2. OffInv'
    BY DEF TypeOK, OffInv, Pending
<1>3. OpenInv'
    BY DEF TypeOK, OpenInv, Pending, OffInv
<1>4. BoundInv'
    BY DEF TypeOK, BoundInv
<1>5. StoredInv'
    BY DEF TypeOK, StoredInv
<1>6. GhostInv'
    BY DEF TypeOK, GhostInv, Pending, Clean
<1>7. ShownInv'
    BY DEF TypeOK, ShownInv, Unsent, BoundInv
<1>8. PageInv'
    BY DEF TypeOK, PageInv
<1> QED
    BY <1>1, <1>2, <1>3, <1>4, <1>5, <1>6, <1>7, <1>8

\* The player is stored, and its connection is in the group.
LEMMA RegisterPreserves ==
    ASSUME IInv, NEW c \in Conn, Register(c)
    PROVE  IInv'
<1> USE SessionsAssumption DEF IInv, connVars, listVars, Goto, Register
<1>1. TypeOK'
    BY DEF TypeOK
<1>2. OffInv'
    BY DEF TypeOK, OffInv, Pending
<1>3. OpenInv'
    BY DEF TypeOK, OpenInv, Pending
<1>4. BoundInv'
    BY DEF TypeOK, BoundInv
<1>5. StoredInv'
    BY DEF TypeOK, StoredInv
<1>6. GhostInv'
    BY DEF TypeOK, GhostInv, Pending, OffInv, OpenInv, Clean
<1>7. ShownInv'
    BY DEF TypeOK, ShownInv, Unsent
<1>8. PageInv'
    BY DEF TypeOK, PageInv
<1> QED
    BY <1>1, <1>2, <1>3, <1>4, <1>5, <1>6, <1>7, <1>8

\* The connection is closed, and its player blamed on Tile38.
LEMMA RefusePreserves ==
    ASSUME IInv, NEW c \in Conn, Refuse(c)
    PROVE  IInv'
<1> USE SessionsAssumption DEF IInv, connVars, listVars, Goto, Refuse
<1>1. TypeOK'
    BY DEF TypeOK, CloseEach, Blame
<1>2. OffInv'
    BY DEF TypeOK, OffInv, Pending, OpenInv, CloseEach, Blame
<1>3. OpenInv'
    BY DEF TypeOK, OpenInv, Pending, CloseEach, Blame
<1>4. BoundInv'
    BY DEF TypeOK, BoundInv, CloseEach, Blame
<1>5. StoredInv'
    BY DEF TypeOK, StoredInv, CloseEach, Blame
<1>6. GhostInv'
    BY DEF TypeOK, GhostInv, Pending, Clean, CloseEach, Blame
<1>7. ShownInv'
    BY DEF TypeOK, ShownInv, Unsent, CloseEach, Blame
<1>8. PageInv'
    BY DEF TypeOK, PageInv, OffInv, CloseEach, Blame
<1> QED
    BY <1>1, <1>2, <1>3, <1>4, <1>5, <1>6, <1>7, <1>8

\* The player joins every page the broadcast reaches, or the cause is noted.
LEMMA AnnouncePreserves ==
    ASSUME IInv, NEW c \in Conn, Announce(c)
    PROVE  IInv'
<1> USE SessionsAssumption DEF IInv, connVars, listVars, Goto, Announce
<1>1. TypeOK'
    BY DEF TypeOK, Blame, BlameLate, Shows, Audiences
<1>2. OffInv'
    BY DEF TypeOK, OffInv, Pending, Blame, BlameLate, Shows, Audiences
<1>3. OpenInv'
    BY DEF TypeOK, OpenInv, Pending, Blame, BlameLate, Shows, Audiences
<1>4. BoundInv'
    BY DEF TypeOK, BoundInv, Blame, BlameLate, Shows, Audiences
<1>5. StoredInv'
    BY DEF TypeOK, StoredInv, Blame, BlameLate, Shows, Audiences
<1>6. GhostInv'
    BY DEF TypeOK, GhostInv, Pending, Clean, Blame, BlameLate, Shows, Audiences
<1>7. ShownInv'
    BY DEF TypeOK, ShownInv, Unsent, OpenInv, Blame, BlameLate, Shows, Audiences
<1>8. PageInv'
    <2>1. \A p \in Conn : cause'[p] = {} => cause[p] = {}
        BY DEF TypeOK, Blame, BlameLate
    <2>2. ASSUME cause'[c] = {} PROVE open[c]
        <3>1. "cut" \notin cause'[c] /\ "late" \notin cause'[c]
            BY <2>2
        <3>2. PICK R \in Audiences : cause' = IF R = group THEN BlameLate(c) ELSE Blame(c, "cut")
            BY DEF Announce
        <3>3. cause' = BlameLate(c)
            BY <3>1, <3>2 DEF TypeOK, Blame
        <3> QED
            BY <3>1, <3>3 DEF TypeOK, Blame, BlameLate
    <2>3. \A v \in Admin, p \in Conn : p # c => (p \in page'[v] <=> p \in page[v])
        BY DEF TypeOK, Shows
    <2>4. pc'[c] \notin {"off", "delete", "leave", "gone"} /\ UNCHANGED <<arg, group, open, farewell>>
          /\ \A p \in Conn : p # c => pc'[p] = pc[p]
        BY DEF TypeOK
    <2> HIDE DEF Announce
    <2> QED
        BY <2>1, <2>2, <2>3, <2>4 DEF TypeOK, PageInv, OpenInv
<1> QED
    BY <1>1, <1>2, <1>3, <1>4, <1>5, <1>6, <1>7, <1>8

\* From here on a closed connection says farewell; a page begins its list.
LEMMA BindPreserves ==
    ASSUME IInv, NEW c \in Conn, Bind(c)
    PROVE  IInv'
<1> USE SessionsAssumption DEF IInv, connVars, listVars, Goto, Bind
<1>1. TypeOK'
    BY DEF TypeOK
<1>2. OffInv'
    BY DEF TypeOK, OffInv, Pending
<1>3. OpenInv'
    BY DEF TypeOK, OpenInv, Pending
<1>4. BoundInv'
    BY DEF TypeOK, BoundInv
<1>5. StoredInv'
    BY DEF TypeOK, StoredInv
<1>6. GhostInv'
    BY DEF TypeOK, GhostInv, Pending, Clean
<1>7. ShownInv'
    BY DEF TypeOK, ShownInv, Unsent, BoundInv
<1>8. PageInv'
    BY DEF TypeOK, PageInv
<1> QED
    BY <1>1, <1>2, <1>3, <1>4, <1>5, <1>6, <1>7, <1>8

\* Who is stored is to be sent.
LEMMA ScanPreserves ==
    ASSUME IInv, NEW c \in Admin, Scan(c)
    PROVE  IInv'
<1> USE SessionsAssumption DEF IInv, connVars, listVars, Goto, Scan
<1>1. TypeOK'
    BY DEF TypeOK
<1>2. OffInv'
    BY DEF TypeOK, OffInv, Pending
<1>3. OpenInv'
    BY DEF TypeOK, OpenInv, Pending
<1>4. BoundInv'
    BY DEF TypeOK, BoundInv
<1>5. StoredInv'
    BY DEF TypeOK, StoredInv
<1>6. GhostInv'
    BY DEF TypeOK, GhostInv, Pending, Clean
<1>7. ShownInv'
    BY DEF TypeOK, ShownInv, Unsent
<1>8. PageInv'
    BY DEF TypeOK, PageInv
<1> QED
    BY <1>1, <1>2, <1>3, <1>4, <1>5, <1>6, <1>7, <1>8

\* A player moves from the list to the page.
LEMMA SendPreserves ==
    ASSUME IInv, NEW c \in Admin, NEW d \in Conn, Send(c, d)
    PROVE  IInv'
<1> USE SessionsAssumption DEF IInv, connVars, listVars, Goto, Send
<1>1. TypeOK'
    BY DEF TypeOK, Blame, BlameLate, Shows
<1>2. OffInv'
    BY DEF TypeOK, OffInv, Pending, Blame, BlameLate, Shows
<1>3. OpenInv'
    BY DEF TypeOK, OpenInv, Pending, Blame, BlameLate, Shows
<1>4. BoundInv'
    BY DEF TypeOK, BoundInv, Blame, BlameLate, Shows
<1>5. StoredInv'
    BY DEF TypeOK, StoredInv, Blame, BlameLate, Shows
<1>6. GhostInv'
    BY DEF TypeOK, GhostInv, Pending, Clean, Blame, BlameLate, Shows
<1>7. ShownInv'
    BY DEF TypeOK, ShownInv, Unsent, Blame, BlameLate, Shows
<1>8. PageInv'
    BY DEF TypeOK, PageInv, OpenInv, Blame, BlameLate, Shows
<1> QED
    BY <1>1, <1>2, <1>3, <1>4, <1>5, <1>6, <1>7, <1>8

\* Nobody was left on the list.
LEMMA ListDonePreserves ==
    ASSUME IInv, NEW c \in Admin, ListDone(c)
    PROVE  IInv'
<1> USE SessionsAssumption DEF IInv, connVars, listVars, Goto, ListDone, ListEnds
<1>1. TypeOK'
    BY DEF TypeOK
<1>2. OffInv'
    BY DEF TypeOK, OffInv, Pending
<1>3. OpenInv'
    BY DEF TypeOK, OpenInv, Pending
<1>4. BoundInv'
    BY DEF TypeOK, BoundInv
<1>5. StoredInv'
    BY DEF TypeOK, StoredInv
<1>6. GhostInv'
    BY DEF TypeOK, GhostInv, Pending, Clean
<1>7. ShownInv'
    BY DEF TypeOK, ShownInv, Unsent
<1>8. PageInv'
    BY DEF TypeOK, PageInv
<1> QED
    BY <1>1, <1>2, <1>3, <1>4, <1>5, <1>6, <1>7, <1>8

\* What the page shows stays as it is.
LEMMA ScanFailsPreserves ==
    ASSUME IInv, NEW c \in Admin, ScanFails(c)
    PROVE  IInv'
<1> USE SessionsAssumption DEF IInv, connVars, listVars, Goto, ScanFails, ListEnds
<1>1. TypeOK'
    BY DEF TypeOK
<1>2. OffInv'
    BY DEF TypeOK, OffInv, Pending
<1>3. OpenInv'
    BY DEF TypeOK, OpenInv, Pending
<1>4. BoundInv'
    BY DEF TypeOK, BoundInv
<1>5. StoredInv'
    BY DEF TypeOK, StoredInv
<1>6. GhostInv'
    BY DEF TypeOK, GhostInv, Pending, Clean
<1>7. ShownInv'
    BY DEF TypeOK, ShownInv, Unsent
<1>8. PageInv'
    BY DEF TypeOK, PageInv
<1> QED
    BY <1>1, <1>2, <1>3, <1>4, <1>5, <1>6, <1>7, <1>8

\* The page lists again whom it shows.
LEMMA RequestRemotesPreserves ==
    ASSUME IInv, NEW c \in Admin, RequestRemotes(c)
    PROVE  IInv'
<1> USE SessionsAssumption DEF IInv, connVars, listVars, Goto, RequestRemotes
<1>1. TypeOK'
    BY DEF TypeOK, Receives
<1>2. OffInv'
    BY DEF TypeOK, OffInv, Pending, Receives
<1>3. OpenInv'
    BY DEF TypeOK, OpenInv, Pending, Receives
<1>4. BoundInv'
    BY DEF TypeOK, BoundInv, Receives
<1>5. StoredInv'
    BY DEF TypeOK, StoredInv, Receives
<1>6. GhostInv'
    BY DEF TypeOK, GhostInv, Pending, Clean, Receives
<1>7. ShownInv'
    BY DEF TypeOK, ShownInv, Unsent, Receives
<1>8. PageInv'
    BY DEF TypeOK, PageInv, Receives
<1> QED
    BY <1>1, <1>2, <1>3, <1>4, <1>5, <1>6, <1>7, <1>8

\* A player that is told about is already announced.
LEMMA ReceiveUpdatePreserves ==
    ASSUME IInv, NEW c \in Conn, ReceiveUpdate(c)
    PROVE  IInv'
<1> USE SessionsAssumption DEF IInv, connVars, listVars, Goto, ReceiveUpdate
<1>1. TypeOK'
    BY DEF TypeOK, Receives
<1>2. OffInv'
    BY DEF TypeOK, OffInv, Pending, Receives
<1>3. OpenInv'
    BY DEF TypeOK, OpenInv, Pending, Receives
<1>4. BoundInv'
    BY DEF TypeOK, BoundInv, Receives
<1>5. StoredInv'
    BY DEF TypeOK, StoredInv, Receives
<1>6. GhostInv'
    BY DEF TypeOK, GhostInv, Pending, Clean, Receives
<1>7. ShownInv'
    BY DEF TypeOK, ShownInv, Unsent, Receives
<1>8. PageInv'
    BY DEF TypeOK, PageInv, Receives
<1> QED
    BY <1>1, <1>2, <1>3, <1>4, <1>5, <1>6, <1>7, <1>8

\* A player that was closed comes back to the store with its cause.
LEMMA UpdatePreserves ==
    ASSUME IInv, NEW c \in Conn, Update(c)
    PROVE  IInv'
<1> USE SessionsAssumption DEF IInv, connVars, listVars, Goto, Update
<1>0. TypeOK
    OBVIOUS
<1>1. TypeOK'
    BY <1>0 DEF TypeOK, Blame, BlameLate
<1>2. OffInv'
    BY DEF TypeOK, OffInv, Pending, Blame, BlameLate
<1>3. OpenInv'
    BY DEF TypeOK, OpenInv, Pending, Blame, BlameLate
<1>4. BoundInv'
    BY DEF TypeOK, BoundInv, Blame, BlameLate
<1>5. StoredInv'
    BY DEF TypeOK, StoredInv, Blame, BlameLate
<1>6. GhostInv'
    <2>1. CASE store' = store
        BY <1>0, <2>1 DEF TypeOK, GhostInv, Pending, OpenInv, Clean, Blame,
           BlameLate
    <2>2. CASE store' = store \cup {c} /\ open[c]
        BY <1>0, <2>2 DEF TypeOK, GhostInv, Pending, OpenInv, Clean, Blame,
           BlameLate
    <2>3. CASE store' = store \cup {c} /\ ~open[c]
        <3>1. "late" \in cause'[c] \/ "store" \in cause'[c]
            BY <2>3 DEF TypeOK, Blame, BlameLate
        <3>2. \A p \in Conn : cause[p] \subseteq cause'[p]
            BY DEF TypeOK, Blame, BlameLate
        <3> QED
            BY <2>3, <3>1, <3>2 DEF TypeOK, GhostInv, Pending, OpenInv, Clean
    <2> QED
        BY <2>1, <2>2, <2>3 DEF Update
<1>7. ShownInv'
    BY DEF TypeOK, ShownInv, Unsent, Blame, BlameLate
<1>8. PageInv'
    BY DEF TypeOK, PageInv, Blame, BlameLate
<1> QED
    BY <1>1, <1>2, <1>3, <1>4, <1>5, <1>6, <1>7, <1>8

\* As Announce; the player hears of itself as well.
LEMMA TellPreserves ==
    ASSUME IInv, NEW c \in Conn, Tell(c)
    PROVE  IInv'
<1> USE SessionsAssumption DEF IInv, connVars, listVars, Goto, Tell
<1>1. TypeOK'
    BY DEF TypeOK, Blame, BlameLate, Shows, Audiences
<1>2. OffInv'
    BY DEF TypeOK, OffInv, Pending, Blame, BlameLate, Shows, Audiences
<1>3. OpenInv'
    BY DEF TypeOK, OpenInv, Pending, Blame, BlameLate, Shows, Audiences
<1>4. BoundInv'
    BY DEF TypeOK, BoundInv, Blame, BlameLate, Shows, Audiences
<1>5. StoredInv'
    BY DEF TypeOK, StoredInv, Blame, BlameLate, Shows, Audiences
<1>6. GhostInv'
    BY DEF TypeOK, GhostInv, Pending, Clean, Blame, BlameLate, Shows, Audiences
<1>7. ShownInv'
    BY DEF TypeOK, ShownInv, Unsent, OpenInv, Blame, BlameLate, Shows, Audiences
<1>8. PageInv'
    <2>1. \A p \in Conn : cause'[p] = {} => cause[p] = {}
        BY DEF TypeOK, Blame, BlameLate
    <2>2. ASSUME cause'[c] = {} PROVE open[c]
        <3>1. "cut" \notin cause'[c] /\ "late" \notin cause'[c]
            BY <2>2
        <3>2. PICK R \in Audiences : cause' = IF R = group THEN BlameLate(c) ELSE Blame(c, "cut")
            BY DEF Tell
        <3>3. cause' = BlameLate(c)
            BY <3>1, <3>2 DEF TypeOK, Blame
        <3> QED
            BY <3>1, <3>3 DEF TypeOK, Blame, BlameLate
    <2>3. \A v \in Admin, p \in Conn : p # c => (p \in page'[v] <=> p \in page[v])
        BY DEF TypeOK, Shows
    <2>4. pc'[c] \notin {"off", "delete", "leave", "gone"} /\ UNCHANGED <<arg, group, open, farewell>>
          /\ \A p \in Conn : p # c => pc'[p] = pc[p]
        BY DEF TypeOK
    <2> HIDE DEF Tell
    <2> QED
        BY <2>1, <2>2, <2>3, <2>4 DEF TypeOK, PageInv, OpenInv
<1> QED
    BY <1>1, <1>2, <1>3, <1>4, <1>5, <1>6, <1>7, <1>8

\* A page names a player that is about to be closed.
LEMMA DisconnectPreserves ==
    ASSUME IInv, NEW c \in Admin, NEW d \in Conn, Disconnect(c, d)
    PROVE  IInv'
<1> USE SessionsAssumption DEF IInv, connVars, listVars, Goto, Disconnect
<1>1. TypeOK'
    BY DEF TypeOK, Receives
<1>2. OffInv'
    BY DEF TypeOK, OffInv, Pending, Pending, Receives
<1>3. OpenInv'
    BY DEF TypeOK, OpenInv, Pending, Receives
<1>4. BoundInv'
    BY DEF TypeOK, BoundInv, Receives
<1>5. StoredInv'
    BY DEF TypeOK, StoredInv, Receives
<1>6. GhostInv'
    BY DEF TypeOK, GhostInv, Pending, Clean, Receives
<1>7. ShownInv'
    BY DEF TypeOK, ShownInv, Unsent, Receives
<1>8. PageInv'
    BY DEF TypeOK, PageInv, Receives
<1> QED
    BY <1>1, <1>2, <1>3, <1>4, <1>5, <1>6, <1>7, <1>8

\* The callback of the player is spawned, or the cause is noted.
LEMMA DisconnectClosesPreserves ==
    ASSUME IInv, NEW c \in Admin, DisconnectCloses(c)
    PROVE  IInv'
<1> USE SessionsAssumption DEF IInv, connVars, listVars, Goto
<1>0. arg[c] \in Conn
    BY DEF DisconnectCloses, OpenInv
<1>1. CASE arg[c] \in group
    <2>0. /\ pc[c] = "close" /\ pc' = [pc EXCEPT ![c] = "delete"]
          /\ CloseEach({arg[c]})
          /\ cause' = IF bound[arg[c]] THEN cause ELSE Blame(arg[c], "early")
          /\ UNCHANGED <<arg, group, store, forget, listVars>>
        BY <1>1 DEF DisconnectCloses
    <2>01. PICK d \in Conn : d = arg[c] /\ d = arg'[c]
        BY <1>0, <2>0
    <2>02. farewell'[d] > 0 \/ "early" \in cause'[d]
        <3>1. CASE bound[d]
            BY <1>1, <2>0, <2>01, <3>1 DEF TypeOK, CloseEach
        <3>2. CASE ~bound[d]
            BY <2>0, <2>01, <3>2 DEF TypeOK, Blame
        <3> QED
            BY <3>1, <3>2
    <2>03. ASSUME NEW p \in Conn, p # d
          PROVE  /\ farewell'[p] = farewell[p] /\ forget'[p] = forget[p]
                 /\ cause'[p] = cause[p] /\ open'[p] = open[p]
        BY <2>0, <2>01, <2>03 DEF TypeOK, CloseEach, Blame
    <2>1. TypeOK'
        BY <1>0, <1>1, <2>0 DEF TypeOK, CloseEach, Blame
    <2>2. OffInv'
        BY <1>0, <1>1, <2>0 DEF TypeOK, OffInv, Pending, CloseEach, Blame
    <2>3. OpenInv'
        BY <1>0, <1>1, <2>0 DEF TypeOK, OpenInv, Pending, CloseEach, Blame
    <2>4. BoundInv'
        BY <1>0, <1>1, <2>0 DEF TypeOK, BoundInv, CloseEach, Blame
    <2>5. StoredInv'
        BY <1>0, <1>1, <2>0 DEF TypeOK, StoredInv, OpenInv, CloseEach, Blame
    <2>6. GhostInv'
        <3>3. ASSUME NEW p \in Conn, p \in store', Clean(p)'
              PROVE  open'[p] \/ Pending(p)'
                     \/ (p \in group' /\ pc'[p] \notin {"off", "leave", "gone"})
            <4>1. CASE p = d
                BY <2>02, <3>3, <4>1 DEF Pending, Clean
            <4>2. CASE p # d
                BY <2>0, <2>03, <3>3, <4>2 DEF GhostInv, TypeOK, Pending, Clean
            <4> QED
                BY <4>1, <4>2
        <3>4. ASSUME NEW v \in Admin, pc'[v] = "delete", arg'[v] \in store', Clean(arg[v])'
              PROVE  Pending(arg[v])'
            <4>1. CASE arg[v] = d
                BY <2>0, <2>02, <3>4, <4>1 DEF Pending, Clean
            <4>2. CASE arg[v] # d
                <5>1. v # c /\ pc[v] = "delete" /\ arg[v] \in store /\ arg[v] \in Conn
                    BY <2>0, <2>01, <3>4, <4>2 DEF TypeOK
                <5> QED
                    BY <2>0, <2>03, <3>4, <4>2, <5>1 DEF GhostInv, Pending,
                       Clean
            <4> QED
                BY <4>1, <4>2
        <3> QED
            BY <3>3, <3>4 DEF GhostInv
    <2>7. ShownInv'
        BY <1>0, <1>1, <2>0 DEF TypeOK, ShownInv, Unsent, CloseEach, Blame
    <2>8. PageInv'
        <3>1. \A v \in Admin : page'[v] \subseteq page[v]
            BY <2>0 DEF TypeOK, CloseEach
        <3>2. ASSUME NEW v \in Admin, NEW p \in Conn, p \in page'[v], cause'[p] = {}
              PROVE  open'[p] \/ farewell'[p] > 0
                     \/ (p \in group' /\ pc'[p] \notin {"off", "leave", "gone"})
            <4>1. CASE p = d
                BY <2>02, <3>2, <4>1
            <4>2. CASE p # d
                BY <2>0, <2>03, <3>1, <3>2, <4>2 DEF PageInv, TypeOK
            <4> QED
                BY <4>1, <4>2
        <3>3. ASSUME NEW u \in Admin, NEW v \in Admin, pc'[u] = "delete",
                     arg'[u] \in page'[v], cause'[arg'[u]] = {}
              PROVE  farewell'[arg'[u]] > 0
            <4>1. CASE arg[u] = d
                BY <2>0, <2>02, <3>3, <4>1
            <4>2. CASE arg[u] # d
                <5>1. u # c /\ pc[u] = "delete" /\ arg[u] \in page[v] /\ arg[u] \in Conn
                    BY <2>0, <2>01, <3>1, <3>3, <4>2 DEF TypeOK
                <5> QED
                    BY <2>0, <2>03, <3>3, <4>2, <5>1 DEF PageInv
            <4> QED
                BY <4>1, <4>2
        <3> QED
            BY <3>2, <3>3 DEF PageInv
    <2> QED
        BY <2>1, <2>2, <2>3, <2>4, <2>5, <2>6, <2>7, <2>8
<1>2. CASE arg[c] \notin group
    <2>0. /\ pc[c] = "close" /\ pc' = [pc EXCEPT ![c] = "dismiss"]
          /\ UNCHANGED <<open, bound, farewell, page>>
          /\ cause' = IF bound[arg[c]] THEN cause ELSE Blame(arg[c], "early")
          /\ UNCHANGED <<arg, group, store, forget, listVars>>
        BY <1>2 DEF DisconnectCloses
    <2>1. TypeOK'
        BY <1>0, <1>2, <2>0 DEF TypeOK, Blame
    <2>2. OffInv'
        BY <1>0, <1>2, <2>0 DEF TypeOK, OffInv, Pending, Blame
    <2>3. OpenInv'
        BY <1>0, <1>2, <2>0 DEF TypeOK, OpenInv, Pending, Blame
    <2>4. BoundInv'
        BY <1>0, <1>2, <2>0 DEF TypeOK, BoundInv, Blame
    <2>5. StoredInv'
        BY <1>0, <1>2, <2>0 DEF TypeOK, StoredInv, OpenInv, Blame
    <2>6. GhostInv'
        BY <1>0, <1>2, <2>0 DEF TypeOK, GhostInv, Pending, OpenInv, BoundInv,
           OffInv, Clean, Blame
    <2>7. ShownInv'
        BY <1>0, <1>2, <2>0 DEF TypeOK, ShownInv, Unsent, Blame
    <2>8. PageInv'
        BY <1>0, <1>2, <2>0 DEF TypeOK, PageInv, OpenInv, BoundInv, OffInv,
           Blame
    <2> QED
        BY <2>1, <2>2, <2>3, <2>4, <2>5, <2>6, <2>7, <2>8
<1> QED
    BY <1>1, <1>2

\* Whoever is deleted has its callback spawned.
LEMMA DisconnectDeletesPreserves ==
    ASSUME IInv, NEW c \in Admin, DisconnectDeletes(c)
    PROVE  IInv'
<1> USE SessionsAssumption DEF IInv, connVars, listVars, Goto, DisconnectDeletes
<1>1. TypeOK'
    BY DEF TypeOK
<1>2. OffInv'
    BY DEF TypeOK, OffInv, Pending
<1>3. OpenInv'
    BY DEF TypeOK, OpenInv, Pending
<1>4. BoundInv'
    BY DEF TypeOK, BoundInv
<1>5. StoredInv'
    BY DEF TypeOK, StoredInv
<1>6. GhostInv'
    BY DEF TypeOK, GhostInv, Pending, Clean
<1>7. ShownInv'
    BY DEF TypeOK, ShownInv, Unsent
<1>8. PageInv'
    BY DEF TypeOK, PageInv
<1> QED
    BY <1>1, <1>2, <1>3, <1>4, <1>5, <1>6, <1>7, <1>8

\* The player that leaves the pages is closed.
LEMMA DisconnectTellsPreserves ==
    ASSUME IInv, NEW c \in Admin, DisconnectTells(c)
    PROVE  IInv'
<1> USE SessionsAssumption DEF IInv, connVars, listVars, Goto, DisconnectTells
<1>1. TypeOK'
    BY DEF TypeOK, Drops, Audiences
<1>2. OffInv'
    BY DEF TypeOK, OffInv, Pending, Drops, Audiences
<1>3. OpenInv'
    BY DEF TypeOK, OpenInv, Pending, Drops, Audiences
<1>4. BoundInv'
    BY DEF TypeOK, BoundInv, Drops, Audiences
<1>5. StoredInv'
    BY DEF TypeOK, StoredInv, Drops, Audiences
<1>6. GhostInv'
    BY DEF TypeOK, GhostInv, Pending, Clean, Drops, Audiences
<1>7. ShownInv'
    BY DEF TypeOK, ShownInv, Unsent, OpenInv, Drops, Audiences
<1>8. PageInv'
    BY DEF TypeOK, PageInv, OpenInv, Drops, Audiences
<1> QED
    BY <1>1, <1>2, <1>3, <1>4, <1>5, <1>6, <1>7, <1>8

\* Whoever leaves the store is about to be closed.
LEMMA ClearPreserves ==
    ASSUME IInv, NEW c \in Admin, Clear(c)
    PROVE  IInv'
<1> USE SessionsAssumption DEF IInv, connVars, listVars, Goto, Clear
<1>1. TypeOK'
    BY DEF TypeOK, Receives
<1>2. OffInv'
    BY DEF TypeOK, OffInv, Pending, Receives
<1>3. OpenInv'
    BY DEF TypeOK, OpenInv, Pending, Receives
<1>4. BoundInv'
    BY DEF TypeOK, BoundInv, Receives
<1>5. StoredInv'
    BY DEF TypeOK, StoredInv, Receives
<1>6. GhostInv'
    BY DEF TypeOK, GhostInv, Pending, Clean, Receives
<1>7. ShownInv'
    BY DEF TypeOK, ShownInv, Unsent, Receives
<1>8. PageInv'
    BY DEF TypeOK, PageInv, Receives
<1> QED
    BY <1>1, <1>2, <1>3, <1>4, <1>5, <1>6, <1>7, <1>8

\* Whoever is closed has its callback spawned, or hangs up.
LEMMA CloseAllPreserves ==
    ASSUME IInv, NEW c \in Admin, CloseAll(c)
    PROVE  IInv'
<1> USE SessionsAssumption DEF IInv, connVars, listVars, Goto, CloseAll
<1>1. TypeOK'
    BY DEF TypeOK, CloseEach
<1>2. OffInv'
    BY DEF TypeOK, OffInv, Pending, CloseEach
<1>3. OpenInv'
    BY DEF TypeOK, OpenInv, Pending, CloseEach
<1>4. BoundInv'
    BY DEF TypeOK, BoundInv, CloseEach
<1>5. StoredInv'
    BY DEF TypeOK, StoredInv, OpenInv, CloseEach
<1>6. GhostInv'
    BY DEF TypeOK, GhostInv, Pending, OpenInv, BoundInv, OffInv, Clean,
       CloseEach
<1>7. ShownInv'
    BY DEF TypeOK, ShownInv, Unsent, CloseEach
<1>8. PageInv'
    BY DEF TypeOK, PageInv, OpenInv, BoundInv, OffInv, CloseEach
<1> QED
    BY <1>1, <1>2, <1>3, <1>4, <1>5, <1>6, <1>7, <1>8

\* The callback is registered, or the player was refused.
LEMMA HangupPreserves ==
    ASSUME IInv, NEW c \in Conn, Hangup(c)
    PROVE  IInv'
<1> USE SessionsAssumption DEF IInv, connVars, listVars, Goto
<1>1. CASE c \in group
    <2>0. /\ pc[c] = "listen" /\ pc' = [pc EXCEPT ![c] = "leave"]
          /\ CloseEach({c})
          /\ UNCHANGED <<arg, group, store, forget, listVars, cause>>
        BY <1>1 DEF Hangup
    <2>1. TypeOK'
        BY <1>1, <2>0 DEF TypeOK, CloseEach
    <2>2. OffInv'
        BY <1>1, <2>0 DEF TypeOK, OffInv, Pending, CloseEach
    <2>3. OpenInv'
        BY <1>1, <2>0 DEF TypeOK, OpenInv, Pending, OffInv, CloseEach
    <2>4. BoundInv'
        BY <1>1, <2>0 DEF TypeOK, BoundInv, CloseEach
    <2>5. StoredInv'
        BY <1>1, <2>0 DEF TypeOK, StoredInv, CloseEach
    <2>6. GhostInv'
        BY <1>1, <2>0 DEF TypeOK, GhostInv, Pending, OpenInv, BoundInv, Clean,
           CloseEach
    <2>7. ShownInv'
        BY <1>1, <2>0 DEF TypeOK, ShownInv, Unsent, CloseEach
    <2>8. PageInv'
        BY <1>1, <2>0 DEF TypeOK, PageInv, OpenInv, BoundInv, CloseEach
    <2> QED
        BY <2>1, <2>2, <2>3, <2>4, <2>5, <2>6, <2>7, <2>8
<1>2. CASE c \notin group
    <2>0. /\ pc[c] = "listen" /\ pc' = [pc EXCEPT ![c] = "gone"]
          /\ UNCHANGED <<open, bound, farewell, page>>
          /\ UNCHANGED <<arg, group, store, forget, listVars, cause>>
        BY <1>2 DEF Hangup
    <2>1. TypeOK'
        BY <1>2, <2>0 DEF TypeOK
    <2>2. OffInv'
        BY <1>2, <2>0 DEF TypeOK, OffInv, Pending
    <2>3. OpenInv'
        BY <1>2, <2>0 DEF TypeOK, OpenInv, Pending, OffInv
    <2>4. BoundInv'
        BY <1>2, <2>0 DEF TypeOK, BoundInv
    <2>5. StoredInv'
        BY <1>2, <2>0 DEF TypeOK, StoredInv
    <2>6. GhostInv'
        BY <1>2, <2>0 DEF TypeOK, GhostInv, Pending, OpenInv, BoundInv, Clean
    <2>7. ShownInv'
        BY <1>2, <2>0 DEF TypeOK, ShownInv, Unsent
    <2>8. PageInv'
        BY <1>2, <2>0 DEF TypeOK, PageInv, OpenInv, BoundInv
    <2> QED
        BY <2>1, <2>2, <2>3, <2>4, <2>5, <2>6, <2>7, <2>8
<1> QED
    BY <1>1, <1>2

\* Whoever leaves has its callback spawned.
LEMMA LeavePreserves ==
    ASSUME IInv, NEW c \in Conn, Leave(c)
    PROVE  IInv'
<1> USE SessionsAssumption DEF IInv, connVars, listVars, Goto, Leave
<1>1. TypeOK'
    BY DEF TypeOK
<1>2. OffInv'
    BY DEF TypeOK, OffInv, Pending
<1>3. OpenInv'
    BY DEF TypeOK, OpenInv, Pending
<1>4. BoundInv'
    BY DEF TypeOK, BoundInv
<1>5. StoredInv'
    BY DEF TypeOK, StoredInv
<1>6. GhostInv'
    BY DEF TypeOK, GhostInv, Pending, Clean
<1>7. ShownInv'
    BY DEF TypeOK, ShownInv, Unsent
<1>8. PageInv'
    BY DEF TypeOK, PageInv
<1> QED
    BY <1>1, <1>2, <1>3, <1>4, <1>5, <1>6, <1>7, <1>8

\* The player leaves every page the broadcast reaches, or the cause is noted.
LEMMA FarewellPreserves ==
    ASSUME IInv, NEW c \in Conn, Farewell(c)
    PROVE  IInv'
<1> USE SessionsAssumption DEF IInv, connVars, listVars, Goto, Farewell
<1>1. TypeOK'
    BY DEF TypeOK, Blame, Drops, Audiences
<1>2. OffInv'
    BY DEF TypeOK, OffInv, Pending, Blame, Drops, Audiences
<1>3. OpenInv'
    BY DEF TypeOK, OpenInv, Pending, Blame, Drops, Audiences
<1>4. BoundInv'
    BY DEF TypeOK, BoundInv, Blame, Drops, Audiences
<1>5. StoredInv'
    BY DEF TypeOK, StoredInv, Blame, Drops, Audiences
<1>6. GhostInv'
    BY DEF TypeOK, GhostInv, Pending, Clean, Blame, Drops, Audiences
<1>7. ShownInv'
    BY DEF TypeOK, ShownInv, Unsent, OpenInv, Pending, Blame, Drops, Audiences
<1>8. PageInv'
    <2>1. \A p \in Conn : cause'[p] = {} => cause[p] = {}
        BY DEF TypeOK, Blame
    <2>2. ASSUME cause'[c] = {} PROVE \A v \in Admin : c \notin page'[v]
        <3>1. page' = Drops(c, group)
            <4>1. "cut" \notin cause'[c]
                BY <2>2
            <4> QED
                BY <4>1 DEF TypeOK, Blame, Audiences
        <3> QED
            BY <3>1 DEF TypeOK, Drops, OpenInv
    <2>3. \A v \in Admin, p \in Conn : p # c =>
              (p \in page'[v] <=> p \in page[v]) /\ farewell'[p] = farewell[p]
        BY DEF TypeOK, Drops
    <2> QED
        BY <2>1, <2>2, <2>3 DEF TypeOK, PageInv, OpenInv
<1> QED
    BY <1>1, <1>2, <1>3, <1>4, <1>5, <1>6, <1>7, <1>8

\* The player leaves the store, or the cause is noted.
LEMMA ForgetPreserves ==
    ASSUME IInv, NEW c \in Conn, Forget(c)
    PROVE  IInv'
<1> USE SessionsAssumption DEF IInv, connVars, listVars, Goto, Forget
<1>1. TypeOK'
    BY DEF TypeOK, Blame
<1>2. OffInv'
    BY DEF TypeOK, OffInv, Pending, Blame
<1>3. OpenInv'
    BY DEF TypeOK, OpenInv, Pending, Blame
<1>4. BoundInv'
    BY DEF TypeOK, BoundInv, Blame
<1>5. StoredInv'
    BY DEF TypeOK, StoredInv, OpenInv, Pending, Blame
<1>6. GhostInv'
    <2>1. c \notin store' \/ "store" \in cause'[c]
        BY DEF TypeOK, Blame
    <2>2. \A p \in Conn : p # c => /\ cause'[p] = cause[p] /\ forget'[p] = forget[p]
                                   /\ (p \in store' <=> p \in store)
        BY DEF TypeOK, Blame
    <2> QED
        BY <2>1, <2>2 DEF TypeOK, GhostInv, Pending, Clean
<1>7. ShownInv'
    BY DEF TypeOK, ShownInv, Unsent, Blame
<1>8. PageInv'
    BY DEF TypeOK, PageInv, Blame
<1> QED
    BY <1>1, <1>2, <1>3, <1>4, <1>5, <1>6, <1>7, <1>8

-----------------------------------------------------------------------------

\* Every step of the connections, of their callbacks and of the pages.
LEMMA NextPreserves == IInv /\ [Next]_vars => IInv'
<1> SUFFICES ASSUME IInv, [Next]_vars PROVE IInv'
    OBVIOUS
<1>1. ASSUME NEW c \in Conn, Accept(c) \/ Connects(c) \/ ReceiveUpdate(c) \/ Updates(c)
      PROVE  IInv'
    BY <1>1, AcceptPreserves, RegisterPreserves, RefusePreserves,
       AnnouncePreserves,
       BindPreserves, ReceiveUpdatePreserves, UpdatePreserves, TellPreserves
       DEF Connects, Updates
<1>2. ASSUME NEW c \in Conn, Hangup(c) \/ Leave(c) \/ Dismissed(c) PROVE IInv'
    BY <1>2, HangupPreserves, LeavePreserves, FarewellPreserves, ForgetPreserves
       DEF Dismissed
<1>3. ASSUME NEW v \in Admin, Lists(v) PROVE IInv'
    BY <1>3, ScanPreserves, ScanFailsPreserves, SendPreserves, ListDonePreserves
       DEF Lists
<1>4. ASSUME NEW v \in Admin, Asks(v) PROVE IInv'
    BY <1>4, RequestRemotesPreserves, ClearPreserves, DisconnectPreserves DEF
       Asks
<1>5. ASSUME NEW v \in Admin, Handles(v) PROVE IInv'
    BY <1>5, CloseAllPreserves, DisconnectClosesPreserves,
       DisconnectDeletesPreserves,
       DisconnectTellsPreserves DEF Handles
<1>6. CASE UNCHANGED vars
    BY <1>6 DEF vars, connVars, listVars, IInv, TypeOK, OffInv, OpenInv,
       BoundInv,
       StoredInv, GhostInv, ShownInv, PageInv, Pending, Clean, Unsent
<1> QED
    BY <1>1, <1>2, <1>3, <1>4, <1>5, <1>6 DEF Next, Finished

\* The invariant that the properties of Sessions follow from.
THEOREM Inductive == Spec => []IInv
<1> QED
    BY InitIInv, NextPreserves, PTL DEF Spec

\* Every variable keeps its type; the callbacks that are counted never fall below zero.
THEOREM TypeCorrect == Spec => []TypeOK
<1>1. IInv => TypeOK
    BY DEF IInv
<1> QED
    BY <1>1, Inductive, PTL

\* A page that was answered a list shows every player that is connected and stored,
\* unless a broadcast about it was cut: whatever onConnection, sendPlayerList and the
\* updates of however many others do in between.
THEOREM NobodyIsInvisibleAlways == Spec => []NobodyIsInvisible
<1>1. IInv => NobodyIsInvisible
    BY SessionsAssumption DEF IInv, TypeOK, ShownInv, Unsent, NobodyIsInvisible,
       Settled
<1> QED
    BY <1>1, Inductive, PTL

\* A player that is connected but not stored is about to be closed, by an
\* admin:clear or an admin:disconnect, or Tile38 failed.
THEOREM OpenPlayersAreStoredAlways == Spec => []OpenPlayersAreStored
<1>1. IInv => OpenPlayersAreStored
    BY DEF IInv, StoredInv, OpenPlayersAreStored, Settled
<1> QED
    BY <1>1, Inductive, PTL

\* There is no ghost but of the three causes, for any number of connections.
THEOREM GhostsHaveACauseAlways == Spec => []GhostsHaveACause
<1>1. IInv => GhostsHaveACause
    <2> SUFFICES ASSUME IInv, NEW p \in Conn, Departed(p), p \in store, Clean(p)
                 PROVE  FALSE
        BY DEF GhostsHaveACause, Clean
    <2> QED
        BY DEF IInv, GhostInv, OpenInv, Pending, Departed
<1> QED
    BY <1>1, Inductive, PTL

\* No page shows a departed player but for a cause, for any number of pages.
THEOREM StalePagesHaveACauseAlways == Spec => []StalePagesHaveACause
<1>1. IInv => StalePagesHaveACause
    BY DEF IInv, PageInv, OpenInv, Departed, StalePagesHaveACause
<1> QED
    BY <1>1, Inductive, PTL

=============================================================================
