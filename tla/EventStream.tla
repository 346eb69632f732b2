---------------------------- MODULE EventStream ----------------------------
(***************************************************************************)
(* One stream of src/catchcatch-server/eventstream.go, StreamIntersects:   *)
(* the connection to Tile38, its handshake, the loop that reads chunks and *)
(* what the callback is told, as observeGamePlayers takes it.  Tile38 is   *)
(* external: it detects players that enter, move, leave or are deleted.    *)
(*                                                                         *)
(* A notification is sent in three parts, in the order of its JSON: the    *)
(* event, the id of the player, the position.  A read returns what has     *)
(* arrived, up to the size of the buffer, wherever that ends.              *)
(***************************************************************************)
EXTENDS Naturals, Sequences

CONSTANTS
    Player,    \* ids of players
    NoId,      \* the id of a notification that was cut before it
    Chunk,     \* the parts that fit in the buffer of 4096 bytes
    MaxSent    \* bound on the notifications of a run

ASSUME StreamAssumption == Chunk \in Nat \ {0} /\ MaxSent \in Nat /\ NoId \notin Player

VARIABLES
    pc,        \* where streamDetection is
    result,    \* what it returned
    ctxDone,   \* its context was cancelled
    conn,      \* its connection
    tile38,    \* "up", "answered" (it streams), or "down"
    inside,    \* the players Tile38 last said to be inside
    sent,      \* the notifications so far
    wire,      \* the parts sent and not read yet
    chunk,     \* the parts of the last read that the loop has not come to
    view,      \* what the callback knows: "out", "in", or "astray" at (0, 0)
    cut        \* history: the players with a notification that no read got whole

tileVars == <<tile38, inside, sent>>
vars == <<pc, result, ctxDone, conn, tileVars, wire, chunk, view, cut>>

Events == {"enter", "inside", "exit", "del"}

Part == [event : Events \cup {"ok"}, id : Player \cup {NoId}, part : 0..3]

OK == [event |-> "ok", id |-> NoId, part |-> 0]
Notification(e, p) == [i \in 1..3 |-> [event |-> e, id |-> p, part |-> i]]

Init ==
    /\ pc = "dial" /\ result = "none" /\ ctxDone = FALSE /\ conn = "none"
    /\ tile38 \in {"up", "down"} /\ inside = {} /\ sent = 0
    /\ wire = <<>> /\ chunk = <<>>
    /\ view = [p \in Player \cup {NoId} |-> "out"] /\ cut = {}

-----------------------------------------------------------------------------
(* Tile38, the network, and the context *)

Answer ==
    /\ tile38 = "up" /\ pc = "handshake"
    /\ tile38' = "answered"
    /\ wire' = Append(wire, OK)
    /\ UNCHANGED <<pc, result, ctxDone, conn, inside, sent, chunk, view, cut>>

\* A player moves, or is deleted.
Notify(p) ==
    /\ tile38 = "answered" /\ sent < MaxSent
    /\ sent' = sent + 1
    /\ \/ p \notin inside /\ inside' = inside \cup {p}
                          /\ wire' = wire \o Notification("enter", p)
       \/ p \in inside /\ inside' = inside
                       /\ wire' = wire \o Notification("inside", p)
       \/ p \in inside /\ inside' = inside \ {p}
                       /\ wire' = wire \o Notification("exit", p)
       \/ inside' = inside \ {p} /\ wire' = wire \o Notification("del", p)
    /\ UNCHANGED <<pc, result, ctxDone, conn, tile38, chunk, view, cut>>

\* Tile38 goes away; what the network did not carry yet is lost.
GoDown ==
    /\ tile38 # "down"
    /\ tile38' = "down"
    /\ \E n \in 0..Len(wire) : wire' = SubSeq(wire, 1, n)
    /\ UNCHANGED <<pc, result, ctxDone, conn, inside, sent, chunk, view, cut>>

Cancel ==
    /\ ~ctxDone
    /\ ctxDone' = TRUE
    /\ UNCHANGED <<pc, result, conn, tileVars, wire, chunk, view, cut>>

-----------------------------------------------------------------------------
(* listenTo *)

Dial ==
    /\ pc = "dial"
    /\ IF tile38 = "down"
       THEN pc' = "returned" /\ result' = "error" /\ UNCHANGED conn
       ELSE pc' = "handshake" /\ conn' = "open" /\ UNCHANGED result
    /\ UNCHANGED <<ctxDone, tileVars, wire, chunk, view, cut>>

\* How much a read returns of what has arrived.
Lengths == 1..(IF Len(wire) < Chunk THEN Len(wire) ELSE Chunk)

\* Mutant: the answer may be followed by notifications, which are dropped.
HandshakeLenient ==
    /\ pc = "handshake"
    /\ \/ /\ wire = <<>> /\ tile38 = "down"
          /\ pc' = "returned" /\ result' = "error" /\ UNCHANGED wire
       \/ \E n \in Lengths :
            wire' = SubSeq(wire, n + 1, Len(wire)) /\ pc' = "select" /\ UNCHANGED result
    /\ UNCHANGED <<ctxDone, conn, tileVars, chunk, view, cut>>

\* Mutant: the answer is left for the loop to read.
HandshakePeek ==
    /\ pc = "handshake"
    /\ \/ /\ wire = <<>> /\ tile38 = "down"
          /\ pc' = "returned" /\ result' = "error" /\ UNCHANGED wire
       \/ \E n \in Lengths :
            IF n = 1
            THEN pc' = "select" /\ UNCHANGED <<wire, result>>
            ELSE pc' = "returned" /\ result' = "error" /\ wire' = SubSeq(wire, n + 1, Len(wire))
    /\ UNCHANGED <<ctxDone, conn, tileVars, chunk, view, cut>>

\* The first read has no deadline and does not look at the context.  Anything
\* but the answer alone is an error, and the connection is left open.
Handshake ==
    /\ pc = "handshake"
    /\ \/ /\ wire = <<>> /\ tile38 = "down"
          /\ pc' = "returned" /\ result' = "error" /\ UNCHANGED wire
       \/ \E n \in Lengths :
            /\ wire' = SubSeq(wire, n + 1, Len(wire))
            /\ IF n = 1 THEN pc' = "select" /\ UNCHANGED result
                        ELSE pc' = "returned" /\ result' = "error"
    /\ UNCHANGED <<ctxDone, conn, tileVars, chunk, view, cut>>

-----------------------------------------------------------------------------
(* streamDetection *)

\* Mutant: the connection is not closed.
ReturnOpen(res) == pc' = "returned" /\ result' = res /\ UNCHANGED conn

\* defer conn.Close()
Return(res) == pc' = "returned" /\ result' = res /\ conn' = "closed"

\* Mutant: reads have no deadline, the loop only turns when there is something.
StopWhenRead ==
    /\ pc = "select" /\ ctxDone /\ wire # <<>>
    /\ Return("nil")
    /\ UNCHANGED <<ctxDone, tileVars, wire, chunk, view, cut>>

\* case <-ctx.Done()
Stop ==
    /\ pc = "select" /\ ctxDone
    /\ Return("nil")
    /\ UNCHANGED <<ctxDone, tileVars, wire, chunk, view, cut>>

\* case <-t.C, and a read that fails: the deadline is over, or it is the end of the
\* stream, which is not told from it.  The loop goes on.
ReadFails ==
    /\ pc = "select"
    /\ UNCHANGED vars

\* The lines of what was read that begin a notification; any other is passed over.
Lines(parts) == {i \in DOMAIN parts : parts[i].part = 1}

\* case <-t.C, and a read.
Read ==
    /\ pc = "select"
    /\ \E n \in Lengths :
        /\ chunk' = SubSeq(wire, 1, n)
        /\ wire' = SubSeq(wire, n + 1, Len(wire))
        /\ pc' = IF Lines(chunk') = {} THEN "select" ELSE "handle"
        /\ cut' = IF wire[n].part = 3 THEN cut ELSE cut \cup {wire[n].id}
    /\ UNCHANGED <<result, ctxDone, conn, tileVars, view>>

\* handleDetection of line i: the fields that the read did not get are left empty,
\* and a deleted player has left.
Detection(i) ==
    [intersects |-> IF chunk[i].event = "del" THEN "exit" ELSE chunk[i].event,
     id         |-> IF i + 1 \in DOMAIN chunk THEN chunk[i].id ELSE NoId,
     placed     |-> i + 2 \in DOMAIN chunk]

\* What the callback takes a player for, which it places by the detection.
Known(d) == IF d.intersects = "exit" THEN "out" ELSE IF d.placed THEN "in" ELSE "astray"

\* The callback succeeds for the next line; the context is not looked at between
\* two lines.
Handle ==
    /\ pc = "handle"
    /\ \E i \in Lines(chunk) :
        /\ \A j \in Lines(chunk) : i <= j
        /\ view' = [view EXCEPT ![Detection(i).id] = Known(Detection(i))]
        /\ chunk' = SubSeq(chunk, i + 1, Len(chunk))
    /\ pc' = IF Lines(chunk') = {} THEN "select" ELSE "handle"
    /\ UNCHANGED <<result, ctxDone, conn, tileVars, wire, cut>>

\* The callback returns an error, or panics: the stream ends.
HandleFails ==
    /\ pc = "handle"
    /\ Return("error")
    /\ UNCHANGED <<ctxDone, tileVars, wire, chunk, view, cut>>

-----------------------------------------------------------------------------

Returned == pc = "returned" /\ UNCHANGED vars

Next ==
    \/ Answer \/ GoDown \/ Cancel \/ \E p \in Player : Notify(p)
    \/ Dial \/ Handshake
    \/ Stop \/ ReadFails \/ Read \/ Handle \/ HandleFails
    \/ Returned

Spec == Init /\ [][Next]_vars

\* The goroutine runs, and its select is random, so that the context is not passed
\* over for ever.  Tile38 owes nothing, not even an answer.
Fairness ==
    /\ WF_vars(Dial) /\ WF_vars(Handshake) /\ WF_vars(Handle \/ HandleFails)
    /\ SF_vars(Stop)

FairSpec == Spec /\ Fairness

-----------------------------------------------------------------------------
(* Properties *)

TypeOK ==
    /\ pc \in {"dial", "handshake", "select", "handle", "returned"}
    /\ result \in {"none", "nil", "error"}
    /\ ctxDone \in BOOLEAN /\ conn \in {"none", "open", "closed"}
    /\ tile38 \in {"up", "answered", "down"}
    /\ inside \subseteq Player /\ sent \in 0..MaxSent
    /\ wire \in Seq(Part) /\ chunk \in Seq(Part)
    /\ view \in [Player \cup {NoId} -> {"out", "in", "astray"}]
    /\ cut \subseteq Player

\* When everything Tile38 sent was handled, the callback knows who is inside and
\* where, but for the players with a notification that was cut; a player without
\* an id comes from such a cut.
ViewIsExact ==
    pc = "select" /\ wire = <<>> /\ tile38 = "answered" =>
        /\ \A p \in Player \ cut : view[p] = IF p \in inside THEN "in" ELSE "out"
        /\ cut = {} => view[NoId] = "out"

\* A connection that outlives its stream is one that failed its handshake: the
\* stream returned an error and nobody was told anything.
LeaksAreFailedHandshakes ==
    pc = "returned" /\ conn = "open" =>
        result = "error" /\ \A p \in Player \cup {NoId} : view[p] = "out"

\* A stream whose context is done ends, be Tile38 there or not, unless it waits
\* for the answer of a Tile38 that says nothing.
CancelledStreamsEnd == ctxDone ~> (pc = "returned" \/ (pc = "handshake" /\ tile38 = "up"))

=============================================================================
