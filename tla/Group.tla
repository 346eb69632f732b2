------------------------------- MODULE Group -------------------------------
(***************************************************************************)
(* What a connection group promises to those who use it: connections enter *)
(* once, are closed before they leave, and do not come back; whoever is    *)
(* open stays.  A broadcast that succeeds was sent to everybody who stayed *)
(* while it ran; it may fail when somebody left under it, and not          *)
(* otherwise.  When CloseAll returns, everybody it found is closed.        *)
(* WSServer implements it.                                                 *)
(***************************************************************************)
CONSTANTS Conn, Caller

VARIABLES
    state,      \* of each connection: "new", "coming", "in", "closing" or "out"
    call,       \* what each caller runs: "idle", "broadcast", "failed", "closeAll"
    due,        \* who was in the group when the call began, did not leave since,
                \* and was not sent its message
    missed,     \* who left, and will still be looked for by the broadcast
    crash       \* the process is dead

callVars == <<call, due, missed>>
groupVars == <<state, callVars, crash>>

Init ==
    /\ state = [c \in Conn |-> "new"]
    /\ call = [b \in Caller |-> "idle"]
    /\ due = [b \in Caller |-> {}] /\ missed = [b \in Caller |-> {}]
    /\ crash = FALSE

Members == {c \in Conn : state[c] \in {"in", "closing"}}

Move(c, from, to) == state[c] = from /\ state' = [state EXCEPT ![c] = to]

-----------------------------------------------------------------------------
(* Connections *)

Come(c) == Move(c, "new", "coming") /\ UNCHANGED <<callVars, crash>>

Enter(c) == Move(c, "coming", "in") /\ UNCHANGED <<callVars, crash>>

Close(c) == Move(c, "in", "closing") /\ UNCHANGED <<callVars, crash>>

Leave(c) ==
    /\ Move(c, "closing", "out")
    /\ due' = [b \in Caller |-> due[b] \ {c}]
    /\ \E B \in SUBSET {b \in Caller : call[b] = "broadcast"} :
        missed' = [b \in Caller |-> IF b \in B THEN missed[b] \cup {c} ELSE missed[b]]
    /\ UNCHANGED <<call, crash>>

-----------------------------------------------------------------------------
(* Calls *)

Ends(b, place) ==
    /\ call' = [call EXCEPT ![b] = place]
    /\ missed' = [missed EXCEPT ![b] = {}]
    /\ UNCHANGED <<state, crash>>

Begin(b) ==
    /\ call[b] = "idle"
    /\ \E place \in {"broadcast", "closeAll"} : Ends(b, place)
    /\ due' = [due EXCEPT ![b] = Members]

Deliver(b, c) ==
    /\ call[b] = "broadcast" /\ c \in due[b]
    /\ due' = [due EXCEPT ![b] = @ \ {c}]
    /\ UNCHANGED <<state, call, missed, crash>>

\* Broadcast returns an error: somebody left under it.
Fail(b) ==
    /\ call[b] = "broadcast" /\ missed[b] # {}
    /\ Ends(b, "failed")
    /\ UNCHANGED due

\* A call returns: after an error, or with everybody sent the message or closed.
Return(b) ==
    /\ \/ call[b] = "failed"
       \/ call[b] = "broadcast" /\ due[b] = {} /\ missed[b] = {}
       \/ call[b] = "closeAll" /\ \A c \in due[b] : state[c] # "in"
    /\ Ends(b, "idle")
    /\ due' = [due EXCEPT ![b] = {}]

-----------------------------------------------------------------------------

\* The process dies only while somebody comes or goes.
Die ==
    /\ \E c \in Conn : state[c] \notin {"new", "in"}
    /\ crash' = TRUE
    /\ UNCHANGED <<state, callVars>>

Next ==
    /\ ~crash
    /\ \/ \E c \in Conn : Come(c) \/ Enter(c) \/ Close(c) \/ Leave(c)
       \/ \E b \in Caller : Begin(b) \/ Fail(b) \/ Return(b)
       \/ \E b \in Caller, c \in Conn : Deliver(b, c)
       \/ Die

Spec == Init /\ [][Next]_groupVars

=============================================================================
