------------------------------- MODULE Inbox -------------------------------
(***************************************************************************)
(* What a connection reads: readMessage of src/catchcatch-server/          *)
(* websocket.go over the Read of either driver of websocket_driver.go.     *)
(* A frame is a header and its body, a sequence of units; a buffer of 512  *)
(* bytes holds BufferSize of them.  x/net takes one frame and replaces the *)
(* buffer.  gobwas reads at least the body into the buffer it is given,    *)
(* and with it whatever has arrived of the next frames; the unmasking of   *)
(* the whole buffer, which garbles what the frame did not overwrite, is    *)
(* left out: it is enough to know whose bytes those are.                   *)
(***************************************************************************)
EXTENDS Naturals, Sequences

CONSTANTS
    BufferSize,
    MaxBody,     \* bound on the units of a body
    MaxSent      \* bound on the messages of a run

ASSUME InboxAssumption == {BufferSize, MaxBody, MaxSent} \subseteq Nat

VARIABLES
    driver,    \* the flag -wsdriver
    sent,      \* the messages of the client: their size, and if their event is known
    wire,      \* the units that were not read: the message and the place in it
    pc,        \* "reading", or "ended" with the connection
    buffer,    \* the message that each unit of c.buffer is from, 0 for none
    told,      \* the calls of callbacks: the message, and what else was in the buffer
    spilled    \* history: a read took more than its frame

vars == <<driver, sent, wire, pc, buffer, told, spilled>>

Init ==
    /\ driver \in {"xnet", "gobwas"}
    /\ sent = <<>> /\ wire = <<>>
    /\ pc = "reading"
    /\ buffer = [i \in 1..BufferSize |-> 0]
    /\ told = <<>> /\ spilled = FALSE

-----------------------------------------------------------------------------
(* The client, which may also leave: reads fail then *)

Send(size, known) ==
    /\ Len(sent) < MaxSent
    /\ sent' = Append(sent, [size |-> size, known |-> known])
    /\ wire' = wire \o [i \in 1..(size + 1) |-> [msg |-> Len(sent) + 1, place |-> i - 1]]
    /\ UNCHANGED <<driver, pc, buffer, told, spilled>>

-----------------------------------------------------------------------------
(* The goroutine of the connection *)

End == pc' = "ended"

\* readMessage, once message m is at the start of the buffer buf: an empty one is
\* passed over, one without a callback ends the connection, and so does a callback
\* that panics.  The callback is given the whole buffer.
Dispatch(m, buf) ==
    LET size == sent[m].size
        rest == {buf[i] : i \in (size + 1)..Len(buf)} \ {0}
    IN  /\ buffer' = buf
        /\ \/ size = 0 /\ UNCHANGED <<pc, told>>
           \/ size > 0 /\ ~sent[m].known /\ End /\ UNCHANGED told
           \/ /\ size > 0 /\ sent[m].known
              /\ told' = Append(told, [msg |-> m, rest |-> rest])
              /\ (UNCHANGED pc \/ End)

\* Mutant: the message is copied over the one before.
XNetReadInto ==
    /\ pc = "reading" /\ driver = "xnet" /\ wire # <<>>
    /\ LET m == Head(wire).msg
           size == sent[m].size
       IN  /\ Dispatch(m, [i \in 1..size |-> m] \o SubSeq(buffer, size + 1, Len(buffer)))
           /\ wire' = SubSeq(wire, size + 2, Len(wire))
    /\ UNCHANGED <<driver, sent, spilled>>

XNetRead ==
    /\ pc = "reading" /\ driver = "xnet" /\ wire # <<>>
    /\ LET m == Head(wire).msg
           size == sent[m].size
       IN  /\ Dispatch(m, [i \in 1..size |-> m])
           /\ wire' = SubSeq(wire, size + 2, Len(wire))
    /\ UNCHANGED <<driver, sent, spilled>>

\* Mutant: the unread end of a message that is too long is left on the wire.
GobwasReadTruncates ==
    /\ pc = "reading" /\ driver = "gobwas"
    /\ wire # <<>> /\ Head(wire).place = 0
    /\ LET m == Head(wire).msg
           size == IF sent[m].size > BufferSize THEN BufferSize ELSE sent[m].size
       IN  \E n \in size..BufferSize :
            /\ n < Len(wire) /\ (size = 0 => n = 0)
            /\ Dispatch(m, [i \in 1..BufferSize |->
                               IF i <= n THEN wire[i + 1].msg ELSE buffer[i]])
            /\ wire' = SubSeq(wire, n + 2, Len(wire))
            /\ spilled' = (spilled \/ n > size)
    /\ UNCHANGED <<driver, sent>>

\* io.ReadAtLeast: a body that does not fit in the buffer is an error, and an
\* empty one is not read.
GobwasRead ==
    /\ pc = "reading" /\ driver = "gobwas"
    /\ wire # <<>> /\ Head(wire).place = 0
    /\ LET m == Head(wire).msg
           size == sent[m].size
       IN  \/ /\ size > BufferSize
              /\ End /\ UNCHANGED <<wire, buffer, told, spilled>>
           \/ \E n \in size..BufferSize :
                /\ n < Len(wire) /\ (size = 0 => n = 0)
                /\ Dispatch(m, [i \in 1..BufferSize |->
                                   IF i <= n THEN wire[i + 1].msg ELSE buffer[i]])
                /\ wire' = SubSeq(wire, n + 2, Len(wire))
                /\ spilled' = (spilled \/ n > size)
    /\ UNCHANGED <<driver, sent>>

\* The middle of a frame is taken for a header: an error, or the length of nothing,
\* after which the next units are.
GobwasMisread ==
    /\ pc = "reading" /\ driver = "gobwas"
    /\ wire # <<>> /\ Head(wire).place # 0
    /\ \/ End /\ UNCHANGED wire
       \/ wire' = Tail(wire) /\ UNCHANGED pc
    /\ UNCHANGED <<driver, sent, buffer, told, spilled>>

\* A read fails, at the end of the stream or because the server closed it.
ReadFails ==
    /\ pc = "reading"
    /\ End
    /\ UNCHANGED <<driver, sent, wire, buffer, told, spilled>>

Ended == pc = "ended" /\ UNCHANGED vars

Next ==
    \/ \E size \in 0..MaxBody, known \in BOOLEAN : Send(size, known)
    \/ XNetRead \/ GobwasRead \/ GobwasMisread \/ ReadFails
    \/ Ended

Spec == Init /\ [][Next]_vars

-----------------------------------------------------------------------------
(* Properties *)

\* The first message that was not read, or the next one that is sent.
Unread == IF wire = <<>> THEN Len(sent) + 1 ELSE Head(wire).msg

\* There is a callback for the event of message m.
Callable(m) == sent[m].size > 0 /\ sent[m].known

\* What was read of a connection that goes on was handled, every message that has
\* a callback once and in the order it was sent, unless a read spilled.
HandledInOrder ==
    pc = "reading" /\ ~spilled =>
        /\ {told[i].msg : i \in DOMAIN told} = {m \in 1..(Unread - 1) : Callable(m)}
        /\ \A i, j \in DOMAIN told : i < j => told[i].msg < told[j].msg

\* A callback finds nothing but its message in the buffer of x/net, and after it
\* nothing but what earlier messages left there in that of gobwas, unless a read
\* spilled.
OnlyOlderLeftovers ==
    \A i \in DOMAIN told :
        /\ driver = "xnet" => told[i].rest = {}
        /\ ~spilled => \A m \in told[i].rest : m < told[i].msg

=============================================================================
