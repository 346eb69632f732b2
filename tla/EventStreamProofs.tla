------------------------- MODULE EventStreamProofs -------------------------
(***************************************************************************)
(* What a stream leaves behind and what its callback knows, for any        *)
(* players, size of the buffer and number of notifications.  IInv is about *)
(* the connection; StreamInv follows the notifications from the wire       *)
(* through the last read to the callback.                                  *)
(***************************************************************************)
EXTENDS EventStream, SequenceTheorems, TLAPS

Untold == \A p \in Player \cup {NoId} : view[p] = "out"

\* Nobody is told anything before the answer, and only a stream that dialled holds a
\* connection.
HandshakeInv ==
    /\ pc \in {"dial", "handshake"} => Untold /\ result = "none"
    /\ pc = "dial" => conn = "none"
    /\ pc \in {"handshake", "select", "handle"} => conn = "open"

\* A stream that ended by itself closed its connection.
ReturnInv ==
    pc = "returned" => /\ conn = "open" => result = "error" /\ Untold
                       /\ result = "nil" => conn = "closed" /\ ctxDone

IInv == HandshakeInv /\ ReturnInv

-----------------------------------------------------------------------------

LEMMA InitIInv == Init => IInv
<1> QED
    BY DEF Init, IInv, HandshakeInv, ReturnInv, Untold

\* Tile38 and the context touch neither the stream nor its connection.
LEMMA OthersPreserve ==
    ASSUME IInv, Answer \/ GoDown \/ Cancel \/ (\E p \in Player : Notify(p)) \/ UNCHANGED vars
    PROVE  IInv'
<1>1. /\ UNCHANGED <<pc, result, conn, view>>
      /\ ctxDone => ctxDone'
    BY DEF Answer, GoDown, Cancel, Notify, vars
<1> QED
    BY <1>1 DEF IInv, HandshakeInv, ReturnInv, Untold

LEMMA DialPreserves ==
    ASSUME IInv, Dial
    PROVE  IInv'
<1> QED
    BY DEF Dial, IInv, HandshakeInv, ReturnInv, Untold

\* A failed handshake returns an error and keeps the connection.
LEMMA HandshakePreserves ==
    ASSUME IInv, Handshake
    PROVE  IInv'
<1>1. /\ pc = "handshake" /\ UNCHANGED <<conn, view, ctxDone>>
      /\ \/ pc' = "select" /\ result' = result
         \/ pc' = "returned" /\ result' = "error"
    BY DEF Handshake
<1> QED
    BY <1>1 DEF IInv, HandshakeInv, ReturnInv, Untold

\* The loop: whatever is read and handled, the way out closes the connection.
LEMMA LoopPreserves ==
    ASSUME IInv, Stop \/ ReadFails \/ Read \/ Handle \/ HandleFails
    PROVE  IInv'
<1>1. CASE Stop \/ HandleFails
    BY <1>1 DEF Stop, HandleFails, Return, IInv, HandshakeInv, ReturnInv
<1>2. CASE ReadFails
    BY <1>2, OthersPreserve DEF ReadFails
<1>3. CASE Read \/ Handle
    <2>1. pc' \in {"select", "handle"} /\ UNCHANGED conn
        BY <1>3 DEF Read, Handle
    <2>2. pc \in {"select", "handle"}
        BY <1>3 DEF Read, Handle
    <2> QED
        BY <2>1, <2>2 DEF IInv, HandshakeInv, ReturnInv
<1> QED
    BY <1>1, <1>2, <1>3

\* The invariant of the connection and of what was told through it.
THEOREM Inductive == Spec => []IInv
<1>1. IInv /\ [Next]_vars => IInv'
    BY OthersPreserve, DialPreserves, HandshakePreserves, LoopPreserves DEF Next, Returned
<1> QED
    BY <1>1, InitIInv, PTL DEF Spec

\* A connection that outlives its stream is one that failed its handshake, and a
\* stream that outlived its answer always closes its own.
THEOREM LeaksAreFailedHandshakesAlways == Spec => []LeaksAreFailedHandshakes
<1>1. IInv => LeaksAreFailedHandshakes
    BY DEF IInv, ReturnInv, Untold, LeaksAreFailedHandshakes
<1> QED
    BY <1>1, Inductive, PTL

-----------------------------------------------------------------------------
(* What the notifications tell *)

\* Only the answer is before the notifications, and the loop does not find it.
AnswerInv ==
    /\ tile38 = "up" => wire = <<>> /\ inside = {}
    /\ tile38 = "answered" => pc # "dial"
    /\ pc = "dial" => wire = <<>>
    /\ tile38 = "answered" /\ pc = "handshake" => wire # <<>> /\ wire[1].part = 0
    /\ \A i \in 1..Len(wire) :
        IF wire[i].part = 0
        THEN pc = "handshake" /\ i = 1
        ELSE wire[i].id \in Player /\ wire[i].event \in Events

\* The parts of a notification follow each other, those of the last one too as long
\* as Tile38 is there.
PartsInv ==
    \A i \in Lines(wire), k \in 1..2 :
        /\ i + k <= Len(wire) => /\ wire[i + k].id = wire[i].id
                                 /\ wire[i + k].part = 1 + k
        /\ tile38 = "answered" => i + k <= Len(wire)

\* The loop goes on to the next line as long as there is one, and a line that the
\* last read did not get whole is counted in cut.
ChunkInv ==
    /\ pc = "handle" => Lines(chunk) # {}
    /\ pc \notin {"handle", "returned"} => Lines(chunk) = {}
    /\ \A i \in Lines(chunk) :
        /\ chunk[i].id \in Player /\ chunk[i].event \in Events
        /\ i + 2 > Len(chunk) => chunk[i].id \in cut

LinesOf(parts, p) == {i \in Lines(parts) : parts[i].id = p}

\* The last line of p, if there is one, tells whether p is in the set.
LastTells(parts, p, set) ==
    \A i \in LinesOf(parts, p) :
        (\A j \in LinesOf(parts, p) : j <= i) =>
            (parts[i].event \in {"enter", "inside"} <=> p \in set)

\* Whether p is inside is told by its last line on the wire, or in the chunk if there
\* is none, or else the callback knows it.
Traced(p) ==
    /\ LastTells(wire, p, inside)
    /\ LinesOf(wire, p) = {} => LastTells(chunk, p, inside)
    /\ LinesOf(wire, p) = {} /\ LinesOf(chunk, p) = {} =>
           view[p] = IF p \in inside THEN "in" ELSE "out"

KnowledgeInv ==
    /\ tile38 # "down" /\ pc # "returned" => \A p \in Player \ cut : Traced(p)
    /\ cut = {} => view[NoId] = "out"

StreamInv == TypeOK /\ AnswerInv /\ PartsInv /\ ChunkInv /\ KnowledgeInv

-----------------------------------------------------------------------------
(* Sequences *)

\* t is the first n elements of s, or what comes after them.
First(s, t, n) == Len(t) = n /\ \A i \in 1..n : t[i] = s[i]
Rest(s, t, n) == Len(t) = Len(s) - n /\ \A i \in 1..Len(t) : t[i] = s[i + n]

LEMMA Elements ==
    ASSUME NEW S, NEW s \in Seq(S)
    PROVE  /\ Len(s) \in Nat /\ DOMAIN s = 1..Len(s)
           /\ \A i \in 1..Len(s) : s[i] \in S
           /\ s = <<>> <=> Len(s) = 0
<1>1. Len(s) \in Nat /\ DOMAIN s = 1..Len(s)
    BY LenProperties
<1>2. \A i \in 1..Len(s) : s[i] \in S
    BY ElementOfSeq
<1>3. s = <<>> <=> Len(s) = 0
    BY <1>1, EmptySeq
<1> QED
    BY <1>1, <1>2, <1>3

LEMMA FirstElements ==
    ASSUME NEW S, NEW s \in Seq(S), NEW n \in 0..Len(s)
    PROVE  SubSeq(s, 1, n) \in Seq(S) /\ First(s, SubSeq(s, 1, n), n)
<1>1. Len(s) \in Nat /\ n \in Int /\ \A i \in 1..n : s[i] \in S
    BY Elements
<1>2. /\ SubSeq(s, 1, n) \in Seq(S)
      /\ Len(SubSeq(s, 1, n)) = IF 1 <= n THEN n - 1 + 1 ELSE 0
      /\ \A i \in 1..(n - 1 + 1) : SubSeq(s, 1, n)[i] = s[1 + i - 1]
    BY <1>1, SubSeqProperties
<1>3. Len(SubSeq(s, 1, n)) = n
    BY <1>1, <1>2
<1>4. ASSUME NEW i \in 1..n PROVE SubSeq(s, 1, n)[i] = s[i]
  <2>1. i \in 1..(n - 1 + 1) /\ 1 + i - 1 = i
    BY <1>1
  <2> QED
    BY <1>2, <2>1
<1> QED
    BY <1>2, <1>3, <1>4 DEF First

LEMMA RestElements ==
    ASSUME NEW S, NEW s \in Seq(S), NEW n \in 0..Len(s)
    PROVE  /\ SubSeq(s, n + 1, Len(s)) \in Seq(S)
           /\ Rest(s, SubSeq(s, n + 1, Len(s)), n)
<1> DEFINE t == SubSeq(s, n + 1, Len(s))
<1>1. Len(s) \in Nat /\ n \in Nat /\ \A i \in 1..Len(s) : s[i] \in S
    BY Elements
<1>2. n + 1 \in Int /\ Len(s) \in Int /\ \A i \in (n + 1)..Len(s) : s[i] \in S
    BY <1>1
<1>3. /\ t \in Seq(S)
      /\ Len(t) = IF n + 1 <= Len(s) THEN Len(s) - (n + 1) + 1 ELSE 0
      /\ \A i \in 1..(Len(s) - (n + 1) + 1) : t[i] = s[(n + 1) + i - 1]
    BY <1>2, SubSeqProperties
<1>4. Len(t) = Len(s) - n
    BY <1>1, <1>3
<1>5. ASSUME NEW i \in 1..Len(t) PROVE t[i] = s[i + n]
  <2>1. i \in 1..(Len(s) - (n + 1) + 1) /\ (n + 1) + i - 1 = i + n
    BY <1>1, <1>4
  <2> QED
    BY <1>3, <2>1
<1> QED
    BY <1>3, <1>4, <1>5 DEF Rest

-----------------------------------------------------------------------------
(* Lines *)

\* The lines after the first n parts are lines, and their last one is the last.
LEMMA LinesOfRest ==
    ASSUME NEW s \in Seq(Part), NEW t \in Seq(Part), NEW n \in 0..Len(s), Rest(s, t, n)
    PROVE  /\ \A i : i \in Lines(t) <=> i \in 1..Len(t) /\ i + n \in Lines(s)
           /\ \A i \in Lines(s) : i > n => i - n \in Lines(t) /\ t[i - n] = s[i]
           /\ \A p, set : LastTells(s, p, set) => LastTells(t, p, set)
<1>1. /\ Len(s) \in Nat /\ Len(t) \in Nat /\ n \in Nat /\ Len(t) = Len(s) - n
      /\ DOMAIN s = 1..Len(s) /\ DOMAIN t = 1..Len(t)
      /\ \A i \in 1..Len(t) : t[i] = s[i + n]
    BY Elements DEF Rest
<1>2. \A i \in 1..Len(t) : i + n \in 1..Len(s)
    BY <1>1
<1>3. \A i \in 1..Len(s) : i > n => i - n \in 1..Len(t) /\ (i - n) + n = i
    BY <1>1
<1>4. \A i : i \in Lines(t) <=> i \in 1..Len(t) /\ i + n \in Lines(s)
    BY <1>1, <1>2 DEF Lines
<1>5. \A i \in Lines(s) : i > n => i - n \in Lines(t) /\ t[i - n] = s[i]
    BY <1>1, <1>3 DEF Lines
<1>6. ASSUME NEW p, NEW set, LastTells(s, p, set), NEW i \in LinesOf(t, p),
             \A j \in LinesOf(t, p) : j <= i
      PROVE  t[i].event \in {"enter", "inside"} <=> p \in set
  <2>1. i \in 1..Len(t) /\ i + n \in LinesOf(s, p) /\ t[i] = s[i + n]
    BY <1>1, <1>4 DEF LinesOf
  <2>2. ASSUME NEW j \in LinesOf(s, p) PROVE j <= i + n
    <3>1. j \in 1..Len(s)
      BY <1>1 DEF LinesOf, Lines
    <3>2. CASE j > n
      <4>1. j - n \in LinesOf(t, p)
        BY <1>5, <3>2 DEF LinesOf
      <4>2. j - n <= i
        BY <1>6, <4>1
      <4> QED
        BY <1>1, <2>1, <3>1, <4>2
    <3>3. CASE ~(j > n)
      BY <1>1, <2>1, <3>1, <3>3
    <3> QED
      BY <3>2, <3>3
  <2> QED
    BY <1>6, <2>1, <2>2 DEF LastTells
<1> QED
    BY <1>4, <1>5, <1>6 DEF LastTells

\* The lines of the first n parts are lines, and their last one is the last if none
\* comes after them.
LEMMA LinesOfFirst ==
    ASSUME NEW s \in Seq(Part), NEW t \in Seq(Part), NEW u \in Seq(Part),
           NEW n \in 0..Len(s), First(s, t, n), Rest(s, u, n)
    PROVE  /\ \A i : i \in Lines(t) <=> i \in 1..n /\ i \in Lines(s)
           /\ \A p, set : LinesOf(u, p) = {} /\ LastTells(s, p, set) => LastTells(t, p, set)
           /\ \A p : LinesOf(u, p) = {} /\ LinesOf(t, p) = {} => LinesOf(s, p) = {}
<1>1. /\ Len(s) \in Nat /\ n \in Nat /\ Len(t) = n
      /\ DOMAIN s = 1..Len(s) /\ DOMAIN t = 1..n
      /\ \A i \in 1..n : t[i] = s[i] /\ i \in 1..Len(s)
    BY Elements DEF First
<1>2. \A i : i \in Lines(t) <=> i \in 1..n /\ i \in Lines(s)
    BY <1>1 DEF Lines
<1>3. \A p : LinesOf(u, p) = {} => LinesOf(s, p) = LinesOf(t, p)
  <2> SUFFICES ASSUME NEW p, LinesOf(u, p) = {} PROVE LinesOf(s, p) = LinesOf(t, p)
    OBVIOUS
  <2>1. LinesOf(t, p) \subseteq LinesOf(s, p)
    BY <1>1, <1>2 DEF LinesOf
  <2>2. ASSUME NEW i \in LinesOf(s, p) PROVE i \in LinesOf(t, p)
    <3>1. i \in Lines(s) /\ s[i].id = p /\ i \in 1..Len(s)
      BY <1>1 DEF LinesOf, Lines
    <3>2. ~(i > n)
      BY <3>1, LinesOfRest DEF LinesOf
    <3>3. i \in 1..n
      BY <1>1, <3>1, <3>2
    <3> QED
      BY <1>1, <1>2, <3>1, <3>3 DEF LinesOf
  <2> QED
    BY <2>1, <2>2
<1>4. \A p : \A i \in LinesOf(t, p) : t[i] = s[i]
    BY <1>1, <1>2 DEF LinesOf
<1> QED
    BY <1>2, <1>3, <1>4 DEF LastTells

\* t is s and a notification after it.
Longer(s, t, e, q) ==
    /\ Len(t) = Len(s) + 3
    /\ \A i \in 1..Len(s) : t[i] = s[i]
    /\ \A k \in 1..3 : t[Len(s) + k] = [event |-> e, id |-> q, part |-> k]

LEMMA LongerElements ==
    ASSUME NEW s \in Seq(Part), NEW e \in Events, NEW q \in Player
    PROVE  /\ s \o Notification(e, q) \in Seq(Part)
           /\ Longer(s, s \o Notification(e, q), e, q)
<1> DEFINE f == Notification(e, q)
           t == s \o f
<1>1. /\ f \in Seq(Part) /\ Len(f) = 3 /\ Len(s) \in Nat
      /\ \A k \in 1..3 : f[k] = [event |-> e, id |-> q, part |-> k]
  <2>1. \A k \in 1..3 : [event |-> e, id |-> q, part |-> k] \in Part
    BY DEF Part
  <2> QED
    BY <2>1, Elements DEF Notification
<1> HIDE DEF f
<1>2. /\ t \in Seq(Part) /\ Len(t) = Len(s) + 3
      /\ \A i \in 1..(Len(s) + 3) : t[i] = IF i <= Len(s) THEN s[i] ELSE f[i - Len(s)]
  <2>1. /\ t \in Seq(Part) /\ Len(t) = Len(s) + Len(f)
        /\ \A i \in 1..(Len(s) + Len(f)) :
              t[i] = IF i <= Len(s) THEN s[i] ELSE f[i - Len(s)]
    BY <1>1, ConcatProperties
  <2> HIDE DEF t
  <2> QED
    BY <1>1, <2>1
<1>3. \A i \in 1..Len(s) : i \in 1..(Len(s) + 3) /\ i <= Len(s)
    BY <1>1
<1>4. \A k \in 1..3 : /\ Len(s) + k \in 1..(Len(s) + 3)
                      /\ ~(Len(s) + k <= Len(s)) /\ (Len(s) + k) - Len(s) = k
    BY <1>1
<1> HIDE DEF t
<1>5. \A i \in 1..Len(s) : t[i] = s[i]
    BY <1>2, <1>3
<1>6. \A k \in 1..3 : t[Len(s) + k] = [event |-> e, id |-> q, part |-> k]
    BY <1>1, <1>2, <1>4
<1> QED
    BY <1>2, <1>5, <1>6 DEF Longer, t, f

\* There is one line more, the last one of its player.
LEMMA LinesOfLonger ==
    ASSUME NEW s \in Seq(Part), NEW t \in Seq(Part), NEW e \in Events, NEW q \in Player,
           Longer(s, t, e, q)
    PROVE  /\ Lines(t) = Lines(s) \cup {Len(s) + 1}
           /\ LinesOf(t, q) # {}
           /\ \A set : (e \in {"enter", "inside"} <=> q \in set) => LastTells(t, q, set)
           /\ \A p : p # q => LinesOf(t, p) = LinesOf(s, p)
           /\ \A p, set, new :
                p # q /\ LastTells(s, p, set) /\ (p \in set <=> p \in new) =>
                    LastTells(t, p, new)
<1> DEFINE w == Len(s)
<1>1. /\ w \in Nat /\ DOMAIN s = 1..w /\ DOMAIN t = 1..(w + 3)
      /\ \A i \in 1..w : t[i] = s[i]
      /\ \A k \in 1..3 : t[w + k] = [event |-> e, id |-> q, part |-> k]
    BY Elements DEF Longer
<1>2. /\ t[w + 1] = [event |-> e, id |-> q, part |-> 1]
      /\ t[w + 2].part = 2 /\ t[w + 3].part = 3
    BY <1>1
<1> HIDE DEF w
<1>3. /\ \A i : i \in 1..(w + 3) <=> i \in 1..w \/ i \in {w + 1, w + 2, w + 3}
      /\ \A i \in 1..w : i < w + 1
  <2>1. w \in Nat
    BY <1>1
  <2> QED
    BY <2>1
<1>4. Lines(t) = Lines(s) \cup {w + 1} /\ w + 1 \notin Lines(s)
    BY <1>1, <1>2, <1>3 DEF Lines
<1>5. w + 1 \in LinesOf(t, q) /\ t[w + 1].event = e
    BY <1>2, <1>4 DEF LinesOf
<1>6. ASSUME NEW i \in LinesOf(t, q), \A j \in LinesOf(t, q) : j <= i PROVE i = w + 1
  <2>1. w + 1 <= i /\ i \in 1..(w + 3) /\ i \in Lines(t)
    BY <1>1, <1>5, <1>6 DEF LinesOf, Lines
  <2>2. i \notin 1..w
    BY <1>1, <2>1
  <2> QED
    BY <1>1, <1>4, <2>1, <2>2 DEF Lines
<1>7. \A set : (e \in {"enter", "inside"} <=> q \in set) => LastTells(t, q, set)
    BY <1>5, <1>6 DEF LastTells
<1>8. ASSUME NEW p, p # q
      PROVE  LinesOf(t, p) = LinesOf(s, p) /\ \A i \in LinesOf(s, p) : t[i] = s[i]
  <2>1. \A i \in Lines(s) : t[i] = s[i]
    BY <1>1 DEF Lines
  <2>2. t[w + 1].id # p
    BY <1>2, <1>8
  <2> QED
    BY <1>4, <2>1, <2>2 DEF LinesOf
<1> QED
    BY <1>4, <1>5, <1>7, <1>8 DEF LastTells, w

-----------------------------------------------------------------------------
(* The steps *)

LEMMA InitStreamInv == Init => StreamInv
<1> SUFFICES ASSUME Init PROVE StreamInv
    OBVIOUS
<1>1. wire = <<>> /\ chunk = <<>> /\ Len(wire) = 0 /\ Lines(wire) = {} /\ Lines(chunk) = {}
    BY DEF Init, Lines
<1>2. wire \in Seq(Part) /\ chunk \in Seq(Part)
    BY <1>1
<1>3. TypeOK
  <2>1. view \in [Player \cup {NoId} -> {"out", "in", "astray"}]
    BY DEF Init
  <2>2. sent \in 0..MaxSent
    BY StreamAssumption DEF Init
  <2> QED
    BY <1>2, <2>1, <2>2 DEF Init, TypeOK
<1>4. AnswerInv /\ PartsInv /\ ChunkInv
    BY <1>1 DEF Init, AnswerInv, PartsInv, ChunkInv
<1>5. KnowledgeInv
    BY <1>1 DEF Init, KnowledgeInv, Traced, LinesOf, LastTells
<1> QED
    BY <1>3, <1>4, <1>5 DEF StreamInv

\* The types, one by one.
LEMMA Types ==
    ASSUME TypeOK
    PROVE  /\ wire \in Seq(Part) /\ Len(wire) \in Nat /\ DOMAIN wire = 1..Len(wire)
           /\ \A i \in 1..Len(wire) : wire[i] \in Part /\ wire[i].part \in 0..3
           /\ wire = <<>> <=> Len(wire) = 0
           /\ chunk \in Seq(Part) /\ Len(chunk) \in Nat /\ DOMAIN chunk = 1..Len(chunk)
<1>1. wire \in Seq(Part) /\ chunk \in Seq(Part)
    BY DEF TypeOK, Part
<1>2. \A i \in 1..Len(wire) : wire[i] \in Part
    BY <1>1, Elements
<1> QED
    BY <1>1, <1>2, Elements DEF Part

\* Tile38 answers.
LEMMA AnswerStep == ASSUME StreamInv, Answer PROVE StreamInv'
<1> USE DEF StreamInv
<1>1. /\ tile38 = "up" /\ tile38' = "answered" /\ pc = "handshake"
      /\ UNCHANGED <<pc, result, ctxDone, conn, inside, sent, chunk, view, cut>>
      /\ wire = <<>> /\ wire' = <<OK>> /\ inside = {}
    BY DEF Answer, AnswerInv
<1>2. /\ OK \in Part /\ OK.part = 0
      /\ wire' \in Seq(Part) /\ Len(wire') = 1 /\ DOMAIN wire' = 1..1 /\ wire'[1] = OK
  <2>1. OK \in Part /\ OK.part = 0
    BY DEF OK, Part
  <2> HIDE DEF StreamInv
  <2> QED
    BY <1>1, <2>1
<1>3. Lines(wire)' = {}
    BY <1>2 DEF Lines
<1>4. TypeOK'
    BY <1>1, <1>2 DEF TypeOK, Part
<1>5. AnswerInv' /\ PartsInv'
    BY <1>1, <1>2, <1>3 DEF AnswerInv, PartsInv
<1>6. ChunkInv'
    BY <1>1 DEF ChunkInv, Lines
<1>7. KnowledgeInv'
  <2>1. Lines(chunk)' = {} /\ Lines(chunk) = {} /\ Lines(wire) = {}
    BY <1>1 DEF ChunkInv, Lines
  <2> QED
    BY <1>1, <1>3, <2>1 DEF KnowledgeInv, Traced, LinesOf, LastTells
<1> QED
    BY <1>4, <1>5, <1>6, <1>7

\* Steps that leave the notifications and the callback alone.
LEMMA QuietStep ==
    ASSUME StreamInv, UNCHANGED <<tileVars, wire, chunk, view, cut>>,
           TypeOK', pc' \in {pc, "handshake", "returned"},
           pc' = "handshake" => pc = "handshake" \/ (pc = "dial" /\ wire = <<>>),
           pc' = "returned" /\ pc = "handshake" => wire = <<>>
    PROVE  StreamInv'
<1> USE DEF StreamInv, tileVars
<1>1. AnswerInv'
    BY Types DEF AnswerInv
<1>2. PartsInv'
    BY DEF PartsInv, Lines
<1>3. ChunkInv'
    BY DEF ChunkInv, Lines
<1>4. KnowledgeInv'
  <2>1. \A p : Traced(p)' = Traced(p)
    BY DEF Traced, LinesOf, Lines, LastTells
  <2>2. pc' # "returned" => pc # "returned"
    OBVIOUS
  <2> QED
    BY <2>1, <2>2 DEF KnowledgeInv
<1> QED
    BY <1>1, <1>2, <1>3, <1>4

LEMMA QuietSteps ==
    ASSUME StreamInv, Cancel \/ Dial \/ Stop \/ ReadFails \/ HandleFails \/ UNCHANGED vars
    PROVE  StreamInv'
<1> USE DEF StreamInv
<1>1. UNCHANGED <<tileVars, wire, chunk, view, cut>>
    BY DEF Cancel, Dial, Stop, ReadFails, HandleFails, vars
<1>2. /\ pc' \in {pc, "handshake", "returned"}
      /\ pc' = "handshake" => pc = "handshake" \/ pc = "dial"
      /\ pc' = "returned" => pc # "handshake"
      /\ result' \in {result, "error", "nil"} /\ conn' \in {conn, "open", "closed"}
      /\ ctxDone' \in {ctxDone, TRUE}
    BY DEF Cancel, Dial, Stop, ReadFails, HandleFails, Return, vars
<1>3. TypeOK'
    BY <1>1, <1>2 DEF TypeOK, tileVars
<1>4. /\ pc' = "handshake" => pc = "handshake" \/ (pc = "dial" /\ wire = <<>>)
      /\ pc' = "returned" /\ pc = "handshake" => wire = <<>>
    BY <1>2 DEF AnswerInv
<1> QED
    BY <1>1, <1>2, <1>3, <1>4, QuietStep

\* What is left of the wire after a read, or a prefix of it after Tile38 went away,
\* is made of the same parts.
LEMMA WireRest ==
    ASSUME TypeOK, AnswerInv, PartsInv, NEW n \in 1..Len(wire),
           wire' = SubSeq(wire, n + 1, Len(wire)), UNCHANGED tile38
    PROVE  /\ wire' \in Seq(Part) /\ Rest(wire, wire', n)
           /\ PartsInv'
           /\ \A i \in 1..Len(wire') : /\ wire'[i].part # 0
                                       /\ wire'[i].id \in Player /\ wire'[i].event \in Events
<1>1. wire \in Seq(Part) /\ Len(wire) \in Nat /\ n \in 0..Len(wire)
    BY Types
<1>2. wire' \in Seq(Part) /\ Rest(wire, wire', n)
    BY <1>1, RestElements
<1>3. PICK w \in Nat : /\ w = Len(wire) /\ Len(wire') = w - n /\ n \in 1..w
                       /\ \A i \in 1..(w - n) : wire'[i] = wire[i + n]
    BY <1>1, <1>2 DEF Rest
<1>4. \A i \in 1..(w - n) : i + n \in 1..w /\ i + n # 1
    BY <1>3
<1>5. PartsInv'
  <2> SUFFICES ASSUME NEW i \in Lines(wire'), NEW k \in 1..2
               PROVE  /\ i + k <= w - n => /\ wire'[i + k].id = wire'[i].id
                                           /\ wire'[i + k].part = 1 + k
                      /\ tile38 = "answered" => i + k <= w - n
    BY <1>3 DEF PartsInv, Lines
  <2>1. i \in 1..(w - n) /\ i + n \in Lines(wire)
    BY <1>1, <1>2, <1>3, LinesOfRest
  <2>2. /\ (i + n) + k <= w => /\ wire[(i + n) + k].id = wire[i + n].id
                               /\ wire[(i + n) + k].part = 1 + k
        /\ tile38 = "answered" => (i + n) + k <= w
    BY <1>3, <2>1 DEF PartsInv
  <2>3. i + k <= w - n <=> (i + n) + k <= w
    BY <1>3, <2>1
  <2>4. i + k <= w - n => i + k \in 1..(w - n) /\ (i + k) + n = (i + n) + k
    BY <1>3, <2>1
  <2> QED
    BY <1>3, <2>1, <2>2, <2>3, <2>4
<1>6. ASSUME NEW i \in 1..(w - n)
      PROVE  wire'[i].part # 0 /\ wire'[i].id \in Player /\ wire'[i].event \in Events
    BY <1>3, <1>4, <1>6 DEF AnswerInv
<1> QED
    BY <1>2, <1>3, <1>5, <1>6

LEMMA GoDownStep == ASSUME StreamInv, GoDown PROVE StreamInv'
<1> USE DEF StreamInv
<1>1. PICK n \in 0..Len(wire) : wire' = SubSeq(wire, 1, n)
    BY DEF GoDown
<1>2. /\ tile38' = "down" /\ UNCHANGED <<pc, result, ctxDone, conn, inside, sent, chunk, view, cut>>
    BY DEF GoDown
<1>3. wire' \in Seq(Part) /\ First(wire, wire', n)
    BY <1>1, Types, FirstElements
<1>4. /\ Len(wire) \in Nat /\ n \in Nat /\ Len(wire') = n /\ DOMAIN wire' = 1..n
      /\ DOMAIN wire = 1..Len(wire)
      /\ \A i \in 1..n : wire'[i] = wire[i] /\ i \in 1..Len(wire)
    BY <1>3, Types, Elements DEF First
<1>5. TypeOK'
    BY <1>2, <1>3 DEF TypeOK
<1>6. AnswerInv'
  <2>1. wire = <<>> => wire' = <<>>
    BY <1>3, <1>4, Elements
  <2> QED
    BY <1>2, <1>4, <2>1 DEF AnswerInv
<1>7. PartsInv'
  <2> SUFFICES ASSUME NEW i \in Lines(wire'), NEW k \in 1..2, i + k <= n
               PROVE  wire'[i + k].id = wire'[i].id /\ wire'[i + k].part = 1 + k
    BY <1>2, <1>4 DEF PartsInv, Lines
  <2>1. i \in 1..n /\ i \in Lines(wire)
    BY <1>4 DEF Lines
  <2>2. i + k \in 1..n /\ i + k <= Len(wire)
    BY <1>4, <2>1
  <2> QED
    BY <1>4, <2>1, <2>2 DEF PartsInv
<1>8. ChunkInv' /\ KnowledgeInv'
    BY <1>2 DEF ChunkInv, KnowledgeInv, Lines
<1> QED
    BY <1>5, <1>6, <1>7, <1>8

\* A player moves: its new line is the last one.
LEMMA NotifyStep == ASSUME StreamInv, NEW q \in Player, Notify(q) PROVE StreamInv'
<1> USE DEF StreamInv
<1>1. /\ tile38 = "answered" /\ sent < MaxSent /\ sent' = sent + 1 /\ pc # "dial"
      /\ UNCHANGED <<pc, result, ctxDone, conn, tile38, chunk, view, cut>>
    BY DEF Notify, AnswerInv
<1>2. PICK e \in Events :
        /\ wire' = wire \o Notification(e, q)
        /\ inside' \subseteq Player
        /\ e \in {"enter", "inside"} <=> q \in inside'
        /\ \A p : p # q => (p \in inside <=> p \in inside')
  <2>1. inside \subseteq Player
    BY DEF TypeOK
  <2> QED
    BY <2>1 DEF Notify, Events
<1>3. wire' \in Seq(Part) /\ Longer(wire, wire', e, q)
    BY <1>2, Types, LongerElements
<1>4. PICK w \in Nat :
        /\ w = Len(wire) /\ Len(wire') = w + 3 /\ DOMAIN wire = 1..w /\ DOMAIN wire' = 1..(w + 3)
        /\ \A i \in 1..w : wire'[i] = wire[i]
        /\ \A k \in 1..3 : wire'[w + k] = [event |-> e, id |-> q, part |-> k]
  <2>1. Len(wire) \in Nat /\ DOMAIN wire = 1..Len(wire) /\ DOMAIN wire' = 1..Len(wire')
    BY <1>3, Types, Elements
  <2>2. /\ Len(wire') = Len(wire) + 3
        /\ \A i \in 1..Len(wire) : wire'[i] = wire[i]
        /\ \A k \in 1..3 : wire'[Len(wire) + k] = [event |-> e, id |-> q, part |-> k]
    BY <1>3 DEF Longer
  <2> QED
    BY <2>1, <2>2
<1>5. \A i \in 1..(w + 3) : i \in 1..w \/ (\E k \in 1..3 : i = w + k)
  <2>1. \A i \in 1..(w + 3) : i \in 1..w \/ (i - w \in 1..3 /\ i = w + (i - w))
    BY <1>4
  <2> QED
    BY <2>1
<1>11. /\ Lines(wire') = Lines(wire) \cup {w + 1}
       /\ LinesOf(wire', q) # {}
       /\ \A set : (e \in {"enter", "inside"} <=> q \in set) => LastTells(wire', q, set)
       /\ \A p : p # q => LinesOf(wire', p) = LinesOf(wire, p)
       /\ \A p, set, new :
            p # q /\ LastTells(wire, p, set) /\ (p \in set <=> p \in new) =>
                LastTells(wire', p, new)
  <2>1. wire \in Seq(Part) /\ w = Len(wire)
    BY <1>4, Types
  <2> QED
    BY <1>3, <2>1, LinesOfLonger
<1>6. TypeOK'
  <2>1. sent' \in 0..MaxSent
    BY <1>1, StreamAssumption DEF TypeOK
  <2> QED
    BY <1>1, <1>2, <1>3, <2>1 DEF TypeOK
<1>7. AnswerInv'
  <2>1. \A k \in 1..3 : /\ wire'[w + k].part # 0 /\ wire'[w + k].id \in Player
                        /\ wire'[w + k].event \in Events
    BY <1>4
  <2>2. pc = "handshake" => 1 \in 1..w /\ wire'[1].part = 0
    BY <1>1, <1>4, Types DEF AnswerInv
  <2>3. wire' # <<>>
    BY <1>3, <1>4, Elements
  <2>4. ASSUME NEW i \in 1..(w + 3)
        PROVE  IF wire'[i].part = 0 THEN pc = "handshake" /\ i = 1
               ELSE wire'[i].id \in Player /\ wire'[i].event \in Events
    BY <1>4, <1>5, <2>1, <2>4 DEF AnswerInv
  <2> QED
    BY <1>1, <1>4, <2>2, <2>3, <2>4 DEF AnswerInv
<1>8. PartsInv'
  <2> SUFFICES ASSUME NEW i \in Lines(wire'), NEW k \in 1..2
               PROVE  /\ i + k <= w + 3
                      /\ wire'[i + k].id = wire'[i].id /\ wire'[i + k].part = 1 + k
    BY <1>4 DEF PartsInv, Lines
  <2>1. CASE i \in Lines(wire)
    <3>1. /\ i \in 1..w /\ i + k <= w
          /\ wire[i + k].id = wire[i].id /\ wire[i + k].part = 1 + k
      BY <1>1, <1>4, <2>1 DEF PartsInv, Lines
    <3>2. i + k \in 1..w
      BY <1>4, <3>1
    <3> QED
      BY <1>4, <3>1, <3>2
  <2>2. CASE i = w + 1
    <3>1. PICK h \in 1..3 : h = 1 + k /\ i + k = w + h
      BY <1>4, <2>2
    <3>2. wire'[w + h].id = q /\ wire'[w + h].part = h /\ wire'[w + 1].id = q /\ w + h <= w + 3
      BY <1>4
    <3> QED
      BY <2>2, <3>1, <3>2
  <2> QED
    BY <1>11, <2>1, <2>2
<1>9. ChunkInv'
    BY <1>1 DEF ChunkInv, Lines
<1>10. KnowledgeInv'
  <2>1. ASSUME NEW p \in Player \ cut, Traced(p), p # q PROVE Traced(p)'
    <3>1. /\ LinesOf(wire', p) = LinesOf(wire, p) /\ LastTells(wire', p, inside')
      BY <1>2, <1>11, <2>1 DEF Traced
    <3>2. LastTells(chunk, p, inside) => LastTells(chunk, p, inside')
      BY <1>2, <2>1 DEF LastTells
    <3> QED
      BY <1>1, <1>2, <2>1, <3>1, <3>2 DEF Traced, LinesOf, Lines, LastTells
  <2>2. Traced(q)'
    <3>1. LinesOf(wire', q) # {} /\ LastTells(wire', q, inside')
      BY <1>2, <1>11
    <3> QED
      BY <3>1 DEF Traced, LinesOf, Lines, LastTells
  <2> QED
    BY <1>1, <2>1, <2>2 DEF KnowledgeInv
<1> QED
    BY <1>6, <1>7, <1>8, <1>9, <1>10

\* The answer alone is taken, or the stream returns.
LEMMA HandshakeStep == ASSUME StreamInv, Handshake PROVE StreamInv'
<1> USE DEF StreamInv
<1>1. /\ pc = "handshake" /\ Lines(chunk) = {}
      /\ UNCHANGED <<ctxDone, conn, tile38, inside, sent, chunk, view, cut>>
      /\ \/ pc' = "select" /\ result' = result
         \/ pc' = "returned" /\ result' = "error"
    BY DEF Handshake, ChunkInv, tileVars
<1>2. CASE wire = <<>> /\ UNCHANGED wire /\ tile38 = "down" /\ pc' = "returned"
  <2>1. TypeOK'
    BY <1>1, <1>2 DEF TypeOK
  <2> QED
    BY <1>1, <1>2, <2>1, QuietStep DEF tileVars
<1>3. ASSUME NEW n \in 1..Len(wire), wire' = SubSeq(wire, n + 1, Len(wire)),
             pc' = "select" => n = 1
      PROVE  StreamInv'
  <2>1. /\ wire' \in Seq(Part) /\ Rest(wire, wire', n)
        /\ PartsInv'
        /\ \A i \in 1..Len(wire') : /\ wire'[i].part # 0
                                    /\ wire'[i].id \in Player /\ wire'[i].event \in Events
    BY <1>1, <1>3, WireRest
  <2>2. TypeOK'
    BY <1>1, <2>1 DEF TypeOK
  <2>3. AnswerInv'
    <3>1. tile38 # "up"
      BY <1>3, Types DEF AnswerInv
    <3> QED
      BY <1>1, <2>1, <3>1 DEF AnswerInv
  <2>4. ChunkInv'
    BY <1>1 DEF ChunkInv, Lines
  <2>5. KnowledgeInv'
    <3>1. wire \in Seq(Part) /\ n \in 0..Len(wire)
      BY <1>3, Types
    <3>2. \A p, set : LastTells(wire, p, set) => LastTells(wire', p, set)
      BY <2>1, <3>1, LinesOfRest
    <3>3. ASSUME NEW p \in Player, Traced(p), pc' = "select", tile38 # "down"
          PROVE  Traced(p)'
      <4>1. /\ LastTells(wire', p, inside)
            /\ LinesOf(chunk, p) = {} /\ LastTells(chunk, p, inside)
        BY <1>1, <3>2, <3>3 DEF Traced, LinesOf, LastTells
      <4>2. LinesOf(wire', p) = {} => LinesOf(wire, p) = {}
        <5> SUFFICES ASSUME NEW i \in LinesOf(wire, p) PROVE LinesOf(wire', p) # {}
          OBVIOUS
        <5>1. i \in Lines(wire) /\ wire[i].id = p /\ i \in 1..Len(wire)
          BY Types DEF LinesOf, Lines
        <5>2. CASE i > n
          <6>1. i - n \in Lines(wire') /\ wire'[i - n] = wire[i]
            BY <2>1, <3>1, <5>1, <5>2, LinesOfRest
          <6> QED
            BY <5>1, <6>1 DEF LinesOf
        <5>3. CASE ~(i > n)
          <6>1. i = 1 /\ wire[i].part = 1
            BY <1>3, <3>3, <5>1, <5>3 DEF Lines
          <6>2. tile38 = "answered"
            BY <1>3, <3>3, Types DEF AnswerInv, TypeOK
          <6> QED
            BY <1>1, <6>1, <6>2 DEF AnswerInv
        <5> QED
          BY <5>2, <5>3
      <4> QED
        BY <1>1, <3>3, <4>1, <4>2 DEF Traced, LinesOf, Lines, LastTells
    <3> QED
      BY <1>1, <3>3 DEF KnowledgeInv
  <2> QED
    BY <2>1, <2>2, <2>3, <2>4, <2>5
<1> QED
  <2>1. \A n \in Lengths : n \in 1..Len(wire)
    BY StreamAssumption, Types DEF Lengths
  <2> QED
    BY <1>2, <1>3, <2>1 DEF Handshake

\* What is read goes from the wire to the chunk.
LEMMA ReadStep == ASSUME StreamInv, Read PROVE StreamInv'
<1> USE DEF StreamInv
<1>1. PICK n \in 1..Len(wire) :
        /\ chunk' = SubSeq(wire, 1, n)
        /\ wire' = SubSeq(wire, n + 1, Len(wire))
        /\ pc' = IF Lines(chunk') = {} THEN "select" ELSE "handle"
        /\ cut' = IF wire[n].part = 3 THEN cut ELSE cut \cup {wire[n].id}
  <2>1. \A n \in Lengths : n \in 1..Len(wire)
    BY StreamAssumption, Types DEF Lengths
  <2> QED
    BY <2>1 DEF Read
<1>2. /\ pc = "select" /\ Lines(chunk) = {}
      /\ UNCHANGED <<result, ctxDone, conn, tile38, inside, sent, view>>
    BY DEF Read, ChunkInv, tileVars
<1>3. wire \in Seq(Part) /\ Len(wire) \in Nat /\ n \in 0..Len(wire)
    BY Types
<1>4. /\ wire' \in Seq(Part) /\ Rest(wire, wire', n)
      /\ PartsInv'
      /\ \A i \in 1..Len(wire') : /\ wire'[i].part # 0
                                  /\ wire'[i].id \in Player /\ wire'[i].event \in Events
    BY <1>1, <1>2, WireRest
<1>5. chunk' \in Seq(Part) /\ First(wire, chunk', n)
    BY <1>1, <1>3, FirstElements
<1>6. \A i \in 1..Len(wire) : wire[i].id \in Player /\ wire[i].event \in Events
    BY <1>2 DEF AnswerInv
<1>7. /\ \A i : i \in Lines(chunk') <=> i \in 1..n /\ i \in Lines(wire)
      /\ \A p, set : LinesOf(wire', p) = {} /\ LastTells(wire, p, set) =>
            LastTells(chunk', p, set)
      /\ \A p : LinesOf(wire', p) = {} /\ LinesOf(chunk', p) = {} => LinesOf(wire, p) = {}
    BY <1>3, <1>4, <1>5, LinesOfFirst
<1>8. \A p, set : LastTells(wire, p, set) => LastTells(wire', p, set)
    BY <1>3, <1>4, LinesOfRest
<1>9. TypeOK'
  <2>1. cut' \subseteq Player
    BY <1>1, <1>6 DEF TypeOK
  <2>2. pc' \in {"select", "handle"}
    BY <1>1
  <2> QED
    BY <1>2, <1>4, <1>5, <2>1, <2>2 DEF TypeOK
<1>10. AnswerInv'
  <2>1. tile38 # "up" /\ pc' \in {"select", "handle"}
    BY <1>1, Types DEF AnswerInv
  <2> QED
    BY <1>2, <1>4, <2>1 DEF AnswerInv
<1>11. ChunkInv'
  <2>1. /\ Len(chunk') = n /\ n \in Nat
        /\ \A i \in 1..n : chunk'[i] = wire[i] /\ i \in 1..Len(wire)
    BY <1>3, <1>5 DEF First
  <2>2. ASSUME NEW i \in Lines(chunk')
        PROVE  /\ chunk'[i].id \in Player /\ chunk'[i].event \in Events
               /\ i + 2 > n => chunk'[i].id \in cut'
    <3>1. i \in 1..n /\ i \in Lines(wire) /\ chunk'[i] = wire[i] /\ wire[i].part = 1
      BY <1>7, <2>1 DEF Lines
    <3>2. ASSUME i + 2 > n PROVE wire[i].id \in cut'
      <4>1. n = i \/ n = i + 1
        BY <2>1, <3>1, <3>2
      <4>2. CASE n = i
        BY <1>1, <3>1, <4>2
      <4>3. CASE n = i + 1
        <5>1. wire[i + 1].id = wire[i].id /\ wire[i + 1].part = 1 + 1
          BY <1>3, <3>1, <4>3 DEF PartsInv
        <5> QED
          BY <1>1, <4>3, <5>1
      <4> QED
        BY <4>1, <4>2, <4>3
    <3> QED
      BY <1>6, <2>1, <3>1, <3>2
  <2>3. /\ pc' = "handle" => Lines(chunk') # {}
        /\ pc' \notin {"handle", "returned"} => Lines(chunk') = {}
    BY <1>1
  <2> QED
    BY <2>1, <2>2, <2>3 DEF ChunkInv, Lines
<1>12. KnowledgeInv'
  <2>1. \A p : LinesOf(chunk, p) = {}
    BY <1>2 DEF LinesOf
  <2>2. ASSUME NEW p \in Player, Traced(p) PROVE Traced(p)'
    <3>1. LastTells(wire, p, inside) /\ LastTells(wire', p, inside)
      BY <1>8, <2>2 DEF Traced
    <3>2. LinesOf(wire', p) = {} => LastTells(chunk', p, inside)
      BY <1>7, <3>1
    <3>3. LinesOf(wire', p) = {} /\ LinesOf(chunk', p) = {} =>
              view[p] = IF p \in inside THEN "in" ELSE "out"
      BY <1>7, <2>1, <2>2 DEF Traced
    <3> QED
      BY <1>2, <3>1, <3>2, <3>3 DEF Traced, LinesOf, Lines, LastTells
  <2>3. cut \subseteq cut'
    BY <1>1
  <2>4. tile38' # "down" => \A p \in Player \ cut' : Traced(p)'
    BY <1>2, <2>2, <2>3 DEF KnowledgeInv
  <2>5. cut' = {} => view'[NoId] = "out"
    BY <1>2, <2>3 DEF KnowledgeInv
  <2> QED
    BY <2>4, <2>5 DEF KnowledgeInv
<1> QED
    BY <1>4, <1>9, <1>10, <1>11, <1>12

\* The callback is told the next line, which may be the last one of its player.
LEMMA HandleStep == ASSUME StreamInv, Handle PROVE StreamInv'
<1> USE DEF StreamInv
<1>1. PICK i \in Lines(chunk) :
        /\ \A j \in Lines(chunk) : i <= j
        /\ view' = [view EXCEPT ![Detection(i).id] = Known(Detection(i))]
        /\ chunk' = SubSeq(chunk, i + 1, Len(chunk))
    BY DEF Handle
<1>2. /\ pc = "handle" /\ pc' = IF Lines(chunk') = {} THEN "select" ELSE "handle"
      /\ UNCHANGED <<result, ctxDone, conn, tile38, inside, sent, wire, cut>>
    BY DEF Handle, tileVars
<1>3. /\ chunk \in Seq(Part) /\ Len(chunk) \in Nat /\ i \in 1..Len(chunk)
      /\ i \in 0..Len(chunk) /\ DOMAIN chunk = 1..Len(chunk)
    BY Types DEF Lines
<1>4. chunk' \in Seq(Part) /\ Rest(chunk, chunk', i)
    BY <1>1, <1>3, RestElements
<1>5. /\ \A j : j \in Lines(chunk') <=> j \in 1..Len(chunk') /\ j + i \in Lines(chunk)
      /\ \A j \in Lines(chunk) : j > i => j - i \in Lines(chunk') /\ chunk'[j - i] = chunk[j]
      /\ \A p, set : LastTells(chunk, p, set) => LastTells(chunk', p, set)
    BY <1>3, <1>4, LinesOfRest
<1>6. /\ chunk[i].id \in Player /\ chunk[i].event \in Events
      /\ i + 2 > Len(chunk) => chunk[i].id \in cut
    BY DEF ChunkInv
<1>7. /\ view \in [Player \cup {NoId} -> {"out", "in", "astray"}]
      /\ Detection(i).id \in {chunk[i].id, NoId}
      /\ Known(Detection(i)) \in {"out", "in", "astray"}
    BY DEF TypeOK, Detection, Known
<1>8. TypeOK'
  <2>1. view' \in [Player \cup {NoId} -> {"out", "in", "astray"}]
    BY <1>1, <1>6, <1>7
  <2>2. pc' \in {"select", "handle"}
    BY <1>2
  <2> QED
    BY <1>2, <1>4, <2>1, <2>2 DEF TypeOK
<1>9. AnswerInv' /\ PartsInv'
  <2>1. AnswerInv'
    BY <1>2 DEF AnswerInv
  <2>2. PartsInv'
    BY <1>2 DEF PartsInv, Lines
  <2> QED
    BY <2>1, <2>2
<1>10. ChunkInv'
  <2>1. /\ Len(chunk') = Len(chunk) - i /\ \A j \in 1..Len(chunk') : chunk'[j] = chunk[j + i]
    BY <1>4 DEF Rest
  <2>2. ASSUME NEW j \in Lines(chunk')
        PROVE  /\ chunk'[j].id \in Player /\ chunk'[j].event \in Events
               /\ j + 2 > Len(chunk') => chunk'[j].id \in cut
    <3>1. j \in 1..Len(chunk') /\ j + i \in Lines(chunk) /\ chunk'[j] = chunk[j + i]
      BY <1>5, <2>1
    <3>2. /\ chunk[j + i].id \in Player /\ chunk[j + i].event \in Events
          /\ (j + i) + 2 > Len(chunk) => chunk[j + i].id \in cut
      BY <3>1 DEF ChunkInv
    <3>3. j + 2 > Len(chunk') => (j + i) + 2 > Len(chunk)
      BY <1>3, <2>1, <3>1
    <3> QED
      BY <3>1, <3>2, <3>3
  <2>3. /\ pc' = "handle" => Lines(chunk') # {}
        /\ pc' \notin {"handle", "returned"} => Lines(chunk') = {}
    BY <1>2
  <2> QED
    BY <1>2, <2>2, <2>3 DEF ChunkInv, Lines
<1>11. ASSUME NEW p \in Player \ cut, Traced(p) PROVE Traced(p)'
  <2>1. LastTells(wire, p, inside)
    BY <1>11 DEF Traced
  <2>2. LinesOf(wire, p) = {} => LastTells(chunk, p, inside) /\ LastTells(chunk', p, inside)
    BY <1>5, <1>11 DEF Traced
  <2>3. ASSUME LinesOf(wire, p) = {}, LinesOf(chunk', p) = {}
        PROVE  view'[p] = IF p \in inside THEN "in" ELSE "out"
    <3>1. \A j \in LinesOf(chunk, p) : j = i
      <4> SUFFICES ASSUME NEW j \in LinesOf(chunk, p), j # i PROVE FALSE
        OBVIOUS
      <4>1. j \in Lines(chunk) /\ chunk[j].id = p /\ j \in Nat /\ i <= j
        BY <1>1, <1>3 DEF LinesOf, Lines
      <4>2. j > i
        BY <1>3, <4>1
      <4>3. j - i \in LinesOf(chunk', p)
        BY <1>5, <4>1, <4>2 DEF LinesOf
      <4> QED
        BY <2>3, <4>3
    <3>2. CASE chunk[i].id = p
      <4>1. i \in LinesOf(chunk, p) /\ \A j \in LinesOf(chunk, p) : j <= i
        BY <1>3, <3>1, <3>2 DEF LinesOf
      <4>2. chunk[i].event \in {"enter", "inside"} <=> p \in inside
        BY <2>2, <2>3, <4>1 DEF LastTells
      <4>3. ~(i + 2 > Len(chunk))
        BY <1>6, <3>2
      <4>4. i + 1 \in DOMAIN chunk /\ i + 2 \in DOMAIN chunk
        BY <1>3, <4>3
      <4>5. Detection(i).id = p /\ Detection(i).placed
        BY <3>2, <4>4 DEF Detection
      <4>6. Known(Detection(i)) = IF p \in inside THEN "in" ELSE "out"
        BY <1>6, <4>2, <4>5 DEF Known, Detection, Events
      <4> QED
        BY <1>1, <1>7, <4>5, <4>6
    <3>3. CASE chunk[i].id # p
      <4>1. LinesOf(chunk, p) = {}
        BY <3>1, <3>3 DEF LinesOf
      <4>2. view[p] = IF p \in inside THEN "in" ELSE "out"
        BY <1>11, <2>3, <4>1 DEF Traced
      <4>3. Detection(i).id # p
        BY <1>7, <3>3, StreamAssumption
      <4> QED
        BY <1>1, <1>7, <4>2, <4>3
    <3> QED
      BY <3>2, <3>3
  <2> QED
    BY <1>2, <2>1, <2>2, <2>3 DEF Traced, LinesOf, Lines, LastTells
<1>12. cut = {} => view'[NoId] = "out"
  <2> SUFFICES ASSUME cut = {} PROVE view'[NoId] = "out"
    OBVIOUS
  <2>1. i + 1 \in DOMAIN chunk
    BY <1>3, <1>6
  <2>2. Detection(i).id # NoId
    BY <1>6, <2>1, StreamAssumption DEF Detection
  <2> QED
    BY <1>1, <1>7, <2>2 DEF KnowledgeInv
<1>13. KnowledgeInv'
    BY <1>2, <1>11, <1>12 DEF KnowledgeInv
<1> QED
    BY <1>8, <1>9, <1>10, <1>13

\* What Tile38 sent and the callback was not told is on the wire or in the chunk,
\* for any number of players, notifications and parts of a read.
THEOREM StreamInductive == Spec => []StreamInv
<1>1. StreamInv /\ [Next]_vars => StreamInv'
    BY AnswerStep, NotifyStep, GoDownStep, HandshakeStep, ReadStep, HandleStep, QuietSteps
       DEF Next, Returned
<1> QED
    BY <1>1, InitStreamInv, PTL DEF Spec

\* The loop never takes the answer of the handshake for a notification, and a
\* detection is always that of an event of Tile38: handleDetection.
THEOREM TypeCorrect == Spec => []TypeOK
<1>1. StreamInv => TypeOK
    BY DEF StreamInv
<1> QED
    BY <1>1, StreamInductive, PTL

\* Once everything that arrived was handled, the callback of the stream knows who is
\* inside, but for the players with a notification that a read cut.
THEOREM ViewIsExactAlways == Spec => []ViewIsExact
<1>1. StreamInv => ViewIsExact
  <2> SUFFICES ASSUME StreamInv, pc = "select", wire = <<>>, tile38 = "answered"
               PROVE  ViewIsExact
    BY DEF ViewIsExact
  <2>1. \A p : LinesOf(wire, p) = {} /\ LinesOf(chunk, p) = {}
    BY DEF StreamInv, ChunkInv, LinesOf, Lines
  <2> QED
    BY <2>1 DEF StreamInv, KnowledgeInv, Traced, ViewIsExact
<1> QED
    BY <1>1, StreamInductive, PTL

=============================================================================
