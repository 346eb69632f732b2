---------------------------- MODULE InboxProofs ----------------------------
(***************************************************************************)
(* What a connection reads, for any size of the buffer, of the messages    *)
(* and of their number.  Instead of the frames that the wire still holds,  *)
(* in their order, WireInv says of each of its units where the others of   *)
(* its message are and what follows its last one.                          *)
(***************************************************************************)
EXTENDS Inbox, SequenceTheorems, TLAPS

Unit(m, k) == [msg |-> m, place |-> k]

\* The types of the variables; x/net takes one frame at a time, and the buffer of
\* gobwas is never replaced.
TypeInv ==
    /\ driver \in {"xnet", "gobwas"}
    /\ sent \in Seq([size : Nat, known : BOOLEAN])
    /\ wire \in Seq([msg : Nat, place : Nat])
    /\ pc \in {"reading", "ended"}
    /\ buffer \in Seq(Nat)
    /\ told \in Seq([msg : Nat, rest : SUBSET Nat])
    /\ spilled \in BOOLEAN
    /\ driver = "xnet" => ~spilled
    /\ driver = "gobwas" => Len(buffer) = BufferSize

\* The wire from its unit i on: the units of the message up to the last one, then
\* the next message, or nothing after the last one that was sent.
UnitInv(i) ==
    LET m == wire[i].msg
        k == wire[i].place
    IN  /\ m \in 1..Len(sent) /\ k \in 0..sent[m].size
        /\ \A l \in k..sent[m].size :
            i + (l - k) <= Len(wire) /\ wire[i + (l - k)] = Unit(m, l)
        /\ k = sent[m].size =>
            IF i = Len(wire) THEN m = Len(sent) ELSE wire[i + 1] = Unit(m + 1, 0)

\* Before a read spills, reads begin at the beginning of a frame.
WireInv ==
    /\ \A i \in 1..Len(wire) : UnitInv(i)
    /\ ~spilled /\ wire # <<>> => Head(wire).place = 0

\* Nothing in the buffer is from a message that was not read, unless a read spilled.
BufferInv == ~spilled => \A i \in 1..Len(buffer) : buffer[i] < Unread

IInv == TypeInv /\ WireInv /\ BufferInv /\ HandledInOrder /\ OnlyOlderLeftovers

-----------------------------------------------------------------------------
(* Sequences *)

LEMMA Elements ==
    ASSUME NEW S, NEW s \in Seq(S)
    PROVE  /\ Len(s) \in Nat /\ DOMAIN s = 1..Len(s)
           /\ \A i \in 1..Len(s) : s[i] \in S
           /\ s = <<>> <=> Len(s) = 0
           /\ s # <<>> => Head(s) = s[1]
<1>1. Len(s) \in Nat /\ DOMAIN s = 1..Len(s)
    BY LenProperties
<1>2. \A i \in 1..Len(s) : s[i] \in S
    BY ElementOfSeq
<1>3. s = <<>> <=> Len(s) = 0
    BY <1>1, EmptySeq
<1> QED
    BY <1>1, <1>2, <1>3

\* What a sequence is from its element k on.
LEMMA Dropped ==
    ASSUME NEW S, NEW s \in Seq(S), NEW k \in 1..(Len(s) + 1)
    PROVE  LET t == SubSeq(s, k, Len(s))
           IN  /\ t \in Seq(S) /\ Len(t) = (Len(s) - k) + 1
               /\ \A i \in 1..Len(t) : t[i] = s[i + (k - 1)]
<1> DEFINE t == SubSeq(s, k, Len(s))
<1>1. Len(s) \in Nat /\ k \in Nat /\ \A i \in 1..Len(s) : s[i] \in S
    BY Elements
<1>2. k \in Int /\ Len(s) \in Int /\ \A i \in k..Len(s) : s[i] \in S
    BY <1>1
<1>3. /\ t \in Seq(S)
      /\ Len(t) = IF k <= Len(s) THEN Len(s) - k + 1 ELSE 0
      /\ \A i \in 1..(Len(s) - k + 1) : t[i] = s[k + i - 1]
    BY <1>2, SubSeqProperties
<1>4. Len(t) = (Len(s) - k) + 1
    BY <1>1, <1>3
<1>5. ASSUME NEW i \in 1..Len(t) PROVE t[i] = s[i + (k - 1)]
  <2>1. i \in 1..(Len(s) - k + 1) /\ k + i - 1 = i + (k - 1)
    BY <1>1, <1>4
  <2> QED
    BY <1>3, <2>1
<1> QED
    BY <1>3, <1>4, <1>5

\* The elements of the sequences of the model.
LEMMA TypesOfElements ==
    ASSUME TypeInv
    PROVE  /\ Len(sent) \in Nat /\ Len(wire) \in Nat
           /\ Len(buffer) \in Nat /\ Len(told) \in Nat
           /\ \A m \in 1..Len(sent) : sent[m].size \in Nat /\ sent[m].known \in BOOLEAN
           /\ \A i \in 1..Len(wire) : wire[i].msg \in Nat /\ wire[i].place \in Nat
           /\ \A i \in 1..Len(buffer) : buffer[i] \in Nat
           /\ \A i \in 1..Len(told) : told[i].msg \in Nat /\ told[i].rest \subseteq Nat
           /\ wire = <<>> <=> Len(wire) = 0
           /\ wire # <<>> => Head(wire) = wire[1]
           /\ DOMAIN told = 1..Len(told)
<1>1. /\ Len(sent) \in Nat
      /\ \A m \in 1..Len(sent) : sent[m] \in [size : Nat, known : BOOLEAN]
    BY Elements DEF TypeInv
<1>2. /\ Len(wire) \in Nat
      /\ \A i \in 1..Len(wire) : wire[i] \in [msg : Nat, place : Nat]
      /\ wire = <<>> <=> Len(wire) = 0
      /\ wire # <<>> => Head(wire) = wire[1]
    BY Elements DEF TypeInv
<1>3. Len(buffer) \in Nat /\ \A i \in 1..Len(buffer) : buffer[i] \in Nat
    BY Elements DEF TypeInv
<1>4. /\ Len(told) \in Nat /\ DOMAIN told = 1..Len(told)
      /\ \A i \in 1..Len(told) : told[i] \in [msg : Nat, rest : SUBSET Nat]
    BY Elements DEF TypeInv
<1> QED
    BY <1>1, <1>2, <1>3, <1>4

-----------------------------------------------------------------------------
(* The wire *)

\* A read takes the units before the unit from.
TakenTo(from) == wire' = SubSeq(wire, from, Len(wire)) /\ sent' = sent

\* What is taken from the head of the wire leaves the rest as it was.
LEMMA Suffix ==
    ASSUME TypeInv, WireInv, NEW from \in 1..(Len(wire) + 1), TakenTo(from)
    PROVE  /\ wire' \in Seq([msg : Nat, place : Nat])
           /\ \A i \in 1..Len(wire') : UnitInv(i)'
           /\ wire' = <<>> <=> from = Len(wire) + 1
           /\ wire' # <<>> => Head(wire') = wire[from]
<1>0. /\ wire' \in Seq([msg : Nat, place : Nat])
      /\ Len(wire') = (Len(wire) - from) + 1
      /\ \A i \in 1..Len(wire') : wire'[i] = wire[i + (from - 1)]
  <2>1. wire \in Seq([msg : Nat, place : Nat]) /\ wire' = SubSeq(wire, from, Len(wire))
    BY DEF TypeInv, TakenTo
  <2> QED
    BY <2>1, Dropped
<1>1. PICK w \in Nat : w = Len(wire)
    BY TypesOfElements
<1>2. PICK n \in Nat : n = from - 1 /\ n <= w
    BY <1>1
<1>3. Len(wire') = w - n /\ w - n \in Nat /\ from = n + 1
    BY <1>0, <1>1, <1>2
<1>4. \A i \in 1..(w - n) : wire'[i] = wire[i + n]
    BY <1>0, <1>2, <1>3
<1>5. /\ wire' = <<>> <=> from = Len(wire) + 1
      /\ wire' # <<>> => Head(wire') = wire[from]
  <2>1. (wire' = <<>> <=> Len(wire') = 0) /\ (wire' # <<>> => Head(wire') = wire'[1])
    BY <1>0, Elements
  <2>2. w - n = 0 <=> from = w + 1
    BY <1>3
  <2>3. w - n # 0 => 1 \in 1..(w - n) /\ 1 + n = from
    BY <1>3
  <2> QED
    BY <1>1, <1>3, <1>4, <2>1, <2>2, <2>3
<1>6. ASSUME NEW i \in 1..(w - n) PROVE UnitInv(i)'
  <2>1. PICK j \in 1..w : j = i + n
    BY <1>3
  <2>2. PICK m, k : m = wire[j].msg /\ k = wire[j].place
    OBVIOUS
  <2>3. UnitInv(j) /\ m \in Nat /\ k \in Nat /\ wire'[i] = wire[j]
    BY <1>1, <1>4, <2>1, <2>2, TypesOfElements DEF WireInv
  <2>4. PICK size \in Nat : /\ size = sent[m].size
                            /\ m \in 1..Len(sent) /\ k \in 0..size
    BY <2>2, <2>3, TypesOfElements DEF UnitInv
  <2>5. ASSUME NEW l \in k..size
        PROVE  i + (l - k) <= Len(wire') /\ wire'[i + (l - k)] = Unit(m, l)
    <3>1. PICK d \in Nat : d = l - k
      BY <2>3, <2>4
    <3>2. j + d <= w /\ wire[j + d] = Unit(m, l)
      BY <1>1, <2>2, <2>3, <2>4, <3>1 DEF UnitInv
    <3>3. i + d \in 1..(w - n) /\ (i + d) + n = j + d
      BY <1>3, <2>1, <3>2
    <3>4. i + d <= w - n
      BY <3>3
    <3>5. wire'[i + d] = Unit(m, l)
      BY <1>4, <3>2, <3>3
    <3> QED
      BY <1>3, <3>1, <3>4, <3>5
  <2>6. ASSUME k = size
        PROVE  IF i = Len(wire') THEN m = Len(sent) ELSE wire'[i + 1] = Unit(m + 1, 0)
    <3>1. IF j = w THEN m = Len(sent) ELSE wire[j + 1] = Unit(m + 1, 0)
      BY <1>1, <2>2, <2>3, <2>4, <2>6 DEF UnitInv
    <3>2. i = w - n <=> j = w
      BY <1>3, <2>1
    <3>3. i # w - n => i + 1 \in 1..(w - n) /\ (i + 1) + n = j + 1
      BY <1>3, <2>1
    <3> QED
      BY <1>3, <1>4, <3>1, <3>2, <3>3
  <2> QED
    BY <2>2, <2>3, <2>4, <2>5, <2>6 DEF UnitInv, TakenTo
<1> QED
    BY <1>0, <1>3, <1>5, <1>6

\* A frame at the head of the wire is there as a whole, and the next one is after it.
LEMMA HeadFrame ==
    ASSUME TypeInv, WireInv, wire # <<>>, Head(wire).place = 0,
           NEW m, m = Head(wire).msg
    PROVE  /\ m \in 1..Len(sent) /\ Unread = m
           /\ sent[m].size \in Nat /\ sent[m].known \in BOOLEAN
           /\ sent[m].size + 1 <= Len(wire)
           /\ \A i \in 1..(sent[m].size + 1) : wire[i].msg = m
           /\ IF sent[m].size + 1 = Len(wire) THEN m = Len(sent)
              ELSE wire[sent[m].size + 2] = Unit(m + 1, 0)
<1>1. Len(wire) \in Nat /\ 1 \in 1..Len(wire) /\ Head(wire) = wire[1]
    BY TypesOfElements
<1>2. UnitInv(1) /\ wire[1].msg = m /\ wire[1].place = 0
    BY <1>1 DEF WireInv
<1> DEFINE s == sent[m].size
<1>3. m \in 1..Len(sent) /\ Unread = m /\ s \in Nat /\ sent[m].known \in BOOLEAN
    BY <1>1, <1>2, TypesOfElements DEF UnitInv, Unread
<1>4. \A l \in 0..s : 1 + l <= Len(wire) /\ wire[1 + l] = Unit(m, l)
  <2>1. \A l \in 0..s : 1 + (l - 0) <= Len(wire) /\ wire[1 + (l - 0)] = Unit(m, l)
    BY <1>2 DEF UnitInv
  <2> QED
    BY <2>1, <1>3
<1>5. s + 1 <= Len(wire) /\ wire[s + 1] = Unit(m, s)
    BY <1>3, <1>4
<1>6. \A i \in 1..(s + 1) : wire[i].msg = m
  <2> SUFFICES ASSUME NEW i \in 1..(s + 1) PROVE wire[i].msg = m
    OBVIOUS
  <2>1. i - 1 \in 0..s /\ 1 + (i - 1) = i
    BY <1>3
  <2>2. wire[1 + (i - 1)] = Unit(m, i - 1)
    BY <1>4, <2>1
  <2> QED
    BY <2>1, <2>2 DEF Unit
<1>7. UnitInv(s + 1)
    BY <1>1, <1>3, <1>5 DEF WireInv
<1>8. IF s + 1 = Len(wire) THEN m = Len(sent) ELSE wire[(s + 1) + 1] = Unit(m + 1, 0)
    BY <1>5, <1>7 DEF UnitInv, Unit
<1>9. (s + 1) + 1 = s + 2
    BY <1>3
<1> QED
    BY <1>3, <1>5, <1>6, <1>8, <1>9

\* Once it was taken, the next read begins at the beginning of the next message.
LEMMA FrameTaken ==
    ASSUME TypeInv, WireInv, wire # <<>>, Head(wire).place = 0,
           NEW m, m = Head(wire).msg, NEW from, from = sent[m].size + 2,
           TakenTo(from)
    PROVE  /\ WireInv'
           /\ Unread' = m + 1
<1>1. PICK s \in Nat :
        /\ s = sent[m].size /\ m \in 1..Len(sent) /\ s + 1 <= Len(wire)
        /\ IF s + 1 = Len(wire) THEN m = Len(sent) ELSE wire[s + 2] = Unit(m + 1, 0)
    BY HeadFrame
<1>2. Len(wire) \in Nat /\ Len(sent) \in Nat
    BY TypesOfElements
<1>3. from \in 1..(Len(wire) + 1) /\ (from = Len(wire) + 1 <=> s + 1 = Len(wire))
  <2>1. from = s + 2 /\ s + 1 <= Len(wire)
    BY <1>1
  <2> QED
    BY <1>2, <2>1
<1>4. /\ \A i \in 1..Len(wire') : UnitInv(i)'
      /\ wire' = <<>> <=> from = Len(wire) + 1
      /\ wire' # <<>> => Head(wire') = wire[from]
    BY <1>3, Suffix
<1>5. ASSUME wire' # <<>> PROVE Head(wire').msg = m + 1 /\ Head(wire').place = 0
  <2>1. wire[from] = Unit(m + 1, 0)
    BY <1>1, <1>3, <1>4, <1>5
  <2> QED
    BY <1>4, <1>5, <2>1 DEF Unit
<1>6. wire' = <<>> => Len(sent') + 1 = m + 1
    BY <1>1, <1>3, <1>4 DEF TakenTo
<1>7. WireInv'
    BY <1>4, <1>5 DEF WireInv
<1> QED
    BY <1>5, <1>6, <1>7 DEF Unread

\* A new message goes to the end of the wire.
LEMMA FrameSent ==
    ASSUME TypeInv, WireInv, NEW size \in Nat, NEW known \in BOOLEAN, Send(size, known)
    PROVE  /\ TypeInv' /\ WireInv'
           /\ Unread' = Unread
           /\ \A m \in 1..Len(sent) : sent'[m] = sent[m]
<1> DEFINE n == Len(sent)
           w == Len(wire)
           f == [i \in 1..(size + 1) |-> [msg |-> n + 1, place |-> i - 1]]
<1>1. n \in Nat /\ w \in Nat /\ UNCHANGED <<driver, pc, buffer, told, spilled>>
    BY TypesOfElements DEF Send
<1>2. /\ sent' = Append(sent, [size |-> size, known |-> known])
      /\ sent' \in Seq([size : Nat, known : BOOLEAN])
      /\ Len(sent') = n + 1 /\ sent'[n + 1] = [size |-> size, known |-> known]
      /\ \A m \in 1..n : sent'[m] = sent[m]
  <2>1. [size |-> size, known |-> known] \in [size : Nat, known : BOOLEAN]
    OBVIOUS
  <2> QED
    BY <2>1, AppendProperties DEF Send, TypeInv
<1>3. f \in Seq([msg : Nat, place : Nat]) /\ Len(f) = size + 1
  <2>1. \A i \in 1..(size + 1) : [msg |-> n + 1, place |-> i - 1] \in [msg : Nat, place : Nat]
    BY <1>1
  <2>2. size + 1 \in Nat
    OBVIOUS
  <2> QED
    BY <2>1, <2>2
<1>4. wire' = wire \o f
    BY DEF Send
<1>5. /\ wire' \in Seq([msg : Nat, place : Nat]) /\ Len(wire') = w + (size + 1)
      /\ \A i \in 1..w : wire'[i] = wire[i]
      /\ \A i \in (w + 1)..(w + (size + 1)) : wire'[i] = f[i - w]
  <2> HIDE DEF f
  <2>1. /\ wire' \in Seq([msg : Nat, place : Nat])
        /\ Len(wire') = w + Len(f)
        /\ \A i \in 1..(w + Len(f)) : wire'[i] = IF i <= w THEN wire[i] ELSE f[i - w]
    BY <1>3, <1>4, ConcatProperties DEF TypeInv
  <2>2. \A i \in (w + 1)..(w + (size + 1)) : ~(i <= w) /\ i \in 1..(w + Len(f))
    BY <1>1, <1>3
  <2>3. \A i \in 1..w : i <= w /\ i \in 1..(w + Len(f))
    BY <1>1, <1>3
  <2> HIDE DEF w
  <2> QED
    BY <1>3, <2>1, <2>2, <2>3
<1>6. \A i \in (w + 1)..(w + (size + 1)) : wire'[i] = Unit(n + 1, (i - w) - 1)
  <2> SUFFICES ASSUME NEW i \in (w + 1)..(w + (size + 1))
               PROVE  f[i - w] = Unit(n + 1, (i - w) - 1)
    BY <1>5
  <2>1. i - w \in 1..(size + 1)
    BY <1>1
  <2> QED
    BY <2>1 DEF Unit
<1>7. ASSUME NEW i \in 1..w PROVE UnitInv(i)'
  <2>1. /\ UnitInv(i) /\ wire[i].msg \in Nat /\ wire[i].place \in Nat
        /\ wire'[i] = wire[i]
    BY <1>5, TypesOfElements DEF WireInv
  <2> DEFINE m == wire[i].msg
             k == wire[i].place
  <2>2. m \in 1..n /\ k \in 0..sent[m].size /\ sent[m].size \in Nat /\ sent'[m] = sent[m]
    BY <1>2, <2>1, TypesOfElements DEF UnitInv
  <2>3. ASSUME NEW l \in k..sent[m].size
        PROVE  i + (l - k) <= Len(wire') /\ wire'[i + (l - k)] = Unit(m, l)
    <3>1. i + (l - k) <= w /\ wire[i + (l - k)] = Unit(m, l)
      BY <2>1 DEF UnitInv
    <3>2. i + (l - k) \in 1..w
      <4> HIDE DEF k, m, w
      <4> QED
        BY <1>1, <2>1, <2>2, <3>1
    <3>3. i + (l - k) <= Len(wire')
      <4> HIDE DEF k, m, w, f
      <4> QED
        BY <1>1, <1>5, <3>2
    <3> QED
      BY <1>5, <3>1, <3>2, <3>3
  <2>4. ASSUME k = sent[m].size
        PROVE  IF i = Len(wire') THEN m = n + 1 ELSE wire'[i + 1] = Unit(m + 1, 0)
    <3>1. i # Len(wire')
      BY <1>1, <1>5
    <3>2. CASE i = w
      <4>1. m = n
        BY <2>1, <2>4, <3>2 DEF UnitInv
      <4>2. wire'[w + 1] = Unit(n + 1, ((w + 1) - w) - 1)
        BY <1>1, <1>6
      <4>3. ((w + 1) - w) - 1 = 0
        BY <1>1
      <4> QED
        BY <3>1, <3>2, <4>1, <4>2, <4>3
    <3>3. CASE i # w
      <4>1. wire[i + 1] = Unit(m + 1, 0)
        BY <2>1, <2>4, <3>3 DEF UnitInv
      <4>2. i + 1 \in 1..w
        <5> HIDE DEF w
        <5> QED
          BY <1>1, <3>3
      <4>3. wire'[i + 1] = wire[i + 1]
        BY <1>5, <4>2
      <4> QED
        BY <3>1, <4>1, <4>3
    <3> QED
      BY <3>2, <3>3
  <2>5. m \in 1..Len(sent') /\ sent'[m] = sent[m] /\ Len(sent') = n + 1
    BY <1>1, <1>2, <2>2
  <2> HIDE DEF n, w, f
  <2> QED
    BY <2>1, <2>2, <2>3, <2>4, <2>5 DEF UnitInv
<1>8. ASSUME NEW i \in (w + 1)..(w + (size + 1)) PROVE UnitInv(i)'
  <2>0. PICK k \in 0..size : k = (i - w) - 1
    <3> HIDE DEF w
    <3> QED
      BY <1>1
  <2>1. wire'[i].msg = n + 1 /\ wire'[i].place = k
    <3>1. wire'[i] = Unit(n + 1, k)
      BY <1>6, <2>0
    <3> QED
      BY <3>1 DEF Unit
  <2>2. sent'[n + 1].size = size /\ n + 1 \in 1..Len(sent')
    BY <1>1, <1>2
  <2>3. ASSUME NEW l \in k..size
        PROVE  i + (l - k) <= Len(wire') /\ wire'[i + (l - k)] = Unit(n + 1, l)
    <3>1. /\ i + (l - k) \in (w + 1)..(w + (size + 1))
          /\ ((i + (l - k)) - w) - 1 = l
      <4> HIDE DEF w
      <4> QED
        BY <1>1, <2>0
    <3>2. i + (l - k) <= Len(wire')
      <4> HIDE DEF w, f
      <4> QED
        BY <1>1, <1>5, <3>1
    <3>3. wire'[i + (l - k)] = Unit(n + 1, ((i + (l - k)) - w) - 1)
      BY <1>6, <3>1
    <3> QED
      BY <3>1, <3>2, <3>3
  <2>4. k = size => i = Len(wire')
    BY <1>1, <1>5, <2>0
  <2> HIDE DEF w, f
  <2> QED
    BY <1>2, <2>1, <2>2, <2>3, <2>4 DEF UnitInv
<1>9. \A i \in 1..Len(wire') : UnitInv(i)'
    BY <1>1, <1>5, <1>7, <1>8
<1>10. CASE wire = <<>>
  <2>1. w = 0
    BY <1>10
  <2>2. wire' # <<>> /\ Head(wire') = Unit(n + 1, 0)
    BY <1>1, <1>5, <1>6, <2>1
  <2> QED
    BY <1>1, <1>2, <1>5, <1>9, <1>10, <2>2 DEF TypeInv, WireInv, Unread, Unit
<1>11. CASE wire # <<>>
  <2>1. w >= 1
    BY <1>1, <1>11 DEF TypeInv
  <2>2. wire' # <<>> /\ Head(wire') = Head(wire)
    BY <1>1, <1>5, <1>11, <2>1 DEF TypeInv
  <2> QED
    BY <1>1, <1>2, <1>5, <1>9, <1>11, <2>2 DEF TypeInv, WireInv, Unread
<1> QED
    BY <1>10, <1>11

-----------------------------------------------------------------------------
(* The callbacks *)

\* What a callback finds in the buffer after its message.
Rest(m, buf) == {buf[i] : i \in (sent[m].size + 1)..Len(buf)} \ {0}

\* A message that is read is told to its callback, or it has none, or the
\* connection ends.
LEMMA Outcomes ==
    ASSUME TypeInv, NEW m \in 1..Len(sent), NEW buf \in Seq(Nat), pc = "reading",
           Dispatch(m, buf)
    PROVE  /\ buffer' = buf /\ pc' \in {"reading", "ended"}
           /\ \/ told' = told /\ (pc' = "reading" => ~Callable(m))
              \/ told' = Append(told, [msg |-> m, rest |-> Rest(m, buf)]) /\ Callable(m)
<1>1. sent[m].size \in Nat
    BY TypesOfElements
<1> QED
    BY <1>1 DEF Dispatch, End, Callable, Rest

\* A callback that is called for the message at the head of the wire keeps what is
\* promised of the calls.
LEMMA Told ==
    ASSUME TypeInv, HandledInOrder, OnlyOlderLeftovers, pc = "reading",
           NEW m \in 1..Len(sent), NEW buf \in Seq(Nat), Dispatch(m, buf),
           sent' = sent, driver' = driver, spilled' \in BOOLEAN,
           ~spilled' => ~spilled /\ Unread = m /\ Unread' = m + 1,
           driver = "xnet" => Rest(m, buf) = {},
           ~spilled' => \A x \in Rest(m, buf) : x < m
    PROVE  /\ told' \in Seq([msg : Nat, rest : SUBSET Nat])
           /\ HandledInOrder' /\ OnlyOlderLeftovers'
<1> DEFINE n == Len(told)
           call == [msg |-> m, rest |-> Rest(m, buf)]
<1>1. /\ n \in Nat /\ DOMAIN told = 1..n /\ m \in Nat
      /\ told \in Seq([msg : Nat, rest : SUBSET Nat])
    BY TypesOfElements DEF TypeInv
<1>2. \A x : Callable(x)' = Callable(x)
    BY DEF Callable
<1>3. CASE told' = told /\ (pc' = "reading" => ~Callable(m))
  <2>1. HandledInOrder'
    <3> SUFFICES ASSUME pc' = "reading", ~spilled' PROVE HandledInOrder'
      BY DEF HandledInOrder
    <3>1. /\ {told[i].msg : i \in DOMAIN told} = {x \in 1..(m - 1) : Callable(x)}
          /\ \A i, j \in DOMAIN told : i < j => told[i].msg < told[j].msg
      BY DEF HandledInOrder
    <3>2. {x \in 1..((m + 1) - 1) : Callable(x)'} = {x \in 1..(m - 1) : Callable(x)}
      BY <1>1, <1>2, <1>3
    <3> QED
      BY <1>3, <3>1, <3>2 DEF HandledInOrder
  <2>2. OnlyOlderLeftovers'
    BY <1>3 DEF OnlyOlderLeftovers
  <2> QED
    BY <1>1, <1>3, <2>1, <2>2
<1>4. CASE told' = Append(told, call) /\ Callable(m)
  <2>1. call \in [msg : Nat, rest : SUBSET Nat]
    <3>1. Rest(m, buf) \subseteq Nat
      <4>1. sent[m].size \in Nat /\ Len(buf) \in Nat /\ \A i \in 1..Len(buf) : buf[i] \in Nat
        BY TypesOfElements, Elements
      <4>2. \A i \in (sent[m].size + 1)..Len(buf) : i \in 1..Len(buf)
        BY <4>1
      <4> QED
        BY <4>1, <4>2 DEF Rest
    <3> QED
      BY <1>1, <3>1
  <2>2. /\ told' \in Seq([msg : Nat, rest : SUBSET Nat])
        /\ Len(told') = n + 1 /\ told'[n + 1] = call
        /\ \A i \in 1..n : told'[i] = told[i]
    <3> HIDE DEF call
    <3> QED
      BY <1>1, <1>4, <2>1, AppendProperties
  <2>3. /\ DOMAIN told' = 1..(n + 1)
        /\ told'[n + 1].msg = m /\ told'[n + 1].rest = Rest(m, buf)
    BY <2>2, Elements
  <2> HIDE DEF n, call
  <2>4. \A i \in 1..(n + 1) : i \in 1..n \/ i = n + 1
    BY <1>1
  <2>5. HandledInOrder'
    <3> SUFFICES ASSUME pc' = "reading", ~spilled'
                 PROVE  /\ {told'[i].msg : i \in DOMAIN told'} =
                               {x \in 1..((m + 1) - 1) : Callable(x)}
                        /\ \A i, j \in DOMAIN told' : i < j => told'[i].msg < told'[j].msg
      BY <1>2 DEF HandledInOrder
    <3>1. /\ {told[i].msg : i \in 1..n} = {x \in 1..(m - 1) : Callable(x)}
          /\ \A i, j \in 1..n : i < j => told[i].msg < told[j].msg
      BY <1>1 DEF HandledInOrder
    <3>2. \A i \in 1..n : told[i].msg \in 1..(m - 1)
      BY <3>1
    <3>3. {x \in 1..((m + 1) - 1) : Callable(x)} =
              {x \in 1..(m - 1) : Callable(x)} \cup {m}
      BY <1>1, <1>4
    <3>4. {told'[i].msg : i \in 1..(n + 1)} = {told[i].msg : i \in 1..n} \cup {m}
      <4>1. \A i \in 1..n : i \in 1..(n + 1)
        BY <1>1
      <4>2. n + 1 \in 1..(n + 1)
        BY <1>1
      <4> QED
        BY <2>2, <2>3, <2>4, <4>1, <4>2
    <3>5. \A i, j \in 1..(n + 1) : i < j => told'[i].msg < told'[j].msg
      <4> SUFFICES ASSUME NEW i \in 1..(n + 1), NEW j \in 1..(n + 1), i < j
                   PROVE  told'[i].msg < told'[j].msg
        OBVIOUS
      <4>1. i \in 1..n
        BY <1>1
      <4>2. CASE j \in 1..n
        BY <2>2, <3>1, <4>1, <4>2
      <4>3. CASE j = n + 1
        <5>1. told[i].msg \in 1..(m - 1)
          BY <3>2, <4>1
        <5>2. told'[i].msg = told[i].msg /\ told'[j].msg = m
          BY <2>2, <2>3, <4>1, <4>3
        <5>3. told[i].msg < m
          BY <1>1, <5>1
        <5> QED
          BY <5>2, <5>3
      <4> QED
        BY <2>4, <4>2, <4>3
    <3> QED
      BY <2>3, <3>1, <3>3, <3>4, <3>5
  <2>6. OnlyOlderLeftovers'
    <3> SUFFICES ASSUME NEW i \in 1..(n + 1)
                 PROVE  /\ driver = "xnet" => told'[i].rest = {}
                        /\ ~spilled' => \A x \in told'[i].rest : x < told'[i].msg
      BY <2>3 DEF OnlyOlderLeftovers
    <3>1. CASE i \in 1..n
      <4>1. ~spilled' => ~spilled
        OBVIOUS
      <4> QED
        BY <1>1, <2>2, <3>1, <4>1 DEF OnlyOlderLeftovers
    <3>2. CASE i = n + 1
      BY <2>3, <3>2
    <3> QED
      BY <2>4, <3>1, <3>2
  <2> QED
    BY <2>2, <2>5, <2>6
<1> QED
    BY <1>3, <1>4, Outcomes

-----------------------------------------------------------------------------
(* The steps *)

LEMMA Initially == Init => IInv
<1> SUFFICES ASSUME Init PROVE IInv
    OBVIOUS
<1>1. BufferSize \in Nat
    BY InboxAssumption
<1>2. buffer \in Seq(Nat) /\ Len(buffer) = BufferSize
    BY <1>1 DEF Init
<1>3. /\ sent = <<>> /\ wire = <<>> /\ told = <<>> /\ spilled = FALSE
      /\ Len(sent) = 0 /\ Len(wire) = 0 /\ DOMAIN told = {}
    BY DEF Init
<1>4. TypeInv
  <2>1. /\ sent \in Seq([size : Nat, known : BOOLEAN])
        /\ wire \in Seq([msg : Nat, place : Nat])
        /\ told \in Seq([msg : Nat, rest : SUBSET Nat])
    BY <1>3
  <2>2. driver \in {"xnet", "gobwas"} /\ pc \in {"reading", "ended"} /\ spilled = FALSE
    BY DEF Init
  <2> QED
    BY <1>2, <2>1, <2>2 DEF TypeInv
<1>5. WireInv
    BY <1>3 DEF WireInv
<1>6. BufferInv
    BY <1>1, <1>2, <1>3 DEF BufferInv, Unread, Init
<1>7. HandledInOrder
    BY <1>3 DEF HandledInOrder, Unread
<1>8. OnlyOlderLeftovers
    BY <1>3 DEF OnlyOlderLeftovers
<1> QED
    BY <1>4, <1>5, <1>6, <1>7, <1>8 DEF IInv

LEMMA SendStep ==
    ASSUME IInv, NEW size \in 0..MaxBody, NEW known \in BOOLEAN, Send(size, known)
    PROVE  IInv'
<1> USE DEF IInv
<1>1. size \in Nat
    BY InboxAssumption
<1>2. /\ TypeInv' /\ WireInv' /\ Unread' = Unread
      /\ \A m \in 1..Len(sent) : sent'[m] = sent[m]
    BY <1>1, FrameSent
<1>3. UNCHANGED <<driver, pc, buffer, told, spilled>>
    BY DEF Send
<1>4. BufferInv' /\ OnlyOlderLeftovers'
    BY <1>2, <1>3 DEF BufferInv, OnlyOlderLeftovers
<1>5. HandledInOrder'
  <2>1. \A m \in 1..(Unread - 1) : m \in 1..Len(sent)
    <3>1. CASE wire = <<>>
      BY <3>1, TypesOfElements DEF Unread
    <3>2. CASE wire # <<>>
      <4>1. UnitInv(1) /\ Head(wire) = wire[1]
        BY <3>2, TypesOfElements DEF WireInv
      <4> QED
        BY <3>2, <4>1, TypesOfElements DEF UnitInv, Unread
    <3> QED
      BY <3>1, <3>2
  <2>2. \A m \in 1..(Unread - 1) : Callable(m)' = Callable(m)
    BY <1>2, <2>1 DEF Callable
  <2> QED
    BY <1>2, <1>3, <2>2 DEF HandledInOrder
<1> QED
    BY <1>2, <1>4, <1>5

\* x/net: the buffer holds the message, and nothing else.
LEMMA XNetReadStep == ASSUME IInv, XNetRead PROVE IInv'
<1> USE DEF IInv
<1>1. PICK m, size, from, buf :
        /\ m = Head(wire).msg /\ size = sent[m].size /\ from = size + 2
        /\ buf = [i \in 1..size |-> m]
    OBVIOUS
<1>2. /\ pc = "reading" /\ driver = "xnet" /\ wire # <<>> /\ ~spilled
      /\ Dispatch(m, buf) /\ TakenTo(from)
      /\ UNCHANGED <<driver, sent, spilled>>
    BY <1>1 DEF XNetRead, TakenTo, TypeInv
<1>3. Head(wire).place = 0
    BY <1>2 DEF WireInv
<1>4. m \in 1..Len(sent) /\ m \in Nat /\ Unread = m /\ size \in Nat /\ from \in 1..(Len(wire) + 1)
  <2>1. /\ m \in 1..Len(sent) /\ Unread = m /\ sent[m].size \in Nat
        /\ sent[m].size + 1 <= Len(wire)
    BY <1>1, <1>2, <1>3, HeadFrame
  <2>2. Len(wire) \in Nat /\ Len(sent) \in Nat
    BY TypesOfElements
  <2>3. from = size + 2 /\ size \in Nat /\ size + 1 <= Len(wire)
    BY <1>1, <2>1
  <2> QED
    BY <2>1, <2>2, <2>3
<1>5. WireInv' /\ Unread' = m + 1
    BY <1>1, <1>2, <1>3, FrameTaken
<1>6. wire' \in Seq([msg : Nat, place : Nat])
    BY <1>2, <1>4, Suffix
<1>7. buf \in Seq(Nat) /\ Len(buf) = size /\ \A i \in 1..Len(buf) : buf[i] = m
    BY <1>1, <1>4
<1>8. Rest(m, buf) = {}
    BY <1>1, <1>4, <1>7 DEF Rest
<1>9. /\ told' \in Seq([msg : Nat, rest : SUBSET Nat])
      /\ HandledInOrder' /\ OnlyOlderLeftovers'
  <2>1. spilled' \in BOOLEAN
    BY <1>2 DEF TypeInv
  <2>2. ~spilled' => ~spilled /\ Unread = m /\ Unread' = m + 1
    BY <1>2, <1>4, <1>5
  <2>3. \A x \in Rest(m, buf) : x < m
    BY <1>8
  <2> QED
    BY <1>2, <1>4, <1>7, <1>8, <2>1, <2>2, <2>3, Told
<1>10. buffer' = buf /\ pc' \in {"reading", "ended"}
    BY <1>2, <1>4, <1>7, Outcomes
<1>11. TypeInv'
    BY <1>2, <1>6, <1>7, <1>9, <1>10 DEF TypeInv
<1>12. BufferInv'
    BY <1>4, <1>5, <1>7, <1>10 DEF BufferInv
<1> QED
    BY <1>5, <1>9, <1>11, <1>12

\* gobwas: what is read goes over the start of the buffer, and spills or not.
LEMMA GobwasReadStep ==
    ASSUME IInv, GobwasRead
    PROVE  IInv'
<1> USE DEF IInv
<1>1. PICK m, size : m = Head(wire).msg /\ size = sent[m].size
    OBVIOUS
<1>2. /\ pc = "reading" /\ driver = "gobwas" /\ wire # <<>> /\ Head(wire).place = 0
      /\ UNCHANGED <<driver, sent>> /\ BufferSize \in Nat
    BY InboxAssumption DEF GobwasRead
<1>3. /\ m \in 1..Len(sent) /\ Unread = m /\ size \in Nat /\ size + 1 <= Len(wire)
      /\ \A i \in 1..(size + 1) : wire[i].msg = m
    BY <1>1, <1>2, HeadFrame
<1>4. Len(wire) \in Nat /\ Len(sent) \in Nat /\ m \in Nat
    BY <1>3, TypesOfElements
<1>5. /\ Len(buffer) = BufferSize /\ \A i \in 1..BufferSize : buffer[i] \in Nat
    BY <1>2, TypesOfElements DEF TypeInv
<1>6. CASE End /\ UNCHANGED <<wire, buffer, told, spilled>>
    BY <1>2, <1>6 DEF TypeInv, WireInv, UnitInv, BufferInv, HandledInOrder,
                      OnlyOlderLeftovers, Unread, End
<1>7. ASSUME NEW n \in size..BufferSize, n < Len(wire), NEW buf, NEW from,
             buf = [i \in 1..BufferSize |-> IF i <= n THEN wire[i + 1].msg ELSE buffer[i]],
             from = n + 2,
             Dispatch(m, buf), TakenTo(from), spilled' = (spilled \/ n > size)
      PROVE  IInv'
  <2>1. n \in Nat /\ from \in 1..(Len(wire) + 1)
    BY <1>3, <1>4, <1>7
  <2>2. /\ wire' \in Seq([msg : Nat, place : Nat])
        /\ \A i \in 1..Len(wire') : UnitInv(i)'
    BY <1>7, <2>1, Suffix
  <2>3. /\ buf \in Seq(Nat) /\ Len(buf) = BufferSize
        /\ \A i \in 1..BufferSize :
            buf[i] = IF i <= n THEN wire[i + 1].msg ELSE buffer[i]
    <3>1. \A i \in 1..n : i + 1 \in 1..Len(wire) /\ wire[i + 1].msg \in Nat
      BY <1>4, <1>7, <2>1, TypesOfElements
    <3>2. \A i \in 1..BufferSize : i <= n => i \in 1..n
      BY <2>1
    <3>3. \A i \in 1..BufferSize :
            (IF i <= n THEN wire[i + 1].msg ELSE buffer[i]) \in Nat
      BY <1>5, <3>1, <3>2
    <3> QED
      BY <1>2, <1>7, <3>3
  <2>4. spilled' \in BOOLEAN
    BY <1>7 DEF TypeInv
  <2>5. ASSUME ~spilled'
        PROVE  /\ ~spilled /\ n = size /\ WireInv' /\ Unread' = m + 1
               /\ \A i \in 1..BufferSize : buf[i] \in Nat /\ buf[i] < m + 1
               /\ \A x \in Rest(m, buf) : x < m
    <3>1. ~spilled /\ n = size
      <4>1. ~(spilled \/ n > size)
        BY <1>7, <2>5
      <4>2. ~(n > size)
        BY <4>1
      <4> QED
        BY <1>3, <2>1, <4>1, <4>2
    <3>2. WireInv' /\ Unread' = m + 1
      BY <1>1, <1>2, <1>7, <3>1, FrameTaken
    <3>3. \A i \in 1..BufferSize : i <= n => buf[i] = m
      <4>1. \A i \in 1..BufferSize : i <= n => i + 1 \in 1..(size + 1)
        BY <1>3, <2>1, <3>1
      <4> QED
        BY <1>3, <2>3, <4>1
    <3>4. \A i \in 1..BufferSize : ~(i <= n) => buf[i] < m /\ buf[i] \in Nat
      BY <1>3, <1>5, <2>3, <3>1 DEF BufferInv
    <3>5. \A x \in Rest(m, buf) : x < m
      <4>1. \A i \in (size + 1)..BufferSize : i \in 1..BufferSize /\ ~(i <= n)
        BY <1>3, <2>1, <3>1
      <4>2. Rest(m, buf) \subseteq {buf[i] : i \in (size + 1)..BufferSize}
        BY <1>1, <2>3 DEF Rest
      <4> QED
        BY <3>4, <4>1, <4>2
    <3>6. \A i \in 1..BufferSize : buf[i] \in Nat /\ buf[i] < m + 1
      BY <1>4, <3>3, <3>4
    <3> QED
      BY <3>1, <3>2, <3>5, <3>6
  <2>6. driver # "xnet"
    BY <1>2
  <2>7. /\ told' \in Seq([msg : Nat, rest : SUBSET Nat])
        /\ HandledInOrder' /\ OnlyOlderLeftovers'
    BY <1>2, <1>3, <1>7, <2>3, <2>4, <2>5, <2>6, Told
  <2>8. buffer' = buf /\ pc' \in {"reading", "ended"}
    BY <1>2, <1>3, <1>7, <2>3, Outcomes
  <2>9. TypeInv'
    BY <1>2, <2>2, <2>3, <2>4, <2>7, <2>8 DEF TypeInv
  <2>10. WireInv'
    BY <2>2, <2>5 DEF WireInv
  <2>11. BufferInv'
    BY <2>3, <2>5, <2>8 DEF BufferInv
  <2> QED
    BY <2>7, <2>9, <2>10, <2>11
<1>8. \/ End /\ UNCHANGED <<wire, buffer, told, spilled>>
      \/ \E n \in size..BufferSize :
            /\ n < Len(wire)
            /\ Dispatch(m, [i \in 1..BufferSize |->
                               IF i <= n THEN wire[i + 1].msg ELSE buffer[i]])
            /\ TakenTo(n + 2)
            /\ spilled' = (spilled \/ n > size)
    BY <1>1 DEF GobwasRead, TakenTo
<1> QED
    BY <1>6, <1>7, <1>8

\* A read that does not begin at the beginning of a frame: one has spilled.
LEMMA GobwasMisreadStep == ASSUME IInv, GobwasMisread PROVE IInv'
<1> USE DEF IInv
<1>1. /\ pc = "reading" /\ driver = "gobwas" /\ wire # <<>> /\ spilled
      /\ UNCHANGED <<driver, sent, buffer, told, spilled>>
    BY DEF GobwasMisread, WireInv, TypeInv
<1>2. CASE End /\ UNCHANGED wire
    BY <1>1, <1>2 DEF TypeInv, WireInv, UnitInv, BufferInv, HandledInOrder,
                      OnlyOlderLeftovers, End
<1>3. CASE wire' = Tail(wire) /\ UNCHANGED pc
  <2>1. 2 \in 1..(Len(wire) + 1) /\ TakenTo(2)
    BY <1>1, <1>3, TypesOfElements DEF TakenTo
  <2>2. /\ wire' \in Seq([msg : Nat, place : Nat])
        /\ \A i \in 1..Len(wire') : UnitInv(i)'
    BY <2>1, Suffix
  <2> QED
    BY <1>1, <1>3, <2>2 DEF TypeInv, WireInv, BufferInv, HandledInOrder,
                            OnlyOlderLeftovers
<1> QED
    BY <1>2, <1>3 DEF GobwasMisread

LEMMA ReadFailsStep == ASSUME IInv, ReadFails PROVE IInv'
BY DEF IInv, ReadFails, TypeInv, WireInv, UnitInv, BufferInv, HandledInOrder,
       OnlyOlderLeftovers, Unread, End

LEMMA Idle == ASSUME IInv, UNCHANGED vars PROVE IInv'
BY DEF IInv, vars, TypeInv, WireInv, UnitInv, BufferInv, HandledInOrder,
       OnlyOlderLeftovers, Unread, Callable

-----------------------------------------------------------------------------
(* The theorems *)

\* For any size of the buffer, of the bodies and of their number, the wire holds
\* whole frames in the order they were sent, and nothing of the buffer comes from
\* a message that was not read: readMessage over both drivers.
THEOREM Inductive == Spec => []IInv
<1>1. Init => IInv
    BY Initially
<1>2. IInv /\ [Next]_vars => IInv'
    BY SendStep, XNetReadStep, GobwasReadStep, GobwasMisreadStep, ReadFailsStep, Idle
       DEF Next, Ended
<1> QED
    BY <1>1, <1>2, PTL DEF Spec

\* Every message of a callback is handled once and in the order of the client, as
\* long as no read of the gobwas driver takes more than its frame: the loop of listen.
THEOREM HandledInOrderAlways == Spec => []HandledInOrder
<1>1. IInv => HandledInOrder
    BY DEF IInv
<1> QED
    BY <1>1, Inductive, PTL

\* A callback is given its message alone by x/net, and by gobwas nothing newer
\* behind it as long as no read takes more than its frame: c.buffer of readMessage.
THEOREM OnlyOlderLeftoversAlways == Spec => []OnlyOlderLeftovers
<1>1. IInv => OnlyOlderLeftovers
    BY DEF IInv
<1> QED
    BY <1>1, Inductive, PTL

=============================================================================
